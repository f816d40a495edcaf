----------------------------- MODULE AhtProofs -----------------------------
(***************************************************************************)
(* For every interval, lateness, hysteresis and scale of the chip, and     *)
(* whenever its bus fails: reports follow readings, readings stay fresh    *)
(* while the bus works, and the chip is not asked too often.               *)
(***************************************************************************)
EXTENDS Aht, TLAPS

-----------------------------------------------------------------------------
(* The inductive invariant behind the safety properties.                     *)

\* No second is skipped.
SecondInv ==
  LET second == Since(lastUpdateSensorsTime)
  IN  second <= UPDATE + MaxLag /\ (pc = "read" => second <= MaxLag)

\* How late the turn is for the second it is dealing with.
Late ==
  IF pc = "read" THEN Since(lastUpdateSensorsTime) + UPDATE
  ELSE Since(lastUpdateSensorsTime)

\* Until the first measurement the time of the last one is that of Init.
NeverRead ==
  /\ pc \in {"reset", "await reset", "calibrate", "await calibration", "check",
             "halt", "took", "loop", "read"}
  /\ mLastReadTime = INT_WORD - MIN_READ /\ clock = Late
  /\ sinceTrigger = MIN_READ

\* From then on it is less than a rollover ago, the last trigger no later, and,
\* when it is over, it has brought a reading unless the bus has failed since.
HasRead ==
  LET ago == Since(mLastReadTime)
  IN  /\ ago < MIN_READ + Late
      /\ ago <= sinceTrigger \/ sinceTrigger = MIN_READ
      /\ pc \notin {"await data", "data"} => goodFor <= ago \/ age <= ago

BusInv == ~bus => goodFor = 0

\* What was read is shown, or will be by the update in progress.
ShownInv ==
  mLast # Unread => value = Shown(mLast) \/ (pc = "sense" /\ mReadSuccessful)

\* What is not due is near what was reported.
NearInv ==
  pc \in {"report", "rx"} =>
    \A s \in Sensors :
      \/ value[s] - reported[s] < HYSTERESIS[s] /\ reported[s] - value[s] < HYSTERESIS[s]
      \/ pc = "report" /\ s \in due

IInv ==
  TypeOK /\ SecondInv /\ (NeverRead \/ HasRead) /\ BusInv /\ ShownInv /\ NearInv
-----------------------------------------------------------------------------
(* Arithmetic of millis() and of the conversions. *)

(* A difference of two times wraps around at most once. *)
LEMMA Diff ==
  ASSUME NEW a \in 0..(WORD - 1), NEW b \in 0..(WORD - 1)
  PROVE  /\ (a - b) % WORD = IF a >= b THEN a - b ELSE a - b + WORD
         /\ (a - b) % WORD \in 0..(WORD - 1)
BY TimesAssumption, SMTT(30)

(* So does a sum. *)
LEMMA Plus ==
  ASSUME NEW a \in 0..(WORD - 1), NEW d \in 0..(WORD - 1)
  PROVE  /\ (a + d) % WORD = IF a + d < WORD THEN a + d ELSE a + d - WORD
         /\ (a + d) % WORD \in 0..(WORD - 1)
BY TimesAssumption, SMTT(30)

(* A time that lies d further back, as long as that is no rollover. *)
LEMMA FurtherBack ==
  ASSUME NEW a \in 0..(WORD - 1), NEW b \in 0..(WORD - 1), NEW d \in Nat,
         ((a - b) % WORD) + d < WORD, NEW c, c = (a + d) % WORD
  PROVE  c \in 0..(WORD - 1) /\ (c - b) % WORD = ((a - b) % WORD) + d
<1>. DEFINE s == (a - b) % WORD
<1>1. s = (IF a >= b THEN a - b ELSE a - b + WORD) /\ s \in 0..(WORD - 1)
  BY Diff
<1>2. WORD \in Nat /\ s + d < WORD
  BY TimesAssumption
<1>. HIDE DEF s
<1>3. d \in 0..(WORD - 1)
  BY <1>1, <1>2
<1>4. c = (IF a + d < WORD THEN a + d ELSE a + d - WORD) /\ c \in 0..(WORD - 1)
  BY <1>3, Plus
<1>5. (c - b) % WORD = IF c >= b THEN c - b ELSE c - b + WORD
  BY <1>4, Diff
<1>. QED
  BY <1>1, <1>2, <1>3, <1>4, <1>5 DEF s

(* A time moved d nearer. *)
LEMMA Nearer ==
  ASSUME NEW a \in 0..(WORD - 1), NEW b \in 0..(WORD - 1), NEW d \in Nat,
         (a - b) % WORD >= d, NEW c, c = (b + d) % WORD
  PROVE  c \in 0..(WORD - 1) /\ (a - c) % WORD = ((a - b) % WORD) - d
<1>. DEFINE s == (a - b) % WORD
<1>1. s = (IF a >= b THEN a - b ELSE a - b + WORD) /\ s \in 0..(WORD - 1)
  BY Diff
<1>2. WORD \in Nat /\ s >= d
  BY TimesAssumption
<1>. HIDE DEF s
<1>3. d \in 0..(WORD - 1)
  BY <1>1, <1>2
<1>4. c = (IF b + d < WORD THEN b + d ELSE b + d - WORD) /\ c \in 0..(WORD - 1)
  BY <1>3, Plus
<1>5. (a - c) % WORD = IF a >= c THEN a - c ELSE a - c + WORD
  BY <1>4, Diff
<1>. QED
  BY <1>1, <1>2, <1>3, <1>4, <1>5 DEF s

(* No time has passed since now. *)
LEMMA Now ==
  ASSUME NEW a \in 0..(WORD - 1)
  PROVE  (a - a) % WORD = 0
BY Diff

(* The constants as numbers. *)
LEMMA Sizes ==
  /\ UPDATE \in Nat /\ UPDATE >= 1 /\ MIN_READ \in Nat /\ MIN_READ >= 1
  /\ MaxLag \in Nat /\ INT_WORD \in Nat /\ WORD \in Nat /\ INT_WORD <= WORD
  /\ Patience \in Nat /\ Patience = MIN_READ + UPDATE + MaxLag /\ Patience < INT_WORD
BY TimesAssumption DEF Patience

(* A quotient of natural numbers is one. *)
LEMMA Quotient ==
  ASSUME NEW m \in Nat \ {0}, NEW x \in Nat
  PROVE  x \div m \in Nat
BY SMTT(30)

(* round() gives an integer, and none below zero for none below zero. *)
LEMMA RoundIsInt ==
  ASSUME NEW a \in Int
  PROVE  round(a) \in Int /\ (a >= 0 => round(a) >= 0)
<1>1. FULL \in Nat \ {0} /\ 2 \in Nat \ {0}
  BY MeasuredAssumption
<1>2. FULL \div 2 \in Nat
  BY <1>1, Quotient
<1>. DEFINE h == FULL \div 2
<1>. HIDE DEF h
<1>3. h \in Nat
  BY <1>2 DEF h
<1>4. CASE a >= 0
  <2>1. a + h \in Nat
    BY <1>3, <1>4
  <2>2. (a + h) \div FULL \in Nat
    BY <1>1, <2>1, Quotient
  <2>3. round(a) = (a + h) \div FULL
    BY <1>4 DEF round, h
  <2>. QED
    BY <2>2, <2>3
<1>5. CASE a < 0
  <2>1. -a + h \in Nat
    BY <1>3, <1>5
  <2>2. (-a + h) \div FULL \in Nat
    BY <1>1, <2>1, Quotient
  <2>3. round(a) = -((-a + h) \div FULL)
    BY <1>5 DEF round, h
  <2>. QED
    BY <1>5, <2>2, <2>3
<1>. QED
  BY <1>4, <1>5

(* What is shown of a measurement is a percentage and an integer. *)
LEMMA ShownType ==
  ASSUME NEW m \in Measured \cup {Unread}
  PROVE  Shown(m).humidity \in 0..100 /\ Shown(m).temperature \in Int
<1>1. m.humidity \in Nat /\ m.temperature \in Int /\ FULL \in Int
  BY MeasuredAssumption DEF Unread
<1>. DEFINE w == m.humidity * 100
            t == m.temperature * 2000 - 500 * FULL
<1>2. w \in Int /\ w >= 0 /\ t \in Int
  BY <1>1
<1>3. Shown(m).humidity = (IF round(w) > 100 THEN 100 ELSE round(w))
      /\ Shown(m).temperature = round(t)
  BY DEF Shown, percent, tenths
<1>. HIDE DEF w, t
<1>. QED
  BY <1>2, <1>3, RoundIsInt

(* Later is the sum, up to a limit. *)
LEMMA LaterIsSum ==
  ASSUME NEW most \in Nat, NEW h \in 0..most, NEW d \in Nat
  PROVE  /\ Later(h, d, most) \in 0..most
         /\ Later(h, d, most) <= h + d
         /\ Later(h, d, most) = most \/ Later(h, d, most) = h + d
BY DEF Later

-----------------------------------------------------------------------------
(* The invariant. *)

(* Differences of times are times. *)
LEMMA SinceType ==
  ASSUME TypeOK
  PROVE  /\ Since(lastUpdateSensorsTime) \in 0..(WORD - 1)
         /\ Since(lastUpdateSensorsTime) >= 0
         /\ Since(mLastReadTime) \in 0..(WORD - 1)
         /\ Since(mLastReadTime) >= 0
<1>1. /\ clock \in 0..(WORD - 1) /\ lastUpdateSensorsTime \in 0..(WORD - 1)
      /\ mLastReadTime \in 0..(WORD - 1)
  BY DEF TypeOK
<1>2. /\ Since(lastUpdateSensorsTime) \in 0..(WORD - 1)
      /\ Since(mLastReadTime) \in 0..(WORD - 1)
  BY <1>1, Diff DEF Since
<1>. QED
  BY <1>2, Sizes

(* setup() starts with nothing read. *)
LEMMA InitStep == Init => IInv
<1>. SUFFICES ASSUME Init PROVE IInv
  OBVIOUS
<1>. USE Sizes
<1>1. TypeOK
  <2>1. /\ clock \in 0..WORD - 1 /\ lastUpdateSensorsTime \in 0..WORD - 1
        /\ mLastReadTime \in 0..WORD - 1
        /\ goodFor \in 0..Patience /\ age \in 0..Patience /\ sinceTrigger \in 0..MIN_READ
    BY DEF Init
  <2>2. \A v \in {value, reported} : v.humidity \in 0..100 /\ v.temperature \in Int
    BY DEF Init, Unread
  <2>3. /\ bus \in BOOLEAN /\ busy \in BOOLEAN /\ calibrated \in BOOLEAN
        /\ data \in Measured /\ mLast \in Measured \cup {Unread}
        /\ mReadSuccessful \in BOOLEAN /\ due \subseteq Sensors
    BY DEF Init
  <2>. QED
    BY <2>1, <2>2, <2>3 DEF TypeOK
<1>2. Since(lastUpdateSensorsTime) = 0
  BY Diff DEF Init, Since
<1>3. SecondInv /\ NeverRead
  BY <1>2 DEF Init, SecondInv, NeverRead, Late
<1>4. BusInv /\ ShownInv /\ NearInv
  BY DEF Init, BusInv, ShownInv, NearInv
<1>. QED
  BY <1>1, <1>3, <1>4 DEF IInv

(* A step of the chip, of the bus or of a wait keeps the invariant. *)
LEMMA QuietStep ==
  ASSUME IInv, TypeOK', BusInv', UNCHANGED <<times, reader, sensors, age, sinceTrigger>>,
         goodFor' = goodFor \/ goodFor' = 0,
         \/ pc' = pc
         \/ pc = "await data" /\ pc' = "data"
         \/ /\ pc \in {"reset", "await reset", "calibrate", "await calibration", "check"}
            /\ pc' \in {"await reset", "calibrate", "await calibration", "check",
                       "took", "halt"}
  PROVE  IInv'
<1>1. Since(lastUpdateSensorsTime)' = Since(lastUpdateSensorsTime)
      /\ Since(mLastReadTime)' = Since(mLastReadTime)
  BY DEF Since, times, reader
<1>2. Late' = Late
  BY <1>1 DEF Late
<1>3. SecondInv'
  BY <1>1 DEF IInv, SecondInv
<1>4. NeverRead => NeverRead'
  BY <1>2 DEF NeverRead, times, reader
<1>5. HasRead => HasRead'
  <2>1. Since(mLastReadTime) >= 0
    BY SinceType DEF IInv
  <2>2. ASSUME HasRead PROVE pc' \notin {"await data", "data"} =>
          goodFor' <= Since(mLastReadTime) \/ age <= Since(mLastReadTime)
    <3>1. pc' \notin {"await data", "data"} => pc \notin {"await data", "data"}
      OBVIOUS
    <3>2. CASE goodFor' = goodFor
      BY <2>2, <3>1, <3>2 DEF HasRead
    <3>3. CASE goodFor' = 0
      BY <2>1, <3>3
    <3>. QED
      BY <3>2, <3>3
  <2>. QED
    BY <1>1, <1>2, <2>2 DEF HasRead
<1>6. ShownInv'
  BY DEF IInv, ShownInv, reader, sensors
<1>7. NearInv'
  BY DEF IInv, NearInv, sensors
<1>. QED
  BY <1>3, <1>4, <1>5, <1>6, <1>7 DEF IInv

(* Every step keeps the types. *)
LEMMA TypeStep ==
  ASSUME IInv, Next
  PROVE  TypeOK'
<1>. USE DEF IInv
<1>1. CASE ChipDone \/ BusFails \/ BusReturns
  <2>1. 0 \in 0..Patience
    BY Sizes
  <2>. QED
    BY <1>1, <2>1 DEF ChipDone, BusFails, BusReturns, TypeOK, chip, times, reader,
       sensors, history
<1>2. ASSUME NEW here, NEW there, Await(here, there) PROVE TypeOK'
  BY <1>2 DEF Await, TypeOK, chip, times, reader, sensors, history
<1>3. CASE SoftReset \/ Calibrate \/ CheckCalibrated
  BY <1>3 DEF SoftReset, Calibrate, CheckCalibrated, write, TypeOK, chip, times,
     reader, sensors, history
<1>4. CASE updateSensors
  <2>1. NextSecond \in 0..(WORD - 1)
    <3>1. lastUpdateSensorsTime \in 0..(WORD - 1) /\ UPDATE \in 0..(WORD - 1)
      BY Sizes DEF TypeOK
    <3>. QED
      BY <3>1, Plus DEF NextSecond
  <2>. QED
    BY <1>4, <2>1 DEF updateSensors, TypeOK, chip, reader, sensors, history
<1>5. CASE TooEarly
  BY <1>5 DEF TooEarly, TypeOK, chip, times, reader, sensors, history
<1>6. CASE Trigger
  <2>1. 0 \in 0..MIN_READ
    BY Sizes
  <2>. QED
    BY <1>6, <2>1 DEF Trigger, ReadTime, write, TypeOK, times, sensors
<1>7. CASE ReadData
  <2>1. 0 \in 0..Patience
    BY Sizes
  <2>. QED
    BY <1>7, <2>1 DEF ReadData, TypeOK, chip, times, sensors
<1>8. CASE Sense
  <2>1. /\ \A v \in {value', reported'} : v.humidity \in 0..100 /\ v.temperature \in Int
        /\ due' \subseteq Sensors
    <3>1. mLast \in Measured \cup {Unread}
      BY DEF TypeOK
    <3>. QED
      BY <1>8, <3>1, ShownType DEF Sense, TypeOK
  <2>. QED
    BY <1>8, <2>1 DEF Sense, TypeOK, chip, times, reader, history
<1>9. CASE Report \/ loraRx
  BY <1>9 DEF Report, loraRx, sendSensorValueForAllComponents, TypeOK, chip, times,
     reader, history
<1>10. ASSUME NEW d \in 0..(UPDATE + MaxLag), Elapse(d) PROVE TypeOK'
  <2>1. d \in Nat /\ d \in 0..(WORD - 1)
    BY Sizes
  <2>2. clock' \in 0..WORD - 1
    <3>1. clock \in 0..(WORD - 1)
      BY DEF TypeOK
    <3>. QED
      BY <1>10, <2>1, <3>1, Plus DEF Elapse
  <2>3. goodFor' \in 0..Patience /\ age' \in 0..Patience /\ sinceTrigger' \in 0..MIN_READ
    <3>1. goodFor \in 0..Patience /\ age \in 0..Patience /\ sinceTrigger \in 0..MIN_READ
      BY DEF TypeOK
    <3>2. Patience \in Nat /\ MIN_READ \in Nat /\ 0 \in 0..Patience
      BY Sizes
    <3>. QED
      BY <1>10, <2>1, <3>1, <3>2, LaterIsSum DEF Elapse
  <2>. QED
    BY <1>10, <2>2, <2>3 DEF Elapse, TypeOK, chip, reader, sensors
<1>. QED
  BY <1>1, <1>2, <1>3, <1>4, <1>5, <1>6, <1>7, <1>8, <1>9, <1>10 DEF Next, Step

(* A bus that is down has just failed. *)
LEMMA BusStep ==
  ASSUME IInv, Next
  PROVE  BusInv'
<1>1. CASE BusFails \/ BusReturns
  BY <1>1 DEF BusFails, BusReturns, BusInv
<1>2. ASSUME NEW d, Elapse(d) PROVE BusInv'
  BY <1>2 DEF Elapse, BusInv
<1>3. CASE UNCHANGED <<bus, goodFor>>
  BY <1>3 DEF IInv, BusInv
<1>4. ASSUME NEW here, NEW there, Await(here, there) PROVE UNCHANGED <<bus, goodFor>>
  BY <1>4 DEF Await, history
<1>. QED
  BY <1>1, <1>2, <1>3, <1>4
     DEF Next, Step, ChipDone, SoftReset, Calibrate, CheckCalibrated, updateSensors,
         TooEarly, Trigger, ReadData, Sense, Report, loraRx, history

(* The first update after setup() reads the chip. *)
LEMMA FirstRead ==
  ASSUME IInv, NeverRead, pc = "read"
  PROVE  ~tooEarly
<1>1. /\ clock \in 0..(WORD - 1) /\ mLastReadTime \in 0..(WORD - 1)
  BY DEF IInv, TypeOK
<1>2. Since(lastUpdateSensorsTime) \in 0..(WORD - 1)
  BY SinceType DEF IInv
<1>3. clock <= UPDATE + MaxLag /\ mLastReadTime = INT_WORD - MIN_READ
  BY <1>2, Sizes DEF IInv, SecondInv, NeverRead, Late
<1>4. Since(mLastReadTime) = clock - mLastReadTime + WORD
  BY <1>1, <1>3, Diff, Sizes DEF Since
<1>. QED
  BY <1>1, <1>3, <1>4, Sizes DEF tooEarly

-----------------------------------------------------------------------------
(* The actions. *)

(* The chip, the bus, and the start of the chip. *)
LEMMA ChipSteps ==
  ASSUME IInv, Next,
         \/ ChipDone \/ BusFails \/ BusReturns
         \/ SoftReset \/ Calibrate \/ CheckCalibrated
         \/ Await("await reset", "calibrate") \/ Await("await calibration", "check")
         \/ Await("await data", "data")
  PROVE  IInv'
<1>1. TypeOK' /\ BusInv'
  BY TypeStep, BusStep
<1>2. UNCHANGED <<times, reader, sensors, age, sinceTrigger>>
  BY DEF ChipDone, BusFails, BusReturns, SoftReset, Calibrate, CheckCalibrated, Await,
         history
<1>3. goodFor' = goodFor \/ goodFor' = 0
  BY DEF ChipDone, BusFails, BusReturns, SoftReset, Calibrate, CheckCalibrated, Await,
         history
<1>4. \/ pc' = pc
      \/ pc = "await data" /\ pc' = "data"
      \/ /\ pc \in {"reset", "await reset", "calibrate", "await calibration", "check"}
         /\ pc' \in {"await reset", "calibrate", "await calibration", "check",
                     "took", "halt"}
  BY DEF ChipDone, BusFails, BusReturns, SoftReset, Calibrate, CheckCalibrated, Await
<1>. QED
  BY <1>1, <1>2, <1>3, <1>4, QuietStep

(* A second is dealt with once. *)
LEMMA UpdateStep ==
  ASSUME IInv, updateSensors
  PROVE  IInv'
<1>. DEFINE second == Since(lastUpdateSensorsTime)
            ago == Since(mLastReadTime)
<1>1. TypeOK' /\ BusInv'
  BY TypeStep, BusStep DEF Next, Step
<1>2. /\ pc = "loop" /\ pc' = "read" /\ second >= UPDATE
      /\ lastUpdateSensorsTime' = (lastUpdateSensorsTime + UPDATE) % WORD
      /\ UNCHANGED <<clock, mLastReadTime, mReadSuccessful, mLast, value, reported, due,
                     goodFor, age, sinceTrigger>>
  BY DEF updateSensors, NextSecond, reader, sensors, history
<1>3. second \in 0..(WORD - 1) /\ ago \in 0..(WORD - 1)
  BY SinceType DEF IInv
<1>4. second' = second - UPDATE /\ ago' = ago
  <2>1. clock \in 0..(WORD - 1) /\ lastUpdateSensorsTime \in 0..(WORD - 1)
    BY DEF IInv, TypeOK
  <2>2. (clock - lastUpdateSensorsTime) % WORD >= UPDATE /\ UPDATE \in Nat
    BY <1>2, Sizes DEF Since
  <2>3. (clock - lastUpdateSensorsTime') % WORD = ((clock - lastUpdateSensorsTime) % WORD) - UPDATE
    BY <1>2, <2>1, <2>2, Nearer
  <2>. QED
    BY <1>2, <2>3 DEF Since
<1>5. SecondInv'
  BY <1>2, <1>3, <1>4, Sizes DEF IInv, SecondInv
<1>6. Late' = Late
  <2>1. Late = second /\ Late' = second' + UPDATE
    BY <1>2 DEF Late
  <2>. HIDE DEF second
  <2>. QED
    BY <1>3, <1>4, <2>1, Sizes
<1>7. NeverRead => NeverRead'
  BY <1>2, <1>6 DEF NeverRead
<1>8. HasRead => HasRead'
  BY <1>2, <1>4, <1>6 DEF HasRead
<1>9. ShownInv' /\ NearInv'
  BY <1>2 DEF IInv, ShownInv, NearInv
<1>. QED
  BY <1>1, <1>5, <1>7, <1>8, <1>9 DEF IInv

(* Within MIN_READ of the last measurement there is none. *)
LEMMA TooEarlyStep ==
  ASSUME IInv, TooEarly
  PROVE  IInv'
<1>1. TypeOK' /\ BusInv'
  BY TypeStep, BusStep DEF Next, Step
<1>2. /\ pc = "read" /\ pc' = "sense" /\ tooEarly
      /\ UNCHANGED <<clock, lastUpdateSensorsTime, mLastReadTime, mReadSuccessful, mLast,
                     value, reported, due, goodFor, age, sinceTrigger>>
  BY DEF TooEarly, times, reader, sensors, history
<1>3. /\ Since(lastUpdateSensorsTime)' = Since(lastUpdateSensorsTime)
      /\ Since(mLastReadTime)' = Since(mLastReadTime)
  BY <1>2 DEF Since
<1>4. SecondInv'
  BY <1>2, <1>3 DEF IInv, SecondInv
<1>5. HasRead
  BY <1>2, FirstRead DEF IInv
<1>6. HasRead'
  <2>1. Late' \in Nat
    BY <1>2, <1>3, SinceType, Sizes DEF Late, IInv
  <2>2. Since(mLastReadTime)' < MIN_READ + Late'
    BY <1>2, <1>3, <2>1, SinceType, Sizes DEF tooEarly, IInv
  <2>. QED
    BY <1>2, <1>3, <1>5, <2>2 DEF HasRead
<1>7. ShownInv' /\ NearInv'
  BY <1>2 DEF IInv, ShownInv, NearInv
<1>. QED
  BY <1>1, <1>4, <1>6, <1>7 DEF IInv

(* A measurement is asked for, or the bus is down. *)
LEMMA TriggerStep ==
  ASSUME IInv, Trigger
  PROVE  IInv'
<1>1. TypeOK' /\ BusInv'
  BY TypeStep, BusStep DEF Next, Step
<1>2. /\ pc = "read" /\ mLastReadTime' = clock
      /\ UNCHANGED <<bus, clock, lastUpdateSensorsTime, mLast, value, reported, due,
                     goodFor, age>>
      /\ IF bus THEN pc' = "await data" /\ sinceTrigger' = 0
                ELSE pc' = "sense" /\ UNCHANGED sinceTrigger
  BY DEF Trigger, ReadTime, times, sensors
<1>3. Since(lastUpdateSensorsTime)' = Since(lastUpdateSensorsTime)
  BY <1>2 DEF Since
<1>4. SecondInv'
  BY <1>2, <1>3 DEF IInv, SecondInv
<1>5. HasRead'
  <2>1. Since(mLastReadTime)' = 0
    <3>1. clock \in 0..(WORD - 1)
      BY DEF IInv, TypeOK
    <3>. QED
      BY <1>2, <3>1, Now DEF Since
  <2>2. Since(mLastReadTime)' < MIN_READ + Late'
    <3>1. Late' = Since(lastUpdateSensorsTime) /\ Late' >= 0
      BY <1>2, <1>3, SinceType DEF Late, IInv
    <3>2. Since(lastUpdateSensorsTime) \in 0..(WORD - 1)
      BY SinceType DEF IInv
    <3>. QED
      BY <2>1, <3>1, <3>2, Sizes
  <2>3. 0 <= sinceTrigger'
    BY <1>1, Sizes DEF TypeOK
  <2>4. pc' \notin {"await data", "data"} => goodFor' <= 0
    <3>1. CASE bus
      BY <1>2, <3>1
    <3>2. CASE ~bus
      BY <1>2, <3>2 DEF IInv, BusInv
    <3>. QED
      BY <3>1, <3>2
  <2>. QED
    BY <2>1, <2>2, <2>3, <2>4 DEF HasRead
<1>6. ShownInv'
  BY <1>2 DEF IInv, ShownInv
<1>7. NearInv'
  BY <1>2 DEF NearInv
<1>. QED
  BY <1>1, <1>4, <1>5, <1>6, <1>7 DEF IInv

(* It brings a reading, or the bus is down. *)
LEMMA ReadDataStep ==
  ASSUME IInv, ReadData
  PROVE  IInv'
<1>1. TypeOK' /\ BusInv'
  BY TypeStep, BusStep DEF Next, Step
<1>2. /\ pc = "data" /\ pc' = "sense" /\ mReadSuccessful' = bus
      /\ UNCHANGED <<bus, clock, lastUpdateSensorsTime, mLastReadTime, value, reported, due,
                     goodFor, sinceTrigger>>
      /\ IF bus THEN age' = 0 ELSE UNCHANGED <<mLast, age>>
  BY DEF ReadData, times, sensors
<1>3. /\ Since(lastUpdateSensorsTime)' = Since(lastUpdateSensorsTime)
      /\ Since(mLastReadTime)' = Since(mLastReadTime)
  BY <1>2 DEF Since
<1>4. SecondInv'
  BY <1>2, <1>3 DEF IInv, SecondInv
<1>5. HasRead'
  <2>1. HasRead /\ Late' = Late
    BY <1>2, <1>3 DEF IInv, NeverRead, Late
  <2>2. goodFor' <= Since(mLastReadTime) \/ age' <= Since(mLastReadTime)
    BY <1>2, SinceType DEF IInv, BusInv
  <2>. QED
    BY <1>2, <1>3, <2>1, <2>2 DEF HasRead
<1>6. ShownInv'
  BY <1>2 DEF IInv, ShownInv
<1>7. NearInv'
  BY <1>2 DEF NearInv
<1>. QED
  BY <1>1, <1>4, <1>5, <1>6, <1>7 DEF IInv

(* The pair that was read is shown, and due if it is far from the reported. *)
LEMMA SenseStep ==
  ASSUME IInv, Sense
  PROVE  IInv'
<1>1. TypeOK' /\ BusInv'
  BY TypeStep, BusStep DEF Next, Step
<1>2. /\ pc = "sense" /\ pc' = "report"
      /\ value' = IF mReadSuccessful THEN Shown(mLast) ELSE value
      /\ due' = Sensors \/ due' = {s \in Sensors : largeChange(s)}
      /\ UNCHANGED <<clock, lastUpdateSensorsTime, mLastReadTime, mReadSuccessful, mLast,
                     reported, goodFor, age, sinceTrigger>>
  BY DEF Sense, times, reader, history
<1>3. /\ Since(lastUpdateSensorsTime)' = Since(lastUpdateSensorsTime)
      /\ Since(mLastReadTime)' = Since(mLastReadTime)
  BY <1>2 DEF Since
<1>4. SecondInv'
  BY <1>2, <1>3 DEF IInv, SecondInv
<1>5. HasRead'
  BY <1>2, <1>3 DEF IInv, NeverRead, Late, HasRead
<1>6. ShownInv'
  BY <1>2 DEF IInv, ShownInv
<1>7. NearInv'
  <2>. SUFFICES ASSUME NEW s \in Sensors, s \notin due'
                PROVE  /\ value'[s] - reported[s] < HYSTERESIS[s]
                       /\ reported[s] - value'[s] < HYSTERESIS[s]
    BY <1>2 DEF NearInv
  <2>1. ~largeChange(s)
    BY <1>2
  <2>2. HYSTERESIS[s] \in Nat /\ value'[s] \in Int /\ reported[s] \in Int
    <3>1. reported' = reported
      BY <1>2
    <3>2. /\ value'.humidity \in 0..100 /\ value'.temperature \in Int
          /\ reported.humidity \in 0..100 /\ reported.temperature \in Int
      BY <1>1, <3>1 DEF TypeOK
    <3>. QED
      BY <3>2, HysteresisAssumption DEF Sensors
  <2>. QED
    BY <2>1, <2>2 DEF largeChange, absDiffLastReportedValue
<1>. QED
  BY <1>1, <1>4, <1>5, <1>6, <1>7 DEF IInv

(* Reporting is marking all as reported. *)
LEMMA Marked ==
  ASSUME NEW s \in Sensors
  PROVE  0 < HYSTERESIS[s]
BY HysteresisAssumption

LEMMA ReportSteps ==
  ASSUME IInv, Report \/ loraRx
  PROVE  IInv'
<1>1. TypeOK' /\ BusInv'
  BY TypeStep, BusStep DEF Next, Step
<1>2. /\ \/ pc = "report" /\ pc' = "rx"
         \/ pc \in {"rx", "loop"} /\ pc' = "took"
      /\ \/ reported' = value
         \/ reported' = reported /\ (pc = "report" => due = {})
      /\ UNCHANGED <<clock, lastUpdateSensorsTime, mLastReadTime, mReadSuccessful, mLast,
                     value, goodFor, age, sinceTrigger>>
  BY DEF Report, loraRx, sendSensorValueForAllComponents, times, reader, history
<1>3. /\ Since(lastUpdateSensorsTime)' = Since(lastUpdateSensorsTime)
      /\ Since(mLastReadTime)' = Since(mLastReadTime)
  BY <1>2 DEF Since
<1>4. SecondInv'
  BY <1>2, <1>3 DEF IInv, SecondInv
<1>5. Late' = Late
  BY <1>2, <1>3 DEF Late
<1>6. NeverRead \/ HasRead => NeverRead' \/ HasRead'
  BY <1>2, <1>3, <1>5 DEF NeverRead, HasRead
<1>7. ShownInv'
  BY <1>2 DEF IInv, ShownInv
<1>8. NearInv'
  <2>. SUFFICES ASSUME pc = "report", NEW s \in Sensors
                PROVE  /\ value[s] - reported'[s] < HYSTERESIS[s]
                       /\ reported'[s] - value[s] < HYSTERESIS[s]
    BY <1>2 DEF NearInv
  <2>1. value[s] \in Int
    BY DEF IInv, TypeOK, Sensors
  <2>2. CASE reported' = value
    BY <2>1, <2>2, Marked
  <2>3. CASE reported' = reported /\ due = {}
    BY <2>3 DEF IInv, NearInv
  <2>. QED
    BY <1>2, <2>2, <2>3
<1>. QED
  BY <1>1, <1>4, <1>6, <1>7, <1>8 DEF IInv

(* The turn took d. *)
LEMMA ElapseStep ==
  ASSUME IInv, NEW d \in 0..(UPDATE + MaxLag), Elapse(d)
  PROVE  IInv'
<1>. DEFINE second == Since(lastUpdateSensorsTime)
            ago == Since(mLastReadTime)
<1>1. TypeOK' /\ BusInv'
  BY TypeStep, BusStep DEF Next, Step
<1>2. /\ pc = "took" /\ pc' = "loop"
      /\ second + d <= UPDATE + MaxLag
      /\ clock' = (clock + d) % WORD
      /\ goodFor' = IF bus THEN Later(goodFor, d, Patience) ELSE 0
      /\ age' = Later(age, d, Patience)
      /\ sinceTrigger' = Later(sinceTrigger, d, MIN_READ)
      /\ UNCHANGED <<lastUpdateSensorsTime, mLastReadTime, mReadSuccessful, mLast,
                     value, reported, due>>
  BY DEF Elapse, reader, sensors
<1>3. second \in 0..(WORD - 1) /\ ago \in 0..(WORD - 1) /\ d \in Nat
  BY SinceType, Sizes DEF IInv
<1>4. /\ clock \in 0..(WORD - 1) /\ lastUpdateSensorsTime \in 0..(WORD - 1)
      /\ mLastReadTime \in 0..(WORD - 1)
  BY DEF IInv, TypeOK
<1>5. /\ goodFor \in 0..Patience /\ age \in 0..Patience /\ sinceTrigger \in 0..MIN_READ
  BY DEF IInv, TypeOK
<1>6. Late = second /\ Late' = second'
  BY <1>2 DEF Late
<1>7. second' = second + d
  <2>1. ((clock - lastUpdateSensorsTime) % WORD) + d < WORD
    <3>. HIDE DEF second
    <3>1. second + d < WORD
      BY <1>2, <1>3, Sizes
    <3>. QED
      BY <3>1 DEF second, Since
  <2>2. (clock' - lastUpdateSensorsTime) % WORD = ((clock - lastUpdateSensorsTime) % WORD) + d
    BY <1>2, <1>3, <1>4, <2>1, FurtherBack
  <2>. QED
    BY <1>2, <2>2 DEF Since
<1>8. HasRead => ago + d < Patience /\ ago' = ago + d
  <2>. SUFFICES ASSUME HasRead PROVE ago + d < Patience /\ ago' = ago + d
    OBVIOUS
  <2>1. ago < MIN_READ + second
    BY <1>6 DEF HasRead
  <2>2. ago + d < Patience
    <3>. HIDE DEF second, ago
    <3>. QED
      BY <1>2, <1>3, <2>1, Sizes
  <2>3. ((clock - mLastReadTime) % WORD) + d < WORD
    <3>. HIDE DEF ago
    <3>1. ago + d < WORD
      BY <1>3, <2>2, Sizes
    <3>. QED
      BY <3>1 DEF ago, Since
  <2>4. (clock' - mLastReadTime) % WORD = ((clock - mLastReadTime) % WORD) + d
    BY <1>2, <1>3, <1>4, <2>3, FurtherBack
  <2>. QED
    BY <1>2, <2>2, <2>4 DEF Since
<1>. HIDE DEF second, ago
<1>9. SecondInv'
  BY <1>2, <1>7 DEF SecondInv, second
<1>10. NeverRead => NeverRead'
  <2>. SUFFICES ASSUME NeverRead PROVE NeverRead'
    OBVIOUS
  <2>1. clock = second /\ sinceTrigger = MIN_READ
    BY <1>6 DEF NeverRead
  <2>2. clock + d < WORD
    BY <1>2, <1>3, <2>1, Sizes
  <2>3. d \in 0..(WORD - 1)
    BY <1>3, <1>4, <2>2, Sizes
  <2>4. clock' = second'
    BY <1>2, <1>4, <1>7, <2>1, <2>2, <2>3, Plus
  <2>5. sinceTrigger' = MIN_READ
    BY <1>2, <1>3, <2>1, Sizes DEF Later
  <2>. QED
    BY <1>2, <1>6, <2>4, <2>5 DEF NeverRead
<1>11. HasRead => HasRead'
  <2>. SUFFICES ASSUME HasRead PROVE HasRead'
    OBVIOUS
  <2>1. /\ ago < MIN_READ + second
        /\ ago <= sinceTrigger \/ sinceTrigger = MIN_READ
        /\ goodFor <= ago \/ age <= ago
    BY <1>2, <1>6 DEF HasRead, ago
  <2>2. ago' = ago + d /\ second' = second + d
    BY <1>7, <1>8
  <2>3. ago' < MIN_READ + Late'
    BY <1>3, <1>6, <2>1, <2>2, Sizes
  <2>4. ago' <= sinceTrigger' \/ sinceTrigger' = MIN_READ
    BY <1>2, <1>3, <1>5, <2>1, <2>2, Sizes DEF Later
  <2>5. goodFor' <= ago' \/ age' <= ago'
    <3>1. Later(age, d, Patience) <= age + d /\ Later(goodFor, d, Patience) <= goodFor + d
          /\ Later(age, d, Patience) \in Nat /\ Later(goodFor, d, Patience) \in Nat
      <4>1. Patience \in Nat
        BY Sizes
      <4>2. Later(age, d, Patience) <= age + d /\ Later(age, d, Patience) \in 0..Patience
        BY <1>3, <1>5, <4>1, LaterIsSum
      <4>3. Later(goodFor, d, Patience) <= goodFor + d /\ Later(goodFor, d, Patience) \in 0..Patience
        BY <1>3, <1>5, <4>1, LaterIsSum
      <4>. QED
        BY <4>1, <4>2, <4>3
    <3>. QED
      BY <1>2, <1>3, <1>5, <2>1, <2>2, <3>1, Sizes
  <2>. QED
    BY <2>3, <2>4, <2>5 DEF HasRead, ago
<1>12. ShownInv'
  BY <1>2 DEF IInv, ShownInv
<1>13. NearInv'
  BY <1>2 DEF NearInv
<1>. QED
  BY <1>1, <1>9, <1>10, <1>11, <1>12, <1>13 DEF IInv

(* Every step keeps the invariant. *)
LEMMA NextStep == IInv /\ [Next]_vars => IInv'
<1>. SUFFICES ASSUME IInv, [Next]_vars PROVE IInv'
  OBVIOUS
<1>1. ASSUME NEW d \in 0..(UPDATE + MaxLag), Elapse(d) PROVE IInv'
  BY <1>1, ElapseStep
<1>2. CASE updateSensors \/ TooEarly \/ Trigger \/ ReadData \/ Sense \/ Report \/ loraRx
  BY <1>2, UpdateStep, TooEarlyStep, TriggerStep, ReadDataStep, SenseStep, ReportSteps
<1>3. ASSUME Next,
             \/ ChipDone \/ BusFails \/ BusReturns
             \/ SoftReset \/ Calibrate \/ CheckCalibrated
             \/ Await("await reset", "calibrate") \/ Await("await calibration", "check")
             \/ Await("await data", "data")
      PROVE  IInv'
  BY <1>3, ChipSteps
<1>4. CASE UNCHANGED vars
  <2>1. Since(lastUpdateSensorsTime)' = Since(lastUpdateSensorsTime)
        /\ Since(mLastReadTime)' = Since(mLastReadTime)
    BY <1>4 DEF vars, Since
  <2>2. Late' = Late
    BY <1>4, <2>1 DEF vars, Late
  <2>3. TypeOK' /\ BusInv' /\ ShownInv' /\ NearInv' /\ SecondInv'
    BY <1>4, <2>1 DEF vars, IInv, TypeOK, BusInv, ShownInv, NearInv, SecondInv
  <2>4. NeverRead' \/ HasRead'
    BY <1>4, <2>1, <2>2 DEF vars, IInv, NeverRead, HasRead
  <2>. QED
    BY <2>3, <2>4 DEF IInv
<1>. QED
  BY <1>1, <1>2, <1>3, <1>4 DEF Next, Step

-----------------------------------------------------------------------------
(* The properties. *)

(* What the invariant says once a second has been dealt with. *)
LEMMA InvariantGives == IInv => TypeOK /\ ReportsFollowReadings /\ ReadingsAreFresh
<1>. SUFFICES ASSUME IInv, pc = "rx" PROVE ReportsFollowReadings /\ ReadingsAreFresh
  BY DEF IInv, ReportsFollowReadings, ReadingsAreFresh
<1>1. ReportsFollowReadings
  BY DEF IInv, ShownInv, NearInv, ReportsFollowReadings
<1>2. ReadingsAreFresh
  <2>1. HasRead /\ Late = Since(lastUpdateSensorsTime)
    BY DEF IInv, NeverRead, Late
  <2>2. Since(mLastReadTime) < Patience
    BY <2>1, SinceType, Sizes DEF HasRead, IInv, SecondInv
  <2>3. goodFor <= Since(mLastReadTime) \/ age <= Since(mLastReadTime)
    BY <2>1 DEF HasRead
  <2>4. goodFor \in 0..Patience /\ age \in 0..Patience
    BY DEF IInv, TypeOK
  <2>. QED
    BY <2>2, <2>3, <2>4, SinceType, Sizes DEF ReadingsAreFresh, IInv
<1>. QED
  BY <1>1, <1>2

(* A time since some instant is a natural number. *)
LEMMA RangeIsNat ==
  ASSUME NEW w \in Nat, NEW x \in 0..(w - 1)
  PROVE  x \in Nat
OBVIOUS

(* A measure of time that is not too early has run for MIN_READ. *)
LEMMA NotTooEarly ==
  ASSUME NEW m \in Nat, NEW s \in 0..m, NEW ago \in Nat,
         ~(ago < m), ago <= s \/ s = m
  PROVE  s >= m
OBVIOUS

(* A measurement is asked for at least MIN_READ after the last.              *)
LEMMA Spaced ==
  IInv /\ [Next]_vars => (pc = "read" /\ pc' = "await data" => sinceTrigger >= MIN_READ)
<1>. SUFFICES ASSUME IInv, [Next]_vars, pc = "read", pc' = "await data"
              PROVE  sinceTrigger >= MIN_READ
  OBVIOUS
<1>1. Trigger
  BY DEF Next, Step, vars, ChipDone, BusFails, BusReturns, SoftReset, Await, Calibrate,
     CheckCalibrated, updateSensors, TooEarly, ReadData, Sense, Report, loraRx, Elapse
<1>. DEFINE ago == Since(mLastReadTime)
<1>2. ~(ago < MIN_READ)
  BY <1>1 DEF Trigger, tooEarly
<1>3. sinceTrigger \in 0..MIN_READ
  BY DEF IInv, TypeOK
<1>4. WORD \in Nat /\ MIN_READ \in Nat /\ ago \in 0..(WORD - 1)
  BY SinceType, Sizes DEF IInv
<1>5. ago <= sinceTrigger \/ sinceTrigger = MIN_READ
  BY DEF IInv, NeverRead, HasRead
<1>. HIDE DEF ago
<1>6. ago \in Nat
  BY <1>4, RangeIsNat
<1>. QED
  BY <1>2, <1>3, <1>4, <1>5, <1>6, NotTooEarly

(* While the bus works the values reported stay near those of a chip that    *)
(* was read within Patience, both of one reading, and it is not asked again  *)
(* within MIN_READ: whatever fails, however late the turns of loop() come,   *)
(* and also when millis() rolls over (AHT20.cpp:48-72, AHTReader.cpp:21-39,  *)
(* TemperatureSensor.cpp:16-37, HumiditySensor.cpp:16-39).                   *)
THEOREM ReadingsAreReported ==
  Spec => /\ []TypeOK /\ []ReportsFollowReadings /\ []ReadingsAreFresh
          /\ TriggersAreSpaced
<1>. DEFINE Step1 == pc = "read" /\ pc' = "await data" => sinceTrigger >= MIN_READ
<1>1. TriggersAreSpaced <=> [][Step1]_vars
  BY DEF TriggersAreSpaced
<1>2. IInv /\ [Next]_vars => Step1
  BY Spaced
<1>. HIDE DEF Step1
<1>. QED
  BY <1>1, <1>2, InitStep, NextStep, InvariantGives, PTL DEF Spec
-----------------------------------------------------------------------------
(* setup() and a turn of loop() come to their end while the chip answers: the*)
(* measure behind LoopGoesOn.                                                *)

\* How many labels a turn, or setup(), has still to pass at most.
Ahead ==
  CASE pc = "reset" -> 6
    [] pc = "await reset" -> 5
    [] pc = "calibrate" -> 4
    [] pc = "await calibration" -> 3
    [] pc = "check" -> 2
    [] pc = "read" -> 7
    [] pc = "await data" -> 6
    [] pc = "data" -> 5
    [] pc = "sense" -> 4
    [] pc = "report" -> 3
    [] pc = "rx" -> 2
    [] pc = "took" -> 1
    [] OTHER -> 0

\* The chip has to complete what it began.
Work == 2 * Ahead + (IF busy THEN 1 ELSE 0)

\* Each step of the thread and of the chip leaves less; the bus adds nothing.
TurnGoesOn ==
  pc \notin {"loop", "halt"} =>
    IF Step \/ ChipDone THEN Work' < Work ELSE Work' = Work

\* A wait ends once the chip is done, unless the bus is gone, and a turn may
\* end at once.
NothingBlocks ==
  /\ bus => busy \/ ~statusBusy
  /\ pc = "took" => Since(lastUpdateSensorsTime) <= UPDATE + MaxLag

(* Ahead at each label, and after a step. *)
LEMMA AheadIs ==
  /\ pc = "reset" => Ahead = 6
  /\ pc = "await reset" => Ahead = 5
  /\ pc = "calibrate" => Ahead = 4
  /\ pc = "await calibration" => Ahead = 3
  /\ pc = "check" => Ahead = 2
  /\ pc = "read" => Ahead = 7
  /\ pc = "await data" => Ahead = 6
  /\ pc = "data" => Ahead = 5
  /\ pc = "sense" => Ahead = 4
  /\ pc = "report" => Ahead = 3
  /\ pc = "rx" => Ahead = 2
  /\ pc = "took" => Ahead = 1
  /\ pc \in {"loop", "halt"} => Ahead = 0
BY DEF Ahead

Ranked == Ahead \in 0..7

LEMMA AheadType == Ranked /\ Ranked'
<1>1. Ranked
  <2>. DEFINE Labels == {"reset", "await reset", "calibrate", "await calibration",
                        "check", "read", "await data", "data", "sense", "report",
                        "rx", "took"}
  <2>1. CASE pc \in Labels
    <3>1. Ahead \in {1, 2, 3, 4, 5, 6, 7}
      BY <2>1, AheadIs, Zenon
    <3>. QED
      BY <3>1 DEF Ranked
  <2>2. CASE pc \notin Labels
    <3>1. Ahead = 0
      BY <2>2 DEF Ahead
    <3>. QED
      BY <3>1 DEF Ranked
  <2>. QED
    BY <2>1, <2>2
<1>. QED
  BY <1>1, PTL

LEMMA AheadBecomes ==
  /\ pc' = "await reset" => Ahead' = 5
  /\ pc' = "calibrate" => Ahead' = 4
  /\ pc' = "await calibration" => Ahead' = 3
  /\ pc' = "check" => Ahead' = 2
  /\ pc' = "await data" => Ahead' = 6
  /\ pc' = "data" => Ahead' = 5
  /\ pc' = "sense" => Ahead' = 4
  /\ pc' = "report" => Ahead' = 3
  /\ pc' = "rx" => Ahead' = 2
  /\ pc' = "took" => Ahead' = 1
  /\ pc' \in {"loop", "halt"} => Ahead' = 0
  /\ pc' = pc => Ahead' = Ahead
BY DEF Ahead

(* What is left is a number, and one label less is less, busy or not.        *)
LEMMA Less ==
  /\ Work \in 0..15
  /\ Ahead' < Ahead => Work' < Work
<1>1. PICK a \in 0..7 : a = Ahead
  BY AheadType DEF Ranked
<1>2. PICK c \in 0..7 : c = Ahead'
  BY AheadType DEF Ranked
<1>3. PICK b \in 0..1 : b = IF busy THEN 1 ELSE 0
  OBVIOUS
<1>4. PICK d \in 0..1 : d = IF busy' THEN 1 ELSE 0
  OBVIOUS
<1>5. Work = 2 * a + b
  BY <1>1, <1>3 DEF Work
<1>6. Work' = 2 * c + d
  BY <1>2, <1>4 DEF Work
<1>7. Work \in 0..15
  BY <1>5
<1>8. c < a => 2 * c + d < 2 * a + b
  OBVIOUS
<1>. QED
  BY <1>1, <1>2, <1>5, <1>6, <1>7, <1>8

(* Each step of the thread passes a label. *)
LEMMA StepPasses ==
  ASSUME Step, pc \notin {"loop", "halt"}
  PROVE  Ahead' < Ahead
<1>1. CASE SoftReset
  <2>1. pc = "reset" /\ pc' \in {"await reset", "halt"}
    BY <1>1 DEF SoftReset
  <2>2. Ahead = 6 /\ (Ahead' = 5 \/ Ahead' = 0)
    BY <2>1, AheadIs, AheadBecomes, Zenon
  <2>. QED
    BY <2>2
<1>2. CASE Await("await reset", "calibrate")
  <2>1. pc = "await reset" /\ pc' \in {"calibrate"}
    BY <1>2 DEF Await
  <2>2. Ahead = 5 /\ Ahead' = 4
    BY <2>1, AheadIs, AheadBecomes, Zenon
  <2>. QED
    BY <2>2
<1>3. CASE Calibrate
  <2>1. pc = "calibrate" /\ pc' \in {"await calibration"}
    BY <1>3 DEF Calibrate
  <2>2. Ahead = 4 /\ Ahead' = 3
    BY <2>1, AheadIs, AheadBecomes, Zenon
  <2>. QED
    BY <2>2
<1>4. CASE Await("await calibration", "check")
  <2>1. pc = "await calibration" /\ pc' \in {"check"}
    BY <1>4 DEF Await
  <2>2. Ahead = 3 /\ Ahead' = 2
    BY <2>1, AheadIs, AheadBecomes, Zenon
  <2>. QED
    BY <2>2
<1>5. CASE CheckCalibrated
  <2>1. pc = "check" /\ pc' \in {"took", "halt"}
    BY <1>5 DEF CheckCalibrated
  <2>2. Ahead = 2 /\ (Ahead' = 1 \/ Ahead' = 0)
    BY <2>1, AheadIs, AheadBecomes, Zenon
  <2>. QED
    BY <2>2
<1>6. CASE TooEarly
  <2>1. pc = "read" /\ pc' \in {"sense"}
    BY <1>6 DEF TooEarly
  <2>2. Ahead = 7 /\ Ahead' = 4
    BY <2>1, AheadIs, AheadBecomes, Zenon
  <2>. QED
    BY <2>2
<1>7. CASE Trigger
  <2>1. pc = "read" /\ pc' \in {"await data", "sense"}
    BY <1>7 DEF Trigger
  <2>2. Ahead = 7 /\ (Ahead' = 6 \/ Ahead' = 4)
    BY <2>1, AheadIs, AheadBecomes, Zenon
  <2>. QED
    BY <2>2
<1>8. CASE Await("await data", "data")
  <2>1. pc = "await data" /\ pc' \in {"data"}
    BY <1>8 DEF Await
  <2>2. Ahead = 6 /\ Ahead' = 5
    BY <2>1, AheadIs, AheadBecomes, Zenon
  <2>. QED
    BY <2>2
<1>9. CASE ReadData
  <2>1. pc = "data" /\ pc' \in {"sense"}
    BY <1>9 DEF ReadData
  <2>2. Ahead = 5 /\ Ahead' = 4
    BY <2>1, AheadIs, AheadBecomes, Zenon
  <2>. QED
    BY <2>2
<1>10. CASE Sense
  <2>1. pc = "sense" /\ pc' \in {"report"}
    BY <1>10 DEF Sense
  <2>2. Ahead = 4 /\ Ahead' = 3
    BY <2>1, AheadIs, AheadBecomes, Zenon
  <2>. QED
    BY <2>2
<1>11. CASE Report
  <2>1. pc = "report" /\ pc' \in {"rx"}
    BY <1>11 DEF Report
  <2>2. Ahead = 3 /\ Ahead' = 2
    BY <2>1, AheadIs, AheadBecomes, Zenon
  <2>. QED
    BY <2>2
<1>12. CASE loraRx
  <2>1. pc = "rx" /\ pc' \in {"took"}
    BY <1>12 DEF loraRx
  <2>2. Ahead = 2 /\ Ahead' = 1
    BY <2>1, AheadIs, AheadBecomes, Zenon
  <2>. QED
    BY <2>2
<1>13. CASE \E d \in 0..(UPDATE + MaxLag) : Elapse(d)
  <2>1. pc = "took" /\ pc' \in {"loop"}
    BY <1>13 DEF Elapse
  <2>2. Ahead = 1 /\ Ahead' = 0
    BY <2>1, AheadIs, AheadBecomes, Zenon
  <2>. QED
    BY <2>2
<1>14. ~updateSensors
  BY DEF updateSensors
<1>. QED
  BY <1>1, <1>2, <1>3, <1>4, <1>5, <1>6, <1>7, <1>8, <1>9, <1>10, <1>11, <1>12,
     <1>13, <1>14 DEF Step

LEMMA TurnStep == [Next]_vars => [TurnGoesOn]_vars
<1>. SUFFICES ASSUME Next, pc \notin {"loop", "halt"}
              PROVE  IF Step \/ ChipDone THEN Work' < Work ELSE Work' = Work
  BY DEF TurnGoesOn
<1>1. CASE Step
  BY <1>1, StepPasses, Less
<1>2. CASE ChipDone
  <2>1. busy /\ ~busy' /\ Ahead' = Ahead
    BY <1>2, AheadBecomes DEF ChipDone
  <2>2. PICK a \in 0..7 : a = Ahead /\ a = Ahead'
    BY <2>1, AheadType DEF Ranked
  <2>3. Work = 2 * a + 1
    BY <2>1, <2>2 DEF Work
  <2>4. Work' = 2 * a + 0
    BY <2>1, <2>2 DEF Work
  <2>5. Work' < Work
    BY <2>3, <2>4
  <2>. QED
    BY <1>2, <2>5
<1>3. CASE ~Step /\ ~ChipDone
  <2>1. busy' = busy /\ pc' = pc
    BY <1>3 DEF Next, BusFails, BusReturns, chip
  <2>2. Work' = Work
    BY <2>1, AheadBecomes DEF Work
  <2>. QED
    BY <1>3, <2>2
<1>. QED
  BY <1>1, <1>2, <1>3

(* setup() and a turn of loop() have no way round: once they are not blocked *)
(* by a bus that stays away they end after at most Work steps of the thread  *)
(* and the chip, and nothing but the bus can block them                      *)
(* (AHT20.cpp:20-31, 54-56, AHTReader.cpp:11-19).                            *)
THEOREM TurnEnds == Spec => [](Work \in 0..15 /\ NothingBlocks) /\ [][TurnGoesOn]_vars
<1>1. IInv => Work \in 0..15 /\ NothingBlocks
  <2>. SUFFICES ASSUME IInv PROVE NothingBlocks
    BY Less
  <2>1. Since(lastUpdateSensorsTime) \in Nat /\ Since(lastUpdateSensorsTime) <= UPDATE + MaxLag
    BY SinceType, Sizes DEF IInv, SecondInv
  <2>2. bus => busy \/ ~statusBusy
    BY DEF statusBusy
  <2>. QED
    BY <2>1, <2>2 DEF NothingBlocks
<1>2. [Next]_vars => [TurnGoesOn]_vars
  BY TurnStep
<1>. QED
  BY <1>1, <1>2, InitStep, NextStep, PTL DEF Spec
=============================================================================
