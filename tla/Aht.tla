-------------------------------- MODULE Aht --------------------------------
(***************************************************************************)
(* The temperature and humidity sensor chip behind its I2C bus, the driver *)
(* that starts it and waits for it, the reader that asks it every two      *)
(* seconds, and the two components that show what was read (AHT20.cpp,     *)
(* AHTReader.cpp, TemperatureSensor.cpp, HumiditySensor.cpp, with the      *)
(* turns of loop() in main.cpp).                                           *)
(*                                                                         *)
(* The chip and its bus are external: a transfer works while the bus does. *)
(* millis() is the clock modulo WORD and stands still within a turn of     *)
(* loop(); what the turn took passes at its end.                           *)
(***************************************************************************)
EXTENDS Integers

CONSTANTS
  WORD,       \* number of values of a uint32_t
  INT_WORD,   \* number of values of the unsigned int of the build
  UPDATE,     \* UPDATE_SENSORS_INTERVAL
  MIN_READ,   \* MIN_READ_INTERVAL_MS
  FULL,       \* 0x100000, the full scale of the chip
  HYSTERESIS, \* CONFIG_REPORT_HYSTERESIS_DEFAULT of the two components
  Measured,   \* bound: what the chip may measure
  MaxLag      \* bound: how far a turn of loop() may fall behind

ASSUME TimesAssumption ==
  /\ UPDATE \in Nat \ {0} /\ MIN_READ \in Nat \ {0} /\ MaxLag \in Nat
  /\ INT_WORD \in Nat /\ WORD \in Nat
  /\ INT_WORD <= WORD /\ MIN_READ + UPDATE + MaxLag < INT_WORD
ASSUME MeasuredAssumption ==
  /\ FULL \in Nat \ {0} /\ FULL % 2 = 0
  /\ Measured \subseteq [humidity : 0..FULL - 1, temperature : 0..FULL - 1]

Sensors == {"humidity", "temperature"}
ASSUME HysteresisAssumption == HYSTERESIS \in [Sensors -> Nat \ {0}]

VARIABLES
  bus,                    \* the bus works
  busy, calibrated, data, \* the chip: two bits of its status, its data bytes
  pc,                     \* where setup(), or the turn of loop(), is
  clock, lastUpdateSensorsTime,
  mLastReadTime, mReadSuccessful,
  mLast,                  \* mLastHumidity and mLastTemperature
  value, reported,        \* what the components show and have reported
  due,                    \* the components whose report is due
  goodFor,                \* history: real time since the bus last failed
  age,                    \* history: real time since mLast was read
  sinceTrigger            \* history: real time since the last measurement

chip == <<busy, calibrated, data>>
reader == <<mLastReadTime, mReadSuccessful, mLast>>
sensors == <<value, reported, due>>
times == <<clock, lastUpdateSensorsTime>>
history == <<goodFor, age, sinceTrigger>>
vars == <<bus, busy, calibrated, data, pc, clock, lastUpdateSensorsTime,
          mLastReadTime, mReadSuccessful, mLast, value, reported, due,
          goodFor, age, sinceTrigger>>

Unread == [humidity |-> 0, temperature |-> 0]
Since(t) == (clock - t) % WORD

\* The longest time between the turns that read the chip.
Patience == MIN_READ + UPDATE + MaxLag
-----------------------------------------------------------------------------
(* The chip and its bus.                                                     *)

ChipDone ==
  /\ busy
  /\ busy' = FALSE
  /\ data' \in Measured
  /\ calibrated' \in {calibrated, TRUE}
  /\ UNCHANGED <<bus, pc, times, reader, sensors, history>>

BusFails ==
  /\ bus /\ bus' = FALSE
  /\ goodFor' = 0
  /\ UNCHANGED <<chip, pc, times, reader, sensors, age, sinceTrigger>>

BusReturns ==
  /\ ~bus /\ bus' = TRUE
  /\ UNCHANGED <<chip, pc, times, reader, sensors, history>>
-----------------------------------------------------------------------------
(* AHT20: getStatus is 0xFF, every bit of it set, when the read fails.       *)

\* Faulty variant: the wait looks at the whole status, not at one bit of it.
statusBusy_AnyBit == ~bus \/ busy \/ calibrated

statusBusy == ~bus \/ busy
statusCalibrated == ~bus \/ calibrated

\* write() sends a command, which keeps the chip busy, or fails.
write == IF bus THEN busy' = TRUE ELSE UNCHANGED busy

\* The loops "while busy, delay".
Await(here, there) ==
  /\ pc = here /\ ~statusBusy /\ pc' = there
  /\ UNCHANGED <<bus, chip, times, reader, sensors, history>>

\* begin() fails, and AHTReader::begin stops the node, without the reset.
SoftReset ==
  /\ pc = "reset"
  /\ write
  /\ pc' = IF bus THEN "await reset" ELSE "halt"
  /\ UNCHANGED <<bus, calibrated, data, times, reader, sensors, history>>

\* The result of this command is not looked at.
Calibrate ==
  /\ pc = "calibrate"
  /\ write
  /\ pc' = "await calibration"
  /\ UNCHANGED <<bus, calibrated, data, times, reader, sensors, history>>

CheckCalibrated ==
  /\ pc = "check"
  /\ pc' = IF statusCalibrated THEN "took" ELSE "halt"
  /\ UNCHANGED <<bus, chip, times, reader, sensors, history>>
-----------------------------------------------------------------------------
(* loop(): updateSensors begins with AHTReader::update.                      *)

\* Faulty variant: the time of the last update is wider than millis().
NextSecond_Wide == lastUpdateSensorsTime + UPDATE

NextSecond == (lastUpdateSensorsTime + UPDATE) % WORD

updateSensors ==
  /\ pc = "loop" /\ Since(lastUpdateSensorsTime) >= UPDATE
  /\ lastUpdateSensorsTime' = NextSecond
  /\ pc' = "read"
  /\ UNCHANGED <<bus, chip, clock, reader, sensors, history>>

tooEarly == Since(mLastReadTime) < MIN_READ

\* Faulty variant: the time is noted also when nothing is read.
TooEarly_Noted ==
  /\ pc = "read" /\ tooEarly
  /\ pc' = "sense"
  /\ mLastReadTime' = clock
  /\ UNCHANGED <<bus, chip, times, mReadSuccessful, mLast, sensors, history>>

TooEarly ==
  /\ pc = "read" /\ tooEarly
  /\ pc' = "sense"
  /\ UNCHANGED <<bus, chip, times, reader, sensors, history>>

\* Faulty variant: the reads keep to a grid, as updateSensors does.
ReadTime_Grid == (mLastReadTime + MIN_READ) % WORD

ReadTime == clock

\* getMeasurements, up to its wait.
Trigger ==
  /\ pc = "read" /\ ~tooEarly
  /\ mLastReadTime' = ReadTime
  /\ write
  /\ IF bus
     THEN /\ pc' = "await data" /\ sinceTrigger' = 0
          /\ UNCHANGED mReadSuccessful
     ELSE /\ pc' = "sense" /\ mReadSuccessful' = FALSE
          /\ UNCHANGED sinceTrigger
  /\ UNCHANGED <<bus, calibrated, data, times, mLast, sensors, goodFor, age>>

\* getMeasurements, from its wait on: both values are set, or none.
ReadData ==
  /\ pc = "data"
  /\ mReadSuccessful' = bus
  /\ IF bus THEN mLast' = data /\ age' = 0 ELSE UNCHANGED <<mLast, age>>
  /\ pc' = "sense"
  /\ UNCHANGED <<bus, chip, times, mLastReadTime, sensors, goodFor, sinceTrigger>>
-----------------------------------------------------------------------------
(* TemperatureSensor::update, HumiditySensor::update, and the reports.       *)

\* round(): halves go away from zero.
round(a) == IF a >= 0 THEN (a + FULL \div 2) \div FULL
            ELSE -((-a + FULL \div 2) \div FULL)

\* In percent, and in tenths of a degree.  The clamp of update() to 0..100 is
\* part of the first.
percent(raw) == LET p == round(raw * 100) IN IF p > 100 THEN 100 ELSE p
tenths(raw) == round(raw * 2000 - 500 * FULL)

Shown(m) == [humidity |-> percent(m.humidity),
             temperature |-> tenths(m.temperature)]

absDiffLastReportedValue(s) ==
  IF value'[s] >= reported[s] THEN value'[s] - reported[s]
  ELSE reported[s] - value'[s]

\* Faulty variant: only a rise counts.
largeChange_Rise(s) == value'[s] - reported[s] >= HYSTERESIS[s]

largeChange(s) == absDiffLastReportedValue(s) >= HYSTERESIS[s]

\* Whether the report interval has passed is left open, for both at once.
Sense ==
  /\ pc = "sense"
  /\ value' = IF mReadSuccessful THEN Shown(mLast) ELSE value
  /\ \E timeToReport \in BOOLEAN :
       due' = IF timeToReport THEN Sensors ELSE {s \in Sensors : largeChange(s)}
  /\ pc' = "report"
  /\ UNCHANGED <<bus, chip, times, reader, reported, history>>

sendSensorValueForAllComponents == reported' = value /\ due' = {}

\* Another component may be due when neither of these is.
Report ==
  /\ pc = "report"
  /\ \/ sendSensorValueForAllComponents
     \/ due = {} /\ UNCHANGED <<reported, due>>
  /\ pc' = "rx"
  /\ UNCHANGED <<bus, chip, times, reader, value, history>>

\* loraRx, which may bring a value request.
loraRx ==
  /\ pc = "rx" \/ (pc = "loop" /\ Since(lastUpdateSensorsTime) < UPDATE)
  /\ sendSensorValueForAllComponents \/ UNCHANGED <<reported, due>>
  /\ pc' = "took"
  /\ UNCHANGED <<bus, chip, times, reader, value, history>>

Later(h, d, most) == IF h + d < most THEN h + d ELSE most

\* The turn, or setup(), took d.
Elapse(d) ==
  /\ pc = "took"
  /\ Since(lastUpdateSensorsTime) + d <= UPDATE + MaxLag
  /\ clock' = (clock + d) % WORD
  /\ goodFor' = IF bus THEN Later(goodFor, d, Patience) ELSE 0
  /\ age' = Later(age, d, Patience)
  /\ sinceTrigger' = Later(sinceTrigger, d, MIN_READ)
  /\ pc' = "loop"
  /\ UNCHANGED <<bus, chip, lastUpdateSensorsTime, reader, sensors>>

\* mLastReadTime starts with the unsigned int -MIN_READ.
Init ==
  /\ bus \in BOOLEAN /\ calibrated \in BOOLEAN /\ busy = FALSE
  /\ data \in Measured
  /\ pc = "reset"
  /\ clock = 0 /\ lastUpdateSensorsTime = 0
  /\ mLastReadTime = INT_WORD - MIN_READ /\ mReadSuccessful = FALSE
  /\ mLast = Unread
  /\ value = Unread /\ reported = Unread /\ due = Sensors
  /\ goodFor = 0 /\ age = Patience /\ sinceTrigger = MIN_READ

Step ==
  \/ SoftReset \/ Await("await reset", "calibrate") \/ Calibrate
  \/ Await("await calibration", "check") \/ CheckCalibrated
  \/ updateSensors \/ TooEarly \/ Trigger \/ Await("await data", "data")
  \/ ReadData \/ Sense \/ Report \/ loraRx
  \/ \E d \in 0..(UPDATE + MaxLag) : Elapse(d)

Next == Step \/ ChipDone \/ BusFails \/ BusReturns

Spec == Init /\ [][Next]_vars

\* One thread, which is never stopped; a chip that completes what it began.
FairSpec == Spec /\ WF_vars(Step) /\ WF_vars(ChipDone)
-----------------------------------------------------------------------------
(* Every variable has a value of its kind.                                   *)
TypeOK ==
  /\ bus \in BOOLEAN /\ busy \in BOOLEAN /\ calibrated \in BOOLEAN
  /\ data \in Measured /\ mLast \in Measured \cup {Unread}
  /\ clock \in 0..WORD - 1 /\ lastUpdateSensorsTime \in 0..WORD - 1
  /\ mLastReadTime \in 0..WORD - 1 /\ mReadSuccessful \in BOOLEAN
  /\ \A v \in {value, reported} : v.humidity \in 0..100 /\ v.temperature \in Int
  /\ due \subseteq Sensors
  /\ goodFor \in 0..Patience /\ age \in 0..Patience
  /\ sinceTrigger \in 0..MIN_READ

(* Once a second has been dealt with, the values last reported are nearer    *)
(* than the hysteresis to the last pair of values read from the chip, the    *)
(* two together, although reads fail at any point, an update without a read  *)
(* sets the flags anew and reports are of all components at once             *)
(* (AHT20.cpp:48-72, TemperatureSensor.cpp:16-37, HumiditySensor.cpp:16-39). *)
ReportsFollowReadings ==
  pc = "rx" /\ mLast # Unread =>
    \A s \in Sensors :
      /\ Shown(mLast)[s] - reported[s] < HYSTERESIS[s]
      /\ reported[s] - Shown(mLast)[s] < HYSTERESIS[s]

(* A bus that has worked for a while has brought a reading that is not older *)
(* than that: neither a failed read, nor late turns, nor the roll-over of    *)
(* millis() stop the reads (AHTReader.cpp:21-39, AHTReader.h:49).            *)
ReadingsAreFresh == pc = "rx" /\ goodFor = Patience => age < Patience

(* The chip is never asked for a measurement within MIN_READ of the last     *)
(* one, whenever the turns of loop() come (AHTReader.cpp:25-29).             *)
TriggersAreSpaced ==
  [][pc = "read" /\ pc' = "await data" => sinceTrigger >= MIN_READ]_vars

(* With a bus that works from some time on, the node comes back to loop()    *)
(* for ever, unless AHTReader::begin stopped it: every wait for the chip     *)
(* ends (AHT20.cpp:20-31, 54-56, AHTReader.cpp:11-19).                       *)
LoopGoesOn == <>[]bus => []<>(pc \in {"loop", "halt"})

(* What the comment of getMeasurements says (AHT20.h:48): it returns true,   *)
(* or false if the measurements were not read, also when the bus fails for   *)
(* good.                                                                     *)
FailedReadReturns ==
  <>[]~bus => ((pc = "await data") ~> (pc # "await data"))
=============================================================================
