------------------------- MODULE GarageCoverProofs -------------------------
(***************************************************************************)
(* Services, reports and the guess of the direction are right for a door   *)
(* of any height, whatever it does and whoever presses its button.         *)
(***************************************************************************)
EXTENDS GarageCover, TLAPS

-----------------------------------------------------------------------------
(* The inductive invariant behind the safety properties.                     *)

\* A door that moves has not reached the end it moves to.
DoorInv == (dir = 1 => pos < TOP) /\ (dir = -1 => pos > 0)

\* Between two presses the door stands, and the second one will turn it round;
\* after the last press it goes, or stands, where it was asked to.
ServiceInv ==
  /\ pulses = 1 /\ asked # "UNKNOWN" =>
       /\ dir = 0 /\ ~AtEnd
       /\ (asked = "OPEN" /\ last = -1) \/ (asked = "CLOSE" /\ last = 1)
  /\ pulses = 0 =>
       /\ asked = "OPEN" => dir = 1 \/ (pos = TOP /\ dir = 0)
       /\ asked = "CLOSE" => dir = -1 \/ (pos = 0 /\ dir = 0)
       /\ asked = "STOP" => dir = 0

\* As long as no press was lost, mState has the end the door left.
SeenInv ==
  ~lost =>
    /\ dir = 1 => mState \in {"CLOSED", "OPENING"}
    /\ dir = -1 => mState \in {"OPEN", "CLOSING"}
    /\ ~AtEnd => dir # 0
    /\ dir = 0 /\ seen => (pos = 0 /\ mState = "CLOSED") \/ (pos = TOP /\ mState = "OPEN")
    /\ ~seen => AtEnd /\ dir = 0

\* What is not due has been reported.
ReportInv == pc = "loop" \/ ~mIsReportDue => mLastReportedState = mState

IInv == TypeOK /\ DoorInv /\ ServiceInv /\ SeenInv /\ ReportInv
-----------------------------------------------------------------------------
(* The conjuncts of TypeOK by the kind of reasoning they need. *)
DoorTypes == pos \in 0..TOP /\ dir \in {-1, 0, 1} /\ last \in {-1, 1}
FlagTypes == mIsReportDue \in BOOLEAN /\ seen \in BOOLEAN /\ lost \in BOOLEAN
NameTypes ==
  /\ mState \in CoverState /\ mLastReportedState \in CoverState
  /\ asked \in CoverService
  /\ pc \in {"loop", "report"} /\ pulses \in 0..1

(* TypeOK is its three parts, before and after a step. *)
LEMMA TypeParts ==
  /\ TypeOK <=> DoorTypes /\ FlagTypes /\ NameTypes
  /\ TypeOK' <=> DoorTypes' /\ FlagTypes' /\ NameTypes'
BY Zenon DEF TypeOK, DoorTypes, FlagTypes, NameTypes

(* A press on a moving door stops it, in between or not; on a standing one   *)
(* it starts it, away from an end or against its last direction.             *)
LEMMA PressDoes ==
  ASSUME DoorTypes, Press
  PROVE  /\ dir # 0 => dir' = 0 /\ last' = dir
         /\ dir = 0 => last' = last
         /\ dir = 0 /\ ~AtEnd => dir' = -last
         /\ dir = 0 /\ pos = 0 => dir' = 1
         /\ dir = 0 /\ pos = TOP => dir' = -1
         /\ pos' = pos
<1>1. CASE dir # 0
  BY <1>1 DEF Press
<1>2. CASE dir = 0
  BY <1>2, TopAssumption DEF Press, AtEnd
<1>. QED
  BY <1>1, <1>2

(* Pressing the button keeps the door between its ends. *)
LEMMA PressKeepsDoor ==
  ASSUME DoorTypes, FlagTypes, DoorInv, Press
  PROVE  DoorTypes' /\ seen' \in BOOLEAN /\ lost' \in BOOLEAN /\ DoorInv'
<1>1. lost' \in BOOLEAN /\ seen' \in BOOLEAN
  BY Zenon DEF FlagTypes, Press
<1>2. CASE dir # 0
  BY <1>1, <1>2, PressDoes DEF DoorTypes, DoorInv
<1>3. CASE dir = 0 /\ ~AtEnd
  BY <1>1, <1>3, PressDoes, TopAssumption DEF DoorTypes, DoorInv, AtEnd
<1>4. CASE dir = 0 /\ AtEnd
  BY <1>1, <1>4, PressDoes, TopAssumption DEF DoorTypes, DoorInv, AtEnd
<1>. QED
  BY <1>2, <1>3, <1>4

(* A press that update() can follow starts a door from an end it has seen. *)
LEMMA PressKeepsSeen ==
  ASSUME DoorTypes, SeenInv, Press, UNCHANGED mState
  PROVE  SeenInv'
<1>. SUFFICES ASSUME ~lost'
              PROVE  SeenInv'
  BY Zenon DEF SeenInv
<1>1. ~lost /\ dir = 0 /\ AtEnd /\ seen
  BY Zenon DEF Press
<1>2. (pos = 0 /\ mState = "CLOSED") \/ (pos = TOP /\ mState = "OPEN")
  BY <1>1 DEF SeenInv
<1>3. pos' = pos /\ seen' = seen
  BY DEF Press
<1>4. (dir' = 1 /\ mState' = "CLOSED") \/ (dir' = -1 /\ mState' = "OPEN")
  BY <1>1, <1>2, PressDoes
<1>. QED
  BY <1>1, <1>3, <1>4 DEF SeenInv, AtEnd
-----------------------------------------------------------------------------
(* IInv holds initially and is kept by every action. *)

(* Power on, with the door anywhere. *)
LEMMA InitStep == Init => IInv
<1>. SUFFICES ASSUME Init
              PROVE  IInv
  OBVIOUS
<1>1. FlagTypes
  BY Zenon DEF Init, FlagTypes
<1>2. DoorTypes /\ NameTypes
  BY DEF Init, DoorTypes, NameTypes, CoverState, CoverService
<1>3. TypeOK
  BY <1>1, <1>2, TypeParts
<1>4. DoorInv /\ ServiceInv
  BY TopAssumption DEF Init, DoorInv, ServiceInv
<1>5. SeenInv /\ ReportInv
  BY DEF Init, SeenInv, ReportInv
<1>. QED
  BY <1>3, <1>4, <1>5 DEF IInv

(* The door moving on. *)
LEMMA MoveStep ==
  ASSUME IInv, Move
  PROVE  IInv'
<1>1. DoorTypes /\ FlagTypes /\ NameTypes
  BY TypeParts DEF IInv
<1>2. /\ mState' = mState /\ mIsReportDue' = mIsReportDue
      /\ mLastReportedState' = mLastReportedState
      /\ pulses' = pulses /\ pc' = pc /\ lost' = lost /\ asked' = asked
  BY DEF Move, cover
<1>3. dir # 0 /\ pos' = pos + dir /\ pos' \in 0..TOP
  BY <1>1, TopAssumption DEF Move, DoorTypes, IInv, DoorInv
<1>4. \/ pos' \in {0, TOP} /\ dir' = 0 /\ last' = dir /\ seen' = FALSE
      \/ pos' \notin {0, TOP} /\ dir' = dir /\ last' = last /\ seen' = seen
  BY DEF Move
<1>5. TypeOK'
  <2>1. FlagTypes' /\ NameTypes'
    BY <1>1, <1>2, <1>4, Zenon DEF FlagTypes, NameTypes
  <2>2. DoorTypes'
    BY <1>1, <1>3, <1>4 DEF DoorTypes
  <2>. QED
    BY <2>1, <2>2, TypeParts
<1>6. DoorInv'
  BY <1>1, <1>3, <1>4, TopAssumption DEF DoorTypes, DoorInv
<1>7. ServiceInv'
  BY <1>1, <1>2, <1>3, <1>4, TopAssumption
     DEF IInv, ServiceInv, DoorTypes, DoorInv, AtEnd
<1>8. SeenInv'
  BY <1>1, <1>2, <1>3, <1>4 DEF IInv, SeenInv, AtEnd, DoorTypes
<1>9. ReportInv'
  BY <1>2 DEF IInv, ReportInv
<1>. QED
  BY <1>5, <1>6, <1>7, <1>8, <1>9 DEF IInv

(* A press on the wall, which no service asked for. *)
LEMMA WallButtonStep ==
  ASSUME IInv, WallButton
  PROVE  IInv'
<1>1. DoorTypes /\ FlagTypes /\ NameTypes /\ DoorInv /\ SeenInv
  BY TypeParts DEF IInv
<1>2. /\ mState' = mState /\ mIsReportDue' = mIsReportDue
      /\ mLastReportedState' = mLastReportedState
      /\ pulses' = pulses /\ pc' = pc /\ asked' = "UNKNOWN" /\ Press
  BY DEF WallButton, cover
<1>3. DoorTypes' /\ seen' \in BOOLEAN /\ lost' \in BOOLEAN /\ DoorInv'
  BY <1>1, <1>2, PressKeepsDoor
<1>4. TypeOK'
  <2>1. FlagTypes'
    BY <1>1, <1>2, <1>3, Zenon DEF FlagTypes
  <2>2. NameTypes'
    BY <1>1, <1>2 DEF NameTypes, CoverService
  <2>. QED
    BY <1>3, <2>1, <2>2, TypeParts
<1>5. SeenInv'
  BY <1>1, <1>2, PressKeepsSeen
<1>6. ServiceInv' /\ ReportInv'
  BY <1>2 DEF IInv, ServiceInv, ReportInv
<1>. QED
  BY <1>3, <1>4, <1>5, <1>6 DEF IInv

(* The second press turns the door the way the service wants. *)
LEMMA SecondPressStep ==
  ASSUME IInv, SecondPress
  PROVE  IInv'
<1>1. DoorTypes /\ FlagTypes /\ NameTypes /\ DoorInv /\ SeenInv
  BY TypeParts DEF IInv
<1>2. /\ mState' = mState /\ mIsReportDue' = mIsReportDue
      /\ mLastReportedState' = mLastReportedState
      /\ pc' = pc /\ asked' = asked /\ Press
  BY DEF SecondPress, cover
<1>3. pulses = 1 /\ pulses' = 0
  BY <1>1 DEF SecondPress, NameTypes
<1>4. DoorTypes' /\ seen' \in BOOLEAN /\ lost' \in BOOLEAN /\ DoorInv'
  BY <1>1, <1>2, PressKeepsDoor
<1>5. TypeOK'
  <2>1. FlagTypes'
    BY <1>1, <1>2, <1>4, Zenon DEF FlagTypes
  <2>2. NameTypes'
    BY <1>1, <1>2, <1>3 DEF NameTypes
  <2>. QED
    BY <1>4, <2>1, <2>2, TypeParts
<1>6. SeenInv'
  BY <1>1, <1>2, PressKeepsSeen
<1>7. ServiceInv'
  <2>1. CASE asked = "UNKNOWN"
    BY <1>2, <1>3, <2>1 DEF ServiceInv
  <2>2. CASE asked # "UNKNOWN"
    BY <1>1, <1>2, <1>3, <2>2, PressDoes DEF IInv, ServiceInv
  <2>. QED
    BY <2>1, <2>2
<1>8. ReportInv'
  BY <1>2 DEF IInv, ReportInv
<1>. QED
  BY <1>4, <1>5, <1>6, <1>7, <1>8 DEF IInv

(* The presses of a service, by what it is going to do to the door. *)
LEMMA Presses ==
  ASSUME NameTypes, NEW service \in CoverService
  PROVE  /\ timesFor(service) \in 0..2
         /\ timesFor(service) = 0 =>
              \/ Expected(service) = "OPEN" /\ mState \in {"OPEN", "OPENING"}
              \/ Expected(service) = "CLOSE" /\ mState \in {"CLOSED", "CLOSING"}
              \/ Expected(service) = "STOP" /\ mState \in {"OPEN", "CLOSED"}
              \/ Expected(service) = "UNKNOWN"
         /\ timesFor(service) = 1 =>
              \/ Expected(service) = "OPEN" /\ mState = "CLOSED"
              \/ Expected(service) = "CLOSE" /\ mState = "OPEN"
              \/ Expected(service) = "STOP" /\ mState \in {"OPENING", "CLOSING"}
         /\ timesFor(service) = 2 =>
              \/ Expected(service) = "OPEN" /\ mState = "CLOSING"
              \/ Expected(service) = "CLOSE" /\ mState = "OPENING"
<1>1. mState \in {"CLOSED", "OPEN", "OPENING", "CLOSING"}
  BY DEF NameTypes, CoverState
<1>2. CASE service = "OPEN"
  BY <1>1, <1>2 DEF timesFor, Expected
<1>3. CASE service = "CLOSE"
  BY <1>1, <1>3 DEF timesFor, Expected
<1>4. CASE service = "STOP"
  BY <1>1, <1>4 DEF timesFor, Expected
<1>5. CASE service = "TOGGLE"
  BY <1>1, <1>5 DEF timesFor, Expected
<1>6. CASE service = "UNKNOWN"
  BY <1>1, <1>6 DEF timesFor, Expected
<1>. QED
  BY <1>2, <1>3, <1>4, <1>5, <1>6 DEF CoverService

(* What a true state says of the door. *)
LEMMA TrueState ==
  ASSUME DoorTypes, NameTypes, StateIsTrue
  PROVE  \/ mState = "CLOSED" /\ pos = 0 /\ dir = 0
         \/ mState = "OPEN" /\ pos = TOP /\ dir = 0
         \/ mState = "OPENING" /\ dir = 1 /\ ~AtEnd
         \/ mState = "CLOSING" /\ dir = -1 /\ ~AtEnd
<1>1. mState \in {"CLOSED", "OPEN", "OPENING", "CLOSING"}
  BY DEF NameTypes, CoverState
<1>2. CASE mState = "CLOSED"
  BY <1>2 DEF StateIsTrue
<1>3. CASE mState = "OPEN"
  BY <1>3 DEF StateIsTrue
<1>4. CASE mState = "OPENING"
  BY <1>4 DEF StateIsTrue
<1>5. CASE mState = "CLOSING"
  BY <1>5 DEF StateIsTrue
<1>. QED
  BY <1>1, <1>2, <1>3, <1>4, <1>5

(* A service, with none, one or the first of two presses. *)
LEMMA CallServiceStep ==
  ASSUME IInv, NEW service \in CoverService, callService(service)
  PROVE  IInv'
<1>. DEFINE e == Expected(service)
<1>1. DoorTypes /\ FlagTypes /\ NameTypes /\ DoorInv /\ SeenInv
  BY TypeParts DEF IInv
<1>2. /\ mState' = mState /\ mIsReportDue' = mIsReportDue
      /\ mLastReportedState' = mLastReportedState
      /\ pc' = pc /\ pulses = 0
      /\ asked' = IF StateIsTrue THEN e ELSE "UNKNOWN"
  BY DEF callService, cover
<1>3. \/ /\ timesFor(service) = 0 /\ pulses' = 0
         /\ pos' = pos /\ dir' = dir /\ last' = last /\ seen' = seen /\ lost' = lost
      \/ timesFor(service) \in 1..2 /\ Press /\ pulses' = timesFor(service) - 1
  BY <1>1, <1>2, Presses DEF callService, door
<1>4. DoorTypes' /\ seen' \in BOOLEAN /\ lost' \in BOOLEAN /\ DoorInv'
  <2>1. CASE Press
    BY <1>1, <2>1, PressKeepsDoor
  <2>2. CASE ~Press
    <3>1. pos' = pos /\ dir' = dir /\ last' = last /\ seen' = seen /\ lost' = lost
      BY <1>3, <2>2
    <3>2. seen' \in BOOLEAN /\ lost' \in BOOLEAN
      BY <1>1, <3>1, Zenon DEF FlagTypes
    <3>. QED
      BY <1>1, <3>1, <3>2 DEF DoorTypes, DoorInv
  <2>. QED
    BY <2>1, <2>2
<1>5. e \in CoverService
  BY DEF Expected, CoverService
<1>6. TypeOK'
  <2>1. FlagTypes'
    BY <1>1, <1>2, <1>4, Zenon DEF FlagTypes
  <2>2. asked' \in CoverService
    BY <1>2, <1>5 DEF CoverService
  <2>3. pulses' \in 0..1
    BY <1>3
  <2>4. NameTypes'
    BY <1>1, <1>2, <2>2, <2>3, Zenon DEF NameTypes
  <2>. QED
    BY <1>4, <2>1, <2>4, TypeParts
<1>7. SeenInv'
  <2>1. CASE Press
    BY <1>1, <1>2, <2>1, PressKeepsSeen
  <2>2. CASE ~Press
    <3>1. pos' = pos /\ dir' = dir /\ seen' = seen /\ lost' = lost
      BY <1>3, <2>2
    <3>. QED
      BY <1>1, <1>2, <3>1, Zenon DEF SeenInv, AtEnd
  <2>. QED
    BY <2>1, <2>2
<1>8. ServiceInv'
  <2>1. CASE ~StateIsTrue
    BY <1>2, <2>1 DEF ServiceInv
  <2>2. ASSUME StateIsTrue, timesFor(service) = 0
        PROVE  ServiceInv'
    <3>1. pos' = pos /\ dir' = dir /\ pulses' = 0 /\ asked' = e
      BY <1>2, <1>3, <2>2
    <3>2. \/ e = "OPEN" /\ (dir = 1 \/ (pos = TOP /\ dir = 0))
          \/ e = "CLOSE" /\ (dir = -1 \/ (pos = 0 /\ dir = 0))
          \/ e = "STOP" /\ dir = 0
          \/ e = "UNKNOWN"
      BY <1>1, <2>2, Presses, TrueState
    <3>. QED
      BY <3>1, <3>2 DEF ServiceInv
  <2>3. ASSUME StateIsTrue, timesFor(service) = 1
        PROVE  ServiceInv'
    <3>1. Press /\ pulses' = 0 /\ asked' = e
      BY <1>2, <1>3, <2>3
    <3>2. \/ e = "OPEN" /\ pos = 0 /\ dir = 0
          \/ e = "CLOSE" /\ pos = TOP /\ dir = 0
          \/ e = "STOP" /\ dir # 0
      BY <1>1, <2>3, Presses, TrueState
    <3>. HIDE DEF e
    <3>. QED
      BY <1>1, <3>1, <3>2, PressDoes DEF ServiceInv
  <2>4. ASSUME StateIsTrue, timesFor(service) = 2
        PROVE  ServiceInv'
    <3>1. Press /\ pulses' = 1 /\ asked' = e
      BY <1>2, <1>3, <2>4
    <3>2. /\ ~AtEnd
          /\ \/ e = "OPEN" /\ dir = -1
             \/ e = "CLOSE" /\ dir = 1
      BY <1>1, <2>4, Presses, TrueState
    <3>. HIDE DEF e
    <3>. QED
      BY <1>1, <3>1, <3>2, PressDoes DEF ServiceInv, AtEnd
  <2>. QED
    BY <1>1, <2>1, <2>2, <2>3, <2>4, Presses
<1>9. ReportInv'
  BY <1>2 DEF IInv, ReportInv
<1>. QED
  BY <1>4, <1>6, <1>7, <1>8, <1>9 DEF IInv
-----------------------------------------------------------------------------
(* update() and the reports. *)

(* What update() makes of the pins. *)
LEMMA Determined ==
  ASSUME NameTypes, NEW r \in Readings
  PROVE  /\ determineState(r) \in CoverState
         /\ r.closed /\ r.open => determineState(r) = mState
         /\ r = GoodReading =>
              /\ pos = 0 => determineState(r) = "CLOSED"
              /\ pos = TOP => determineState(r) = "OPEN"
              /\ ~AtEnd /\ mState \in {"CLOSING", "OPEN"} =>
                   determineState(r) = "CLOSING"
              /\ ~AtEnd /\ mState \in {"OPENING", "CLOSED"} =>
                   determineState(r) = "OPENING"
<1>1. mState \in {"CLOSED", "OPEN", "OPENING", "CLOSING"}
  BY DEF NameTypes, CoverState
<1>2. CASE r # GoodReading
  <2>1. r.closed /\ r.open
    BY <1>2 DEF Readings
  <2>2. determineState(r) = mState
    BY <2>1, <1>1 DEF determineState
  <2>. QED
    BY <1>1, <1>2, <2>2 DEF CoverState
<1>3. CASE r = GoodReading
  <2>1. r.closed = (pos = 0) /\ r.open = (pos = TOP)
    BY <1>3, Zenon DEF GoodReading
  <2>5. 0 # TOP
    BY TopAssumption
  <2>6. r.closed \in BOOLEAN /\ r.open \in BOOLEAN
    BY <2>1, Zenon
  <2>2. CASE pos = 0
    BY <1>1, <2>1, <2>2, <2>5 DEF determineState, CoverState, AtEnd
  <2>3. CASE pos = TOP
    BY <1>1, <2>1, <2>3, <2>5 DEF determineState, CoverState, AtEnd
  <2>4. CASE ~AtEnd
    BY <1>1, <2>1, <2>4, <2>5 DEF determineState, CoverState, AtEnd
  <2>. QED
    BY <2>2, <2>3, <2>4 DEF AtEnd
<1>. QED
  BY <1>2, <1>3

(* The two readings, and what update() notes of the end it reads. *)
LEMMA Noted ==
  ASSUME NameTypes, NEW r \in Readings, update(r)
  PROVE  \/ r = GoodReading /\ AtEnd /\ seen' = TRUE /\ lost' = FALSE
         \/ r = GoodReading /\ ~AtEnd /\ seen' = seen /\ lost' = lost
         \/ mState' = mState /\ seen' = seen /\ lost' = lost
<1>1. mState' = determineState(r)
  BY DEF update
<1>2. CASE r.closed /\ r.open
  <2>1. seen' = seen /\ lost' = lost
    BY <1>2 DEF update
  <2>. QED
    BY <1>1, <1>2, <2>1, Determined
<1>3. CASE ~(r.closed /\ r.open)
  <2>1. r = GoodReading
    BY <1>3 DEF Readings
  <2>2. \/ AtEnd /\ seen' = TRUE /\ lost' = FALSE
        \/ ~AtEnd /\ seen' = seen /\ lost' = lost
    BY <1>3 DEF update
  <2>. QED
    BY <2>1, <2>2
<1>. QED
  BY <1>2, <1>3

(* Reading the pins, well or badly, keeps what is known of the door. *)
LEMMA UpdateStep ==
  ASSUME IInv, NEW r \in Readings, update(r)
  PROVE  IInv'
<1>1. DoorTypes /\ FlagTypes /\ NameTypes /\ DoorInv /\ SeenInv
  BY TypeParts DEF IInv
<1>2. /\ pos' = pos /\ dir' = dir /\ last' = last
      /\ pulses' = pulses /\ asked' = asked
      /\ pc = "loop" /\ pc' = "report" /\ mLastReportedState' = mLastReportedState
      /\ mState' = determineState(r)
  BY DEF update, door
<1>3. mIsReportDue' = (mState' # mState)
  BY DEF update, hasChanged
<1>4. \/ r = GoodReading /\ AtEnd /\ seen' = TRUE /\ lost' = FALSE
      \/ r = GoodReading /\ ~AtEnd /\ seen' = seen /\ lost' = lost
      \/ mState' = mState /\ seen' = seen /\ lost' = lost
  BY <1>1, Noted
<1>5. TypeOK'
  <2>1. FlagTypes'
    <3>1. seen' \in BOOLEAN /\ lost' \in BOOLEAN
      BY <1>1, <1>4, Zenon DEF FlagTypes
    <3>2. mIsReportDue' \in BOOLEAN
      BY <1>3
    <3>. QED
      BY <3>1, <3>2, Zenon DEF FlagTypes
  <2>2. mState' \in CoverState
    BY <1>1, <1>2, Determined
  <2>3. NameTypes'
    BY <1>1, <1>2, <2>2 DEF NameTypes
  <2>4. DoorTypes'
    BY <1>1, <1>2 DEF DoorTypes
  <2>. QED
    BY <2>1, <2>3, <2>4, TypeParts
<1>6. DoorInv' /\ ServiceInv'
  BY <1>2 DEF IInv, DoorInv, ServiceInv, AtEnd
<1>7. SeenInv'
  <2>1. CASE r = GoodReading /\ AtEnd /\ seen' = TRUE /\ lost' = FALSE
    <3>1. (pos = 0 /\ mState' = "CLOSED") \/ (pos = TOP /\ mState' = "OPEN")
      BY <1>1, <1>2, <2>1, Determined DEF AtEnd
    <3>. QED
      BY <1>1, <1>2, <2>1, <3>1, TopAssumption
         DEF SeenInv, DoorInv, DoorTypes, AtEnd
  <2>2. CASE r = GoodReading /\ ~AtEnd /\ seen' = seen /\ lost' = lost
    <3>1. /\ mState \in {"CLOSED", "OPENING"} => mState' = "OPENING"
          /\ mState \in {"OPEN", "CLOSING"} => mState' = "CLOSING"
      BY <1>1, <1>2, <2>2, Determined
    <3>. QED
      BY <1>1, <1>2, <2>2, <3>1 DEF SeenInv, AtEnd
  <2>3. CASE mState' = mState /\ seen' = seen /\ lost' = lost
    BY <1>1, <1>2, <2>3, Zenon DEF SeenInv, AtEnd
  <2>. QED
    BY <1>4, <2>1, <2>2, <2>3
<1>8. ReportInv'
  BY <1>2, <1>3 DEF IInv, ReportInv
<1>. QED
  BY <1>5, <1>6, <1>7, <1>8 DEF IInv

(* A report leaves the door alone, and what is not due has been reported. *)
LEMMA ReportsStep ==
  ASSUME IInv, Report \/ onValueReqMsg
  PROVE  IInv'
<1>1. DoorTypes /\ FlagTypes /\ NameTypes
  BY TypeParts DEF IInv
<1>2. /\ mState' = mState /\ pulses' = pulses /\ asked' = asked
      /\ pos' = pos /\ dir' = dir /\ last' = last
      /\ seen' = seen /\ lost' = lost /\ pc' = "loop"
  BY DEF Report, onValueReqMsg, ReportAll, door, cover
<1>3. \/ mIsReportDue' = FALSE /\ mLastReportedState' = mState
      \/ /\ ~mIsReportDue /\ mIsReportDue' = mIsReportDue
         /\ mLastReportedState' = mLastReportedState
  BY DEF Report, onValueReqMsg, ReportAll, cover
<1>4. mIsReportDue' \in BOOLEAN
  BY <1>1, <1>3, Zenon DEF FlagTypes
<1>5. mLastReportedState' = mState'
  BY <1>2, <1>3 DEF IInv, ReportInv
<1>6. TypeOK'
  <2>1. FlagTypes'
    BY <1>1, <1>2, <1>4, Zenon DEF FlagTypes
  <2>2. NameTypes' /\ DoorTypes'
    BY <1>1, <1>2, <1>5 DEF NameTypes, DoorTypes
  <2>. QED
    BY <2>1, <2>2, TypeParts
<1>7. DoorInv' /\ ServiceInv'
  BY <1>2 DEF IInv, DoorInv, ServiceInv, AtEnd
<1>8. SeenInv'
  BY <1>2, Zenon DEF IInv, SeenInv, AtEnd
<1>. QED
  BY <1>5, <1>6, <1>7, <1>8 DEF IInv, ReportInv

(* A step that changes nothing. *)
LEMMA StutterStep ==
  ASSUME IInv, UNCHANGED vars
  PROVE  IInv'
BY ZenonT(30) DEF IInv, vars, TypeOK, DoorInv, ServiceInv, SeenInv, ReportInv, AtEnd
-----------------------------------------------------------------------------
(* IInv is an invariant, and implies the properties of GarageCover. *)

(* Every step keeps IInv. *)
LEMMA NextStep == IInv /\ [Next]_vars => IInv'
<1>. SUFFICES ASSUME IInv, [Next]_vars
              PROVE  IInv'
  OBVIOUS
<1>. USE DEF Next
<1>1. CASE Move
  BY <1>1, MoveStep
<1>2. CASE WallButton
  BY <1>2, WallButtonStep
<1>3. CASE \E service \in CoverService : callService(service)
  BY <1>3, CallServiceStep
<1>4. CASE SecondPress
  BY <1>4, SecondPressStep
<1>5. CASE \E r \in Readings : update(r)
  BY <1>5, UpdateStep
<1>6. CASE Report \/ onValueReqMsg
  BY <1>6, ReportsStep
<1>7. CASE UNCHANGED vars
  BY <1>7, StutterStep
<1>. QED
  BY <1>1, <1>2, <1>3, <1>4, <1>5, <1>6, <1>7

(* What update() makes of a good reading while no press was lost. *)
LEMMA FollowStep ==
  ASSUME IInv, update(GoodReading), ~lost'
  PROVE  mState' = CASE pos = 0 -> "CLOSED"
                     [] pos = TOP -> "OPEN"
                     [] ~AtEnd /\ dir = 1 -> "OPENING"
                     [] ~AtEnd /\ dir = -1 -> "CLOSING"
                     [] OTHER -> "a standing door between the ends"
<1>1. DoorTypes /\ NameTypes /\ SeenInv
  BY TypeParts DEF IInv
<1>2. GoodReading \in Readings
  BY DEF Readings
<1>3. mState' = determineState(GoodReading)
  BY DEF update
<1>4. 0 # TOP
  BY TopAssumption
<1>5. CASE pos = 0
  <2>1. mState' = "CLOSED"
    BY <1>1, <1>2, <1>3, <1>5, Determined
  <2>. QED
    BY <1>4, <1>5, <2>1 DEF AtEnd
<1>6. CASE pos = TOP
  <2>1. mState' = "OPEN"
    BY <1>1, <1>2, <1>3, <1>6, Determined
  <2>. QED
    BY <1>4, <1>6, <2>1 DEF AtEnd
<1>7. CASE ~AtEnd
  <2>1. ~lost
    BY <1>7 DEF update
  <2>2. \/ dir = 1 /\ mState \in {"CLOSED", "OPENING"}
        \/ dir = -1 /\ mState \in {"OPEN", "CLOSING"}
    BY <1>1, <1>7, <2>1 DEF SeenInv, DoorTypes
  <2>3. \/ dir = 1 /\ mState' = "OPENING"
        \/ dir = -1 /\ mState' = "CLOSING"
    BY <1>1, <1>2, <1>3, <1>7, <2>2, Determined
  <2>4. pos # 0 /\ pos # TOP
    BY <1>7 DEF AtEnd
  <2>5. CASE dir = 1 /\ mState' = "OPENING"
    BY <2>4, <2>5 DEF AtEnd
  <2>6. CASE dir = -1 /\ mState' = "CLOSING"
    BY <2>4, <2>6 DEF AtEnd
  <2>. QED
    BY <2>3, <2>5, <2>6
<1>8. pos = 0 \/ pos = TOP \/ ~AtEnd
  BY DEF AtEnd
<1>. QED
  BY <1>5, <1>6, <1>7, <1>8, Zenon

(* For a door of any height: every variable has its type, the relay is       *)
(* pressed at most twice, a service that found the state true leaves the     *)
(* door as it was asked to, and no change of state is left unreported.       *)
THEOREM ServiceAndReports ==
  Spec => []TypeOK /\ []ServiceIsObeyed /\ []ChangesAreReported
<1>1. IInv => TypeOK /\ ServiceIsObeyed /\ ChangesAreReported
  <2>. SUFFICES ASSUME IInv
                PROVE  TypeOK /\ ServiceIsObeyed /\ ChangesAreReported
    OBVIOUS
  <2>1. ServiceIsObeyed
    <3>1. asked \in {"OPEN", "CLOSE", "STOP", "TOGGLE", "UNKNOWN"}
      BY DEF IInv, TypeOK, CoverService
    <3>. QED
      BY <3>1 DEF IInv, ServiceInv, ServiceIsObeyed
  <2>. QED
    BY <2>1 DEF IInv, ReportInv, ChangesAreReported
<1>. QED
  BY <1>1, InitStep, NextStep, PTL DEF Spec

(* For a door of any height: what update() makes of a good reading is what   *)
(* the door does, while every press since it last saw the door at an end was *)
(* made on a door standing at an end it had seen.                            *)
THEOREM DirectionIsKnown == Spec => StateFollowsDoor
<1>. DEFINE Follows ==
       update(GoodReading) /\ ~lost' =>
         mState' = CASE pos = 0 -> "CLOSED"
                     [] pos = TOP -> "OPEN"
                     [] ~AtEnd /\ dir = 1 -> "OPENING"
                     [] ~AtEnd /\ dir = -1 -> "CLOSING"
                     [] OTHER -> "a standing door between the ends"
<1>1. IInv /\ [Next]_vars => [Follows]_vars
  BY FollowStep
<1>2. StateFollowsDoor <=> [][Follows]_vars
  BY DEF StateFollowsDoor
<1>. HIDE DEF Follows
<1>. QED
  BY <1>1, <1>2, InitStep, NextStep, PTL DEF Spec
-----------------------------------------------------------------------------
(* What is asked of the door is not put off: the measure behind              *)
(* ServiceIsCompleted.                                                       *)

\* The presses to come, and the places the door has to pass.
Way ==
  pulses + (IF asked = "OPEN" THEN TOP - pos ELSE IF asked = "CLOSE" THEN pos ELSE 0)

\* A door that is sent somewhere waits for a press, or goes there, until it is
\* there.
OnItsWay ==
  asked \in {"OPEN", "CLOSE"} =>
    /\ Way \in Nat
    /\ Way = 0 => pos = IF asked = "OPEN" THEN TOP ELSE 0
    /\ Way > 0 => pulses > 0 \/ dir = (IF asked = "OPEN" THEN 1 ELSE -1)

\* As long as it is sent there.
GetsNearer ==
  asked \in {"OPEN", "CLOSE"} /\ asked' = asked =>
    IF Move \/ SecondPress THEN Way' < Way ELSE Way' = Way

(* The state is one of a door on its way. *)
LEMMA WayFacts ==
  ASSUME IInv, asked \in {"OPEN", "CLOSE"}
  PROVE  /\ pos \in 0..TOP /\ pulses \in 0..1 /\ TOP \in Nat
         /\ pulses = 1 => dir = 0
         /\ asked = "OPEN" /\ pulses = 0 => dir = 1 \/ (pos = TOP /\ dir = 0)
         /\ asked = "CLOSE" /\ pulses = 0 => dir = -1 \/ (pos = 0 /\ dir = 0)
<1>1. pos \in 0..TOP /\ pulses \in 0..1 /\ TOP \in Nat
  BY TopAssumption DEF IInv, TypeOK
<1>. QED
  BY <1>1 DEF IInv, ServiceInv

(* It is on its way. *)
LEMMA IsOnItsWay == IInv => OnItsWay
<1>. SUFFICES ASSUME IInv, asked \in {"OPEN", "CLOSE"}
              PROVE  /\ Way \in Nat
                     /\ Way = 0 => pos = IF asked = "OPEN" THEN TOP ELSE 0
                     /\ Way > 0 => pulses > 0 \/ dir = (IF asked = "OPEN" THEN 1 ELSE -1)
  BY DEF OnItsWay
<1>1. CASE asked = "OPEN"
  <2>1. Way = pulses + (TOP - pos)
    BY <1>1 DEF Way
  <2>2. pos \in 0..TOP /\ pulses \in 0..1 /\ TOP \in Nat
    BY WayFacts
  <2>3. pulses = 0 => dir = 1 \/ pos = TOP
    BY <1>1, WayFacts
  <2>. QED
    BY <1>1, <2>1, <2>2, <2>3
<1>2. CASE asked = "CLOSE"
  <2>1. Way = pulses + pos
    BY <1>2 DEF Way
  <2>2. pos \in 0..TOP /\ pulses \in 0..1 /\ TOP \in Nat
    BY WayFacts
  <2>3. pulses = 0 => dir = -1 \/ pos = 0
    BY <1>2, WayFacts
  <2>. QED
    BY <1>2, <2>1, <2>2, <2>3
<1>. QED
  BY <1>1, <1>2

(* A service that is repeated on the way presses nothing. *)
LEMMA RepetitionWaits ==
  ASSUME IInv, NEW service \in CoverService, callService(service),
         asked \in {"OPEN", "CLOSE"}, asked' = asked
  PROVE  pulses' = pulses /\ pos' = pos
<1>1. DoorTypes /\ NameTypes
  BY TypeParts DEF IInv
<1>2. pulses = 0 /\ StateIsTrue /\ asked = Expected(service)
  BY DEF callService
<1>3. /\ asked = "OPEN" => dir = 1 \/ (pos = TOP /\ dir = 0)
      /\ asked = "CLOSE" => dir = -1 \/ (pos = 0 /\ dir = 0)
  BY <1>2, WayFacts
<1>4. \/ mState = "CLOSED" /\ pos = 0 /\ dir = 0
      \/ mState = "OPEN" /\ pos = TOP /\ dir = 0
      \/ mState = "OPENING" /\ dir = 1
      \/ mState = "CLOSING" /\ dir = -1
  BY <1>1, <1>2, TrueState
<1>5. \/ asked = "OPEN" /\ mState \in {"OPEN", "OPENING"}
      \/ asked = "CLOSE" /\ mState \in {"CLOSED", "CLOSING"}
  BY <1>3, <1>4, TopAssumption
<1>6. timesFor(service) = 0
  BY <1>1, <1>2, <1>5, Presses
<1>. QED
  BY <1>6 DEF callService, door

(* And every step of its way brings it nearer. *)
LEMMA NearerStep == IInv /\ [Next]_vars => [GetsNearer]_vars
<1>. SUFFICES ASSUME IInv, Next, asked \in {"OPEN", "CLOSE"}, asked' = asked
              PROVE  IF Move \/ SecondPress THEN Way' < Way ELSE Way' = Way
  BY DEF GetsNearer
<1>1. /\ pos \in 0..TOP /\ pulses \in 0..1 /\ TOP \in Nat
      /\ pulses = 1 => dir = 0
      /\ asked = "OPEN" /\ pulses = 0 => dir = 1 \/ (pos = TOP /\ dir = 0)
      /\ asked = "CLOSE" /\ pulses = 0 => dir = -1 \/ (pos = 0 /\ dir = 0)
  BY WayFacts
<1>2. ASSUME pulses' = pulses, pos' = pos PROVE Way' = Way
  BY <1>2 DEF Way
<1>3. CASE Move
  <2>1. dir # 0 /\ pos' = pos + dir /\ pulses' = pulses
    BY <1>3 DEF Move
  <2>2. \/ asked = "OPEN" /\ dir = 1 /\ pulses = 0
        \/ asked = "CLOSE" /\ dir = -1 /\ pulses = 0
    BY <1>1, <2>1
  <2>3. Way' < Way
    BY <1>1, <2>1, <2>2 DEF Way
  <2>. QED
    BY <1>3, <2>3
<1>4. CASE SecondPress
  <2>1. pos' = pos /\ pulses' = pulses - 1
    BY <1>4 DEF SecondPress, Press
  <2>2. Way' < Way
    BY <1>1, <2>1 DEF Way
  <2>. QED
    BY <1>4, <2>2
<1>5. CASE ~Move /\ ~SecondPress
  <2>1. CASE WallButton
    BY <2>1 DEF WallButton
  <2>2. CASE \E service \in CoverService : callService(service)
    BY <1>2, <1>5, <2>2, RepetitionWaits
  <2>3. CASE \E r \in Readings : update(r)
    BY <1>2, <1>5, <2>3 DEF update, door
  <2>4. CASE Report \/ onValueReqMsg
    BY <1>2, <1>5, <2>4 DEF Report, onValueReqMsg, door
  <2>5. Way' = Way
    BY <1>5, <2>1, <2>2, <2>3, <2>4 DEF Next
  <2>. QED
    BY <1>5, <2>5
<1>. QED
  BY <1>3, <1>4, <1>5

(* A door that an OPEN or CLOSE sent somewhere, and that nobody stops or     *)
(* sends elsewhere, is there after as many moves and presses as Way says,    *)
(* and until then a press is due or it is moving: nothing else, a service    *)
(* that is repeated included, delays it (GarageCover.cpp:10-60).             *)
THEOREM DoorGetsThere == Spec => []OnItsWay /\ [][GetsNearer]_vars
<1>1. IInv => OnItsWay
  BY IsOnItsWay
<1>2. IInv /\ [Next]_vars => [GetsNearer]_vars
  BY NearerStep
<1>. QED
  BY <1>1, <1>2, InitStep, NextStep, PTL DEF Spec
=============================================================================
