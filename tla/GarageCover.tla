---------------------------- MODULE GarageCover ----------------------------
(***************************************************************************)
(* The garage door control (GarageCover.cpp, Cover.h, Cover.cpp) with the  *)
(* door it is wired to.                                                    *)
(*                                                                         *)
(* The node reads two end switches, at most once a second, and has one     *)
(* relay, which is a push button of the door's motor: it stops a moving    *)
(* door, and starts a standing one away from the end it stands at or, in   *)
(* between, against its last direction.  The same button hangs on the      *)
(* wall.  The door, the switches and the wall button are external: the     *)
(* code only shows the pins and what its pulses are for.                   *)
(***************************************************************************)
EXTENDS Integers

CONSTANT TOP   \* bound: steps from closed (0) to open (TOP)
ASSUME TopAssumption == TOP \in Nat /\ TOP >= 2

VARIABLES
  mState, mIsReportDue, mLastReportedState,
  pulses,   \* presses of the relay that activateRelay has still to make
  pc,       \* loop() between two calls, or between updateSensors and report
  pos, dir, \* the door: where it is, and -1, 0 or 1 for down, standing and up
  last,     \* the direction of its last move
  seen,     \* history: update() has read the end where the door was last
  lost,     \* history: a press since then was one update() cannot follow
  asked     \* history: the last service, if mState was true when it came

cover == <<mState, mIsReportDue, mLastReportedState>>
door == <<pos, dir, last>>
vars == <<mState, mIsReportDue, mLastReportedState, pulses, pc, pos, dir,
          last, seen, lost, asked>>

CoverState == {"CLOSED", "OPEN", "OPENING", "CLOSING"}
CoverService == {"OPEN", "CLOSE", "STOP", "TOGGLE", "UNKNOWN"}
-----------------------------------------------------------------------------
(* The door.                                                                 *)

AtEnd == pos \in {0, TOP}

\* Somebody presses the button.
Press ==
  /\ dir' = CASE dir # 0 -> 0
              [] dir = 0 /\ pos = 0 -> 1
              [] dir = 0 /\ pos = TOP -> -1
              [] OTHER -> -last
  /\ last' = IF dir # 0 THEN dir ELSE last
  /\ lost' = (lost \/ dir # 0 \/ ~AtEnd \/ ~seen)
  /\ UNCHANGED <<pos, seen>>

\* The door moves on, and stops at its ends.
Move ==
  /\ dir # 0
  /\ pos' = pos + dir
  /\ IF pos' \in {0, TOP} THEN dir' = 0 /\ last' = dir /\ seen' = FALSE
     ELSE UNCHANGED <<dir, last, seen>>
  /\ UNCHANGED <<cover, pulses, pc, lost, asked>>

WallButton ==
  /\ Press
  /\ asked' = "UNKNOWN"
  /\ UNCHANGED <<cover, pulses, pc>>

\* The pins as they should read (TRUE is LOW), and with both of them LOW.
GoodReading == [closed |-> pos = 0, open |-> pos = TOP]
Readings == {GoodReading, [closed |-> TRUE, open |-> TRUE]}
-----------------------------------------------------------------------------
(* GarageCover::callService                                                  *)

\* Faulty variant: a moving door is not stopped before it is turned round.
timesFor_OnePress(service) ==
  CASE service = "OPEN" /\ mState \in {"CLOSED", "CLOSING"} -> 1
    [] service = "CLOSE" /\ mState \in {"OPEN", "OPENING"} -> 1
    [] service = "STOP" /\ mState \in {"OPENING", "CLOSING"} -> 1
    [] service = "TOGGLE" -> 1
    [] OTHER -> 0

\* Faulty variant: no break after STOP, which falls through to TOGGLE.
timesFor_NoBreak(service) ==
  CASE service = "OPEN" /\ mState = "CLOSED" -> 1
    [] service = "OPEN" /\ mState = "CLOSING" -> 2
    [] service = "CLOSE" /\ mState = "OPEN" -> 1
    [] service = "CLOSE" /\ mState = "OPENING" -> 2
    [] service = "STOP" /\ mState \in {"OPENING", "CLOSING"} -> 1 + 2
    [] service \in {"STOP", "TOGGLE"} /\ mState \in {"OPEN", "CLOSED"} -> 1
    [] service = "TOGGLE" /\ mState \in {"OPENING", "CLOSING"} -> 2
    [] OTHER -> 0

\* How often callService presses the button.
timesFor(service) ==
  CASE service = "OPEN" /\ mState = "CLOSED" -> 1
    [] service = "OPEN" /\ mState = "CLOSING" -> 2
    [] service = "CLOSE" /\ mState = "OPEN" -> 1
    [] service = "CLOSE" /\ mState = "OPENING" -> 2
    [] service = "STOP" /\ mState \in {"OPENING", "CLOSING"} -> 1
    [] service = "TOGGLE" /\ mState \in {"OPEN", "CLOSED"} -> 1
    [] service = "TOGGLE" /\ mState \in {"OPENING", "CLOSING"} -> 2
    [] OTHER -> 0

\* mState is what the door is doing.
StateIsTrue ==
  CASE mState = "CLOSED" -> pos = 0 /\ dir = 0
    [] mState = "OPEN" -> pos = TOP /\ dir = 0
    [] mState = "OPENING" -> dir = 1 /\ ~AtEnd
    [] mState = "CLOSING" -> dir = -1 /\ ~AtEnd

\* What the service, if it works, will have made of the door.
Expected(service) ==
  CASE service = "TOGGLE" /\ mState \in {"CLOSED", "CLOSING"} -> "OPEN"
    [] service = "TOGGLE" /\ mState \in {"OPEN", "OPENING"} -> "CLOSE"
    [] OTHER -> service

\* The first press follows the decision at once.
callService(service) ==
  /\ pc = "loop" /\ pulses = 0
  /\ asked' = IF StateIsTrue THEN Expected(service) ELSE "UNKNOWN"
  /\ IF timesFor(service) = 0 THEN UNCHANGED <<door, pulses, seen, lost>>
     ELSE Press /\ pulses' = timesFor(service) - 1
  /\ UNCHANGED <<cover, pc>>

\* activateRelay presses again, a second later.
SecondPress ==
  /\ pulses > 0
  /\ Press
  /\ pulses' = pulses - 1
  /\ UNCHANGED <<cover, pc, asked>>
-----------------------------------------------------------------------------
(* GarageCover::update and the report of loop().                             *)

\* Faulty variant: between the ends, only the end the door came from counts.
determineState_FromEnds(r) ==
  CASE r.closed /\ ~r.open -> "CLOSED"
    [] r.open /\ ~r.closed -> "OPEN"
    [] ~r.open /\ ~r.closed /\ mState = "OPEN" -> "CLOSING"
    [] ~r.open /\ ~r.closed /\ mState # "OPEN" -> "OPENING"
    [] OTHER -> mState

determineState(r) ==
  CASE r.closed /\ ~r.open -> "CLOSED"
    [] r.open /\ ~r.closed -> "OPEN"
    [] ~r.open /\ ~r.closed /\ mState \in {"CLOSING", "OPEN"} -> "CLOSING"
    [] ~r.open /\ ~r.closed /\ mState \in {"OPENING", "CLOSED"} -> "OPENING"
    [] OTHER -> mState

\* Faulty variant: the state is set before it is compared.
hasChanged_TooLate == mState' # mState'

hasChanged == mState' # mState

\* The setIsReportDue of update overwrites what was due.
update(r) ==
  /\ pc = "loop" /\ pulses = 0
  /\ mState' = determineState(r)
  /\ mIsReportDue' = hasChanged
  /\ pc' = "report"
  /\ IF AtEnd /\ ~(r.closed /\ r.open) THEN seen' = TRUE /\ lost' = FALSE
     ELSE UNCHANGED <<seen, lost>>
  /\ UNCHANGED <<mLastReportedState, door, pulses, asked>>

\* sendSensorValueForAllComponents reads the value and calls setReported.
ReportAll ==
  /\ mIsReportDue' = FALSE
  /\ mLastReportedState' = mState
  /\ UNCHANGED mState

\* loop() reports when the cover's report is due, or another component's.
Report ==
  /\ pc = "report"
  /\ \/ ReportAll
     \/ ~mIsReportDue /\ UNCHANGED cover
  /\ pc' = "loop"
  /\ UNCHANGED <<pulses, door, seen, lost, asked>>

\* A value request.
onValueReqMsg ==
  /\ pc = "loop" /\ pulses = 0
  /\ ReportAll
  /\ UNCHANGED <<pulses, pc, door, seen, lost, asked>>

\* Power on, with the door anywhere.
Init ==
  /\ mState = "CLOSED" /\ mLastReportedState = "CLOSED"
  /\ mIsReportDue = TRUE
  /\ pulses = 0 /\ pc = "loop"
  /\ pos \in 0..TOP /\ dir = 0 /\ last \in {-1, 1}
  /\ seen = FALSE /\ lost = TRUE
  /\ asked = "UNKNOWN"

Next ==
  \/ Move \/ WallButton
  \/ \E service \in CoverService : callService(service)
  \/ SecondPress
  \/ \E r \in Readings : update(r)
  \/ Report
  \/ onValueReqMsg

Spec == Init /\ [][Next]_vars

\* activateRelay returns, and a door that moves goes on.
FairSpec == Spec /\ WF_vars(SecondPress) /\ WF_vars(Move)
-----------------------------------------------------------------------------
(* Every variable has a value of its type; activateRelay is asked for at     *)
(* most two presses (its assert, GarageCover.cpp:11).                        *)
TypeOK ==
  /\ mState \in CoverState /\ mLastReportedState \in CoverState
  /\ mIsReportDue \in BOOLEAN
  /\ pulses \in 0..1 /\ pc \in {"loop", "report"}
  /\ pos \in 0..TOP /\ dir \in {-1, 0, 1} /\ last \in {-1, 1}
  /\ seen \in BOOLEAN /\ lost \in BOOLEAN /\ asked \in CoverService

(* A service does what it is called if the state was true when it came: the  *)
(* presses it makes leave the door going, or standing, where it was asked    *)
(* to, whatever the door did meanwhile (GarageCover.cpp:10-60).              *)
ServiceIsObeyed ==
  pulses = 0 =>
    CASE asked = "OPEN" -> dir = 1 \/ pos = TOP
      [] asked = "CLOSE" -> dir = -1 \/ pos = 0
      [] asked = "STOP" -> dir = 0
      [] OTHER -> TRUE

(* And it is carried out: the door arrives where an OPEN or CLOSE that found *)
(* the state true sent it, unless somebody presses the button at the wall or *)
(* another service comes (GarageCover.cpp:10-60).                            *)
ServiceIsCompleted ==
  /\ asked = "OPEN" ~> pos = TOP \/ asked # "OPEN"
  /\ asked = "CLOSE" ~> pos = 0 \/ asked # "CLOSE"

(* update() tells the direction of the door although it only sees its ends:  *)
(* what it makes of a good reading is true as long as every press since it   *)
(* last saw the door at an end was made on a door standing at an end that it *)
(* had seen (GarageCover.cpp:62-122).                                        *)
StateFollowsDoor ==
  [][update(GoodReading) /\ ~lost' =>
       mState' = CASE pos = 0 -> "CLOSED"
                   [] pos = TOP -> "OPEN"
                   [] ~AtEnd /\ dir = 1 -> "OPENING"
                   [] ~AtEnd /\ dir = -1 -> "CLOSING"
                   [] OTHER -> "a standing door between the ends"]_vars

(* No change of state is left unreported when loop() goes on, although       *)
(* update() overwrites what was due (GarageCover.cpp:112-122,                *)
(* main.cpp:523-540).                                                        *)
ChangesAreReported == pc = "loop" => mLastReportedState = mState
=============================================================================
