----------------------------- MODULE Reporting -----------------------------
(***************************************************************************)
(* loop() of main.cpp with the sensors it updates and reports: the         *)
(* distance to what stands under the sensor, the height made of it, and    *)
(* the presence of a car made of the height (DistanceSensor.cpp,           *)
(* HeightSensor.cpp, PresenceBinarySensor.cpp, Sensor.h, BinarySensor.h,   *)
(* BaseComponent.h), and what a gateway that reads the value messages has  *)
(* been told.                                                              *)
(*                                                                         *)
(* millis() is the clock modulo WORD.  It stands still while a handler     *)
(* runs; what the handlers of one turn of loop() took, together, passes at *)
(* its end.  Whether the duty cycle lets a report out is left open.        *)
(***************************************************************************)
EXTENDS Messages

CONSTANTS
  WORD,        \* number of values of a uint32_t
  UPDATE,      \* UPDATE_SENSORS_INTERVAL, in ms
  INTERVAL,    \* CONFIG_REPORT_INTERVAL_DEFAULT, the same for all, in ms
  HYSTERESIS,  \* CONFIG_REPORT_HYSTERESIS_DEFAULT, the same for both
  Distances,   \* bound: what ping_cm() may return
  Configs,     \* bound: values of the configuration numbers
  MaxLag       \* bound: how far a turn of loop() may fall behind

ASSUME TimesAssumption ==
  /\ UPDATE \in Nat \ {0} /\ INTERVAL \in Nat \ {0} /\ MaxLag \in Nat
  /\ HYSTERESIS \in Nat \ {0}
  /\ WORD \in Nat /\ INTERVAL + UPDATE + MaxLag < WORD
int16 == -((BYTE * BYTE) \div 2)..((BYTE * BYTE) \div 2 - 1)
ASSUME ConfigsAssumption ==
  /\ Configs \subseteq [zeroValue : int16, lowLimit : int16, highLimit : int16,
                        minStableTime : 0..INTERVAL]
  /\ \A c \in Configs : c.minStableTime < BYTE * BYTE
  /\ Distances \subseteq int16
  /\ \A c \in Configs, cm \in Distances : c.zeroValue - cm \in int16

VARIABLES
  clock, lastUpdateSensorsTime,
  config,     \* the persistent numbers
  value,      \* what the sensors show
  reported,   \* mLastReportedValue and mLastReportedState
  mLastReportTime, mLastChangedTime, mStableState,
  due,        \* the components whose mIsReportDue is set
  pc,         \* where loop() is
  heldFor,    \* history: real time since presence changed, up to INTERVAL
  quietFor,   \* history: real time since a report went on the air, or since
              \* power came on, up to INTERVAL
  droppedFor, \* history: real time since the duty cycle dropped a report, up to
              \* INTERVAL
  calmFor,    \* history: real time since a report was dropped or a number
              \* was set, up to INTERVAL
  told        \* history: what the last value message on the air said

members == <<value, reported, mLastReportTime, mLastChangedTime, mStableState>>
history == <<heldFor, quietFor, droppedFor, calmFor, told>>
vars == <<clock, lastUpdateSensorsTime, config, value, reported,
          mLastReportTime, mLastChangedTime, mStableState, due, pc,
          heldFor, quietFor, droppedFor, calmFor, told>>

Sensors == {"distance", "height", "presence"}
Zeros == [distance |-> 0, height |-> 0, presence |-> FALSE]

\* The entities that are modelled here, and what their value items hold.
Shown == {distanceSensor, heightSensor, carPresenceSensor, heightSensorZeroValue,
          carPresenceSensorLowLimit, carPresenceSensorHighLimit,
          carPresenceSensorMinStableTime}
ValuesOf(v, c) ==
  [e \in EntityIds |->
     CASE e = distanceSensor -> v.distance
       [] e = heightSensor -> v.height
       [] e = carPresenceSensor -> boolAsUint32(v.presence)
       [] e = heightSensorZeroValue -> c.zeroValue
       [] e = carPresenceSensorLowLimit -> c.lowLimit
       [] e = carPresenceSensorHighLimit -> c.highLimit
       [] e = carPresenceSensorMinStableTime -> c.minStableTime
       [] OTHER -> 0]

\* Unsigned subtraction.
Since(t) == (clock - t) % WORD
-----------------------------------------------------------------------------
(* updateSensors                                                             *)

absDiffLastReportedValue(s) ==
  IF value'[s] >= reported[s] THEN value'[s] - reported[s]
  ELSE reported[s] - value'[s]

\* Faulty variant: only a change beyond the hysteresis counts.
largeChange_Exclusive(s) == absDiffLastReportedValue(s) > HYSTERESIS

largeChange(s) == absDiffLastReportedValue(s) >= HYSTERESIS

\* Faulty variant: a deadline is compared, not a difference.
timeToReport_Deadline == clock >= mLastReportTime + INTERVAL

timeToReport == Since(mLastReportTime) >= INTERVAL

\* Height and presence are made of the values just set.
Measured(cm) ==
  LET height == config.zeroValue - cm
  IN  [distance |-> cm, height |-> height,
       presence |-> height >= config.lowLimit /\ height <= config.highLimit]

Changed == value'.presence # value.presence

\* Faulty variant: the time of the change is noted only in a stable state.
LastChanged_WhenStable ==
  mLastChangedTime' = IF Changed /\ mStableState THEN clock ELSE mLastChangedTime

\* Faulty variant: the time is noted at every update until the state is stable.
LastChanged_UntilStable ==
  mLastChangedTime' = IF Changed \/ ~mStableState THEN clock ELSE mLastChangedTime

LastChanged == mLastChangedTime' = IF Changed THEN clock ELSE mLastChangedTime

enteredNewStableState ==
  /\ Changed \/ ~mStableState
  /\ (clock - mLastChangedTime') % WORD >= config.minStableTime

\* Faulty variant: the time of the last update is wider than millis().
NextSecond_Wide == lastUpdateSensorsTime + UPDATE

NextSecond == (lastUpdateSensorsTime + UPDATE) % WORD

\* One second has passed: every component is updated.  The configuration
\* numbers keep their flag; the cover, temperature and humidity ("other") may
\* be due at any time.
updateSensors ==
  /\ pc = "loop"
  /\ Since(lastUpdateSensorsTime) >= UPDATE
  /\ lastUpdateSensorsTime' = NextSecond
  /\ \E cm \in Distances : value' = Measured(cm)
  /\ LastChanged
  /\ mStableState' = (enteredNewStableState \/ (mStableState /\ ~Changed))
  /\ \E other \in SUBSET {"other"} :
       due' = (due \cap {"number"}) \cup other
                \cup {s \in {"distance", "height"} : largeChange(s)}
                \cup (IF enteredNewStableState THEN {"presence"} ELSE {})
                \cup (IF timeToReport THEN Sensors ELSE {})
  /\ pc' = "report"
  /\ heldFor' = IF Changed THEN 0 ELSE heldFor
  /\ UNCHANGED <<clock, config, reported, mLastReportTime,
                 quietFor, droppedFor, calmFor, told>>
-----------------------------------------------------------------------------
(* The reports, and the rest of a turn of loop().                            *)

\* setReported of every component.
setReported == due' = {} /\ reported' = value /\ mLastReportTime' = clock

\* Every component is marked as reported before endMsg sends or drops.
sendSensorValueForAllComponents ==
  /\ setReported
  /\ \/ /\ LET msg == valueMsg(ValuesOf(value, config))
           IN  told' = [e \in Shown |-> reading(msg, e)]
        /\ quietFor' = 0
        /\ UNCHANGED <<droppedFor, calmFor>>
     \/ /\ droppedFor' = 0 /\ calmFor' = 0
        /\ UNCHANGED <<quietFor, told>>
  /\ UNCHANGED <<clock, lastUpdateSensorsTime, value, mLastChangedTime,
                 mStableState, heldFor>>

\* loop() asks isReportDue after updateSensors.
Report ==
  /\ pc = "report"
  /\ \/ due # {} /\ sendSensorValueForAllComponents
     \/ /\ due = {}
        /\ UNCHANGED <<clock, lastUpdateSensorsTime, members, due, history>>
  /\ pc' = "rx"
  /\ UNCHANGED config

\* loraRx is called in every turn.
loraRx(handler) ==
  /\ pc = "rx" \/ (pc = "loop" /\ Since(lastUpdateSensorsTime) < UPDATE)
  /\ handler
  /\ pc' = "took"

NoRequest ==
  UNCHANGED <<clock, lastUpdateSensorsTime, config, members, due, history>>

onValueReqMsg == sendSensorValueForAllComponents /\ UNCHANGED config

\* setValueItem of a configuration number; its report does not become due.
onValueSetReqMsg ==
  /\ config' \in Configs
  /\ \E n \in DOMAIN config : config' = [config EXCEPT ![n] = config'[n]]
  /\ calmFor' = 0
  /\ UNCHANGED <<clock, lastUpdateSensorsTime, members, due, heldFor, quietFor,
                 droppedFor, told>>

Later(h, d) == IF h + d < INTERVAL THEN h + d ELSE INTERVAL

\* The turn of loop() took d.
Elapse(d) ==
  /\ pc = "took"
  /\ Since(lastUpdateSensorsTime) + d <= UPDATE + MaxLag
  /\ clock' = (clock + d) % WORD
  /\ heldFor' = Later(heldFor, d)
  /\ quietFor' = Later(quietFor, d)
  /\ droppedFor' = Later(droppedFor, d)
  /\ calmFor' = Later(calmFor, d)
  /\ pc' = "loop"
  /\ UNCHANGED <<lastUpdateSensorsTime, config, members, due, told>>

\* setup() has just announced the components, which took some seconds.
Init ==
  /\ clock \in 0..(UPDATE + MaxLag) /\ lastUpdateSensorsTime = 0
  /\ config \in Configs
  /\ value = Zeros /\ reported = Zeros
  /\ mLastReportTime = 0 /\ mLastChangedTime = 0 /\ mStableState = FALSE
  /\ due = Sensors \cup {"number", "other"}
  /\ pc = "loop"
  /\ heldFor = Later(0, clock) /\ quietFor = Later(0, clock)
  /\ droppedFor = INTERVAL /\ calmFor = 0 /\ told = [e \in Shown |-> 0]

Next ==
  \/ updateSensors
  \/ Report
  \/ loraRx(NoRequest)
  \/ loraRx(onValueReqMsg)
  \/ loraRx(onValueSetReqMsg)
  \/ \E d \in 0..(UPDATE + MaxLag) : Elapse(d)

Spec == Init /\ [][Next]_vars
-----------------------------------------------------------------------------
(* Every variable has a value of its kind. *)
TypeOK ==
  /\ clock \in 0..(WORD - 1) /\ lastUpdateSensorsTime \in 0..(WORD - 1)
  /\ mLastReportTime \in 0..(WORD - 1) /\ mLastChangedTime \in 0..(WORD - 1)
  /\ config \in Configs
  /\ told \in [Shown -> Int]
  /\ \A v \in {value, reported} :
       /\ v.distance \in Int /\ v.height \in Int /\ v.presence \in BOOLEAN
  /\ mStableState \in BOOLEAN
  /\ due \subseteq Sensors \cup {"number", "other"}
  /\ pc \in {"loop", "report", "rx", "took"}
  /\ heldFor \in 0..INTERVAL /\ quietFor \in 0..INTERVAL
  /\ droppedFor \in 0..INTERVAL /\ calmFor \in 0..INTERVAL

(* Once a second has been dealt with, no change as large as the hysteresis   *)
(* is left unreported, although each update sets the flag anew and the       *)
(* reports are of all components at once (DistanceSensor.cpp:10-28,          *)
(* HeightSensor.cpp:11-26, main.cpp:262-347).                                *)
LargeChangesAreReported ==
  pc = "rx" =>
    \A s \in {"distance", "height"} :
      /\ value[s] - reported[s] < HYSTERESIS
      /\ reported[s] - value[s] < HYSTERESIS

(* A state of presence that has lasted minStableTime has been reported,      *)
(* whatever flickering went before, whichever other reports came in between  *)
(* and whenever minStableTime was changed (PresenceBinarySensor.cpp:9-38).   *)
StablePresenceIsReported ==
  pc = "rx" /\ heldFor >= config.minStableTime => reported.presence = value.presence

\* Real time since a report was made, whether it was sent or dropped.
madeFor == IF quietFor < droppedFor THEN quietFor ELSE droppedFor

(* Presence makes a report due only for a state that has lasted              *)
(* minStableTime, or because no report was made, sent or dropped, for        *)
(* INTERVAL: a flickering presence uses up no airtime                        *)
(* (PresenceBinarySensor.cpp:17-37).                                         *)
FlickerIsNotReported ==
  pc = "report" /\ "presence" \in due =>
    heldFor >= config.minStableTime \/ madeFor >= INTERVAL

(* Only the duty cycle silences the node: once a second has been dealt with, *)
(* the gateway was sent the values less than INTERVAL ago, or the duty cycle *)
(* dropped them less than INTERVAL ago, so that a dropped report is tried    *)
(* again in time; also when millis() rolls over (DistanceSensor.cpp:19-26,   *)
(* BaseComponent.h:53-60, main.cpp:328-347, LoRaHandler.cpp:215-219).  How   *)
(* long the duty cycle may go on dropping is left open.                      *)
OnlyDropsSilence == pc = "rx" => quietFor < INTERVAL \/ droppedFor < INTERVAL

(* A report that is marked as made but was dropped is made up for, and so is *)
(* a number whose change makes no report due: INTERVAL after the last drop   *)
(* and the last change, a gateway that reads the messages as documented has  *)
(* every value, the negative ones too, that the node believes to have told   *)
(* it (main.cpp:328-347, LoRaHandler.cpp:215-219, 303-336, Types.h:51-86).   *)
GatewayCatchesUp ==
  pc = "rx" /\ calmFor >= INTERVAL =>
    LET x == ValuesOf(reported, config)
    IN  \A e \in Shown : told[e] = x[e]
=============================================================================
