# TLA+ verification of LoRaNodeGarage

LoRaNodeGarage is the firmware of a LoRa node in a garage: an Arduino that
measures the distance to what stands under it (a car, or none), temperature and
humidity, drives a garage door, and reports to a gateway over a LoRa radio that
may only be on air for a small share of each hour.  This directory holds
TLA+ models of the firmware, TLC configurations that check them on small
instances, and TLAPS proofs of the properties that matter for every value of the
parameters.  Paths below are relative to the repository (`src/...`).

Contents: 1 [inventory](#1-the-system), 2 [modules](#2-the-modules),
3 [runs](#3-the-runs), 4 [fairness](#4-fairness), 5 [proofs](#5-what-is-proved),
6 [disagreements found](#6-where-code-and-documentation-disagree),
7 [not modelled](#7-what-is-not-modelled), 8 [plan](#8-plan).

## 1. The system

One thread runs everything.  `setup()` checks the EEPROM, loads the
configuration and announces every component; `loop()` then (1) once a second
updates all sensors and, if any component has a report due then, reports all of
them in one message, and (2) in every turn calls `LoRaHandler::loraRx()`, which
handles at most one frame and calls back into `main.cpp`.  There are no interrupts and
no threads; the hard behaviour comes from the order of calls within a turn, from
what the world does meanwhile (the door, the wall button, the gateway, the power
supply), from handlers that last seconds, from one buffer used for
reception and transmission, and from unsigned arithmetic.

| component | state | operations | talks to |
|---|---|---|---|
| `RingBuffer<T,N>` | cells, `mFront`, `mBack`, `mFull` | push, pop, back, front, fill, clear | held by `AirTime` |
| `AirTime` | minutes on air, `mTime_ms`, `mLastUpdate_ms` | `update(time)`, `update(start,end)`, `isLimitReached`, `getTime_ppm` | asked and told by `LoRaHandler::sendMsg`; reads `millis()` |
| `LoRaHandler` | `mBuffer`, `mMsgTx`, `mMsgIdUp` | `loraRx`, `parseMsg`, `sendAck`, `sendMsg`, begin/add/end of each message type | the radio, `AirTime`, callbacks of `main.cpp` |
| configuration store (`Ee.h`, `PersistentNumber`, `Number`, `ValueItem`) | RAM value and EEPROM copy of 5 numbers, magic byte | `load`, `save`, `loadValue`, `setValueItem`, erase | `setup()`, value-set requests, EEPROM |
| `GarageCover` | `mState`, `mIsReportDue`, `mLastReportedState` | `callService`, `update`, `setReported` | relay, two end switches, service requests |
| distance, height, presence sensors (`Sensor.h`, `BinarySensor.h`, `BaseComponent.h`) | values, last reported values, report and change times, `mStableState` | `update`, `setReported`, `isReportDue` | main loop; height reads distance and `zeroValue`, presence reads height and the limits |
| `main.cpp` | `lastUpdateSensorsTime`, the component list | `setup`, `loop`, four callbacks | everything |
| `AHT20`, `AHTReader`, temperature, humidity | last reading, read time | busy wait on I2C, read every 2 s | main loop |
| `Device` | component list | lookup by entity id, printing | callbacks |
| `Types.h`, discovery data | constants | layout of announcements and values | messages |
| `Unit`, `Util` | constants | text for the serial monitor | printing |

What makes each of them correct, and what is hard about it:

* **RingBuffer** is a deque of at most N items.  Full and empty differ only in a
  flag, so a long mix of calls at both ends must never leave the flag stale.
* **AirTime** knows exactly how long the radio was on air in each minute of the
  last hour.  Transmissions cross minute boundaries, silences skip minutes or
  hours, times are 32-bit and wrap after 49.7 days, and one wrong slot or sum
  is never repaired.  Because of it the legal duty cycle is kept, and no message
  is dropped that the duty cycle allows, before and after a rollover.
* **LoRaHandler** hands the right callback what the frame said, answers only what
  is addressed to it, sends nothing for an ack but the ack that this asks for
  if it asks for one too, numbers its messages so that
  the gateway can count what it missed, and always returns to `loop()`.  The
  received frame, the ack and the answers share one buffer.
* **Configuration store**: power may fail between any two EEPROM bytes; the next
  start must find a value that was once saved or the default, within range.
* **Handler and cover together**: the same request may come again because its
  ack was lost (ids are not compared), and the relay is pressed from inside a
  callback of `loraRx` that lasts a second.  What the gateway asked for must still
  be what the door does, and nothing else may press the relay.
* **GarageCover** learns of the door from two end switches once a second and acts
  through a push button whose meaning depends on what the door is doing;
  somebody may press the same button at the wall at any time.
* **Sensors and reports**: no large change and no stable state of presence stays
  unreported, flicker uses no airtime, the node reports at least every report
  interval, whatever other reports come in between, and only the duty cycle, which
  drops reports that are marked as made, can keep it silent for longer; a gateway
  that reads the bytes as documented gets the values the node meant, sign included.

PROJECT.json lists the hazards one by one, at their lines, with the properties
that cover them and, where none does, why.

## 2. The modules

### RingBuffer, BoundedDeque, RingBufferCalls
`RingBuffer` has each member function as an operator on a buffer record (cells
and indices), so that `AirTime` can hold one.  `RingBufferCalls` is an object
under any sequence of calls; `BoundedDeque` is the abstract specification, a
sequence of at most N items, and `DequeSpec` says that the first implements the
second under `q <- Contents(rb)`.  The loop of `fill` is given in closed form;
`FillIsTheLoop` says that the loop ends in what the closed form is, cell by cell.  pops,
`back` and `front` are undefined on an empty buffer and not called on one.

### AirTime
The members `mBuf`, `mLastUpdate_ms`, `mTime_ms`, and the locals of the two
`update` functions, whose loops take one step per iteration: `Roll` (the hours
that are skipped), `ShiftMinute` (the `while` of `update(time)`), `AddSlice`
(the `do` of `update(start,end)`, with the asserts of `addToCurrentMinute` as its
guard; a failed assert leads to the label `abort`).  The caller is `sendMsg`:
`SendMsg` asks, `LimitReached` drops, `Transmit(d)` is on air for d ms and
accounts for it.  `clock` is real time, of which `millis()` is the low part;
`aired[c]` is a history variable, the true time on air before clock c, that the
accounts are compared with.

`Spec` allows every schedule of messages and silences.  `LongSpec` is that of the
long runs, across any number of rollovers of `millis()`, under three conditions:
no message is sent in the last, incomplete minute before one (`LastMinute`; the
asserts fail there, section 6), messages are short once the minutes of the two
`update` functions are no longer cut alike (`Short(d)`: such a message fits in a minute
on top of what the gate lets pass; with the real constants and the 1 % limit
that leaves it 24 s, and a LoRa frame of this node takes less than one), and
no silence is within a minute of a whole turn of `millis()` (a difference of 32-bit
times cannot tell that from a short one; the node reports far more often).  Until
the first rollover every run is a long run.

### DutyLimiter
What `sendMsg` promises of the air, without minutes, loops or 32-bit times: it
knows the real past.  `Send` is possible while the airtime of the minutes the gate
is sure to see (`Sure`) is below the limit, `Drop` only when that of the last
hour is not.  `AirTime` implements it (`LimiterSpec == Limiter!Spec`), `phase` being
what `purpose` says of the call in progress.

### LoRaHandler
A frame is six cells: four header bytes, the first payload byte and the rest.
That is as fine as the properties need: an ack overwrites all but the last cell
of a request in `mBuffer`.  `Receive(f, n)` is a packet of n cells, cut short
anywhere (`payload_length` wraps below a header, as in the code);
`ReadFails(f, i)` is the early return when the radio has no byte left.  Then
come, in the code's order, the address check (`DropForeign`), `Ack`, the
returns on acks and unknown types (`Ignore`), `parseMsg` (`Dispatch`), and the
callback: `Ping`, `onDiscoveryReqMsg` with one `SendDiscovery` per component,
`onValueReqMsg`, `onSetOrService`.  `Report` is the report of `loop()`.  Every
transmission may be dropped, as the duty cycle decides.  The model starts with the
announcements of `setup()`.

### Responder
What the node promises its gateway, without buffer, callbacks or program
counter: it serves one request at a time (`Accept`), owes it at most one
ack (`Acknowledge`), then settles which answers it is owed (`Decide`) and gives
them in order, each with the next number (`GiveAnswer`); reports come only when
it is free.  `LoRaHandler` implements it (`ServesAsPromised == R!Spec`) under a
mapping computed from its state: `Serving` is the header in `rx` from the moment
it is parsed until nothing is owed, `Owed` what is left of `todo` or the one
answer of the callback about to be called, `AckOwed` an `ack_request` not yet looked
at, `number` is `mMsgIdUp`.

### ConfigStore
EEPROM byte by byte; `save` is a list of byte writes, low byte first and the
check byte last, as `EEPROM.put` and `EEPROM.write` make them (byte writes are
atomic).  `checkEepromConfig` erases unless the magic byte is right, `Load` is
`loadValue` of one number with the default saved over what cannot be loaded,
`Loaded` writes the magic byte, `setValueItem` is a value-set request: cast to
16 bits, clamp, save.  `PowerFails` may happen between any two steps; RAM is lost
and `setup()` starts again.  Integer widths are kept with BYTE as a parameter.
The check byte is a parameter `crc` that detects every change of one byte (as
CRC8 does, `CrcAssumption`).

The conversions are those of `Ee.h`: the cast to `uint32_t`, its bytes by repeated
division, and `getMaxValue`, by which a negative number counts as truncated.

### GarageCover
`callService` with the number of relay presses per service and state;
`SecondPress` is the press a second later, between which the door moves and the
wall button may be pressed; `update` with the state machine that guesses the
direction from the last state; `Report` and `onValueReqMsg`.  The door is the
environment: it moves step by step, stops at its ends, and each press stops a
moving door or starts a standing one.  Switch readings include both switches
closed at once.  "Reported" means handed to `LoRaHandler`.

### Node
`LoRaHandler` and `GarageCover`, each as an INSTANCE with its own variables, on the
one thread of `loop()`: every action of `Node` is an action of one of them, or of both
at once (a report marks the cover and sends the values; `onServiceReqMsg` decodes the
service the frame brought and calls `callService`), under the condition that the other
stands where the code is (`Idle`: nothing is received or updated while
`activateRelay` waits for the second press; the door goes on moving).  The
channel and the gateway's retries are the freedom of `Receive`: any frame of `Heard`,
any number of times, never, in any order, whole or cut.  Histories: `relay` (this
step pressed the relay), `wanted` (what the gateway's last service should make of the
door, if the cover's state was true when it came), `toldState` and `dropped` (the
state last on the air, and whether the last value message was dropped).

### Messages
The component table of `main.cpp`, the byte of each announcement that says how to
read a value, and the value message: each value cast to 32 bits, its bytes in network
order, its item appended if it fits, counted in any case.  `reading` is the other
end, as `LoRaHandler.h:35-60` documents it: the bytes put together again and taken as
signed if the announcement said so.  Operators only; `Reporting` extends it.

### Aht
The chip behind its I2C bus (external: `ChipDone`, `BusFails`, `BusReturns`), its
start in `AHT20::begin` (`SoftReset` to `CheckCalibrated`; `halt` is the endless
loop of `AHTReader::begin`), the measurement in two parts around the busy wait
(`Trigger`, `Await`, `ReadData`), the 2 s interval (`TooEarly`) and
the two components (`Sense`).  A busy wait is an action that is enabled when the
wait ends; `getStatus` reads as busy *and* calibrated while the bus is down.  The
conversions are those of the code in exact arithmetic (floats round a
little differently).  When the report interval has passed is left open: `Reporting`
has that rule.  `mLastReadTime` starts with the 16-bit `-2000` of the
ATmega build.

### Reporting
`loop()` with `updateSensors` (all components at once, in the order of the
code: distance, the height made of it, the presence made of that), `Report`,
`loraRx` with the requests that matter here, and `Elapse(d)`, by which a turn
took d.  The clock stands still within a turn; what its handlers took passes at the
end.  `largeChange`, `timeToReport`, `LastChanged` and `enteredNewStableState`
are the report rules.  Cover, temperature and humidity appear as `"other"`, due at
any time.  `told` is what the last value message on the air said, sent through
`valueMsg` and `reading` of `Messages`.  Of the history variables, which no action
reads, `quietFor` is the time since the values went on the air (or power came on),
`droppedFor` the time since the duty cycle dropped them, the lesser of the two,
`madeFor`, the time since a report was made at all, and `calmFor` the time since
a report was dropped or a number set.  The code compares whole seconds of intervals
(`(now - last) / 1000 >= interval`), which is the comparison in ms
for the whole-second intervals there are.  The clamp of height to int16 is not
reached by real distances and left out.

## 3. The runs

| run | question | properties | bounds, and why they are enough |
|---|---|---|---|
| `ring_buffer` | Is the ring buffer a deque? | `TypeOK` `FullHasEqualIndices` `FillIsTheLoop` `DequeSpec` | N = 3: a first, a middle and a last cell; three values tell items apart |
| `airtime` | Are the accounts exact, is the duty cycle kept and no message dropped that it allows, do the loops end, before and after a rollover? | `TypeOK` `AssertsHold` `AccountingExact` `DutyCycle` `LimiterSpec` `UpdateReturnsEventually` | an hour of 4 minutes of 2 ms; a transmission spans up to 3 minutes; `millis()` rolls over after 13 ms, in the middle of a minute, and the clock goes on for more than an hour, so that minutes are cut differently and silences of an hour follow traffic on both sides; the limit is met, and `getTime_ppm` saturates |
| `airtime_rollover` | The same asserts when `millis()` rolls over | `AssertsHold`, violated | WORD is no multiple of MINUTE, as 2^32 is none of 60000 |
| `lora` | Dispatch, answers, numbering | `TypeOK` `DispatchIsFaithful` `GapsAreDrops` `EveryTransmissionHasACause` `ServesAsPromised` `HandlerReturns` | ids wrap at 3; two components; every type of request with and without ack, acks that ask for an ack and acks that do not, frames for others and for all, cut after every cell |
| `lora_ack` | A request whose ack was sent | `AckedRequestIsDispatched`, violated | as `lora` |
| `config` | Restarts, saved values, start-up | `TypeOK` `RestartRestores` `SavedIsRestored` `StartsUp` | bytes of 4 values (numbers of 16), a signed and an unsigned number, three power failures: one each for the erasure, a save and the repair of it; the check byte is a sum, weaker than CRC8 |
| `config_negative` | Negative numbers | `NegativeIsRestored`, violated | as `config` |
| `garage_cover` | Services, direction, reports | `TypeOK` `ServiceIsObeyed` `StateFollowsDoor` `ChangesAreReported` `ServiceIsCompleted` | two places between the ends, so that a door is seen moving twice |
| `node` | Does the door do what the gateway asks, and what does the gateway know of it? | `DoorObeysGateway` `GatewayKnowsDoor` `RelayHasACause` `HandlerReturns` | one place between the ends (a door is stopped there, or has reached an end, between two presses); frames with less than a header, without their last byte, and whole; each service, one that asks for an ack, one for another component, for another node and inside an ack, and a value request.  Ids do not matter: there is one |
| `reporting` | Are the right things reported, and in time? | `TypeOK` `LargeChangesAreReported` `StablePresenceIsReported` `FlickerIsNotReported` `OnlyDropsSilence` `GatewayCatchesUp` | unit of a second; report interval 3, turns up to 1 late, `millis()` rolls over every 6, which is the least `TimesAssumption` allows; distances 0 and 3, apart by exactly the hysteresis; `minStableTime` 0 and 2; `zeroValue` 2 and 3 make heights of both signs, in and out of the limits; bytes of 32 values; a payload of 56, into which the eleven items fit exactly |
| `aht` | What is read, shown and reported while the bus fails | `TypeOK` `ReportsFollowReadings` `ReadingsAreFresh` `TriggersAreSpaced` `LoopGoesOn` | real scale and hysteresis; three measurements, a step below and a step at the hysteresis apart; the bus fails and returns at any step; reads every 2, turns up to 1 late, `millis()` rolls over every 8 |
| `aht_hang` | A bus that fails for good | `FailedReadReturns`, violated | as `aht` |

Every property of a passing run is shown not to be vacuous by a mutant
(PROJECT.json): a plausible bug, written in the module as a "Faulty variant"
next to the definition it replaces, under which TLC finds the property violated.

What the properties that are not plain from their names say:

* `AccountingExact`: at every step before `millis()` rolls over, slot k of the
  buffer is the time on air during minute k; `mTime_ms` is the time on air since the
  oldest minute began, exactly before a rollover, and to within what was on the
  air in that one minute after it.
* `DutyCycle`: in every window of N-1 minutes the radio was on air for less than
  the limit plus one message.  Not N minutes: the current minute, which is not
  complete, takes one of the N slots.  After a rollover it is N-2: a slice may be
  charged to the minute before its own, and so be forgotten a minute early.
* `LimiterSpec` is the refinement of `DutyLimiter`: the rule for both outcomes of
  the gate, about real time and not about the accounts.
* `ServesAsPromised` is the refinement of `Responder`.  It allows any order of
  drops but no message out of order, twice, to another node or without a number.
* `DoorObeysGateway`: when no press is outstanding, the door goes or stands as the
  last whole, unacked service wanted, if that service found the cover's state
  true; a wall press ends the obligation.  The ids are not compared
  (`LoRaHandler.cpp:87`, commented out), so this is also what a gateway that repeats
  a request may rely on: a repetition does no harm once the state is true again, and
  nothing is promised before that.
* `GatewayKnowsDoor`: before `loop()` goes on, the state last on the air is the
  cover's, or the last value message was dropped by the duty cycle.
* `RelayHasACause`: a press happens only while a service request to this node is
  handled; if the request is whole, it is for the cover and its ack did not
  overwrite it.  Frames without a whole header are left out (section 6).
* `ServiceIsCompleted`: a door that was asked to open or close gets there, if
  it keeps moving and nobody stops it.
* `DispatchIsFaithful` leaves out requests whose ack was sent: see section 6.
* `RestartRestores` says that a number starts with its default, the value last
  saved, or a value whose save was cut, if at most one save of it was cut since
  it was last whole.  With two cuts in a row (a save, then the save of
  the default over it) it is false in the code, with CRC8 (polynomial 7) too:
  minStableTime 53783 saved over 5000 and cut after two bytes, then the default
  10000 saved over that and cut after one, is read as 53776.
* `StateFollowsDoor` says exactly when the guess of the direction can be trusted:
  as long as each press since the last end was made on a door standing
  at an end that `update` had seen.
* `GatewayCatchesUp`: a dropped report is not repeated, since all components were
  already marked as reported, and a number set from the air makes no report due; but
  one report interval after the last of either the gateway has every value the
  node believes to have told, through the bytes of the messages: signs, widths and the
  room in the payload included.

Deadlock is checked in every run.

## 4. Fairness

The firmware is one thread that is never preempted, so a call in progress runs to
its end: `FairSpec` is weak fairness of `Step`, the disjunction of the steps
*inside* a call.  Nothing is assumed of the environment: no frame need arrive, no
transmission need be made, the door need not move.  In `ConfigStore` `Step` is
`setup()` and the bytes of a save, which run while there is power;
power failures are bounded, so that the last one comes.  In `Aht` the chip
also completes what it began (`WF(ChipDone)`), and `LoopGoesOn` is stated for a
bus that works from some time on.  `GarageCover` has weak fairness of the second press (a second passes) and
of `Move`: a motor that runs moves the door, which `ServiceIsCompleted` needs and
the garage provides.  `Node` is fair to the steps inside a call; `Reporting`
states bounded times instead of liveness and has no fairness.

## 5. What is proved

With TLAPS, for every value of the constants that satisfies the named
assumptions of the modules:

* `RingBufferInvariant` (RingBufferProofs): `Spec => []TypeOK /\
  []FullHasEqualIndices`, for every capacity N > 0.  `Inv`, the conjunction of
  the two, is inductive.
* `RingBufferIsDeque`: `Spec => DequeSpec`.  Each member function is matched with
  the operation of the deque by a lemma of its own (what
  it does to `Contents`), which need `WellFormed`, that is `Inv`: with the flag
  set and unequal indices `size` would count items that are not there.
* `FillIsItsLoop`: `Spec => []FillIsTheLoop`.  The loop is a recursive function of the
  number of its iterations; that it has pushed k items after k of them is shown by
  looking at the least k for which it had not.
* `AirTimeIsExact` (AirTimeProofs): `LongSpec => [](TypeOK /\ AssertsHold /\
  AccountingExact)`, for every number and length of minutes, every limit, every
  transmission and any number of rollovers.
  `AccountingExact` is not inductive by itself.  `IInv` adds
  `AiredInv` (the history grows, and no faster than the clock),
  `MembersInv` (the buffer is full between calls and minutes start at
  multiples of MINUTE), `LocalsInv` (what the locals mean at each label: how
  far `update(start,end)` has accounted, and that the radio was on air since) and
  `CurrentInv` (nothing was on air after the current minute's end that was already
  accounted, so that a shift may append an empty minute), `SharesInv` (there are
  instants at which the minutes of the buffer were cut: each holds what was on air
  from one to the next, and none lies later than `Slack`, which is zero before the
  first rollover and a minute after it) and `PassedInv` (what the gate let
  pass fits in a minute together with the message, so that the asserts hold when a
  slice is charged to the minute before its own).  The instants cannot be
  computed from the state, since the two updates are out of step by a remainder that
  each rollover changes; that some exist is enough.  The proof has a
  lemma per action; those of `ShiftMinute` and `AddSlice` use the ring-buffer
  lemmas, through an instance of `RingBufferProofs`.
* `DutyCycleIsKept`: `LongSpec => []DutyCycle`.
  `GateInv` says that the last transmission began at some time whose window was
  below the limit; `AccountingExact` turns the gate's sum of slots into the
  true airtime of that window, and a later window of the same length that ends
  before the next transmission contains no more than it and the one message.
* `SendMsgIsALimiter`: `LongSpec => LimiterSpec`.  `LimitReached` is `Drop` and
  `Transmit` is `Send`, since the sum is neither less than the airtime of the sure
  minutes nor more than that of the hour; the other steps are `Ask`, `Return`,
  `Tick` or stutter.
* `FirstRunIsLong`: under `NoRollover` (the clock stays a minute away from WORD)
  `Spec => LongSpec`, so that in the first 49 days the three results hold without
  a condition.
* `ServiceAndReports` (GarageCoverProofs): `Spec => []TypeOK /\
  []ServiceIsObeyed /\ []ChangesAreReported`, and `DirectionIsKnown`:
  `Spec => StateFollowsDoor`, for a door of any height TOP >= 2.  No property is
  inductive; `IInv` adds to `TypeOK`
  `DoorInv` (a moving door has not reached the end it moves to),
  `ServiceInv` (between two presses the door stands between its ends and its last
  direction is the one the service wants to undo, so that the second press turns
  it round; otherwise a wall press has cancelled what was asked),
  `SeenInv` (while no press was lost, mState has the end the door left, and a
  door between its ends moves) and `ReportInv` (what is not due has been
  reported).  The proof has a lemma per action, two on what a press does
  (`PressDoes`, `PressKeepsSeen`), one on the number of presses (`Presses`) and two on
  what update() makes of the pins (`Determined`, `Noted`).

* `RequestsAreHandled` and `NothingIsSentWithoutACause` (LoRaHandlerProofs):
  `TypeOK`, `DispatchIsFaithful`, `GapsAreDrops` and `EveryTransmissionHasACause`
  for every number of ids, list of components and set of frames.
  `IInv` adds `BufferInv`, `CountersInv`, `HandlingInv` (how far the frame has been
  looked at, at each label) and `FrameInv` (the header parsed is the one received,
  and the payload is still in the buffer until the ack is built).
* `HandlerImplementsResponder`: `Spec => ServesAsPromised`.  One lemma
  per action says what it does to the mapped state and names the step of
  `Responder` it is, or the stutter.
* `GatewayRulesTheDoor` (NodeProofs): `DoorObeysGateway`, `GatewayKnowsDoor` and
  `RelayHasACause`.  The module takes the results of `LoRaHandlerProofs` and
  `GarageCoverProofs` through instances: each action of `Node` is an action of the
  one, the other or both, so `L!IInv` and `C!IInv` are kept, and four conjuncts tie
  the two together: `PulseInv` (between two presses a service request is being
  handled), `WantedInv` (the gateway wants nothing the cover was not asked for),
  `SaidInv` (what is not due has been said) and `AckInv` (an ack puts `'!'` where
  the entity id was).  `PartsAreTheModules`, `Spec => LP!Spec /\ CP!Spec`,
  carries every other theorem of the two over.
* `ReportsAreMade` (ReportingProofs): all six properties of `Reporting`, for every
  interval, hysteresis, lateness and set of numbers.  `ClockInv` relates the
  remainders modulo WORD to real times: since no second is skipped, no difference
  that is compared is as large as a rollover.  `OnlyDropsSilence` says that the
  values went on the air, or were dropped by the duty cycle, less than INTERVAL
  ago; it does not bound how often they may be dropped in a row.  `DueInv` says what is due until it
  is reported, `ToldInv` what the gateway lacks.  The first part of the module
  shows that `reading` gets back from `valueMsg` what `ValuesOf` put in: every
  16-bit value, negative ones with the announced sign.
* `RestartsFindWhatWasSaved` (ConfigStoreProofs): `TypeOK`, `RestartRestores` and
  `SavedIsRestored`, for every set of numbers and every CRC that detects one changed
  byte.  `MarkedInv` is the core: a number whose save was not cut is `Whole`; a
  save of which at most one byte is written is detected by the check byte; once
  two bytes are written the low half is the new value's, and the other half is
  the same for all values that load, since the upper half of a negative number is
  never read as a value.  `SaveInv` and `EraseInv` say which bytes of a write in
  progress are there, `UnmarkedInv` that nothing but defaults is there before the
  magic byte.
* `ReadingsAreReported` (AhtProofs): `TypeOK`, `ReportsFollowReadings`,
  `ReadingsAreFresh` and `TriggersAreSpaced`, for every interval, lateness,
  hysteresis and scale of the chip.  The heart of it is time: `SecondInv` says that
  the once-a-second update is never later than it may be, `HasRead` that the
  last read is then younger than `Patience` and that the bus has failed, or a
  reading come, since it; `NeverRead` is the same before the first
  read, when `mLastReadTime` lies before the clock's zero.  `BusInv`, `ShownInv` and `NearInv`
  tie the values shown to the last reading and to what was reported.

* The measures behind the liveness properties.  Liveness is checked by TLC, but the
  number each of these arguments counts down is proved to be a natural number and to
  become less with each step, for every value of the constants:

  | theorem | behind | what counts down |
  |---|---|---|
  | `UpdateEnds` (AirTimeProofs) | `UpdateReturnsEventually` | the ms the minutes lag behind, and the ms of the message that are not accounted |
  | `HandlerEnds` (LoRaHandlerProofs) | `HandlerReturns` | the labels and the announcements left |
  | `SetupEnds` (ConfigStoreProofs) | `StartsUp` | the bytes and numbers left; only a power failure adds to them |
  | `DoorGetsThere` (GarageCoverProofs) | `ServiceIsCompleted` | the presses to come and the places to pass; a repeated service adds none |
  | `ServiceEnds` (NodeProofs) | `HandlerReturns` of `Node` | what the handler has left, and the second press; the world adds nothing |
  | `TurnEnds` (AhtProofs) | `LoopGoesOn` | the labels left, and what the chip has to complete |

  With weak fairness of the steps that count (section 4) each gives the property,
  provided that such a step is possible.  `DoorGetsThere` and `TurnEnds` say so
  without ENABLED (a door that has a way to go waits for a press or moves; a wait
  whose bus works is one for the chip); for the others TLC checks it.

The inductive invariants, and the parts they are made of, stand at the head of the
proof modules; the component modules hold what models the code and what is
claimed of it.

The assumptions are those on the constants, which TLC evaluates in the runs.  The
conditions of `LongSpec` are needed: without the first the asserts fail
(section 6); TLC finds them violated without the second, and
`AccountingExact` without the third, on the instance of `airtime`.  Those that say something of the code: `HeardAssumption`
and `HandlerAssumption` (frames have the fields of a header and two payload
bytes), `CoverAssumption` (the cover is a component and its id is not that of
`'!'`), `TimesAssumption` (the interval is not zero, and an interval, a second and
the lateness of `loop()` together are less than a rollover; in `Aht`, that a read
interval, a second and the lateness are less than the number of values of an
`unsigned int`, in which `mLastReadTime` starts), `ConfigsAssumption`
(numbers and heights fit in 16 bits, `minStableTime` is not longer than the report
interval), `HysteresisAssumption` (no hysteresis is zero), `PayloadAssumption` (all items fit in a payload),
`RangesAssumption` (defaults are in range and ranges in the type),
`MagicAssumption` (the magic byte is not that of an erased cell),
`CrcAssumption`, and LIMIT <= PPM_MAX (a limit above what `getTime_ppm` can show
would never be reached).

Only model-checked: the liveness properties themselves, `UpdateReturnsEventually`,
`HandlerReturns` (of `LoRaHandler` and of `Node`), `StartsUp`, `ServiceIsCompleted` and
`LoopGoesOn`, since neither fairness nor ENABLED is within the prover's reach.

## 6. Where code and documentation disagree

With a run that shows it:

1. `airtime_rollover`: a transmission in the last 47296 ms before `millis()`
   rolls over makes `update(start, end)` use a wrapped minute boundary
   (`AirTime.cpp:40`), and the assert at `AirTime.cpp:30` fails.
   Checked by hand with the real constants: 2^32 = 71582 * 60000 + 47296.
2. `lora_ack`: the ack is built in `mBuffer` before the request is parsed from
   it (`LoRaHandler.cpp:98-115`), so the callback gets entity id 33, the `'!'` of
   the ack; `LoRaHandler_test.cpp:411` expects the entity id of the request.
3. `aht_hang`: `AHT20::getStatus` returns 0xFF on a bus error, in which the busy
   bit is set, so the busy wait of `getMeasurements` (`AHT20.cpp:54`) does not end
   while the bus is down; `AHT20.h:48` says that it returns false.
4. `config_negative`: a negative number is not restored
   (`Ee.h:124`, `PersistentNumber.h`), `PersistentNumber_test.cpp:339`
   expects that it is.

Without a run of its own, met while modelling:

* `value_req` is documented with entity ids (`LoRaHandler.h:51-52`); the code
  reports all entities (`LoRaHandler.cpp:148-152`).
* `valueSet_req` is documented with a leading number of entities
  (`LoRaHandler.h:62-68`); `LoRaHandler.cpp:154-162` reads the entity id first.
* A service request without its service byte dispatches an uninitialised
  item (`LoRaHandler.cpp:173-179`): any value in the model.
* All components are marked as reported before the duty cycle may drop the
  message (`main.cpp:340-346`).
* A bus error at the last check of `AHT20::begin` reads as "calibrated"
  (`AHT20.cpp:33`).
* The cover announces the range 0..0 for its state and sends 0..3
  (`Cover.cpp:59-60`, `Cover.h:24`).
* A packet shorter than a header is handled with the rest of its header, and its
  payload, taken from the frame before it in `mBuffer` (`LoRaHandler.cpp:37-59`):
  two bytes for this node may repeat the service before, relay included.
* `AHTReader.h:41` speaks of a valid checksum; none is read.
* `README.md:52-62` lists configuration items for report intervals that do not
  exist in the code.
* A configuration number that was changed is reported only with the next report
  that is due for another reason.

## 7. What is not modelled

* The cipher of `LoRaHandler`: no cipher is ever set; its objects are commented
  out in `main.cpp`.
* Names, device classes, units and ranges in announcements, and everything printed
  (`Unit`, `Util`, the `printTo` functions): tables and text without state.
* The rest of `Device` beyond its lookup; the functions nothing calls (the reports of
  a single component, the setters without a caller).
* Starting the radio: `setup()` ends there if it fails.
* The libraries: the radio, EEPROM, CRC8 and the I2C bus appear as the code uses
  them.
* Frames lost while a handler runs are frames that are never received.
* Packets that are longer than `mBuffer`.  `loraRx` copies `packetSize` bytes into
  the 150 of `mBuffer` without a bound (`LoRaHandler.cpp:37-48`), and `main.cpp:543`
  notes that the call "crashes sometimes".  What a longer packet overwrites is
  undefined, so nothing is said of it: every frame of `LoRaHandler` and `Node` fits,
  and their properties are those of a node that receives only such frames.

## 8. Plan

In order; done:

1. `RingBuffer`, its abstract deque, refinement and proofs.
2. `AirTime` across rollovers, `DutyLimiter`, and the proofs that the accounts are exact,
   that the duty cycle is kept and that the first implements the second.
3. `LoRaHandler` with the callbacks; its invariants proved.
4. `ConfigStore` with power failures, and its proofs.
5. `GarageCover` with the door, and its proofs.
6. `Reporting`: main loop and sensors, and their proofs; `Messages` below it.
7. `Aht`: chip, bus, reader, temperature and humidity, and their proofs.
8. `Node`: `LoRaHandler` and `GarageCover` under a channel that loses, repeats, cuts
   and reorders, and its proofs.
9. `Responder`, which `LoRaHandler` implements, with the proof.

Left:

10. `AirTime` in place of the free choice of `LoRaHandler` whether a message is
    dropped, so that the gateway's knowledge is bounded by the traffic.
11. A gateway that repeats a request until its ack arrives, as a process of its own
    next to `Node`; `Node` allows its every behaviour, but not to say when it stops.
