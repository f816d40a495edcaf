-------------------------------- MODULE Node --------------------------------
(***************************************************************************)
(* The node as its gateway and the door see it: LoRaHandler and            *)
(* GarageCover on the one thread of loop() (main.cpp), with onServiceReqMsg *)
(* between them.  While activateRelay waits between two presses the        *)
(* handler waits for it: the door moves, but nothing is received, updated  *)
(* or reported.                                                            *)
(*                                                                         *)
(* Frames reach loraRx in any order, any number of times or never, whole   *)
(* or cut: what the channel loses or repeats, what a gateway sends again   *)
(* for want of an ack, and what the radio misses while the node is busy.   *)
(***************************************************************************)
EXTENDS Integers, Sequences

CONSTANTS ID_WORD, mMyAddress, mGatewayAddress, Broadcast, components,
          AllEntities, AckMark, Heard,
          garageCover,   \* the entity id of the cover
          Lengths,       \* bound: how many cells of a frame may come
          TOP

ASSUME LengthsAssumption == Lengths \subseteq 1..6

VARIABLES
  mBuffer, mMsgIdUp, lpc, rx, item, todo, got, tx, lastUp, missed,
  mState, mIsReportDue, mLastReportedState, pulses, cpc, pos, dir, last,
  seen, lost, asked,
  relay,     \* history: this step pressed the relay
  wanted,    \* history: what the last service of the gateway should make of
             \* the door, if mState was true when it came
  toldState, \* history: the state of the door that was last on the air
  dropped    \* history: the duty cycle dropped the last value message

L == INSTANCE LoRaHandler WITH pc <- lpc
C == INSTANCE GarageCover WITH pc <- cpc

\* What the two modules assume; the cover is a component, and not mistaken for
\* another when the mark of an ack is taken for an entity id.
ASSUME HandlerAssumption ==
  /\ ID_WORD \in Nat \ {0} /\ components \in Seq(Nat) /\ AllEntities \in Nat
  /\ mMyAddress \in Nat /\ mGatewayAddress \in Nat
  /\ Heard \subseteq [dst : Nat, src : Nat, id : Nat, flags : L!Flags,
                      p0 : Nat, p1 : Nat]
ASSUME CoverAssumption ==
  /\ TOP \in Nat /\ TOP >= 2
  /\ AckMark # garageCover /\ \E i \in 1..Len(components) : components[i] = garageCover

lvars == <<mBuffer, mMsgIdUp, lpc, rx, item, todo, got, tx, lastUp, missed>>
cvars == <<mState, mIsReportDue, mLastReportedState, pulses, cpc, pos, dir,
           last, seen, lost, asked>>
told == <<toldState, dropped>>
vars == <<lvars, cvars, relay, wanted, told>>

Init ==
  /\ L!Init /\ C!Init
  /\ relay = FALSE /\ wanted = "UNKNOWN"
  /\ toldState = "CLOSED" /\ dropped = TRUE

\* loop() is at the start of a turn or between updateSensors and loraRx.
Idle == lpc = "idle" /\ cpc = "loop" /\ pulses = 0
-----------------------------------------------------------------------------
(* The world.                                                                *)

DoorMoves == C!Move /\ relay' = FALSE /\ UNCHANGED <<lvars, wanted, told>>

WallButton ==
  /\ C!WallButton
  /\ relay' = FALSE /\ wanted' = "UNKNOWN"
  /\ UNCHANGED <<lvars, told>>
-----------------------------------------------------------------------------
(* loop().                                                                   *)

\* A second has passed: the cover is updated.
updateSensors(r) ==
  /\ Idle
  /\ C!update(r)
  /\ relay' = FALSE /\ UNCHANGED <<lvars, wanted, told>>

\* What the value message that was just made tells the gateway.
Tell ==
  /\ dropped' = (tx' = L!Silence)
  /\ toldState' = IF tx' = L!Silence THEN toldState ELSE mState

\* Faulty variant: a report that is due for the cover alone is not sent.
Report_OthersOnly ==
  /\ lpc = "idle"
  /\ C!Report
  /\ \/ C!ReportAll /\ L!Report /\ Tell
     \/ UNCHANGED <<lvars, told>>
  /\ relay' = FALSE /\ UNCHANGED wanted

\* All components are reported, or none is due.
Report ==
  /\ lpc = "idle"
  /\ C!Report
  /\ \/ C!ReportAll /\ L!Report /\ Tell
     \/ ~mIsReportDue /\ UNCHANGED <<mState, mIsReportDue, mLastReportedState>>
        /\ UNCHANGED <<lvars, told>>
  /\ relay' = FALSE /\ UNCHANGED wanted

\* loraRx finds a packet.
Receive ==
  /\ Idle
  /\ \E f \in Heard :
       \/ \E n \in Lengths : L!Receive(f, n)
       \/ \E i \in Lengths : i < Len(L!Cells) /\ L!ReadFails(f, i)
  /\ relay' = FALSE /\ UNCHANGED <<cvars, wanted, told>>

\* What does not concern the cover.
Handle ==
  /\ \/ L!DropForeign \/ L!Ack \/ L!Ignore \/ L!Dispatch \/ L!Ping
     \/ L!onDiscoveryReqMsg \/ L!SendDiscovery \/ L!DiscoveryDone
     \/ L!Calls("valueSet_req") /\ L!onSetOrService
  /\ relay' = FALSE /\ UNCHANGED <<cvars, wanted, told>>

onValueReqMsg ==
  /\ L!onValueReqMsg /\ C!onValueReqMsg /\ Tell
  /\ relay' = FALSE /\ UNCHANGED wanted

\* Faulty variant: CLOSE and STOP are exchanged.
serviceDecode_Swapped(service) ==
  CASE service = 0 -> "OPEN" [] service = 1 -> "STOP"
    [] service = 2 -> "CLOSE" [] service = 3 -> "TOGGLE" [] OTHER -> "UNKNOWN"

\* Cover::serviceDecode
serviceDecode(service) ==
  CASE service = 0 -> "OPEN" [] service = 1 -> "CLOSE"
    [] service = 2 -> "STOP" [] service = 3 -> "TOGGLE" [] OTHER -> "UNKNOWN"

\* Faulty variant: there is only one component that has services.
IsCover_Always(e) == L!Known(e) \/ e # garageCover

\* Device::getComponentByEntityId finds the cover.
IsCover(e) == L!Known(e) /\ e = garageCover

\* The gateway's service for the cover: the frame is whole and was not
\* overwritten by its ack.
AsSent == L!Whole /\ ~got.acked /\ got.frame.p0 = garageCover

\* The service with number s in CoverService.
Meant(s) ==
  IF s \in 0..3 THEN <<"OPEN", "CLOSE", "STOP", "TOGGLE">>[s + 1] ELSE "UNKNOWN"

\* The callback is called.  It returns at once, or after the second press.
onServiceReqMsg ==
  /\ L!Calls("service_req") /\ pulses = 0
  /\ wanted' = IF AsSent /\ C!StateIsTrue THEN C!Expected(Meant(got.frame.p1))
               ELSE IF AsSent \/ IsCover(item.entityId) THEN "UNKNOWN" ELSE wanted
  /\ IF IsCover(item.entityId)
     THEN /\ C!callService(serviceDecode(item.arg))
          /\ relay' = (C!timesFor(serviceDecode(item.arg)) > 0)
          /\ IF pulses' = 0 THEN L!onSetOrService ELSE UNCHANGED lvars
     ELSE L!onSetOrService /\ relay' = FALSE /\ UNCHANGED cvars
  /\ UNCHANGED told

\* Faulty variant: the loop of activateRelay does not count down.
SecondPress_Again ==
  /\ pulses > 0 /\ C!Press /\ UNCHANGED <<mState, mIsReportDue, mLastReportedState>>
  /\ UNCHANGED <<pulses, cpc, asked, lvars>>
  /\ relay' = TRUE /\ UNCHANGED <<wanted, told>>

\* A second later.
SecondPress ==
  /\ C!SecondPress
  /\ relay' = TRUE
  /\ IF pulses' = 0 THEN L!onSetOrService ELSE UNCHANGED lvars
  /\ UNCHANGED <<wanted, told>>

Step == Handle \/ onValueReqMsg \/ onServiceReqMsg \/ SecondPress

Next ==
  \/ DoorMoves \/ WallButton
  \/ \E r \in C!Readings : updateSensors(r)
  \/ Report \/ Receive \/ Step

Spec == Init /\ [][Next]_vars

\* The firmware is one thread: a call in progress runs to its end.
FairSpec == Spec /\ WF_vars(Step)
-----------------------------------------------------------------------------
(* What the gateway asks for happens: a service that arrives whole, did not  *)
(* ask for an ack, or got none, and found the state true leaves the door     *)
(* going, or standing, where the gateway wanted it, whatever was received    *)
(* before and however often, and whatever moved meanwhile                    *)
(* (LoRaHandler.cpp:173-179, main.cpp:572-578, Cover.cpp:85-98,              *)
(* GarageCover.cpp:10-60).  So a request that is repeated does no harm once  *)
(* the state is true again.                                                  *)
DoorObeysGateway ==
  pulses = 0 =>
    CASE wanted = "OPEN" -> dir = 1 \/ pos = TOP
      [] wanted = "CLOSE" -> dir = -1 \/ pos = 0
      [] wanted = "STOP" -> dir = 0
      [] OTHER -> TRUE

(* Nothing else presses the relay: it is pressed only while a service        *)
(* request to this node is handled, at most twice for each, never for an ack *)
(* and, if the request is whole, only for the cover and only if its ack did  *)
(* not overwrite it (LoRaHandler.cpp:78-123, 173-179, main.cpp:572-578).     *)
(* Frames without a whole header are left out: the rest of their header is   *)
(* that of the frame before.                                                 *)
RelayHasACause ==
  [][relay' /\ got.n >= L!HEADER =>
       /\ lpc = "call"
       /\ got.frame.dst \in {mMyAddress, Broadcast}
       /\ got.frame.flags.msgType = "service_req"
       /\ ~got.frame.flags.ack_response
       /\ L!Whole => AsSent]_vars

(* The gateway knows what the door is doing, as far as the node does: before *)
(* loop() goes on, the state of the cover is the one last on the air, unless *)
(* the duty cycle dropped the last value message (main.cpp:328-347, 523-540, *)
(* GarageCover.cpp:112-122).                                                 *)
GatewayKnowsDoor == cpc = "loop" => toldState = mState \/ dropped

(* The handler returns to loop() although a service presses the relay twice  *)
(* with a second between (LoRaHandler.cpp:173-179, GarageCover.cpp:10-21).   *)
HandlerReturns == lpc # "idle" ~> lpc = "idle"
=============================================================================
