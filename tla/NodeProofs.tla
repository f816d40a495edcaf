----------------------------- MODULE NodeProofs -----------------------------
(***************************************************************************)
(* The handler and the cover keep on one thread what each promises on its  *)
(* own, and together what the gateway is promised: for a door of any       *)
(* height and any frames, addresses and components.                        *)
(***************************************************************************)
EXTENDS Node, TLAPS

\* The handler and the cover again, with what is proved of them.
LP == INSTANCE LoRaHandlerProofs WITH pc <- lpc
CP == INSTANCE GarageCoverProofs WITH pc <- cpc

-----------------------------------------------------------------------------
(* The inductive invariant behind the safety properties of Node: those of the*)
(* two modules, and what holds between them.                                 *)

\* Between two presses a service request for the cover is being handled.
PulseInv == pulses > 0 => L!Calls("service_req") /\ IsCover(item.entityId)

\* The gateway wants nothing of the door that the cover was not asked for.
WantedInv == wanted \in {"UNKNOWN", asked}

\* What is not due has been said.
SaidInv == cpc = "loop" \/ ~mIsReportDue => toldState = mState \/ dropped

\* The ack takes the place of the entity id.
AckInv ==
  /\ lpc \in {"received", "answered"} /\ got.n >= L!HEADER =>
       rx.payload_length = got.n - L!HEADER
  /\ lpc = "answered" /\ got.acked => mBuffer.p0 = AckMark
  /\ L!Calls("service_req") /\ L!Whole /\ got.acked => item.entityId = AckMark

IInv == LP!IInv /\ CP!IInv /\ PulseInv /\ WantedInv /\ SaidInv /\ AckInv
-----------------------------------------------------------------------------
(* The terms of its invariant are those of Node's handler. *)
LEMMA SameTerms ==
  /\ (LP!ForMe <=> L!ForMe) /\ (LP!IsRequest <=> L!IsRequest)
  /\ LP!HEADER = L!HEADER /\ LP!NoRx = L!NoRx
  /\ \A f : LP!Header(f) = L!Header(f)
  /\ LP!DispatchIsFaithful <=> L!DispatchIsFaithful
<1>1. (LP!ForMe <=> L!ForMe) /\ (LP!IsRequest <=> L!IsRequest)
  BY DEF L!ForMe, L!IsRequest, LP!ForMe, LP!IsRequest
<1>2. /\ LP!HEADER = L!HEADER /\ LP!NoRx = L!NoRx
      /\ \A f : LP!Header(f) = L!Header(f)
  BY DEF L!HEADER, L!NoRx, L!Silence, L!Header,
         LP!HEADER, LP!NoRx, LP!Silence, LP!Header
<1>3. LP!DispatchIsFaithful <=> L!DispatchIsFaithful
  BY DEF L!DispatchIsFaithful, L!Faithful, L!Whole, L!HEADER,
         LP!DispatchIsFaithful, LP!Faithful, LP!Whole, LP!HEADER
<1>. QED
  BY <1>1, <1>2, <1>3

(* The lemmas of LoRaHandlerProofs are about the handler of Node. *)
LEMMA SameHandler ==
  /\ LP!Init <=> L!Init
  /\ \A f \in Heard, n \in 1..6 : L!Receive(f, n) => LP!Receive(f, n)
  /\ \A f \in Heard, i \in 0..5 : L!ReadFails(f, i) => LP!ReadFails(f, i)
  /\ L!DropForeign => LP!DropForeign
  /\ L!Ack => LP!Ack
  /\ L!Ignore => LP!Ignore
  /\ L!Dispatch => LP!Dispatch
  /\ L!Ping => LP!Ping
  /\ L!onDiscoveryReqMsg => LP!onDiscoveryReqMsg
  /\ L!SendDiscovery => LP!SendDiscovery
  /\ L!DiscoveryDone => LP!DiscoveryDone
  /\ L!onValueReqMsg => LP!onValueReqMsg
  /\ L!onSetOrService => LP!onSetOrService
  /\ L!Report => LP!Report
<1>1. LP!Init <=> L!Init
  BY DEF L!Init, L!Silence, L!NoFrame, L!NoItem, L!NoRx, LP!Init, LP!Silence,
         LP!NoFrame, LP!NoItem, LP!NoRx
<1>2. \A f \in Heard, n \in 1..6 : L!Receive(f, n) => LP!Receive(f, n)
  BY DEF L!Receive, L!Silence, L!BYTE, L!HEADER, L!Header, L!Over, L!Cells,
         LP!Receive, LP!Silence, LP!BYTE, LP!HEADER, LP!Header, LP!Over,
         LP!Cells
<1>3. \A f \in Heard, i \in 0..5 : L!ReadFails(f, i) => LP!ReadFails(f, i)
  BY DEF L!ReadFails, L!history, L!Silence, L!Over, L!Cells, LP!ReadFails,
         LP!history, LP!Silence, LP!Over, LP!Cells
<1>4. L!DropForeign => LP!DropForeign
  BY DEF L!DropForeign, L!Silence, L!Idle, L!NoFrame, L!NoItem, L!NoRx,
         L!ForMe, LP!DropForeign, LP!Silence, LP!Idle, LP!NoFrame, LP!NoItem,
         LP!NoRx, LP!ForMe
<1>5. L!Ack => LP!Ack
  BY DEF L!Ack, L!Silence, L!ackFrame, L!sendMsg, L!Over, L!Cells, L!ForMe,
         LP!Ack, LP!Silence, LP!ackFrame, LP!sendMsg, LP!Over, LP!Cells,
         LP!ForMe
<1>6. L!Ignore => LP!Ignore
  BY DEF L!Ignore, L!Silence, L!Idle, L!NoFrame, L!NoItem, L!NoRx,
         L!IsRequest, LP!Ignore, LP!Silence, LP!Idle, LP!NoFrame, LP!NoItem,
         LP!NoRx, LP!IsRequest
<1>7. L!Dispatch => LP!Dispatch
  BY DEF L!Dispatch, L!history, L!Silence, L!Items, L!NoItem, L!IsRequest,
         LP!Dispatch, LP!history, LP!Silence, LP!Items, LP!NoItem,
         LP!IsRequest
<1>8. L!Ping => LP!Ping
  BY DEF L!Ping, L!Idle, L!NoFrame, L!Silence, L!NoItem, L!NoRx, L!sendUp,
         L!nextUp, L!sendMsg, L!Over, L!Cells, L!Calls, LP!Ping, LP!Idle,
         LP!NoFrame, LP!Silence, LP!NoItem, LP!NoRx, LP!sendUp, LP!nextUp,
         LP!sendMsg, LP!Over, LP!Cells, LP!Calls
<1>9. L!onDiscoveryReqMsg => LP!onDiscoveryReqMsg
  BY DEF L!onDiscoveryReqMsg, L!history, L!Silence, L!Asked, L!Known, L!Calls,
         LP!onDiscoveryReqMsg, LP!history, LP!Silence, LP!Asked, LP!Known,
         LP!Calls
<1>10. L!SendDiscovery => LP!SendDiscovery
  BY DEF L!SendDiscovery, L!sendUp, L!Silence, L!nextUp, L!sendMsg, L!Over,
         L!Cells, LP!SendDiscovery, LP!sendUp, LP!Silence, LP!nextUp,
         LP!sendMsg, LP!Over, LP!Cells
<1>11. L!DiscoveryDone => LP!DiscoveryDone
  BY DEF L!DiscoveryDone, L!Silence, L!Idle, L!NoFrame, L!NoItem, L!NoRx,
         LP!DiscoveryDone, LP!Silence, LP!Idle, LP!NoFrame, LP!NoItem, LP!NoRx
<1>12. L!onValueReqMsg => LP!onValueReqMsg
  BY DEF L!onValueReqMsg, L!Idle, L!NoFrame, L!Silence, L!NoItem, L!NoRx,
         L!sendUp, L!nextUp, L!sendMsg, L!Over, L!Cells, L!Calls,
         LP!onValueReqMsg, LP!Idle, LP!NoFrame, LP!Silence, LP!NoItem,
         LP!NoRx, LP!sendUp, LP!nextUp, LP!sendMsg, LP!Over, LP!Cells,
         LP!Calls
<1>13. L!onSetOrService => LP!onSetOrService
  BY DEF L!onSetOrService, L!Silence, L!Idle, L!NoFrame, L!NoItem, L!NoRx,
         L!Calls, LP!onSetOrService, LP!Silence, LP!Idle, LP!NoFrame,
         LP!NoItem, LP!NoRx, LP!Calls
<1>14. L!Report => LP!Report
  BY DEF L!Report, L!sendUp, L!Silence, L!nextUp, L!sendMsg, L!Over, L!Cells,
         LP!Report, LP!sendUp, LP!Silence, LP!nextUp, LP!sendMsg, LP!Over,
         LP!Cells
<1>. QED
  BY <1>1, <1>2, <1>3, <1>4, <1>5, <1>6, <1>7, <1>8, <1>9, <1>10, <1>11, <1>12, <1>13, <1>14

(* And those of GarageCoverProofs about its cover. *)
LEMMA SameCover ==
  /\ CP!Init <=> C!Init
  /\ C!Move => CP!Move
  /\ C!WallButton => CP!WallButton
  /\ C!SecondPress => CP!SecondPress
  /\ C!Report => CP!Report
  /\ C!onValueReqMsg => CP!onValueReqMsg
  /\ \A s : C!callService(s) => CP!callService(s)
  /\ \A r : C!update(r) => CP!update(r)
  /\ CP!Readings = C!Readings /\ CP!CoverService = C!CoverService
<1>1. CP!Init <=> C!Init
  BY DEF C!Init, CP!Init
<1>2. C!Move => CP!Move
  BY DEF C!Move, C!cover, CP!Move, CP!cover
<1>3. C!WallButton => CP!WallButton
  BY DEF C!WallButton, C!cover, C!Press, C!AtEnd, CP!WallButton, CP!cover,
         CP!Press, CP!AtEnd
<1>4. C!SecondPress => CP!SecondPress
  BY DEF C!SecondPress, C!cover, C!Press, C!AtEnd, CP!SecondPress, CP!cover,
         CP!Press, CP!AtEnd
<1>5. C!Report => CP!Report
  BY DEF C!Report, C!door, C!cover, C!ReportAll, CP!Report, CP!door, CP!cover,
         CP!ReportAll
<1>6. C!onValueReqMsg => CP!onValueReqMsg
  BY DEF C!onValueReqMsg, C!door, C!ReportAll, CP!onValueReqMsg, CP!door,
         CP!ReportAll
<1>7. \A s : C!callService(s) => CP!callService(s)
  BY DEF C!callService, C!cover, C!timesFor, C!Press, C!AtEnd, C!door,
         C!Expected, C!StateIsTrue, CP!callService, CP!cover, CP!timesFor,
         CP!Press, CP!AtEnd, CP!door, CP!Expected, CP!StateIsTrue
<1>8. \A r : C!update(r) => CP!update(r)
  BY DEF C!update, C!door, C!AtEnd, C!hasChanged, C!determineState, CP!update,
         CP!door, CP!AtEnd, CP!hasChanged, CP!determineState
<1>9. CP!Readings = C!Readings /\ CP!CoverService = C!CoverService
  BY DEF C!Readings, C!GoodReading, C!CoverService, CP!Readings,
         CP!GoodReading, CP!CoverService
<1>. QED
  BY <1>1, <1>2, <1>3, <1>4, <1>5, <1>6, <1>7, <1>8, <1>9

-----------------------------------------------------------------------------
(* Each step is one of the handler, of the cover, of both, or of the world.  *)

(* The handler's part of a step. *)
LEMMA HandlerStep == [Next]_vars => [LP!Next]_(LP!vars)
<1>. SUFFICES ASSUME [Next]_vars PROVE [LP!Next]_(LP!vars)
  OBVIOUS
<1>1. ASSUME UNCHANGED lvars PROVE [LP!Next]_(LP!vars)
  BY <1>1 DEF lvars, LP!vars
<1>2. ASSUME L!onSetOrService PROVE [LP!Next]_(LP!vars)
  BY <1>2, SameHandler DEF LP!Next, LP!Step
<1>3. CASE DoorMoves \/ WallButton
  BY <1>1, <1>3 DEF DoorMoves, WallButton
<1>4. CASE \E r \in C!Readings : updateSensors(r)
  BY <1>1, <1>4 DEF updateSensors
<1>5. CASE Report
  BY <1>1, <1>5, SameHandler DEF Report, LP!Next
<1>6. CASE Receive
  <2>1. PICK f \in Heard :
          \/ \E n \in Lengths : L!Receive(f, n)
          \/ \E i \in Lengths : i < Len(L!Cells) /\ L!ReadFails(f, i)
    BY <1>6 DEF Receive
  <2>2. Len(LP!Cells) = 6 /\ Len(L!Cells) = 6
    BY DEF LP!Cells, L!Cells
  <2>3. CASE \E n \in Lengths : L!Receive(f, n)
    <3>1. PICK n \in 1..6 : L!Receive(f, n)
      BY <2>3, LengthsAssumption
    <3>2. LP!Receive(f, n)
      BY <3>1, SameHandler
    <3>. QED
      BY <2>2, <3>2 DEF LP!Next
  <2>4. CASE \E i \in Lengths : i < Len(L!Cells) /\ L!ReadFails(f, i)
    <3>1. PICK i \in 0..5 : L!ReadFails(f, i)
      BY <2>2, <2>4, LengthsAssumption
    <3>2. LP!ReadFails(f, i)
      BY <3>1, SameHandler
    <3>. QED
      BY <2>2, <3>2 DEF LP!Next
  <2>. QED
    BY <2>1, <2>3, <2>4
<1>7. CASE Handle
  BY <1>7, SameHandler DEF Handle, LP!Next, LP!Step
<1>8. CASE onValueReqMsg
  BY <1>8, SameHandler DEF onValueReqMsg, LP!Next, LP!Step
<1>9. CASE onServiceReqMsg
  BY <1>1, <1>2, <1>9 DEF onServiceReqMsg
<1>10. CASE SecondPress
  BY <1>1, <1>2, <1>10 DEF SecondPress
<1>11. CASE UNCHANGED vars
  BY <1>1, <1>11 DEF vars
<1>. QED
  BY <1>3, <1>4, <1>5, <1>6, <1>7, <1>8, <1>9, <1>10, <1>11 DEF Next, Step

(* The cover's part of a step. *)
LEMMA CoverStep == [Next]_vars => [CP!Next]_(CP!vars)
<1>. SUFFICES ASSUME [Next]_vars PROVE [CP!Next]_(CP!vars)
  OBVIOUS
<1>1. ASSUME UNCHANGED cvars PROVE [CP!Next]_(CP!vars)
  BY <1>1 DEF cvars, CP!vars
<1>2. CASE DoorMoves \/ WallButton
  BY <1>2, SameCover DEF DoorMoves, WallButton, CP!Next
<1>3. CASE \E r \in C!Readings : updateSensors(r)
  BY <1>3, SameCover DEF updateSensors, CP!Next
<1>4. CASE Report
  BY <1>4, SameCover DEF Report, CP!Next
<1>5. CASE Receive \/ Handle
  BY <1>1, <1>5 DEF Receive, Handle
<1>6. CASE onValueReqMsg
  BY <1>6, SameCover DEF onValueReqMsg, CP!Next
<1>7. CASE onServiceReqMsg
  <2>1. CASE IsCover(item.entityId)
    <3>1. C!callService(serviceDecode(item.arg))
      BY <1>7, <2>1 DEF onServiceReqMsg
    <3>2. serviceDecode(item.arg) \in CP!CoverService
      BY DEF serviceDecode, CP!CoverService
    <3>3. CP!callService(serviceDecode(item.arg))
      BY <3>1, SameCover
    <3>. QED
      BY <3>2, <3>3 DEF CP!Next
  <2>2. CASE ~IsCover(item.entityId)
    BY <1>1, <1>7, <2>2 DEF onServiceReqMsg
  <2>. QED
    BY <2>1, <2>2
<1>8. CASE SecondPress
  BY <1>8, SameCover DEF SecondPress, CP!Next
<1>9. CASE UNCHANGED vars
  BY <1>1, <1>9 DEF vars
<1>. QED
  BY <1>2, <1>3, <1>4, <1>5, <1>6, <1>7, <1>8, <1>9 DEF Next, Step

(* What LoRaHandlerProofs assumes of its constants. *)
LEMMA LPFacts ==
  /\ ID_WORD \in Nat \ {0}
  /\ components \in Seq(Nat) /\ AllEntities \in Nat
  /\ mMyAddress \in Nat /\ mGatewayAddress \in Nat
  /\ Heard \subseteq [dst : Nat, src : Nat, id : Nat, flags : LP!Flags,
                      p0 : Nat, p1 : Nat]
<1>1. LP!Flags = L!Flags
  BY DEF LP!Flags, LP!MsgTypes, L!Flags, L!MsgTypes
<1>. QED
  BY <1>1, HandlerAssumption

(* What is proved of the two modules holds here. *)
LEMMA PartsHold ==
  /\ Init => LP!IInv /\ CP!IInv
  /\ LP!IInv /\ CP!IInv /\ [Next]_vars => LP!IInv' /\ CP!IInv'
<1>1. LP!Init => LP!IInv
  BY LPFacts, LP!InitStep
<1>2. LP!IInv /\ [LP!Next]_(LP!vars) => LP!IInv'
  BY LPFacts, LP!NextStep
<1>3. CP!Init => CP!IInv
  BY CoverAssumption, CP!InitStep
<1>4. CP!IInv /\ [CP!Next]_(CP!vars) => CP!IInv'
  BY CoverAssumption, CP!NextStep
<1>5. Init => LP!Init /\ CP!Init
  BY SameHandler, SameCover DEF Init
<1>. QED
  BY <1>1, <1>2, <1>3, <1>4, <1>5, HandlerStep, CoverStep

-----------------------------------------------------------------------------
(* What holds between them. *)

(* What the handler's invariant says of a request that is being handled. *)
LEMMA Handling ==
  ASSUME LP!IInv
  PROVE  /\ lpc = "call" => L!IsRequest /\ L!ForMe
         /\ lpc \in {"answered", "call"} /\ got.n >= L!HEADER =>
              rx.header = L!Header(got.frame)
         /\ lpc = "call" /\ L!Whole /\ ~got.acked => L!Faithful
         /\ got.n \in 0..6
         /\ got = [frame |-> got.frame, n |-> got.n, acked |-> got.acked]
<1>1. /\ lpc = "call" => LP!IsRequest
      /\ rx # LP!NoRx => lpc = "received" \/ LP!ForMe
      /\ lpc = "call" => rx # LP!NoRx
  BY DEF LP!IInv, LP!HandlingInv
<1>2. /\ got.n >= LP!HEADER => rx.header = LP!Header(got.frame)
      /\ got.n \in 0..6
      /\ got = [frame |-> got.frame, n |-> got.n, acked |-> got.acked]
  BY DEF LP!IInv, LP!FrameInv
<1>3. L!DispatchIsFaithful
  BY SameTerms DEF LP!IInv
<1>. QED
  BY <1>1, <1>2, <1>3, SameTerms DEF L!DispatchIsFaithful

(* A whole service request as the handler sees it. *)
LEMMA ServiceIsWhole ==
  ASSUME LP!IInv, L!Calls("service_req"), L!Whole
  PROVE  /\ got.n = 6 /\ got.frame.flags.msgType = "service_req"
         /\ ~got.acked => item.entityId = got.frame.p0 /\ item.arg = got.frame.p1
<1>1. got.n >= L!HEADER /\ lpc = "call" /\ rx.header.flags.msgType = "service_req"
  BY DEF L!Whole, L!Calls
<1>2. rx.header = L!Header(got.frame)
  BY <1>1, Handling
<1>3. got.frame.flags.msgType = "service_req"
  BY <1>1, <1>2 DEF L!Header
<1>. QED
  BY <1>1, <1>3, Handling DEF L!Whole, L!Faithful

(* If a service request for the cover is whole, it is as it was sent. *)
LEMMA ForTheCover ==
  ASSUME LP!IInv, AckInv, L!Calls("service_req"), IsCover(item.entityId), L!Whole
  PROVE  AsSent
<1>1. CASE got.acked
  BY <1>1, CoverAssumption DEF AckInv, IsCover
<1>2. CASE ~got.acked
  BY <1>2, ServiceIsWhole DEF AsSent, IsCover
<1>. QED
  BY <1>1, <1>2

(* And a service request that is as it was sent is for the cover. *)
LEMMA AsSentIs ==
  ASSUME LP!IInv, L!Calls("service_req"), AsSent
  PROVE  IsCover(item.entityId) /\ Meant(got.frame.p1) = serviceDecode(item.arg)
<1>1. item.entityId = garageCover /\ item.arg = got.frame.p1
  BY ServiceIsWhole DEF AsSent
<1>2. IsCover(item.entityId)
  BY <1>1, CoverAssumption DEF IsCover, L!Known
<1>3. \A s : Meant(s) = serviceDecode(s)
  <2>. TAKE s
  <2>1. CASE s \in 0..3
    BY <2>1 DEF Meant, serviceDecode
  <2>2. CASE s \notin 0..3
    <3>1. s # 0 /\ s # 1 /\ s # 2 /\ s # 3
      BY <2>2
    <3>. QED
      BY <2>2, <3>1, Zenon DEF Meant, serviceDecode
  <2>. QED
    BY <2>1, <2>2
<1>. QED
  BY <1>1, <1>2, <1>3

(* The first state. *)
LEMMA InitBetween == Init => PulseInv /\ WantedInv /\ SaidInv /\ AckInv
<1>. SUFFICES ASSUME Init PROVE PulseInv /\ WantedInv /\ SaidInv /\ AckInv
  OBVIOUS
<1>1. pulses = 0 /\ lpc = "announce" /\ wanted = "UNKNOWN" /\ dropped = TRUE
  BY DEF Init, C!Init, L!Init
<1>. QED
  BY <1>1 DEF PulseInv, WantedInv, SaidInv, AckInv, L!Calls

(* Two presses of one service request. *)
LEMMA PulseStep ==
  ASSUME IInv, [Next]_vars
  PROVE  PulseInv'
<1>1. ASSUME UNCHANGED <<pulses, lpc, rx, item>> PROVE PulseInv'
  BY <1>1 DEF IInv, PulseInv, L!Calls, IsCover
<1>2. CASE DoorMoves \/ WallButton
  BY <1>1, <1>2 DEF DoorMoves, WallButton, C!Move, C!WallButton, lvars
<1>3. CASE \E r \in C!Readings : updateSensors(r)
  BY <1>1, <1>3 DEF updateSensors, C!update, lvars
<1>4. CASE Report
  BY <1>1, <1>4 DEF Report, C!Report, L!Report, lvars
<1>5. CASE Receive
  BY <1>5 DEF Receive, Idle, cvars, PulseInv
<1>6. CASE Handle
  <2>1. pulses' = pulses
    BY <1>6 DEF Handle, cvars
  <2>2. ~L!Calls("service_req")
    BY <1>6 DEF Handle, L!DropForeign, L!Ack, L!Ignore, L!Dispatch, L!Ping,
                L!onDiscoveryReqMsg, L!SendDiscovery, L!DiscoveryDone, L!Calls
  <2>. QED
    BY <2>1, <2>2 DEF IInv, PulseInv
<1>7. CASE onValueReqMsg
  <2>1. pulses' = pulses /\ ~L!Calls("service_req")
    BY <1>7 DEF onValueReqMsg, C!onValueReqMsg, L!onValueReqMsg, L!Calls
  <2>. QED
    BY <2>1 DEF IInv, PulseInv
<1>8. CASE onServiceReqMsg
  <2>1. CASE IsCover(item.entityId) /\ pulses' # 0
    BY <1>8, <2>1 DEF onServiceReqMsg, PulseInv, L!Calls, IsCover, lvars
  <2>2. CASE IsCover(item.entityId) /\ pulses' = 0
    BY <2>2 DEF PulseInv
  <2>3. CASE ~IsCover(item.entityId)
    BY <1>8, <2>3 DEF onServiceReqMsg, PulseInv, cvars
  <2>. QED
    BY <2>1, <2>2, <2>3
<1>9. CASE SecondPress
  <2>1. CASE pulses' = 0
    BY <2>1 DEF PulseInv
  <2>2. CASE pulses' # 0
    BY <1>9, <2>2 DEF SecondPress, C!SecondPress, IInv, PulseInv, L!Calls, IsCover, lvars
  <2>. QED
    BY <2>1, <2>2
<1>10. CASE UNCHANGED vars
  BY <1>1, <1>10 DEF vars, lvars, cvars
<1>. QED
  BY <1>2, <1>3, <1>4, <1>5, <1>6, <1>7, <1>8, <1>9, <1>10 DEF Next, Step

(* The cover is asked for what the gateway wants. *)
LEMMA WantedStep ==
  ASSUME IInv, [Next]_vars
  PROVE  WantedInv'
<1>1. ASSUME UNCHANGED <<asked, wanted>> PROVE WantedInv'
  BY <1>1 DEF IInv, WantedInv
<1>2. CASE DoorMoves
  BY <1>1, <1>2 DEF DoorMoves, C!Move
<1>3. CASE WallButton
  BY <1>3 DEF WallButton, WantedInv
<1>4. CASE \E r \in C!Readings : updateSensors(r)
  BY <1>1, <1>4 DEF updateSensors, C!update
<1>5. CASE Report
  BY <1>1, <1>5 DEF Report, C!Report
<1>6. CASE Receive \/ Handle
  BY <1>1, <1>6 DEF Receive, Handle, cvars
<1>7. CASE onValueReqMsg
  BY <1>1, <1>7 DEF onValueReqMsg, C!onValueReqMsg
<1>8. CASE onServiceReqMsg
  <2>1. LP!IInv /\ L!Calls("service_req")
    BY <1>8 DEF IInv, onServiceReqMsg
  <2>2. CASE AsSent /\ C!StateIsTrue
    <3>1. IsCover(item.entityId) /\ Meant(got.frame.p1) = serviceDecode(item.arg)
      BY <2>1, <2>2, AsSentIs
    <3>2. C!callService(serviceDecode(item.arg)) /\ wanted' = C!Expected(Meant(got.frame.p1))
      BY <1>8, <2>2, <3>1 DEF onServiceReqMsg
    <3>3. asked' = C!Expected(serviceDecode(item.arg))
      BY <2>2, <3>2 DEF C!callService
    <3>. QED
      BY <3>1, <3>2, <3>3 DEF WantedInv
  <2>3. CASE ~(AsSent /\ C!StateIsTrue) /\ (AsSent \/ IsCover(item.entityId))
    BY <1>8, <2>3 DEF onServiceReqMsg, WantedInv
  <2>4. CASE ~AsSent /\ ~IsCover(item.entityId)
    BY <1>1, <1>8, <2>4 DEF onServiceReqMsg, cvars
  <2>. QED
    BY <2>2, <2>3, <2>4
<1>9. CASE SecondPress
  BY <1>1, <1>9 DEF SecondPress, C!SecondPress
<1>10. CASE UNCHANGED vars
  BY <1>1, <1>10 DEF vars, cvars
<1>. QED
  BY <1>2, <1>3, <1>4, <1>5, <1>6, <1>7, <1>8, <1>9, <1>10 DEF Next, Step

(* What is said is what is so, and what has changed is said before loop()    *)
(* goes on.                                                                  *)
LEMMA SaidStep ==
  ASSUME IInv, [Next]_vars
  PROVE  SaidInv'
<1>1. ASSUME UNCHANGED <<mState, mIsReportDue, cpc, told>> PROVE SaidInv'
  BY <1>1 DEF IInv, SaidInv, told
<1>2. ASSUME Tell, mState' = mState PROVE SaidInv'
  <2>1. CASE tx' = L!Silence
    <3>1. dropped'
      BY <1>2, <2>1 DEF Tell
    <3>. QED
      BY <3>1 DEF SaidInv
  <2>2. CASE tx' # L!Silence
    BY <1>2, <2>2 DEF Tell, SaidInv
  <2>. QED
    BY <2>1, <2>2
<1>3. CASE DoorMoves \/ WallButton
  BY <1>1, <1>3 DEF DoorMoves, WallButton, C!Move, C!WallButton, C!cover
<1>4. CASE \E r \in C!Readings : updateSensors(r)
  <2>1. PICK r \in C!Readings : updateSensors(r)
    BY <1>4
  <2>2. cpc = "loop" /\ cpc' = "report" /\ UNCHANGED told
        /\ mIsReportDue' = (mState' # mState)
    BY <2>1 DEF updateSensors, C!update, C!hasChanged
  <2>3. toldState' = toldState /\ dropped' = dropped
    BY <2>2 DEF told
  <2>4. toldState = mState \/ dropped
    BY <2>2 DEF IInv, SaidInv
  <2>5. CASE mState' = mState
    BY <2>3, <2>4, <2>5 DEF SaidInv
  <2>6. CASE mState' # mState
    <3>1. mIsReportDue'
      BY <2>2, <2>6
    <3>. QED
      BY <2>2, <3>1 DEF SaidInv
  <2>. QED
    BY <2>5, <2>6
<1>5. CASE Report
  <2>1. CASE C!ReportAll /\ L!Report /\ Tell
    BY <1>2, <2>1 DEF C!ReportAll
  <2>2. CASE ~mIsReportDue /\ UNCHANGED <<mState, mIsReportDue, mLastReportedState>>
             /\ UNCHANGED <<lvars, told>>
    BY <2>2 DEF IInv, SaidInv, told
  <2>. QED
    BY <1>5, <2>1, <2>2 DEF Report
<1>6. CASE Receive \/ Handle
  BY <1>1, <1>6 DEF Receive, Handle, cvars
<1>7. CASE onValueReqMsg
  BY <1>2, <1>7 DEF onValueReqMsg, C!onValueReqMsg, C!ReportAll
<1>8. CASE onServiceReqMsg
  <2>1. CASE IsCover(item.entityId)
    BY <1>1, <1>8, <2>1 DEF onServiceReqMsg, C!callService, C!cover
  <2>2. CASE ~IsCover(item.entityId)
    BY <1>1, <1>8, <2>2 DEF onServiceReqMsg, cvars
  <2>. QED
    BY <2>1, <2>2
<1>9. CASE SecondPress
  BY <1>1, <1>9 DEF SecondPress, C!SecondPress, C!cover
<1>10. CASE UNCHANGED vars
  BY <1>1, <1>10 DEF vars, cvars
<1>. QED
  BY <1>3, <1>4, <1>5, <1>6, <1>7, <1>8, <1>9, <1>10 DEF Next, Step

(* The ack overwrites the entity id, and no more of what is parsed. *)
LEMMA AckStep ==
  ASSUME IInv, L!Ack
  PROVE  AckInv'
<1>1. /\ lpc = "received" /\ lpc' = "answered" /\ rx' = rx
      /\ got' = [got EXCEPT !.acked = tx' # L!Silence]
  BY DEF L!Ack
<1>2. got = [frame |-> got.frame, n |-> got.n, acked |-> got.acked]
  BY Handling DEF IInv
<1>3. got'.n = got.n /\ got'.acked = (tx' # L!Silence)
  BY <1>1, <1>2
<1>4. tx' # L!Silence => mBuffer' = L!Over(mBuffer, L!ackFrame, 5)
  BY DEF L!Ack, L!sendMsg
<1>5. L!Over(mBuffer, L!ackFrame, 5).p0 = AckMark
  <2>1. "p0" \in DOMAIN mBuffer
    BY DEF IInv, LP!IInv, LP!BufferInv
  <2>2. 5 \in 1..5 /\ L!Cells[5] = "p0"
    BY DEF L!Cells
  <2>3. L!ackFrame["p0"] = AckMark
    BY DEF L!ackFrame
  <2>. QED
    BY <2>1, <2>2, <2>3 DEF L!Over
<1>6. got'.acked => mBuffer'.p0 = AckMark
  BY <1>3, <1>4, <1>5
<1>7. got.n >= L!HEADER => rx.payload_length = got.n - L!HEADER
  BY <1>1 DEF IInv, AckInv
<1>. QED
  BY <1>1, <1>3, <1>6, <1>7 DEF AckInv, L!Calls

(* So what is dispatched after it is the mark of the ack. *)
LEMMA DispatchStep ==
  ASSUME IInv, L!Dispatch
  PROVE  AckInv'
<1>1. /\ lpc = "answered" /\ lpc' = "call" /\ rx' = rx /\ got' = got
      /\ item' \in L!Items
  BY DEF L!Dispatch, L!history
<1>. SUFFICES ASSUME rx.header.flags.msgType = "service_req", L!Whole, got.acked
              PROVE  item'.entityId = AckMark
  <2>1. L!Whole' <=> L!Whole
    BY <1>1 DEF L!Whole
  <2>. QED
    BY <1>1, <2>1 DEF AckInv, L!Calls
<1>2. L!HEADER = 4 /\ got.n >= L!HEADER /\ got.n \in 0..6
  BY Handling DEF IInv, L!Whole, L!HEADER
<1>3. rx.header = L!Header(got.frame)
  BY <1>1, <1>2, Handling DEF IInv
<1>4. got.frame.flags.msgType = "service_req"
  BY <1>3 DEF L!Header
<1>5. got.n = 6
  BY <1>4 DEF L!Whole
<1>6. rx.payload_length = 2 /\ mBuffer.p0 = AckMark
  BY <1>1, <1>2, <1>5 DEF IInv, AckInv
<1>7. item' = [entityId |-> mBuffer.p0, arg |-> mBuffer.p1]
  BY <1>1, <1>6 DEF L!Items
<1>. QED
  BY <1>6, <1>7

(* Every step keeps what the handler knows of an ack. *)
LEMMA AckedStep ==
  ASSUME IInv, [Next]_vars
  PROVE  AckInv'
<1>1. ASSUME UNCHANGED lvars PROVE AckInv'
  BY <1>1 DEF lvars, IInv, AckInv, L!Calls, L!Whole
<1>2. ASSUME lpc' \in {"idle", "announce"} PROVE AckInv'
  BY <1>2 DEF AckInv, L!Calls
<1>3. ASSUME L!onSetOrService PROVE AckInv'
  BY <1>2, <1>3 DEF L!onSetOrService, L!Idle
<1>4. CASE DoorMoves \/ WallButton
  BY <1>1, <1>4 DEF DoorMoves, WallButton
<1>5. CASE \E r \in C!Readings : updateSensors(r)
  BY <1>1, <1>5 DEF updateSensors
<1>6. CASE Report
  BY <1>1, <1>2, <1>6 DEF Report, L!Report
<1>7. CASE Receive
  <2>1. PICK f \in Heard :
          \/ \E n \in Lengths : L!Receive(f, n)
          \/ \E i \in Lengths : i < Len(L!Cells) /\ L!ReadFails(f, i)
    BY <1>7 DEF Receive
  <2>2. CASE \E n \in Lengths : L!Receive(f, n)
    <3>1. PICK n \in 1..6 : L!Receive(f, n)
      BY <2>2, LengthsAssumption
    <3>2. /\ lpc' = "received" /\ rx'.payload_length = (n - 4) % 256
          /\ got' = [frame |-> f, n |-> n, acked |-> FALSE]
      BY <3>1 DEF L!Receive, L!HEADER, L!BYTE
    <3>3. n >= 4 => (n - 4) % 256 = n - 4
      OBVIOUS
    <3>. QED
      BY <3>2, <3>3 DEF AckInv, L!Calls, L!HEADER
  <2>3. CASE \E i \in Lengths : i < Len(L!Cells) /\ L!ReadFails(f, i)
    BY <1>2, <2>3 DEF L!ReadFails
  <2>. QED
    BY <2>1, <2>2, <2>3
<1>8. CASE Handle
  <2>1. CASE L!Ack
    BY <2>1, AckStep
  <2>2. CASE L!Dispatch
    BY <2>2, DispatchStep
  <2>3. CASE \/ L!DropForeign \/ L!Ignore \/ L!Ping \/ L!onDiscoveryReqMsg
             \/ L!SendDiscovery \/ L!DiscoveryDone
             \/ L!Calls("valueSet_req") /\ L!onSetOrService
    BY <1>2, <1>3, <2>3 DEF L!DropForeign, L!Ignore, L!Ping, L!onDiscoveryReqMsg,
         L!SendDiscovery, L!DiscoveryDone, L!Idle
  <2>. QED
    BY <1>8, <2>1, <2>2, <2>3 DEF Handle
<1>9. CASE onValueReqMsg
  BY <1>2, <1>9 DEF onValueReqMsg, L!onValueReqMsg, L!Idle
<1>10. CASE onServiceReqMsg
  BY <1>1, <1>3, <1>10 DEF onServiceReqMsg
<1>11. CASE SecondPress
  BY <1>1, <1>3, <1>11 DEF SecondPress
<1>12. CASE UNCHANGED vars
  BY <1>1, <1>12 DEF vars
<1>. QED
  BY <1>4, <1>5, <1>6, <1>7, <1>8, <1>9, <1>10, <1>11, <1>12 DEF Next, Step

(* The invariant of the node. *)
LEMMA NodeInv == (Init => IInv) /\ (IInv /\ [Next]_vars => IInv')
<1>1. Init => IInv
  BY PartsHold, InitBetween DEF IInv
<1>2. ASSUME IInv, [Next]_vars PROVE IInv'
  <2>1. LP!IInv' /\ CP!IInv'
    BY <1>2, PartsHold DEF IInv
  <2>. QED
    BY <1>2, <2>1, PulseStep, WantedStep, SaidStep, AckedStep DEF IInv
<1>. QED
  BY <1>1, <1>2
-----------------------------------------------------------------------------
(* What it gives. *)

(* The door does what the cover was asked, and so what the gateway wants. *)
LEMMA InvariantGives == IInv => DoorObeysGateway /\ GatewayKnowsDoor
<1>. SUFFICES ASSUME IInv PROVE DoorObeysGateway /\ GatewayKnowsDoor
  OBVIOUS
<1>1. DoorObeysGateway
  BY DEF IInv, CP!IInv, CP!ServiceInv, WantedInv, DoorObeysGateway
<1>2. GatewayKnowsDoor
  BY DEF IInv, SaidInv, GatewayKnowsDoor
<1>. QED
  BY <1>1, <1>2

\* Why a step presses the relay.
Cause ==
  relay' /\ got.n >= L!HEADER =>
    /\ lpc = "call"
    /\ got.frame.dst \in {mMyAddress, Broadcast}
    /\ got.frame.flags.msgType = "service_req"
    /\ ~got.frame.flags.ack_response
    /\ L!Whole => AsSent

(* Only a service request for the cover presses the relay. *)
LEMMA CauseStep == IInv /\ [Next]_vars => [Cause]_vars
<1>1. ASSUME IInv, L!Calls("service_req"), IsCover(item.entityId) PROVE Cause
  <2>. SUFFICES ASSUME got.n >= L!HEADER
                PROVE  /\ lpc = "call"
                       /\ got.frame.dst \in {mMyAddress, Broadcast}
                       /\ got.frame.flags.msgType = "service_req"
                       /\ ~got.frame.flags.ack_response
                       /\ L!Whole => AsSent
    BY DEF Cause
  <2>1. lpc = "call" /\ rx.header.flags.msgType = "service_req"
    BY <1>1 DEF L!Calls
  <2>2. rx.header = L!Header(got.frame) /\ L!IsRequest /\ L!ForMe
    BY <1>1, <2>1, Handling DEF IInv
  <2>3. rx.header.dst = got.frame.dst /\ rx.header.flags = got.frame.flags
    BY <2>2 DEF L!Header
  <2>4. L!Whole => AsSent
    BY <1>1, ForTheCover DEF IInv
  <2>. QED
    BY <2>1, <2>2, <2>3, <2>4 DEF L!IsRequest, L!ForMe
<1>2. ASSUME relay' = FALSE PROVE Cause
  BY <1>2 DEF Cause
<1>. SUFFICES ASSUME IInv, Next PROVE Cause
  OBVIOUS
<1>3. CASE DoorMoves \/ WallButton \/ Report \/ Receive \/ Handle \/ onValueReqMsg
  BY <1>2, <1>3 DEF DoorMoves, WallButton, Report, Receive, Handle, onValueReqMsg
<1>4. CASE \E r \in C!Readings : updateSensors(r)
  BY <1>2, <1>4 DEF updateSensors
<1>5. CASE onServiceReqMsg
  <2>1. CASE IsCover(item.entityId)
    BY <1>1, <1>5, <2>1 DEF onServiceReqMsg
  <2>2. CASE ~IsCover(item.entityId)
    BY <1>2, <1>5, <2>2 DEF onServiceReqMsg
  <2>. QED
    BY <2>1, <2>2
<1>6. CASE SecondPress
  <2>1. pulses > 0
    BY <1>6 DEF SecondPress, C!SecondPress
  <2>. QED
    BY <1>1, <2>1 DEF IInv, PulseInv
<1>. QED
  BY <1>3, <1>4, <1>5, <1>6 DEF Next, Step

(* Whatever frames come, in whatever order and however often: a service that *)
(* arrives as it was sent and finds the state true is obeyed, the gateway    *)
(* knows the state of the cover unless the last value message was dropped,   *)
(* and nothing but a service request for the cover presses the relay         *)
(* (LoRaHandler.cpp:78-179, main.cpp:328-347, 523-578, GarageCover.cpp).     *)
THEOREM GatewayRulesTheDoor ==
  Spec => []DoorObeysGateway /\ []GatewayKnowsDoor /\ RelayHasACause
<1>1. (Init => IInv) /\ (IInv /\ [Next]_vars => IInv')
  BY NodeInv
<1>2. IInv => DoorObeysGateway /\ GatewayKnowsDoor
  BY InvariantGives
<1>3. IInv /\ [Next]_vars => [Cause]_vars
  BY CauseStep
<1>4. RelayHasACause <=> [][Cause]_vars
  BY DEF RelayHasACause, Cause
<1>. QED
  BY <1>1, <1>2, <1>3, <1>4, PTL DEF Spec

(* On one thread each of the two is what its own module says. *)
THEOREM PartsAreTheModules == Spec => LP!Spec /\ CP!Spec
<1>1. Init => LP!Init /\ CP!Init
  BY SameHandler, SameCover DEF Init
<1>2. [Next]_vars => [LP!Next]_(LP!vars) /\ [CP!Next]_(CP!vars)
  BY HandlerStep, CoverStep
<1>. QED
  BY <1>1, <1>2, PTL DEF Spec, LP!Spec, CP!Spec
-----------------------------------------------------------------------------
(* A request that is handled comes to its end: the measure behind            *)
(* HandlerReturns.                                                           *)

\* The steps that the thread has left at most, doubled, so that a press that
\* is still to come is one of them.
Work == 2 * LP!Work - pulses

\* A step of the thread leaves fewer; nothing else adds any.
ComesToItsEnd ==
  lpc # "idle" => IF Step THEN Work' < Work ELSE Work' = Work

Counted == LP!Work \in Nat /\ pulses \in 0..1

(* The numbers Work is made of. *)
LEMMA WorkTypes ==
  ASSUME IInv
  PROVE  /\ LP!Work \in Nat /\ pulses \in 0..1
         /\ pulses = 1 => LP!Work >= 3
         /\ Work \in Nat
<1>1. LP!Work \in Nat /\ (lpc = "call" => LP!Work >= 3)
  BY LPFacts, LP!WorkType DEF IInv
<1>2. pulses \in 0..1
  BY DEF IInv, CP!IInv, CP!TypeOK
<1>3. pulses = 1 => lpc = "call"
  BY DEF IInv, PulseInv, L!Calls
<1>. QED
  BY <1>1, <1>2, <1>3 DEF Work

(* And after a step. *)
LEMMA WorkTypesNext == IInv' => Counted'
<1>1. IInv => Counted
  BY WorkTypes DEF Counted
<1>. QED
  BY <1>1, PTL

(* One step of the handler counts two. *)
LEMMA Fewer ==
  ASSUME NEW v \in Nat, NEW w \in Nat, NEW p \in 0..1, v < w
  PROVE  2 * v - p < 2 * w - p
OBVIOUS

(* A step of the handler, and one that is none. *)
LEMMA HandlerWork ==
  ASSUME IInv
  PROVE  /\ LP!Step => LP!Work' < LP!Work
         /\ L!onSetOrService => LP!Step /\ LP!Work' = 0
         /\ UNCHANGED lvars => LP!Work' = LP!Work
<1>1. LP!Step => LP!Work' < LP!Work
  BY LPFacts, LP!StepWork DEF IInv
<1>2. ASSUME L!onSetOrService PROVE LP!Step /\ LP!Work' = 0
  <2>1. LP!Step
    BY <1>2, SameHandler DEF LP!Step
  <2>2. lpc' = "idle"
    BY <1>2 DEF L!onSetOrService, L!Idle
  <2>. QED
    BY <2>1, <2>2 DEF LP!Work
<1>3. UNCHANGED lvars => LP!Work' = LP!Work
  BY DEF lvars, LP!Work
<1>. QED
  BY <1>1, <1>2, <1>3

(* Each step of the thread, and of the world meanwhile. *)
LEMMA StepWork ==
  ASSUME IInv, Step
  PROVE  Work' < Work
<1>1. /\ LP!Work \in Nat /\ pulses \in 0..1 /\ (pulses = 1 => LP!Work >= 3)
  BY WorkTypes
<1>2. PICK w \in Nat, p \in 0..1 : w = LP!Work /\ p = pulses /\ Work = 2 * w - p
  BY <1>1 DEF Work
<1>3. LP!Work' \in Nat /\ pulses' \in 0..1
  BY NodeInv, WorkTypesNext DEF Next, Counted
<1>4. PICK v \in Nat, q \in 0..1 : v = LP!Work' /\ q = pulses' /\ Work' = 2 * v - q
  BY <1>3 DEF Work
<1>5. CASE Handle
  <2>1. LP!Step /\ pulses' = pulses
    BY <1>5, SameHandler DEF Handle, LP!Step, cvars
  <2>2. v < w /\ q = p
    BY <1>2, <1>4, <2>1, HandlerWork
  <2>. QED
    BY <1>2, <1>4, <2>2, Fewer
<1>6. CASE onValueReqMsg
  <2>1. LP!Step /\ pulses' = pulses
    BY <1>6, SameHandler DEF onValueReqMsg, LP!Step, C!onValueReqMsg
  <2>2. v < w /\ q = p
    BY <1>2, <1>4, <2>1, HandlerWork
  <2>. QED
    BY <1>2, <1>4, <2>2, Fewer
<1>7. CASE onServiceReqMsg
  <2>1. pulses = 0 /\ (L!onSetOrService \/ (UNCHANGED lvars /\ pulses' # 0))
        /\ (L!onSetOrService => pulses' = 0)
    <3>1. CASE IsCover(item.entityId)
      <4>1. /\ pulses = 0
            /\ IF pulses' = 0 THEN L!onSetOrService ELSE UNCHANGED lvars
        BY <1>7, <3>1 DEF onServiceReqMsg
      <4>2. L!Calls("service_req") /\ (UNCHANGED lvars => ~L!onSetOrService)
        BY <1>7 DEF onServiceReqMsg, L!Calls, L!onSetOrService, L!Idle, lvars
      <4>. QED
        BY <4>1, <4>2
    <3>2. CASE ~IsCover(item.entityId)
      BY <1>7, <3>2 DEF onServiceReqMsg, cvars
    <3>. QED
      BY <3>1, <3>2
  <2>2. CASE L!onSetOrService
    <3>1. v < w /\ q = p
      BY <1>2, <1>4, <2>1, <2>2, HandlerWork
    <3>. QED
      BY <1>2, <1>4, <3>1, Fewer
  <2>3. CASE UNCHANGED lvars /\ pulses' # 0
    <3>1. v = w /\ p = 0 /\ q = 1
      BY <1>2, <1>4, <2>1, <2>3, HandlerWork
    <3>. QED
      BY <1>2, <1>4, <3>1
  <2>. QED
    BY <2>1, <2>2, <2>3
<1>8. CASE SecondPress
  <2>1. pulses > 0 /\ pulses' = pulses - 1
        /\ IF pulses' = 0 THEN L!onSetOrService ELSE UNCHANGED lvars
    BY <1>8 DEF SecondPress, C!SecondPress
  <2>2. p = 1 /\ q = 0 /\ w >= 3 /\ L!onSetOrService
    BY <1>1, <1>2, <1>4, <2>1
  <2>3. v = 0
    BY <1>4, <2>2, HandlerWork
  <2>. QED
    BY <1>2, <1>4, <2>2, <2>3
<1>. QED
  BY <1>5, <1>6, <1>7, <1>8 DEF Step

LEMMA WorkStep == IInv /\ [Next]_vars => [ComesToItsEnd]_vars
<1>. SUFFICES ASSUME IInv, Next, lpc # "idle"
              PROVE  IF Step THEN Work' < Work ELSE Work' = Work
  BY DEF ComesToItsEnd
<1>1. CASE Step
  BY <1>1, StepWork
<1>2. CASE ~Step
  <2>1. DoorMoves \/ WallButton
    BY <1>2 DEF Next, updateSensors, Report, Receive, Idle
  <2>2. UNCHANGED lvars /\ pulses' = pulses
    BY <2>1 DEF DoorMoves, WallButton, C!Move, C!WallButton
  <2>3. LP!Work' = LP!Work
    BY <2>2, HandlerWork
  <2>4. Work' = Work
    BY <2>2, <2>3 DEF Work
  <2>. QED
    BY <1>2, <2>4
<1>. QED
  BY <1>1, <1>2

(* A request for a service ends although it waits a second between presses:  *)
(* neither the door, nor the button at the wall, nor any frame adds to what  *)
(* the thread has left to do (LoRaHandler.cpp:173-179, GarageCover.cpp:10-21).*)
THEOREM ServiceEnds == Spec => [](Work \in Nat) /\ [][ComesToItsEnd]_vars
<1>1. (Init => IInv) /\ (IInv /\ [Next]_vars => IInv')
  BY NodeInv
<1>2. IInv => Work \in Nat
  BY WorkTypes
<1>3. IInv /\ [Next]_vars => [ComesToItsEnd]_vars
  BY WorkStep
<1>. QED
  BY <1>1, <1>2, <1>3, PTL DEF Spec
=============================================================================
