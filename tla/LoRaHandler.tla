---------------------------- MODULE LoRaHandler ----------------------------
(***************************************************************************)
(* The message handler (LoRaHandler.h, LoRaHandler.cpp) with the callbacks *)
(* of main.cpp that answer requests.                                       *)
(*                                                                         *)
(* A frame is six cells: the four header bytes, the first payload byte     *)
(* (p0: the entity id, or the number of items) and the rest (p1: a service *)
(* or a value).  mBuffer holds the frame being received and then, in the   *)
(* same cells, every frame sent while it is handled; whatever a frame does *)
(* not reach keeps its old content.  Whether the duty cycle lets a message *)
(* out is left open here: AirTime decides it.                              *)
(***************************************************************************)
EXTENDS Integers, Sequences

CONSTANTS
  ID_WORD,          \* number of message ids: 256
  mMyAddress, mGatewayAddress,
  Broadcast,        \* LORA_BROADCAST_ADDRESS
  components,       \* entity ids of main.cpp's components, in order
  AllEntities,      \* 255, which asks for every entity
  AckMark,          \* '!', the payload of an ack
  Heard             \* bound: the frames that may be received, whole

ASSUME IdAssumption == ID_WORD \in Nat \ {0}
ASSUME ComponentsAssumption == components \in Seq(Nat) /\ AllEntities \in Nat

Cells == <<"dst", "src", "id", "flags", "p0", "p1">>
HEADER == 4       \* LORA_HEADER_LENGTH
BYTE == 256       \* number of values of payload_length

MsgTypes == {"ping_req", "ping_msg", "discovery_req", "discovery_msg",
             "value_req", "value_msg", "valueSet_req", "service_req",
             "reserved"}
Flags == [ack_response : BOOLEAN, ack_request : BOOLEAN, msgType : MsgTypes]

ASSUME HeardAssumption ==
  /\ mMyAddress \in Nat /\ mGatewayAddress \in Nat
  /\ Heard \subseteq [dst : Nat, src : Nat, id : Nat, flags : Flags,
                      p0 : Nat, p1 : Nat]

VARIABLES
  mBuffer, mMsgIdUp,
  pc,        \* where loraRx, or the report of loop(), is
  rx,        \* rxMsg: the parsed header and payload_length
  item,      \* the argument of the callback
  todo,      \* entity ids still to be announced by sendDiscoveryMsg...
  got,       \* history: the frame received, how many cells of it came, and
             \* whether its ack went out
  tx,        \* history: what this step put on the air
  lastUp,    \* history: id of the last uplink message on the air
  missed     \* history: uplink messages dropped since, modulo ID_WORD

history == <<got, lastUp, missed>>
vars == <<mBuffer, mMsgIdUp, pc, rx, item, todo, got, tx, lastUp, missed>>

Silence == [dst |-> -1]
NoFrame == [frame |-> Silence, n |-> 0, acked |-> FALSE]
NoItem == [entityId |-> 0, arg |-> 0]
NoRx == [header |-> Silence, payload_length |-> 0]

\* The first n cells of frame f over the buffer b.
Over(b, f, n) ==
  [c \in DOMAIN b |-> IF \E i \in 1..n : Cells[i] = c THEN f[c] ELSE b[c]]

\* LoRaHeaderT::fromByteArray
Header(b) == [dst |-> b.dst, src |-> b.src, id |-> b.id, flags |-> b.flags]
-----------------------------------------------------------------------------
(* Sending.                                                                  *)

\* Faulty variant of sendMsg: the frame is built before the limit is asked.
sendMsg_BuildsFirst(f, n) ==
  /\ mBuffer' = Over(mBuffer, f, n)
  /\ tx' \in {Silence, f}

\* sendMsg returns before it touches mBuffer when the limit is reached.
sendMsg(f, n) ==
  \/ UNCHANGED mBuffer /\ tx' = Silence
  \/ mBuffer' = Over(mBuffer, f, n) /\ tx' = f

\* Faulty variant: only a message that gets out takes an id.
nextUp_OnlyIfSent ==
  mMsgIdUp' = IF tx' = Silence THEN mMsgIdUp ELSE (mMsgIdUp + 1) % ID_WORD

\* Faulty variant: the id is not a byte.
nextUp_NoWrap == mMsgIdUp' = mMsgIdUp + 1

\* ++mMsgIdUp
nextUp == mMsgIdUp' = (mMsgIdUp + 1) % ID_WORD

\* An uplink message: setDefaultHeader, the next id, sendMsg.  p0 and p1 are
\* what the add... functions made of the payload.
sendUp(dst, type, p0, p1) ==
  LET f == [dst |-> dst, src |-> mMyAddress, id |-> (mMsgIdUp + 1) % ID_WORD,
            flags |-> [ack_response |-> FALSE, ack_request |-> TRUE,
                       msgType |-> type],
            p0 |-> p0, p1 |-> p1]
  IN  /\ sendMsg(f, 6)
      /\ nextUp
      /\ IF tx' = Silence
         THEN missed' = (missed + 1) % ID_WORD /\ UNCHANGED lastUp
         ELSE missed' = 0 /\ lastUp' = tx'.id

\* Faulty variant of ackFrame: the ack takes the next id of the node.
ackFrame_OwnId ==
  [dst |-> rx.header.src, src |-> mMyAddress, id |-> (mMsgIdUp + 1) % ID_WORD,
   flags |-> [ack_response |-> TRUE, ack_request |-> FALSE,
              msgType |-> rx.header.flags.msgType],
   p0 |-> AckMark]

\* sendAck: only p0 is sent, p1 is not.
ackFrame ==
  [dst |-> rx.header.src, src |-> mMyAddress, id |-> rx.header.id,
   flags |-> [ack_response |-> TRUE, ack_request |-> FALSE,
              msgType |-> rx.header.flags.msgType],
   p0 |-> AckMark]
-----------------------------------------------------------------------------
(* Receiving: loraRx.                                                        *)

\* setup() announces every component before loop() starts.
Init ==
  /\ mBuffer = [dst |-> 0, src |-> 0, id |-> 0, p0 |-> 0, p1 |-> 0,
                flags |-> [ack_response |-> FALSE, ack_request |-> FALSE,
                           msgType |-> "ping_req"]]
  /\ mMsgIdUp = 0
  /\ pc = "announce" /\ todo = components
  /\ rx = NoRx /\ item = NoItem
  /\ got = NoFrame /\ tx = Silence /\ lastUp = 0 /\ missed = 0

Idle == pc' = "idle" /\ rx' = NoRx /\ item' = NoItem /\ got' = NoFrame

\* read() failed after i bytes: loraRx gives up.
ReadFails(f, i) ==
  /\ pc = "idle"
  /\ mBuffer' = Over(mBuffer, f, i)
  /\ tx' = Silence
  /\ UNCHANGED <<mMsgIdUp, pc, rx, item, todo, history>>

\* A packet of n cells was read and its header parsed from mBuffer.  loraRx does
\* not compare packetSize with the size of mBuffer; the packets of the model fit.
Receive(f, n) ==
  /\ pc = "idle"
  /\ mBuffer' = Over(mBuffer, f, n)
  /\ rx' = [header |-> Header(mBuffer'), payload_length |-> (n - HEADER) % BYTE]
  /\ got' = [frame |-> f, n |-> n, acked |-> FALSE]
  /\ pc' = "received"
  /\ tx' = Silence
  /\ UNCHANGED <<mMsgIdUp, item, todo, lastUp, missed>>

\* Faulty variant: a frame for somebody else is taken when it asks for an ack.
ForMe_OrAckRequest ==
  rx.header.dst \in {mMyAddress, Broadcast} \/ rx.header.flags.ack_request

ForMe == rx.header.dst \in {mMyAddress, Broadcast}

DropForeign ==
  /\ pc = "received" /\ ~ForMe
  /\ Idle /\ tx' = Silence
  /\ UNCHANGED <<mBuffer, mMsgIdUp, todo, lastUp, missed>>

\* sendAck if the frame asks for it.
Ack ==
  /\ pc = "received" /\ ForMe
  /\ IF rx.header.flags.ack_request THEN sendMsg(ackFrame, 5)
     ELSE UNCHANGED mBuffer /\ tx' = Silence
  /\ got' = [got EXCEPT !.acked = tx' # Silence]
  /\ pc' = "answered"
  /\ UNCHANGED <<mMsgIdUp, rx, item, todo, lastUp, missed>>

\* Faulty variant: an ack is not told from a request.
IsRequest_EvenAcks ==
  rx.header.flags.msgType \in {"ping_req", "discovery_req", "value_req",
                               "valueSet_req", "service_req"}

\* loraRx returns on an ack; parseMsg knows five types.
IsRequest ==
  /\ ~rx.header.flags.ack_response
  /\ rx.header.flags.msgType \in {"ping_req", "discovery_req", "value_req",
                                  "valueSet_req", "service_req"}

Ignore ==
  /\ pc = "answered" /\ ~IsRequest
  /\ Idle /\ tx' = Silence
  /\ UNCHANGED <<mBuffer, mMsgIdUp, todo, lastUp, missed>>

\* What the fromByteArray functions make of the payload in mBuffer: nothing is
\* checked for a discovery request; a short value item stays (0, 0); a short
\* service item is left uninitialized.
Items ==
  LET whole == [entityId |-> mBuffer.p0, arg |-> mBuffer.p1]
      short == rx.payload_length < 2
  IN  CASE rx.header.flags.msgType = "discovery_req" ->
             {[entityId |-> mBuffer.p0, arg |-> 0]}
        [] rx.header.flags.msgType = "valueSet_req" ->
             IF short THEN {NoItem} ELSE {whole}
        [] rx.header.flags.msgType = "service_req" ->
             IF short
             THEN [entityId : {f.p0 : f \in Heard}, arg : {f.p1 : f \in Heard}]
             ELSE {whole}
        [] OTHER -> {NoItem}

\* parseMsg calls the callback.
Dispatch ==
  /\ pc = "answered" /\ IsRequest
  /\ item' \in Items
  /\ pc' = "call"
  /\ tx' = Silence
  /\ UNCHANGED <<mBuffer, mMsgIdUp, rx, todo, history>>
-----------------------------------------------------------------------------
(* The answers: sendPing and the callbacks of main.cpp.                      *)

Calls(type) == pc = "call" /\ rx.header.flags.msgType = type

\* Faulty variant: the default destination is not replaced.
Ping_ToGateway ==
  /\ Calls("ping_req")
  /\ sendUp(mGatewayAddress, "ping_msg", 0, 0)
  /\ Idle
  /\ UNCHANGED todo

\* The payload is the RSSI, which is not modelled.
Ping ==
  /\ Calls("ping_req")
  /\ sendUp(rx.header.src, "ping_msg", 0, 0)
  /\ Idle
  /\ UNCHANGED todo

\* Device::getComponentByEntityId finds a component.
Known(e) == \E i \in 1..Len(components) : components[i] = e

\* The components that onDiscoveryReqMsg is asked to announce.
Asked ==
  IF item.entityId = AllEntities THEN components
  ELSE IF Known(item.entityId) THEN <<item.entityId>> ELSE <<>>

onDiscoveryReqMsg ==
  /\ Calls("discovery_req")
  /\ todo' = Asked
  /\ pc' = "announce"
  /\ tx' = Silence
  /\ UNCHANGED <<mBuffer, mMsgIdUp, rx, item, history>>

\* Faulty variant: the entity stays in the list.
SendDiscovery_Again ==
  /\ pc = "announce" /\ todo # <<>>
  /\ sendUp(mGatewayAddress, "discovery_msg", Head(todo), 0)
  /\ UNCHANGED <<pc, rx, item, todo, got>>

\* One turn of sendDiscoveryMsgForAllComponents, or the only one.
SendDiscovery ==
  /\ pc = "announce" /\ todo # <<>>
  /\ sendUp(mGatewayAddress, "discovery_msg", Head(todo), 0)
  /\ todo' = Tail(todo)
  /\ UNCHANGED <<pc, rx, item, got>>

DiscoveryDone ==
  /\ pc = "announce" /\ todo = <<>>
  /\ Idle /\ tx' = Silence
  /\ UNCHANGED <<mBuffer, mMsgIdUp, todo, lastUp, missed>>

\* sendSensorValueForAllComponents; no entity id is looked at.
onValueReqMsg ==
  /\ Calls("value_req")
  /\ sendUp(mGatewayAddress, "value_msg", Len(components), 0)
  /\ Idle
  /\ UNCHANGED todo

\* The component that is addressed, if any, changes; nothing is sent.
onSetOrService ==
  /\ Calls("valueSet_req") \/ Calls("service_req")
  /\ Idle /\ tx' = Silence
  /\ UNCHANGED <<mBuffer, mMsgIdUp, todo, lastUp, missed>>

\* loop() reports all values when one is due.
Report ==
  /\ pc = "idle"
  /\ sendUp(mGatewayAddress, "value_msg", Len(components), 0)
  /\ UNCHANGED <<pc, rx, item, todo, got>>

Step ==
  \/ DropForeign \/ Ack \/ Ignore \/ Dispatch
  \/ Ping \/ onDiscoveryReqMsg \/ SendDiscovery \/ DiscoveryDone
  \/ onValueReqMsg \/ onSetOrService

Next ==
  \/ Step
  \/ Report
  \/ \E f \in Heard, n \in 1..Len(Cells) : Receive(f, n)
  \/ \E f \in Heard, i \in 0..Len(Cells) - 1 : ReadFails(f, i)

Spec == Init /\ [][Next]_vars

\* The firmware is one thread: a call in progress runs to its end.
FairSpec == Spec /\ WF_vars(Step)
-----------------------------------------------------------------------------
(* Every variable has a value of its kind. *)
TypeOK ==
  /\ mBuffer.flags \in Flags
  /\ mMsgIdUp \in 0..ID_WORD - 1
  /\ lastUp \in 0..ID_WORD - 1 /\ missed \in 0..ID_WORD - 1
  /\ pc \in {"idle", "received", "answered", "call", "announce"}
  /\ todo \in Seq(Nat)
  /\ pc \in {"received", "answered", "call"} =>
       rx.header.flags \in Flags /\ rx.payload_length \in 0..BYTE - 1

\* All the cells that a message of the received type needs were received.
Whole ==
  LET type == got.frame.flags.msgType
  IN  /\ got.n >= HEADER
      /\ type = "discovery_req" => got.n >= 5
      /\ type \in {"valueSet_req", "service_req"} => got.n = 6

\* The callback is given what the received frame says.
Faithful ==
  LET f == got.frame
  IN  /\ f.flags.msgType \in {"discovery_req", "valueSet_req", "service_req"} =>
           item.entityId = f.p0
      /\ f.flags.msgType \in {"valueSet_req", "service_req"} => item.arg = f.p1

(* A whole request reaches the entity it names, with its value or service,   *)
(* unless it asked for an ack and got it (LoRaHandler.cpp:98-113, 125-179):  *)
(* without an ack, or when the duty cycle drops the ack, the frame is still  *)
(* in mBuffer when parseMsg reads it.                                        *)
DispatchIsFaithful ==
  pc = "call" /\ Whole /\ ~got.acked => Faithful

(* What the test of a discovery request with ack expects                     *)
(* (LoRaHandler_test.cpp:409-411): the ack is sent and the callback is given *)
(* the entity id of the request.                                             *)
AckedRequestIsDispatched == pc = "call" /\ Whole /\ got.acked => Faithful

\* What is sent while a frame with a header is handled is its ack or an
\* answer of its kind.
HasACause ==
  LET f == got.frame
  IN  tx' # Silence /\ got.n >= HEADER =>
        /\ f.dst \in {mMyAddress, Broadcast}
        /\ IF tx'.flags.ack_response
           THEN /\ f.flags.ack_request /\ ~tx'.flags.ack_request
                /\ tx'.dst = f.src /\ tx'.id = f.id
                /\ tx'.flags.msgType = f.flags.msgType
           ELSE /\ ~f.flags.ack_response
                /\ <<f.flags.msgType, tx'.flags.msgType>> \in
                     {<<"ping_req", "ping_msg">>,
                      <<"discovery_req", "discovery_msg">>,
                      <<"value_req", "value_msg">>}

(* Whatever goes on the air has a cause: an ack answers a frame for this     *)
(* node that asked for one, and carries its id and type back to its sender;  *)
(* an uplink message answers a request of its kind, or no frame is being     *)
(* handled at all (setup() and the reports of loop()).  An ack of this node  *)
(* asks for none.  A frame with ack_response gets nothing but the ack it     *)
(* asks for if ack_request is set in it too, and a frame for somebody else   *)
(* gets nothing (LoRaHandler.cpp:75-123, main.cpp:548-578).                  *)
EveryTransmissionHasACause == [][HasACause]_vars

(* The gateway can count what it missed: the ids of two uplink messages that *)
(* follow each other on the air differ by one plus the number of messages    *)
(* the duty cycle dropped between them, acks not counted                     *)
(* (LoRaHandler.cpp:215-219, 265-295).                                       *)
GapsAreDrops == mMsgIdUp = (lastUp + missed) % ID_WORD

Announce(es) ==
  [i \in 1..Len(es) |-> [dst |-> mGatewayAddress, type |-> "discovery_msg",
                         p0 |-> es[i]]]

\* What the request in progress, or setup(), has still to be given.
Owed ==
  CASE Calls("ping_req") ->
         <<[dst |-> rx.header.src, type |-> "ping_msg", p0 |-> 0]>>
    [] Calls("value_req") ->
         <<[dst |-> mGatewayAddress, type |-> "value_msg", p0 |-> Len(components)]>>
    [] Calls("discovery_req") -> Announce(Asked)
    [] pc = "announce" -> Announce(todo)
    [] OTHER -> <<>>

\* It is known from the moment its header is parsed until nothing is owed.
Undecided == pc \in {"received", "answered"} /\ ForMe
Serving == IF Undecided \/ (Owed # <<>> /\ rx # NoRx) THEN rx.header ELSE Silence

\* Its ack is next if it asks for one.
AckOwed == pc = "received" /\ Undecided /\ rx.header.flags.ack_request

(* The node serves one request at a time, acks it at most once and before it *)
(* answers, gives each answer of its kind once and in order, to whom it is   *)
(* for, and numbers every message, sent or not, in the order of the          *)
(* messages: LoRaHandler implements Responder (LoRaHandler.cpp:25-180,       *)
(* main.cpp:262-347, 548-578).                                               *)
R == INSTANCE Responder WITH
       serving <- Serving, decided <- ~Undecided, owed <- Owed,
       ackOwed <- AckOwed,
       number <- mMsgIdUp
ServesAsPromised == R!Spec

(* loraRx and setup() return to loop(). *)
HandlerReturns == (pc # "idle") ~> (pc = "idle")
=============================================================================
