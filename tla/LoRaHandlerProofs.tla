-------------------------- MODULE LoRaHandlerProofs --------------------------
(***************************************************************************)
(* For every number of ids, every set of components and every frame: the   *)
(* gaps in the ids count the messages dropped, requests are dispatched as  *)
(* they came, nothing goes on the air without a cause, and the handler     *)
(* implements Responder.                                                   *)
(***************************************************************************)
EXTENDS LoRaHandler, SequenceTheorems, TLAPS

-----------------------------------------------------------------------------
(* The inductive invariant behind the safety properties.                     *)

IsHeader(h) ==
  h.dst \in Nat /\ h.src \in Nat /\ h.id \in Nat /\ h.flags \in Flags

\* The header cells always hold a header, of the frame received or sent last.
BufferInv == DOMAIN mBuffer = {"dst", "src", "id", "flags", "p0", "p1"} /\ IsHeader(mBuffer)

CountersInv ==
  /\ mMsgIdUp \in 0..ID_WORD - 1
  /\ lastUp \in 0..ID_WORD - 1 /\ missed \in 0..ID_WORD - 1
  /\ todo \in Seq(Nat)

\* At each label it is known how far the frame has been looked at.
HandlingInv ==
  /\ pc \in {"idle", "received", "answered", "call", "announce"}
  /\ pc = "idle" => rx = NoRx
  /\ rx # NoRx => IsHeader(rx.header)
  /\ pc \in {"received", "answered", "call"} =>
       rx # NoRx /\ rx.payload_length \in 0..BYTE - 1
  /\ rx # NoRx => pc = "received" \/ ForMe
  /\ pc = "call" => IsRequest
  /\ pc = "announce" /\ rx # NoRx => IsRequest /\ rx.header.flags.msgType = "discovery_req"

\* The header in rx is that of the frame received, if a whole one was, and the
\* payload is in the buffer until the ack is sent.
FrameInv ==
  /\ got = [frame |-> got.frame, n |-> got.n, acked |-> got.acked]
  /\ got.n \in 0..6 /\ got.acked \in BOOLEAN
  /\ pc = "received" => got.acked = FALSE
  /\ got.n >= HEADER => rx # NoRx /\ rx.header = Header(got.frame)
  /\ pc \in {"received", "answered"} /\ ~got.acked =>
       /\ got.n >= 5 => mBuffer.p0 = got.frame.p0
       /\ got.n >= 6 => mBuffer.p1 = got.frame.p1
       /\ got.n >= HEADER => rx.payload_length = got.n - HEADER

IInv ==
  BufferInv /\ CountersInv /\ HandlingInv /\ FrameInv /\ GapsAreDrops /\ DispatchIsFaithful
-----------------------------------------------------------------------------
(* Arithmetic of the ids. *)

(* A sum of two remainders wraps around at most once. *)
LEMMA Wrap ==
  ASSUME NEW i \in 0..2 * ID_WORD - 1
  PROVE  i % ID_WORD = IF i < ID_WORD THEN i ELSE i - ID_WORD
BY IdAssumption, SMTT(30)

(* The next id is an id. *)
LEMMA NextId ==
  ASSUME NEW i \in 0..ID_WORD - 1
  PROVE  (i + 1) % ID_WORD \in 0..ID_WORD - 1
<1>1. ASSUME NEW x \in 0..2 * ID_WORD - 1
      PROVE  x % ID_WORD = IF x < ID_WORD THEN x ELSE x - ID_WORD
  BY Wrap
<1>2. ID_WORD \in Nat /\ ID_WORD >= 1
  BY IdAssumption
<1>3. (i + 1) % ID_WORD = IF i + 1 < ID_WORD THEN i + 1 ELSE i + 1 - ID_WORD
  BY <1>1, <1>2
<1>. QED
  BY <1>2, <1>3

(* One more message dropped, one more id between. *)
LEMMA OneMoreDropped ==
  ASSUME NEW l \in 0..ID_WORD - 1, NEW m \in 0..ID_WORD - 1,
         NEW u \in 0..ID_WORD - 1, u = (l + m) % ID_WORD,
         NEW n, n = (m + 1) % ID_WORD
  PROVE  (u + 1) % ID_WORD = (l + n) % ID_WORD
<1>. DEFINE w(x) == IF x < ID_WORD THEN x ELSE x - ID_WORD
<1>1. ASSUME NEW x \in 0..2 * ID_WORD - 1 PROVE x % ID_WORD = w(x)
  BY Wrap
<1>2. ID_WORD \in Nat /\ ID_WORD >= 1
  BY IdAssumption
<1>3. u = w(l + m) /\ (u + 1) % ID_WORD = w(u + 1) /\ (m + 1) % ID_WORD = w(m + 1)
  BY <1>1, <1>2
<1>4. w(m + 1) \in 0..ID_WORD - 1
  BY <1>2
<1>5. n \in 0..ID_WORD - 1 /\ n = w(m + 1)
  BY <1>3, <1>4
<1>6. (l + n) % ID_WORD = w(l + n)
  BY <1>1, <1>2, <1>5, SMTT(30)
<1>. QED
  BY <1>2, <1>3, <1>5, <1>6

(* The id of the last message is its own remainder. *)
LEMMA NoneDropped ==
  ASSUME NEW u \in 0..ID_WORD - 1
  PROVE  u = (u + 0) % ID_WORD
<1>1. u \in Int /\ 0 <= u /\ u < ID_WORD /\ ID_WORD \in Int
  BY IdAssumption
<1>2. u + 0 = u /\ u % ID_WORD = u
  BY <1>1
<1>. QED
  BY <1>2
-----------------------------------------------------------------------------
(* The buffer. *)

CellNames == {"dst", "src", "id", "flags", "p0", "p1"}

(* A frame of n cells covers the first n cells of the buffer. *)
LEMMA OverCells ==
  ASSUME NEW b, NEW f, NEW n \in 0..6, DOMAIN b = CellNames
  PROVE  /\ DOMAIN Over(b, f, n) = CellNames
         /\ Over(b, f, n).dst = IF n >= 1 THEN f.dst ELSE b.dst
         /\ Over(b, f, n).src = IF n >= 2 THEN f.src ELSE b.src
         /\ Over(b, f, n).id = IF n >= 3 THEN f.id ELSE b.id
         /\ Over(b, f, n).flags = IF n >= 4 THEN f.flags ELSE b.flags
         /\ Over(b, f, n).p0 = IF n >= 5 THEN f.p0 ELSE b.p0
         /\ Over(b, f, n).p1 = IF n >= 6 THEN f.p1 ELSE b.p1
<1>. DEFINE in(c) == \E i \in 1..n : Cells[i] = c
<1>1. /\ Cells[1] = "dst" /\ Cells[2] = "src" /\ Cells[3] = "id"
      /\ Cells[4] = "flags" /\ Cells[5] = "p0" /\ Cells[6] = "p1"
  BY DEF Cells
<1>2. /\ in("dst") <=> n >= 1
      /\ in("src") <=> n >= 2
      /\ in("id") <=> n >= 3
      /\ in("flags") <=> n >= 4
      /\ in("p0") <=> n >= 5
      /\ in("p1") <=> n >= 6
  <2>1. \A i \in 1..n : i = 1 \/ i = 2 \/ i = 3 \/ i = 4 \/ i = 5 \/ i = 6
    OBVIOUS
  <2>. QED
    BY <1>1, <2>1
<1>3. Over(b, f, n) = [c \in CellNames |-> IF in(c) THEN f[c] ELSE b[c]]
  BY DEF Over
<1>. HIDE DEF in
<1>. QED
  BY <1>2, <1>3 DEF CellNames

(* Header cells laid over header cells are header cells. *)
LEMMA OverIsHeader ==
  ASSUME BufferInv, NEW f, IsHeader(f), NEW n \in 0..6
  PROVE  /\ DOMAIN Over(mBuffer, f, n) = CellNames
         /\ IsHeader(Over(mBuffer, f, n))
<1>1. DOMAIN mBuffer = CellNames /\ IsHeader(mBuffer)
  BY DEF BufferInv, CellNames
<1>2. n \in Int
  OBVIOUS
<1>. QED
  BY <1>1, <1>2, OverCells DEF IsHeader

(* Every frame heard has a header. *)
LEMMA HeardIsHeader ==
  ASSUME NEW f \in Heard
  PROVE  IsHeader(f) /\ f # Silence
<1>1. f \in [dst : Nat, src : Nat, id : Nat, flags : Flags, p0 : Nat, p1 : Nat]
  BY HeardAssumption
<1>2. f.dst \in Nat /\ f.src \in Nat /\ f.id \in Nat /\ f.flags \in Flags
  BY <1>1
<1>3. f.dst # Silence.dst
  BY <1>2 DEF Silence
<1>. QED
  BY <1>2, <1>3 DEF IsHeader

(* A header is not silence, nor is what was received nothing. *)
LEMMA HeaderIsSound ==
  ASSUME NEW h, IsHeader(h)
  PROVE  h # Silence
<1>1. h.dst # Silence.dst
  BY DEF Silence, IsHeader
<1>. QED
  BY <1>1

-----------------------------------------------------------------------------
(* Sending. *)

UpFrame(dst, type, p0, p1) ==
  [dst |-> dst, src |-> mMyAddress, id |-> (mMsgIdUp + 1) % ID_WORD,
   flags |-> [ack_response |-> FALSE, ack_request |-> TRUE, msgType |-> type],
   p0 |-> p0, p1 |-> p1]

(* Flags made of two Booleans and a type are flags. *)
LEMMA FlagsType ==
  ASSUME NEW a \in BOOLEAN, NEW b \in BOOLEAN, NEW t \in MsgTypes
  PROVE  [ack_response |-> a, ack_request |-> b, msgType |-> t] \in Flags
BY Zenon DEF Flags

(* The parts of flags. *)
LEMMA FlagsParts ==
  ASSUME NEW f \in Flags
  PROVE  f.ack_response \in BOOLEAN /\ f.ack_request \in BOOLEAN /\ f.msgType \in MsgTypes
BY Zenon DEF Flags

(* An uplink message takes the next id whether it goes out or not, and what  *)
(* goes out is the message.                                                  *)
LEMMA SendUp ==
  ASSUME BufferInv, CountersInv, GapsAreDrops,
         NEW dst \in Nat, NEW type \in MsgTypes, NEW p0, NEW p1,
         sendUp(dst, type, p0, p1)
  PROVE  /\ BufferInv'
         /\ mMsgIdUp' \in 0..ID_WORD - 1
         /\ lastUp' \in 0..ID_WORD - 1 /\ missed' \in 0..ID_WORD - 1
         /\ GapsAreDrops'
         /\ mMsgIdUp' = (mMsgIdUp + 1) % ID_WORD
         /\ tx' = Silence \/ tx' = UpFrame(dst, type, p0, p1)
<1>. DEFINE f == UpFrame(dst, type, p0, p1)
<1>1. /\ sendMsg(f, 6)
      /\ mMsgIdUp' = (mMsgIdUp + 1) % ID_WORD
      /\ IF tx' = Silence
         THEN missed' = (missed + 1) % ID_WORD /\ UNCHANGED lastUp
         ELSE missed' = 0 /\ lastUp' = tx'.id
  BY DEF sendUp, nextUp, UpFrame
<1>2. /\ f.dst = dst /\ f.src = mMyAddress /\ f.id = (mMsgIdUp + 1) % ID_WORD
      /\ f.flags \in Flags
  <2>1. f.flags = [ack_response |-> FALSE, ack_request |-> TRUE, msgType |-> type]
    BY DEF UpFrame
  <2>2. FALSE \in BOOLEAN /\ TRUE \in BOOLEAN
    OBVIOUS
  <2>. QED
    BY <2>1, <2>2, FlagsType DEF UpFrame
<1>3. mMsgIdUp' \in 0..ID_WORD - 1
  BY <1>1, NextId DEF CountersInv
<1>4. IsHeader(f)
  BY <1>1, <1>2, <1>3, HeardAssumption, IdAssumption DEF IsHeader
<1>5. f # Silence
  BY <1>4, HeaderIsSound
<1>. HIDE DEF f
<1>6. \/ mBuffer' = mBuffer /\ tx' = Silence
      \/ mBuffer' = Over(mBuffer, f, 6) /\ tx' = f
  BY <1>1 DEF sendMsg
<1>7. BufferInv'
  <2>1. 6 \in 0..6
    OBVIOUS
  <2>2. IsHeader(mBuffer') => IsHeader(mBuffer)'
    BY DEF IsHeader
  <2>. QED
    BY <1>4, <1>6, <2>1, <2>2, OverIsHeader DEF BufferInv, CellNames
<1>8. /\ lastUp' \in 0..ID_WORD - 1 /\ missed' \in 0..ID_WORD - 1
      /\ GapsAreDrops'
  <2>1. CASE tx' = Silence
    <3>1. /\ missed \in 0..ID_WORD - 1 /\ lastUp \in 0..ID_WORD - 1
          /\ mMsgIdUp \in 0..ID_WORD - 1
          /\ missed' = (missed + 1) % ID_WORD /\ lastUp' = lastUp
      BY <1>1, <2>1 DEF CountersInv
    <3>2. (missed + 1) % ID_WORD \in 0..ID_WORD - 1
      BY <3>1, NextId
    <3>3. mMsgIdUp' = (lastUp + missed') % ID_WORD
      BY <1>1, <3>1, OneMoreDropped DEF GapsAreDrops
    <3>4. mMsgIdUp' = (lastUp' + missed') % ID_WORD
      <4>1. lastUp = lastUp'
        BY <3>1
      <4>. QED
        BY ONLY <3>3, <4>1, Zenon
    <3>5. GapsAreDrops'
      BY ONLY <3>4, Zenon DEF GapsAreDrops
    <3>. QED
      BY <3>1, <3>2, <3>5
  <2>2. CASE tx' # Silence
    <3>1. missed' = 0 /\ lastUp' = mMsgIdUp'
      BY <1>1, <1>2, <1>6, <2>2
    <3>2. ID_WORD \in Nat /\ ID_WORD >= 1
      BY IdAssumption
    <3>3. lastUp' = (lastUp' + 0) % ID_WORD
      BY <1>3, <3>1, NoneDropped
    <3>4. mMsgIdUp' = (lastUp' + missed') % ID_WORD
      <4>1. missed' = 0 /\ mMsgIdUp' = lastUp'
        BY <3>1
      <4>. QED
        BY ONLY <3>3, <4>1, Zenon
    <3>5. GapsAreDrops'
      BY ONLY <3>4, Zenon DEF GapsAreDrops
    <3>. QED
      BY <1>3, <3>1, <3>2, <3>5
  <2>. QED
    BY <2>1, <2>2
<1>. QED
  BY <1>1, <1>3, <1>6, <1>7, <1>8 DEF f
-----------------------------------------------------------------------------
(* The invariant is kept by each action. *)

(* A handler that returns leaves nothing behind but the buffer and the ids. *)
LEMMA BackToIdle ==
  ASSUME Idle, BufferInv', CountersInv', GapsAreDrops'
  PROVE  IInv'
<1>1. pc' = "idle" /\ rx' = NoRx /\ got' = [frame |-> Silence, n |-> 0, acked |-> FALSE]
  BY DEF Idle, NoFrame
<1>2. HandlingInv'
  BY <1>1 DEF HandlingInv
<1>3. FrameInv'
  BY <1>1 DEF FrameInv, HEADER
<1>4. DispatchIsFaithful'
  BY <1>1 DEF DispatchIsFaithful
<1>. QED
  BY <1>2, <1>3, <1>4 DEF IInv

(* What sends nothing keeps the buffer and the ids. *)
LEMMA NothingSent ==
  ASSUME IInv, UNCHANGED <<mBuffer, mMsgIdUp, todo, lastUp, missed>>
  PROVE  BufferInv' /\ CountersInv' /\ GapsAreDrops'
<1>1. BufferInv'
  BY DEF IInv, BufferInv, IsHeader
<1>2. CountersInv'
  BY DEF IInv, CountersInv
<1>3. GapsAreDrops'
  BY DEF IInv, GapsAreDrops
<1>. QED
  BY <1>1, <1>2, <1>3

(* Frames that are dropped, ignored or only acted upon, and the end of a list. *)
LEMMA SilentEndStep ==
  ASSUME IInv, DropForeign \/ Ignore \/ DiscoveryDone \/ onSetOrService
  PROVE  IInv'
<1>1. Idle /\ UNCHANGED <<mBuffer, mMsgIdUp, todo, lastUp, missed>>
  BY DEF DropForeign, Ignore, DiscoveryDone, onSetOrService
<1>. QED
  BY <1>1, NothingSent, BackToIdle

(* A ping and a value request are answered by one message. *)
LEMMA OneAnswerStep ==
  ASSUME IInv, Ping \/ onValueReqMsg
  PROVE  IInv'
<1>1. PICK dst, type, p0 :
        dst \in Nat /\ type \in MsgTypes /\ sendUp(dst, type, p0, 0)
  <2>1. "ping_msg" \in MsgTypes /\ "value_msg" \in MsgTypes
    BY DEF MsgTypes
  <2>2. Ping => rx.header.src \in Nat
    BY DEF Ping, Calls, IInv, HandlingInv, IsHeader
  <2>. QED
    BY <2>1, <2>2, HeardAssumption DEF Ping, onValueReqMsg
<1>2. Idle /\ UNCHANGED todo
  BY DEF Ping, onValueReqMsg
<1>3. BufferInv' /\ GapsAreDrops' /\ CountersInv'
  BY <1>1, <1>2, SendUp DEF IInv, CountersInv
<1>. QED
  BY <1>2, <1>3, BackToIdle

(* A read that fails leaves part of a frame in the buffer. *)
LEMMA ReadFailsStep ==
  ASSUME IInv, NEW f \in Heard, NEW i \in 0..5, ReadFails(f, i)
  PROVE  IInv'
<1>1. /\ pc = "idle" /\ mBuffer' = Over(mBuffer, f, i)
      /\ UNCHANGED <<mMsgIdUp, pc, rx, item, todo, got, lastUp, missed>>
  BY DEF ReadFails, history
<1>2. i \in 0..6
  OBVIOUS
<1>3. BufferInv'
  BY <1>1, <1>2, HeardIsHeader, OverIsHeader DEF IInv, BufferInv, CellNames, IsHeader
<1>4. CountersInv' /\ GapsAreDrops'
  BY <1>1 DEF IInv, CountersInv, GapsAreDrops
<1>5. HandlingInv'
  BY <1>1 DEF IInv, HandlingInv
<1>6. FrameInv'
  BY <1>1 DEF IInv, FrameInv
<1>7. DispatchIsFaithful'
  BY <1>1 DEF DispatchIsFaithful
<1>. QED
  BY <1>3, <1>4, <1>5, <1>6, <1>7 DEF IInv

(* The header in rx is read from the buffer, whether the frame was long      *)
(* enough to bring one or not.                                               *)
LEMMA ReceiveStep ==
  ASSUME IInv, NEW f \in Heard, NEW n \in 1..6, Receive(f, n)
  PROVE  IInv'
<1>1. /\ pc' = "received" /\ mBuffer' = Over(mBuffer, f, n)
      /\ rx' = [header |-> Header(mBuffer'), payload_length |-> (n - HEADER) % BYTE]
      /\ got' = [frame |-> f, n |-> n, acked |-> FALSE]
      /\ UNCHANGED <<mMsgIdUp, item, todo, lastUp, missed>>
  BY DEF Receive
<1>2. n \in 0..6 /\ IsHeader(f)
  BY HeardIsHeader
<1>3. DOMAIN mBuffer = CellNames
  BY DEF IInv, BufferInv, CellNames
<1>4. DOMAIN mBuffer' = CellNames /\ IsHeader(mBuffer')
  BY <1>1, <1>2, OverIsHeader DEF IInv
<1>5. BufferInv'
  BY <1>4 DEF BufferInv, CellNames, IsHeader
<1>6. CountersInv' /\ GapsAreDrops'
  BY <1>1 DEF IInv, CountersInv, GapsAreDrops
<1>7. /\ rx'.header = Header(mBuffer') /\ IsHeader(rx'.header)
      /\ rx'.payload_length \in 0..BYTE - 1
      /\ n >= HEADER => rx'.payload_length = n - HEADER
  <2>1. IsHeader(Header(mBuffer'))
    BY <1>4 DEF IsHeader, Header
  <2>2. /\ (n - 4) % 256 \in 0..255
        /\ n >= 4 => (n - 4) % 256 = n - 4
    OBVIOUS
  <2>. QED
    BY <1>1, <2>1, <2>2 DEF BYTE, HEADER
<1>8. rx' # NoRx
  <2>1. rx'.header # Silence
    BY <1>7, HeaderIsSound
  <2>. QED
    BY <2>1 DEF NoRx
<1>9. HandlingInv'
  BY <1>1, <1>7, <1>8 DEF HandlingInv, IsHeader
<1>10. FrameInv'
  <2>1. n >= HEADER => Header(mBuffer') = Header(f)
    BY <1>1, <1>2, <1>3, OverCells DEF Header, HEADER
  <2>2. /\ n >= 5 => mBuffer'.p0 = f.p0
        /\ n >= 6 => mBuffer'.p1 = f.p1
    BY <1>1, <1>2, <1>3, OverCells
  <2>. QED
    BY <1>1, <1>2, <1>7, <1>8, <2>1, <2>2 DEF FrameInv
<1>11. DispatchIsFaithful'
  BY <1>1 DEF DispatchIsFaithful
<1>. QED
  BY <1>5, <1>6, <1>9, <1>10, <1>11 DEF IInv

(* An ack has a header of its own and is not silence. *)
LEMMA AckFrameIsHeader ==
  ASSUME IInv, pc = "received"
  PROVE  IsHeader(ackFrame) /\ ackFrame # Silence
<1>1. IsHeader(rx.header)
  BY DEF IInv, HandlingInv
<1>2. rx.header.flags.msgType \in MsgTypes
  BY <1>1, FlagsParts DEF IsHeader
<1>3. ackFrame.flags \in Flags
  <2>1. TRUE \in BOOLEAN /\ FALSE \in BOOLEAN
    OBVIOUS
  <2>. QED
    BY <1>2, <2>1, FlagsType DEF ackFrame
<1>4. IsHeader(ackFrame)
  BY <1>1, <1>3, HeardAssumption DEF IsHeader, ackFrame
<1>. QED
  BY <1>4, HeaderIsSound

(* What Ack does to the buffer and to the history. *)
LEMMA AckActs ==
  ASSUME IInv, Ack
  PROVE  /\ \/ mBuffer' = mBuffer /\ tx' = Silence /\ got'.acked = FALSE
            \/ /\ mBuffer' = Over(mBuffer, ackFrame, 5) /\ tx' = ackFrame
               /\ got'.acked = TRUE /\ rx.header.flags.ack_request
         /\ got' = [frame |-> got.frame, n |-> got.n, acked |-> got'.acked]
<1>1. ackFrame # Silence
  BY AckFrameIsHeader DEF Ack
<1>2. \/ mBuffer' = mBuffer /\ tx' = Silence
      \/ /\ mBuffer' = Over(mBuffer, ackFrame, 5) /\ tx' = ackFrame
         /\ rx.header.flags.ack_request
  BY DEF Ack, sendMsg
<1>3. got' = [got EXCEPT !.acked = tx' # Silence]
  BY DEF Ack
<1>4. got = [frame |-> got.frame, n |-> got.n, acked |-> got.acked]
  BY DEF IInv, FrameInv
<1>5. /\ got'.acked = (tx' # Silence) /\ got'.frame = got.frame /\ got'.n = got.n
      /\ got' = [frame |-> got'.frame, n |-> got'.n, acked |-> got'.acked]
  BY <1>3, <1>4
<1>6. CASE mBuffer' = mBuffer /\ tx' = Silence
  <2>1. got'.acked = FALSE
    BY <1>5, <1>6, Zenon
  <2>. QED
    BY <1>5, <1>6, <2>1
<1>7. CASE /\ mBuffer' = Over(mBuffer, ackFrame, 5) /\ tx' = ackFrame
           /\ rx.header.flags.ack_request
  <2>1. got'.acked = TRUE
    BY <1>1, <1>5, <1>7, Zenon
  <2>. QED
    BY <1>5, <1>7, <2>1, Zenon
<1>. QED
  BY <1>2, <1>6, <1>7

LEMMA AckStep ==
  ASSUME IInv, Ack
  PROVE  IInv'
<1>1. /\ pc = "received" /\ ForMe /\ pc' = "answered"
      /\ UNCHANGED <<mMsgIdUp, rx, item, todo, lastUp, missed>>
  BY DEF Ack
<1>2. /\ \/ mBuffer' = mBuffer /\ tx' = Silence /\ got'.acked = FALSE
         \/ mBuffer' = Over(mBuffer, ackFrame, 5) /\ tx' = ackFrame /\ got'.acked = TRUE
      /\ got' = [frame |-> got.frame, n |-> got.n, acked |-> got'.acked]
  BY AckActs
<1>3. BufferInv'
  <2>1. 5 \in 0..6
    OBVIOUS
  <2>. QED
    BY <1>1, <1>2, <2>1, AckFrameIsHeader, OverIsHeader DEF IInv, BufferInv, CellNames, IsHeader
<1>4. CountersInv' /\ GapsAreDrops'
  BY <1>1 DEF IInv, CountersInv, GapsAreDrops
<1>5. HandlingInv'
  BY <1>1 DEF IInv, HandlingInv, ForMe
<1>6. FrameInv'
  <2>1. got'.n = got.n /\ got'.frame = got.frame /\ got'.acked \in BOOLEAN
    <3>1. got'.acked = TRUE \/ got'.acked = FALSE
      BY <1>2
    <3>2. got'.n = got.n /\ got'.frame = got.frame
      BY <1>2
    <3>. QED
      BY <3>1, <3>2, Zenon
  <2>2. FrameInv
    BY DEF IInv
  <2>3. CASE got'.acked = FALSE
    <3>1. mBuffer' = mBuffer
      BY <1>2, <2>3
    <3>. QED
      BY <1>1, <1>2, <2>1, <2>2, <2>3, <3>1 DEF FrameInv
  <2>4. CASE got'.acked = TRUE
    BY <1>1, <1>2, <2>1, <2>2, <2>4 DEF FrameInv
  <2>. QED
    BY <1>2, <2>3, <2>4
<1>7. DispatchIsFaithful'
  BY <1>1 DEF DispatchIsFaithful
<1>. QED
  BY <1>3, <1>4, <1>5, <1>6, <1>7 DEF IInv

(* The callback of a whole frame without ack is given what the frame says.   *)
LEMMA DispatchStep ==
  ASSUME IInv, Dispatch
  PROVE  IInv'
<1>1. /\ pc = "answered" /\ IsRequest /\ pc' = "call" /\ item' \in Items
      /\ UNCHANGED <<mBuffer, mMsgIdUp, rx, todo, got, lastUp, missed>>
  BY DEF Dispatch, history
<1>2. BufferInv' /\ CountersInv' /\ GapsAreDrops'
  BY <1>1, NothingSent
<1>3. HandlingInv'
  BY <1>1 DEF IInv, HandlingInv, ForMe, IsRequest
<1>4. FrameInv'
  BY <1>1 DEF IInv, FrameInv
<1>5. ASSUME Whole, ~got.acked
      PROVE  /\ got.frame.flags.msgType \in {"discovery_req", "valueSet_req", "service_req"} =>
                  item'.entityId = got.frame.p0
             /\ got.frame.flags.msgType \in {"valueSet_req", "service_req"} =>
                  item'.arg = got.frame.p1
  <2>. DEFINE type == got.frame.flags.msgType
  <2>1. rx.header.flags.msgType = type
    <3>1. got.n >= HEADER
      BY <1>5 DEF Whole, IInv, FrameInv
    <3>. QED
      BY <3>1 DEF IInv, FrameInv, Header
  <2>2. CASE type = "discovery_req"
    <3>1. item' = [entityId |-> mBuffer.p0, arg |-> 0]
      BY <1>1, <2>1, <2>2 DEF Items
    <3>2. got.n >= 5
      BY <1>5, <2>2 DEF Whole
    <3>. QED
      BY <1>1, <1>5, <2>2, <3>1, <3>2 DEF IInv, FrameInv
  <2>3. CASE type \in {"valueSet_req", "service_req"}
    <3>1. got.n = 6
      BY <1>5, <2>3 DEF Whole
    <3>2. /\ mBuffer.p0 = got.frame.p0 /\ mBuffer.p1 = got.frame.p1
          /\ rx.payload_length = 2
      BY <1>1, <1>5, <3>1 DEF IInv, FrameInv, HEADER
    <3>3. item' = [entityId |-> mBuffer.p0, arg |-> mBuffer.p1]
      BY <1>1, <2>1, <2>3, <3>2 DEF Items
    <3>. QED
      BY <3>2, <3>3
  <2>. QED
    BY <2>2, <2>3
<1>6. DispatchIsFaithful'
  BY <1>1, <1>5 DEF DispatchIsFaithful, Faithful, Whole
<1>. QED
  BY <1>2, <1>3, <1>4, <1>6 DEF IInv

(* The components asked for are components. *)
LEMMA AskedType == Asked \in Seq(Nat)
<1>1. components \in Seq(Nat)
  BY ComponentsAssumption
<1>2. ASSUME Known(item.entityId) PROVE <<item.entityId>> \in Seq(Nat)
  <2>1. item.entityId \in Nat
    BY <1>1, <1>2 DEF Known
  <2>. QED
    BY <2>1
<1>. QED
  BY <1>1, <1>2 DEF Asked

LEMMA onDiscoveryReqMsgStep ==
  ASSUME IInv, onDiscoveryReqMsg
  PROVE  IInv'
<1>1. /\ pc = "call" /\ rx.header.flags.msgType = "discovery_req"
      /\ todo' = Asked /\ pc' = "announce"
      /\ UNCHANGED <<mBuffer, mMsgIdUp, rx, item, got, lastUp, missed>>
  BY DEF onDiscoveryReqMsg, Calls, history
<1>2. BufferInv' /\ GapsAreDrops'
  BY <1>1 DEF IInv, BufferInv, IsHeader, GapsAreDrops
<1>3. CountersInv'
  BY <1>1, AskedType DEF IInv, CountersInv
<1>4. HandlingInv'
  BY <1>1 DEF IInv, HandlingInv, ForMe, IsRequest
<1>5. FrameInv'
  BY <1>1 DEF IInv, FrameInv
<1>6. DispatchIsFaithful'
  BY <1>1 DEF DispatchIsFaithful
<1>. QED
  BY <1>2, <1>3, <1>4, <1>5, <1>6 DEF IInv

LEMMA SendDiscoveryStep ==
  ASSUME IInv, SendDiscovery
  PROVE  IInv'
<1>1. /\ pc = "announce" /\ todo # <<>> /\ todo' = Tail(todo)
      /\ sendUp(mGatewayAddress, "discovery_msg", Head(todo), 0)
      /\ UNCHANGED <<pc, rx, item, got>>
  BY DEF SendDiscovery
<1>2. "discovery_msg" \in MsgTypes /\ mGatewayAddress \in Nat
  BY HeardAssumption DEF MsgTypes
<1>3. todo' \in Seq(Nat)
  BY <1>1 DEF IInv, CountersInv
<1>4. BufferInv' /\ GapsAreDrops' /\ CountersInv'
  BY <1>1, <1>2, <1>3, SendUp DEF IInv, CountersInv
<1>5. HandlingInv'
  BY <1>1 DEF IInv, HandlingInv, ForMe, IsRequest
<1>6. FrameInv'
  BY <1>1 DEF IInv, FrameInv
<1>7. DispatchIsFaithful'
  BY <1>1 DEF DispatchIsFaithful
<1>. QED
  BY <1>4, <1>5, <1>6, <1>7 DEF IInv

LEMMA ReportStep ==
  ASSUME IInv, Report
  PROVE  IInv'
<1>1. /\ pc = "idle"
      /\ sendUp(mGatewayAddress, "value_msg", Len(components), 0)
      /\ UNCHANGED <<pc, rx, item, todo, got>>
  BY DEF Report
<1>2. "value_msg" \in MsgTypes /\ mGatewayAddress \in Nat
  BY HeardAssumption DEF MsgTypes
<1>3. BufferInv' /\ GapsAreDrops' /\ CountersInv'
  BY <1>1, <1>2, SendUp DEF IInv, CountersInv
<1>4. HandlingInv'
  BY <1>1 DEF IInv, HandlingInv
<1>5. FrameInv'
  BY <1>1 DEF IInv, FrameInv
<1>6. DispatchIsFaithful'
  BY <1>1 DEF DispatchIsFaithful
<1>. QED
  BY <1>3, <1>4, <1>5, <1>6 DEF IInv
-----------------------------------------------------------------------------
(* setup() starts with every component to announce and nothing received. *)
LEMMA InitStep == Init => IInv
<1>. SUFFICES ASSUME Init PROVE IInv
  OBVIOUS
<1>1. /\ mBuffer = [dst |-> 0, src |-> 0, id |-> 0, p0 |-> 0, p1 |-> 0,
                    flags |-> [ack_response |-> FALSE, ack_request |-> FALSE,
                               msgType |-> "ping_req"]]
      /\ mMsgIdUp = 0 /\ lastUp = 0 /\ missed = 0
      /\ pc = "announce" /\ todo = components /\ rx = NoRx
      /\ got = [frame |-> Silence, n |-> 0, acked |-> FALSE]
  BY DEF Init, NoFrame
<1>2. BufferInv
  <2>1. mBuffer.flags \in Flags
    <3>1. FALSE \in BOOLEAN /\ "ping_req" \in MsgTypes
      BY DEF MsgTypes
    <3>. QED
      BY <1>1, <3>1, FlagsType
  <2>. QED
    BY <1>1, <2>1 DEF BufferInv, IsHeader
<1>3. 0 \in 0..ID_WORD - 1
  BY IdAssumption
<1>4. GapsAreDrops
  <2>1. 0 = (0 + 0) % ID_WORD
    BY <1>3, NoneDropped
  <2>. QED
    BY <1>1, <2>1 DEF GapsAreDrops
<1>5. CountersInv
  BY <1>1, <1>3, ComponentsAssumption DEF CountersInv
<1>6. HandlingInv
  BY <1>1 DEF HandlingInv
<1>7. FrameInv
  BY <1>1 DEF FrameInv, HEADER
<1>8. DispatchIsFaithful
  BY <1>1 DEF DispatchIsFaithful
<1>. QED
  BY <1>2, <1>4, <1>5, <1>6, <1>7, <1>8 DEF IInv

(* Every step preserves IInv. *)
LEMMA NextStep == IInv /\ [Next]_vars => IInv'
<1>. SUFFICES ASSUME IInv, [Next]_vars PROVE IInv'
  OBVIOUS
<1>1. CASE Step
  BY <1>1, SilentEndStep, OneAnswerStep, AckStep, DispatchStep,
     onDiscoveryReqMsgStep, SendDiscoveryStep DEF Step
<1>2. CASE Report
  BY <1>2, ReportStep
<1>3. Len(Cells) = 6
  BY DEF Cells
<1>4. ASSUME NEW f \in Heard, NEW n \in 1..Len(Cells), Receive(f, n) PROVE IInv'
  BY <1>3, <1>4, ReceiveStep
<1>5. ASSUME NEW f \in Heard, NEW i \in 0..Len(Cells) - 1, ReadFails(f, i) PROVE IInv'
  <2>1. i \in 0..5
    BY <1>3
  <2>. QED
    BY <1>5, <2>1, ReadFailsStep
<1>6. CASE UNCHANGED vars
  <2>1. BufferInv' /\ CountersInv' /\ GapsAreDrops'
    BY <1>6, NothingSent DEF vars
  <2>2. HandlingInv'
    BY <1>6 DEF vars, IInv, HandlingInv, ForMe, IsRequest
  <2>3. FrameInv'
    BY <1>6 DEF vars, IInv, FrameInv
  <2>4. DispatchIsFaithful'
    BY <1>6 DEF vars, IInv, DispatchIsFaithful, Whole, Faithful
  <2>. QED
    BY <2>1, <2>2, <2>3, <2>4 DEF IInv
<1>. QED
  BY <1>1, <1>2, <1>4, <1>5, <1>6 DEF Next
-----------------------------------------------------------------------------
(* What is sent has a cause. *)

(* Only five actions send. *)
LEMMA WhoSends ==
  ASSUME [Next]_vars, tx' # Silence
  PROVE  \/ Ack \/ Ping \/ SendDiscovery \/ onValueReqMsg \/ Report \/ UNCHANGED vars
BY DEF Next, Step, DropForeign, Ignore, Dispatch, onDiscoveryReqMsg, DiscoveryDone,
       onSetOrService, Receive, ReadFails

(* An uplink message is no ack, and is of its type. *)
LEMMA UpFrameIs ==
  ASSUME BufferInv, CountersInv, GapsAreDrops,
         NEW dst \in Nat, NEW type \in MsgTypes, NEW p0, NEW p1,
         sendUp(dst, type, p0, p1), tx' # Silence
  PROVE  /\ tx' = UpFrame(dst, type, p0, p1)
         /\ ~tx'.flags.ack_response /\ tx'.flags.msgType = type
<1>1. tx' = UpFrame(dst, type, p0, p1)
  BY SendUp
<1>. QED
  BY <1>1 DEF UpFrame

(* A step that sends while a frame is handled sends its ack or an answer.    *)
LEMMA CauseStep == IInv /\ [Next]_vars => [HasACause]_vars
<1>. SUFFICES ASSUME IInv, [Next]_vars, ~UNCHANGED vars, tx' # Silence, got.n >= HEADER
              PROVE  HasACause
  BY DEF HasACause
<1>. DEFINE f == got.frame
<1>1. /\ rx # NoRx /\ rx.header.dst = f.dst /\ rx.header.src = f.src
      /\ rx.header.id = f.id /\ rx.header.flags = f.flags
  BY DEF IInv, FrameInv, Header
<1>2. pc # "received" => f.dst \in {mMyAddress, Broadcast}
  BY <1>1 DEF IInv, HandlingInv, ForMe
<1>3. CASE Ack
  <2>1. ForMe /\ rx.header.flags.ack_request /\ tx' = ackFrame
    BY <1>3, AckActs DEF Ack
  <2>2. /\ tx'.flags.ack_response = TRUE /\ tx'.flags.ack_request = FALSE
        /\ tx'.flags.msgType = f.flags.msgType
        /\ tx'.dst = f.src /\ tx'.id = f.id
    BY <1>1, <2>1 DEF ackFrame
  <2>. QED
    BY <1>1, <2>1, <2>2, Zenon DEF HasACause, ForMe
<1>4. CASE Ping
  <2>1. /\ pc = "call" /\ rx.header.flags.msgType = "ping_req"
        /\ sendUp(rx.header.src, "ping_msg", 0, 0) /\ rx.header.src \in Nat
    BY <1>4 DEF Ping, Calls, IInv, HandlingInv, IsHeader
  <2>2. "ping_msg" \in MsgTypes
    BY DEF MsgTypes
  <2>3. ~tx'.flags.ack_response /\ tx'.flags.msgType = "ping_msg"
    BY <2>1, <2>2, UpFrameIs DEF IInv
  <2>4. IsRequest
    BY <2>1 DEF IInv, HandlingInv
  <2>. QED
    BY <1>1, <1>2, <2>1, <2>3, <2>4, Zenon DEF HasACause, IsRequest
<1>5. CASE SendDiscovery
  <2>1. /\ pc = "announce" /\ sendUp(mGatewayAddress, "discovery_msg", Head(todo), 0)
        /\ mGatewayAddress \in Nat /\ "discovery_msg" \in MsgTypes
    BY <1>5, HeardAssumption DEF SendDiscovery, MsgTypes
  <2>2. ~tx'.flags.ack_response /\ tx'.flags.msgType = "discovery_msg"
    BY <2>1, UpFrameIs DEF IInv
  <2>3. IsRequest /\ rx.header.flags.msgType = "discovery_req"
    BY <1>1, <2>1 DEF IInv, HandlingInv
  <2>. QED
    BY <1>1, <1>2, <2>1, <2>2, <2>3, Zenon DEF HasACause, IsRequest
<1>6. CASE onValueReqMsg
  <2>1. /\ pc = "call" /\ rx.header.flags.msgType = "value_req"
        /\ sendUp(mGatewayAddress, "value_msg", Len(components), 0)
        /\ mGatewayAddress \in Nat /\ "value_msg" \in MsgTypes
    BY <1>6, HeardAssumption DEF onValueReqMsg, Calls, MsgTypes
  <2>2. ~tx'.flags.ack_response /\ tx'.flags.msgType = "value_msg"
    BY <2>1, UpFrameIs DEF IInv
  <2>3. IsRequest
    BY <2>1 DEF IInv, HandlingInv
  <2>. QED
    BY <1>1, <1>2, <2>1, <2>2, <2>3, Zenon DEF HasACause, IsRequest
<1>7. CASE Report
  BY <1>1, <1>7 DEF Report, IInv, HandlingInv
<1>. QED
  BY <1>3, <1>4, <1>5, <1>6, <1>7, WhoSends
-----------------------------------------------------------------------------
(* The invariant gives the safety properties the run checks. *)
LEMMA InvariantGives == IInv => TypeOK /\ DispatchIsFaithful /\ GapsAreDrops
BY DEF IInv, TypeOK, BufferInv, CountersInv, HandlingInv, IsHeader

(* For every number of ids, every list of components and every set of        *)
(* frames: the ids of the uplink messages count those the duty cycle         *)
(* dropped, and a whole request whose ack did not overwrite it is dispatched *)
(* as it came.                                                               *)
THEOREM RequestsAreHandled == Spec => []TypeOK /\ []DispatchIsFaithful /\ []GapsAreDrops
<1>1. Init => IInv
  BY InitStep
<1>2. IInv /\ [Next]_vars => IInv'
  BY NextStep
<1>3. IInv => TypeOK /\ DispatchIsFaithful /\ GapsAreDrops
  BY InvariantGives
<1>. QED
  BY <1>1, <1>2, <1>3, PTL DEF Spec

(* Nothing goes on the air but what a frame for this node asked for, setup() *)
(* and the reports of loop().                                                *)
THEOREM NothingIsSentWithoutACause == Spec => EveryTransmissionHasACause
<1>1. Init => IInv
  BY InitStep
<1>2. IInv /\ [Next]_vars => IInv'
  BY NextStep
<1>3. IInv /\ [Next]_vars => [HasACause]_vars
  BY CauseStep
<1>. QED
  BY <1>1, <1>2, <1>3, PTL DEF Spec, EveryTransmissionHasACause
-----------------------------------------------------------------------------
(* The handler comes to its end: the measure behind HandlerReturns.          *)

\* The steps the handler has left at most.
Work ==
  CASE pc = "received" -> Len(components) + 5
    [] pc = "answered" -> Len(components) + 4
    [] pc = "call" -> Len(components) + 3
    [] pc = "announce" -> Len(todo) + 1
    [] OTHER -> 0

\* A step of the handler leaves fewer.
ComesToItsEnd == pc # "idle" => Work' < Work

(* Work at each label. *)
LEMMA WorkIs ==
  /\ pc = "received" => Work = Len(components) + 5
  /\ pc = "answered" => Work = Len(components) + 4
  /\ pc = "call" => Work = Len(components) + 3
  /\ pc = "announce" => Work = Len(todo) + 1
  /\ pc = "idle" => Work = 0
BY DEF Work

(* And after a step. *)
LEMMA WorkBecomes ==
  /\ pc' = "answered" => Work' = Len(components) + 4
  /\ pc' = "call" => Work' = Len(components) + 3
  /\ pc' = "announce" => Work' = Len(todo') + 1
  /\ pc' = "idle" => Work' = 0
BY DEF Work

(* No more components are announced than there are. *)
LEMMA AskedIsShort == Asked \in Seq(Nat) /\ Len(Asked) <= Len(components)
<1>1. components \in Seq(Nat)
  BY ComponentsAssumption
<1>2. CASE item.entityId = AllEntities
  BY <1>1, <1>2 DEF Asked
<1>3. CASE item.entityId # AllEntities /\ Known(item.entityId)
  <2>1. PICK i \in 1..Len(components) : components[i] = item.entityId
    BY <1>3 DEF Known
  <2>2. item.entityId \in Nat /\ Len(components) \in Nat /\ Len(components) >= 1
    BY <1>1, <2>1
  <2>3. Asked = <<item.entityId>>
    BY <1>3 DEF Asked
  <2>. QED
    BY <2>2, <2>3
<1>4. CASE item.entityId # AllEntities /\ ~Known(item.entityId)
  BY <1>1, <1>4 DEF Asked
<1>. QED
  BY <1>2, <1>3, <1>4

(* The counts are numbers. *)
LEMMA WorkType ==
  ASSUME IInv
  PROVE  /\ Work \in Nat /\ (pc = "call" => Work >= 3)
         /\ pc # "idle" => Work > 0
<1>1. Len(components) \in Nat /\ Len(todo) \in Nat
  BY ComponentsAssumption DEF IInv, CountersInv
<1>2. pc \in {"idle", "received", "answered", "call", "announce"}
  BY DEF IInv, HandlingInv
<1>. QED
  BY <1>1, <1>2, WorkIs

(* Each action inside the handler. *)
LEMMA StepWork == IInv /\ Step => Work' < Work
<1>. SUFFICES ASSUME IInv, Step PROVE Work' < Work
  OBVIOUS
<1>1. Len(components) \in Nat /\ todo \in Seq(Nat) /\ Len(todo) \in Nat
  BY ComponentsAssumption DEF IInv, CountersInv
<1>2. pc # "idle"
  BY DEF Step, DropForeign, Ack, Ignore, Dispatch, Ping, onDiscoveryReqMsg,
     SendDiscovery, DiscoveryDone, onValueReqMsg, onSetOrService, Calls
<1>3. Work \in Nat /\ Work > 0
  BY <1>2, WorkType
<1>4. ASSUME pc' = "idle" PROVE Work' < Work
  BY <1>3, <1>4, WorkBecomes
<1>5. CASE DropForeign \/ Ignore \/ Ping \/ DiscoveryDone \/ onValueReqMsg \/ onSetOrService
  BY <1>4, <1>5 DEF DropForeign, Ignore, Ping, DiscoveryDone, onValueReqMsg,
       onSetOrService, Idle
<1>6. CASE Ack
  BY <1>1, <1>6, WorkIs, WorkBecomes DEF Ack
<1>7. CASE Dispatch
  BY <1>1, <1>7, WorkIs, WorkBecomes DEF Dispatch
<1>8. CASE onDiscoveryReqMsg
  <2>1. pc = "call" /\ pc' = "announce" /\ todo' = Asked
    BY <1>8 DEF onDiscoveryReqMsg, Calls
  <2>2. Len(Asked) \in Nat /\ Len(Asked) <= Len(components)
    BY AskedIsShort
  <2>. QED
    BY <1>1, <2>1, <2>2, WorkIs, WorkBecomes
<1>9. CASE SendDiscovery
  <2>1. pc = "announce" /\ pc' = "announce" /\ todo # <<>> /\ todo' = Tail(todo)
    BY <1>9 DEF SendDiscovery
  <2>2. Len(todo') = Len(todo) - 1
    BY <1>1, <2>1
  <2>. QED
    BY <1>1, <2>1, <2>2, WorkIs, WorkBecomes
<1>. QED
  BY <1>5, <1>6, <1>7, <1>8, <1>9 DEF Step

(* Nothing else happens until it is back in loop(). *)
LEMMA WorkStep == IInv /\ [Next]_vars => [ComesToItsEnd]_vars
<1>. SUFFICES ASSUME IInv, Next, pc # "idle" PROVE Work' < Work
  BY DEF ComesToItsEnd
<1>1. ~Report /\ \A f, i : ~Receive(f, i) /\ ~ReadFails(f, i)
  BY DEF Report, Receive, ReadFails
<1>. QED
  BY <1>1, StepWork DEF Next

(* Whatever is received, the handler is back in loop() after at most Work    *)
(* steps, those of setup() and of a discovery of all components included, so *)
(* that no frame is answered with more than an ack and an announcement of    *)
(* each component (LoRaHandler.cpp:78-179, main.cpp:378-407).                *)
THEOREM HandlerEnds == Spec => []TypeOK /\ [](Work \in Nat) /\ [][ComesToItsEnd]_vars
<1>1. Init => IInv
  BY InitStep
<1>2. IInv /\ [Next]_vars => IInv'
  BY NextStep
<1>3. IInv => TypeOK /\ Work \in Nat
  BY InvariantGives, WorkType
<1>4. IInv /\ [Next]_vars => [ComesToItsEnd]_vars
  BY WorkStep
<1>. QED
  BY <1>1, <1>2, <1>3, <1>4, PTL DEF Spec
-----------------------------------------------------------------------------
(* The refinement of Responder. *)

(* A list of announcements is one announcement for each entity, in order. *)
LEMMA AnnounceParts ==
  ASSUME NEW es \in Seq(Nat)
  PROVE  /\ Announce(es) = R!Announcements(es)
         /\ Announce(es) = <<>> <=> es = <<>>
         /\ es # <<>> =>
              /\ Head(Announce(es)) = R!Announcement(Head(es))
              /\ Tail(Announce(es)) = Announce(Tail(es))
<1>. DEFINE m(e) == [dst |-> mGatewayAddress, type |-> "discovery_msg", p0 |-> e]
<1>1. Announce(es) = [i \in 1..Len(es) |-> m(es[i])]
  BY DEF Announce
<1>2. \A e : R!Announcement(e) = m(e)
  BY DEF R!Announcement, R!Answer
<1>3. R!Announcements(es) = [i \in 1..Len(es) |-> m(es[i])]
  BY <1>2 DEF R!Announcements
<1>. DEFINE S == {m(e) : e \in Nat}
<1>5. ASSUME NEW t \in Seq(Nat)
      PROVE  /\ Announce(t) \in Seq(S) /\ Len(Announce(t)) = Len(t)
             /\ \A i \in 1..Len(t) : Announce(t)[i] = m(t[i])
  <2>1. Announce(t) = [i \in 1..Len(t) |-> m(t[i])] /\ Len(t) \in Nat
    BY <1>5 DEF Announce
  <2>2. \A i \in 1..Len(t) : t[i] \in Nat
    BY <1>5
  <2>. HIDE DEF m
  <2>3. \A i \in 1..Len(t) : m(t[i]) \in S
    BY <2>2
  <2>. HIDE DEF S
  <2>4. Announce(t) \in [1..Len(t) -> S]
    BY <2>1, <2>3
  <2>5. Announce(t) \in Seq(S)
    BY <2>1, <2>4, SeqDef
  <2>. QED
    BY <2>1, <2>4, <2>5
<1>. HIDE DEF m, S
<1>6. Announce(es) = <<>> <=> es = <<>>
  BY <1>5, EmptySeq
<1>7. ASSUME es # <<>>
      PROVE  /\ Head(Announce(es)) = m(Head(es))
             /\ Tail(Announce(es)) = Announce(Tail(es))
  <2>1. /\ Len(es) \in Nat /\ Len(es) >= 1
        /\ Announce(es) \in Seq(S) /\ Len(Announce(es)) = Len(es)
        /\ Announce(es) # <<>>
    BY <1>5, <1>6, <1>7, EmptySeq
  <2>2. Head(Announce(es)) = m(Head(es))
    BY <1>5, <1>7, <2>1
  <2>3. /\ Tail(es) \in Seq(Nat) /\ Len(Tail(es)) = Len(es) - 1
        /\ \A i \in 1..Len(es) - 1 : Tail(es)[i] = es[i + 1]
    BY <1>7, HeadTailProperties
  <2>4. /\ Tail(Announce(es)) \in Seq(S) /\ Len(Tail(Announce(es))) = Len(es) - 1
        /\ \A i \in 1..Len(es) - 1 : Tail(Announce(es))[i] = Announce(es)[i + 1]
    BY <2>1, HeadTailProperties
  <2>5. Announce(Tail(es)) \in Seq(S) /\ Len(Announce(Tail(es))) = Len(es) - 1
    BY <1>5, <2>3
  <2>6. ASSUME NEW i \in 1..Len(es) - 1
        PROVE  Tail(Announce(es))[i] = Announce(Tail(es))[i]
    <3>1. i \in 1..Len(Tail(es)) /\ i + 1 \in 1..Len(es)
      BY <2>1, <2>3
    <3>2. Announce(Tail(es))[i] = m(es[i + 1])
      BY <1>5, <2>3, <3>1
    <3>3. Tail(Announce(es))[i] = m(es[i + 1])
      BY <1>5, <2>4, <3>1
    <3>. QED
      BY <3>2, <3>3
  <2>7. Tail(Announce(es)) = Announce(Tail(es))
    BY <2>4, <2>5, <2>6, SeqEqual
  <2>. QED
    BY <2>2, <2>7
<1>. QED
  BY <1>1, <1>2, <1>3, <1>6, <1>7

(* Nothing to announce is nothing owed. *)
LEMMA AnnounceNone == Announce(<<>>) = <<>>
<1>1. <<>> \in Seq(Nat)
  OBVIOUS
<1>. QED
  BY <1>1, AnnounceParts

(* One component is announced by one message. *)
LEMMA AnnounceOne ==
  ASSUME NEW e
  PROVE  Announce(<<e>>) = <<R!Announcement(e)>>
BY DEF Announce, R!Announcement, R!Answer

Answering == pc \in {"call", "announce"}

\* What Responder sees at each label.
Seen ==
  /\ pc = "idle" => Serving = Silence /\ Owed = <<>> /\ ~Undecided
  /\ pc = "received" /\ ~ForMe => Serving = Silence /\ Owed = <<>> /\ ~Undecided
  /\ pc = "received" /\ ForMe => Serving = rx.header /\ Owed = <<>> /\ Undecided
  /\ pc = "answered" => Serving = rx.header /\ Owed = <<>> /\ Undecided
  /\ Answering =>
       /\ ~Undecided
       /\ Serving = IF Owed # <<>> /\ rx # NoRx THEN rx.header ELSE Silence
  /\ pc = "announce" => Owed = Announce(todo)
  /\ Calls("ping_req") => Owed = <<R!Answer(rx.header.src, "ping_msg", 0)>>
  /\ Calls("value_req") => Owed = <<R!Values>>
  /\ Calls("discovery_req") => Owed = Announce(Asked)
  /\ Calls("valueSet_req") \/ Calls("service_req") => Owed = <<>>

(* What Responder sees follows from the label. *)
LEMMA SeenAtLabel == IInv => Seen
<1>. SUFFICES ASSUME IInv PROVE Seen
  OBVIOUS
<1>1. /\ pc \in {"idle", "received", "answered", "call", "announce"}
      /\ pc = "idle" => rx = NoRx
      /\ pc = "answered" => ForMe
  BY DEF IInv, HandlingInv
<1>2. pc \notin {"call", "announce"} => Owed = <<>>
  BY DEF Owed, Calls
<1>3. pc = "announce" => Owed = Announce(todo)
  BY DEF Owed, Calls
<1>4. Calls("ping_req") => Owed = <<R!Answer(rx.header.src, "ping_msg", 0)>>
  BY DEF Owed, Calls, R!Answer
<1>5. Calls("value_req") => Owed = <<R!Values>>
  BY DEF Owed, Calls, R!Answer, R!Values
<1>6. Calls("discovery_req") => Owed = Announce(Asked)
  BY DEF Owed, Calls
<1>7. Calls("valueSet_req") \/ Calls("service_req") => Owed = <<>>
  BY DEF Owed, Calls
<1>8. Undecided <=> pc = "answered" \/ (pc = "received" /\ ForMe)
  BY <1>1 DEF Undecided
<1>9. Serving = IF Undecided \/ (Owed # <<>> /\ rx # NoRx) THEN rx.header ELSE Silence
  BY DEF Serving
<1>. QED
  BY <1>1, <1>2, <1>3, <1>4, <1>5, <1>6, <1>7, <1>8, <1>9 DEF Seen, Answering

LEMMA SeenNext == IInv' => Seen'
BY SeenAtLabel, PTL

(* A step that Responder does not see. *)
LEMMA PauseStep ==
  ASSUME tx' = Silence, Serving' = Serving, Undecided' <=> Undecided,
         AckOwed' <=> AckOwed, Owed' = Owed, mMsgIdUp' = mMsgIdUp
  PROVE  R!Pause
<1>1. AckOwed' = AckOwed
  BY Zenon DEF AckOwed
<1>2. (~Undecided)' = ~Undecided
  BY Zenon
<1>. QED
  BY <1>1, <1>2 DEF R!Pause, R!Silence, Silence

(* What Responder sees depends on four variables only. *)
LEMMA SameView ==
  ASSUME UNCHANGED <<pc, rx, item, todo>>
  PROVE  /\ Serving' = Serving /\ Owed' = Owed
         /\ Undecided' <=> Undecided
         /\ AckOwed' <=> AckOwed
<1>1. pc' = pc /\ rx' = rx /\ item' = item /\ todo' = todo
  OBVIOUS
<1>2. Undecided' <=> Undecided
  BY <1>1 DEF Undecided, ForMe
<1>3. Owed' = Owed
  BY <1>1 DEF Owed, Calls, Asked, Known
<1>. QED
  BY <1>1, <1>2, <1>3 DEF Serving, AckOwed

(* An uplink message is what Responder says. *)
LEMMA SayStep ==
  ASSUME BufferInv, CountersInv, GapsAreDrops,
         NEW dst \in Nat, NEW type \in MsgTypes, NEW p0, sendUp(dst, type, p0, 0)
  PROVE  R!Say(R!Answer(dst, type, p0))
<1>1. /\ mMsgIdUp' = (mMsgIdUp + 1) % ID_WORD
      /\ tx' = Silence \/ tx' = UpFrame(dst, type, p0, 0)
  BY SendUp
<1>2. UpFrame(dst, type, p0, 0) =
        [dst |-> dst, src |-> mMyAddress, id |-> mMsgIdUp',
         flags |-> [ack_response |-> FALSE, ack_request |-> TRUE, msgType |-> type],
         p0 |-> p0, p1 |-> 0]
  BY <1>1 DEF UpFrame
<1>3. /\ R!Answer(dst, type, p0).dst = dst /\ R!Answer(dst, type, p0).type = type
      /\ R!Answer(dst, type, p0).p0 = p0
  BY DEF R!Answer
<1>. QED
  BY <1>1, <1>2, <1>3 DEF R!Say, R!Silence, Silence

(* What a request is owed, by its kind. *)
LEMMA AnswersByKind ==
  ASSUME NEW h, h.flags \in Flags
  PROVE  /\ h.flags.ack_response => <<>> \in R!Answers(h)
         /\ ~h.flags.ack_response =>
              /\ h.flags.msgType = "ping_req" =>
                   <<R!Answer(h.src, "ping_msg", 0)>> \in R!Answers(h)
              /\ h.flags.msgType = "value_req" => <<R!Values>> \in R!Answers(h)
              /\ h.flags.msgType = "discovery_req" =>
                   /\ <<>> \in R!Answers(h)
                   /\ R!Announcements(components) \in R!Answers(h)
                   /\ \A i \in 1..Len(components) :
                        <<R!Announcement(components[i])>> \in R!Answers(h)
              /\ h.flags.msgType \notin {"ping_req", "value_req", "discovery_req"} =>
                   <<>> \in R!Answers(h)
<1>1. h.flags.ack_response \in BOOLEAN
  BY FlagsParts
<1>2. CASE h.flags.ack_response
  BY <1>2, Zenon DEF R!Answers
<1>3. CASE ~h.flags.ack_response
  <2>1. CASE h.flags.msgType = "ping_req"
    BY <1>3, <2>1 DEF R!Answers
  <2>2. CASE h.flags.msgType = "value_req"
    BY <1>3, <2>2 DEF R!Answers
  <2>3. CASE h.flags.msgType = "discovery_req"
    BY <1>3, <2>3 DEF R!Answers
  <2>4. CASE h.flags.msgType \notin {"ping_req", "value_req", "discovery_req"}
    BY <1>3, <2>4 DEF R!Answers
  <2>. QED
    BY <1>3, <2>1, <2>2, <2>3, <2>4
<1>. QED
  BY <1>2, <1>3

(* Setup starts where Responder starts. *)
LEMMA RefineInit == Init => R!Init
<1>. SUFFICES ASSUME Init PROVE R!Init
  OBVIOUS
<1>1. IInv /\ Seen
  BY InitStep, SeenAtLabel
<1>2. pc = "announce" /\ todo = components /\ rx = NoRx /\ mMsgIdUp = 0 /\ tx = Silence
  BY DEF Init
<1>3. Owed = R!Announcements(components)
  BY <1>1, <1>2, ComponentsAssumption, AnnounceParts DEF Seen
<1>4. Serving = Silence /\ ~Undecided
  BY <1>1, <1>2 DEF Seen, Answering
<1>5. AckOwed = FALSE /\ ~Undecided = TRUE
  BY <1>2, <1>4, Zenon DEF AckOwed
<1>. QED
  BY <1>2, <1>3, <1>4, <1>5 DEF R!Init, R!Nobody, R!Silence, Silence

(* A frame for this node is accepted; nobody else's is seen. *)
LEMMA RefineReceive ==
  ASSUME IInv, IInv', Seen, Seen', NEW f \in Heard, NEW n \in 1..6, Receive(f, n)
  PROVE  R!Accept \/ R!Pause
<1>1. /\ pc = "idle" /\ pc' = "received" /\ tx' = Silence
      /\ UNCHANGED <<mMsgIdUp, todo>>
  BY DEF Receive
<1>2. Serving = Silence /\ Owed = <<>> /\ ~Undecided /\ ~AckOwed /\ Owed' = <<>>
  BY <1>1 DEF Seen, AckOwed
<1>3. CASE ForMe'
  <2>1. Serving' = rx'.header /\ Undecided'
    BY <1>1, <1>3 DEF Seen
  <2>2. IsHeader(rx'.header)
    BY <1>1 DEF IInv, HandlingInv, IsHeader
  <2>3. Serving' # Silence
    BY <2>1, <2>2, HeaderIsSound
  <2>4. Serving'.dst \in {mMyAddress, Broadcast}
    BY <1>3, <2>1 DEF ForMe
  <2>5. rx'.header.flags.ack_request \in BOOLEAN
    BY <2>2, FlagsParts DEF IsHeader
  <2>6. AckOwed' = rx'.header.flags.ack_request
    BY <1>1, <2>1, <2>5, Zenon DEF AckOwed
  <2>7. (~Undecided)' = FALSE
    BY <2>1, Zenon
  <2>. QED
    BY <1>1, <1>2, <2>1, <2>3, <2>4, <2>6, <2>7
       DEF R!Accept, R!Free, R!Nobody, R!Silence, Silence
<1>4. CASE ~ForMe'
  <2>1. Serving' = Silence /\ ~Undecided' /\ ~AckOwed'
    BY <1>1, <1>4 DEF Seen, AckOwed
  <2>. QED
    BY <1>1, <1>2, <2>1, PauseStep
<1>. QED
  BY <1>3, <1>4

(* What ends with nothing owed is not seen. *)
LEMMA RefineSilentEnd ==
  ASSUME IInv, IInv', Seen, Seen', DropForeign \/ DiscoveryDone \/ onSetOrService
  PROVE  R!Pause
<1>1. pc' = "idle" /\ tx' = Silence /\ UNCHANGED <<mMsgIdUp, todo>>
  BY DEF DropForeign, DiscoveryDone, onSetOrService, Idle
<1>2. Serving' = Silence /\ Owed' = <<>> /\ ~Undecided' /\ ~AckOwed'
  BY <1>1 DEF Seen, AckOwed
<1>3. Serving = Silence /\ Owed = <<>> /\ ~Undecided
  <2>1. CASE DropForeign
    BY <2>1 DEF DropForeign, Seen
  <2>2. CASE DiscoveryDone
    <3>1. pc = "announce" /\ todo = <<>> /\ <<>> \in Seq(Nat)
      BY <2>2 DEF DiscoveryDone
    <3>2. Owed = <<>>
      BY <3>1, AnnounceParts DEF Seen
    <3>. QED
      BY <3>1, <3>2 DEF Seen, Answering
  <2>3. CASE onSetOrService
    <3>1. pc = "call" /\ Owed = <<>>
      BY <2>3 DEF onSetOrService, Calls, Seen
    <3>. QED
      BY <3>1 DEF Seen, Answering
  <2>. QED
    BY <2>1, <2>2, <2>3
<1>4. ~AckOwed
  BY <1>3 DEF AckOwed
<1>. QED
  BY <1>1, <1>2, <1>3, <1>4, PauseStep

(* The ack is the ack, if one is owed. *)
LEMMA RefineAck ==
  ASSUME IInv, IInv', Seen, Seen', Ack
  PROVE  R!Acknowledge \/ R!Pause
<1>1. /\ pc = "received" /\ ForMe /\ pc' = "answered"
      /\ UNCHANGED <<mMsgIdUp, rx>>
  BY DEF Ack
<1>2. /\ Serving = rx.header /\ Owed = <<>> /\ Undecided
      /\ Serving' = rx.header /\ Owed' = <<>> /\ Undecided' /\ ~AckOwed'
  BY <1>1 DEF Seen, AckOwed
<1>3. IsHeader(rx.header)
  BY <1>1 DEF IInv, HandlingInv
<1>4. (~Undecided)' = ~Undecided
  BY <1>2, Zenon
<1>5. CASE rx.header.flags.ack_request
  <2>1. tx' = Silence \/ tx' = ackFrame
    BY AckActs
  <2>2. AckOwed /\ AckOwed' = FALSE
    BY <1>1, <1>2, <1>5, Zenon DEF AckOwed
  <2>3. Serving # Silence
    BY <1>2, <1>3, HeaderIsSound
  <2>. QED
    BY <1>1, <1>2, <1>4, <2>1, <2>2, <2>3
       DEF R!Acknowledge, R!Nobody, R!Silence, Silence, ackFrame
<1>6. CASE ~rx.header.flags.ack_request
  <2>1. tx' = Silence /\ ~AckOwed
    BY <1>6, AckActs DEF AckOwed
  <2>. QED
    BY <1>1, <1>2, <2>1, PauseStep
<1>. QED
  BY <1>5, <1>6

(* A frame that is no request is owed nothing. *)
LEMMA RefineIgnore ==
  ASSUME IInv, IInv', Seen, Seen', Ignore
  PROVE  R!Decide
<1>1. /\ pc = "answered" /\ ~IsRequest /\ pc' = "idle" /\ tx' = Silence
      /\ UNCHANGED mMsgIdUp
  BY DEF Ignore, Idle
<1>2. /\ Serving = rx.header /\ Owed = <<>> /\ Undecided
      /\ Serving' = Silence /\ Owed' = <<>> /\ ~Undecided'
      /\ ~AckOwed /\ ~AckOwed'
  BY <1>1 DEF Seen, AckOwed
<1>3. IsHeader(rx.header)
  BY <1>1 DEF IInv, HandlingInv
<1>4. <<>> \in R!Answers(Serving)
  <2>1. rx.header.flags \in Flags
    BY <1>3 DEF IsHeader
  <2>2. \/ rx.header.flags.ack_response
        \/ rx.header.flags.msgType \notin {"ping_req", "value_req", "discovery_req"}
    BY <1>1 DEF IsRequest
  <2>. QED
    BY <1>2, <2>1, <2>2, AnswersByKind
<1>5. Serving # Silence
  BY <1>2, <1>3, HeaderIsSound
<1>6. AckOwed' = AckOwed /\ (~Undecided)' = TRUE
  BY <1>2, Zenon DEF AckOwed
<1>. QED
  BY <1>1, <1>2, <1>4, <1>5, <1>6
     DEF R!Decide, R!Forget, R!Nobody, R!Silence, Silence

(* What the callback owes is what the request may be owed. *)
LEMMA RefineDispatch ==
  ASSUME IInv, IInv', Seen, Seen', Dispatch
  PROVE  R!Decide
<1>1. /\ pc = "answered" /\ IsRequest /\ pc' = "call" /\ tx' = Silence
      /\ UNCHANGED <<mMsgIdUp, rx>>
  BY DEF Dispatch
<1>2. /\ Serving = rx.header /\ Owed = <<>> /\ Undecided
      /\ ~Undecided' /\ ~AckOwed /\ ~AckOwed'
      /\ Serving' = IF Owed' # <<>> /\ rx # NoRx THEN rx.header ELSE Silence
  BY <1>1 DEF Seen, AckOwed, Answering
<1>3. IsHeader(rx.header) /\ rx # NoRx
  BY <1>1 DEF IInv, HandlingInv
<1>4. Owed' \in R!Answers(Serving)
  <2>. DEFINE type == rx.header.flags.msgType
  <2>1. rx.header.flags \in Flags /\ ~rx.header.flags.ack_response
    BY <1>1, <1>3 DEF IsHeader, IsRequest
  <2>2. \A t : Calls(t)' <=> type = t
    BY <1>1 DEF Calls
  <2>3. CASE type = "ping_req"
    <3>1. Owed' = <<R!Answer(rx.header.src, "ping_msg", 0)>>
      BY <1>1, <2>2, <2>3 DEF Seen
    <3>. QED
      BY <1>2, <2>1, <2>3, <3>1, AnswersByKind
  <2>4. CASE type = "value_req"
    <3>1. Owed' = <<R!Values>>
      BY <1>1, <2>2, <2>4 DEF Seen
    <3>. QED
      BY <1>2, <2>1, <2>4, <3>1, AnswersByKind
  <2>5. CASE type = "discovery_req"
    <3>1. Owed' = Announce(Asked')
      BY <1>1, <2>2, <2>5 DEF Seen
    <3>2. \/ Asked' = components
          \/ \E i \in 1..Len(components) : Asked' = <<components[i]>>
          \/ Asked' = <<>>
      BY DEF Asked, Known
    <3>3. CASE Asked' = components
      <4>1. Owed' = R!Announcements(components)
        BY <3>1, <3>3, AnnounceParts, ComponentsAssumption
      <4>. QED
        BY <1>2, <2>1, <2>5, <4>1, AnswersByKind
    <3>4. CASE \E i \in 1..Len(components) : Asked' = <<components[i]>>
      <4>1. PICK i \in 1..Len(components) : Asked' = <<components[i]>>
        BY <3>4
      <4>2. Owed' = <<R!Announcement(components[i])>>
        BY <3>1, <4>1, AnnounceOne, ComponentsAssumption
      <4>. QED
        BY <1>2, <2>1, <2>5, <4>2, AnswersByKind
    <3>5. CASE Asked' = <<>>
      <4>1. Owed' = <<>>
        BY <3>1, <3>5, AnnounceNone
      <4>. QED
        BY <1>2, <2>1, <2>5, <4>1, AnswersByKind
    <3>. QED
      BY <3>2, <3>3, <3>4, <3>5
  <2>6. CASE type \in {"valueSet_req", "service_req"}
    <3>1. Owed' = <<>>
      BY <1>1, <2>2, <2>6 DEF Seen
    <3>. QED
      BY <1>2, <2>1, <2>6, <3>1, AnswersByKind
  <2>. QED
    BY <1>1, <2>3, <2>4, <2>5, <2>6 DEF IsRequest
<1>5. Serving # Silence /\ (Owed' = <<>> => Serving' = Silence)
      /\ (Owed' # <<>> => Serving' = Serving)
  BY <1>2, <1>3, HeaderIsSound
<1>6. AckOwed' = AckOwed /\ (~Undecided)' = TRUE
  BY <1>2, Zenon DEF AckOwed
<1>. QED
  BY <1>1, <1>2, <1>4, <1>5, <1>6
     DEF R!Decide, R!Forget, R!Nobody, R!Silence, Silence

(* The list of announcements that a request asked for is what it is owed. *)
LEMMA RefineOnDiscovery ==
  ASSUME IInv, IInv', Seen, Seen', onDiscoveryReqMsg
  PROVE  R!Pause
<1>1. /\ pc = "call" /\ Calls("discovery_req") /\ pc' = "announce"
      /\ todo' = Asked /\ tx' = Silence
      /\ UNCHANGED <<mMsgIdUp, rx>>
  BY DEF onDiscoveryReqMsg, Calls
<1>2. /\ Owed = Announce(Asked) /\ Owed' = Announce(Asked)
      /\ ~Undecided /\ ~Undecided'
      /\ Serving = IF Owed # <<>> /\ rx # NoRx THEN rx.header ELSE Silence
      /\ Serving' = IF Owed' # <<>> /\ rx # NoRx THEN rx.header ELSE Silence
  BY <1>1 DEF Seen, Answering
<1>3. ~AckOwed /\ ~AckOwed'
  BY <1>2 DEF AckOwed
<1>. QED
  BY <1>1, <1>2, <1>3, PauseStep

(* One announcement is one answer. *)
LEMMA RefineSendDiscovery ==
  ASSUME IInv, IInv', Seen, Seen', SendDiscovery
  PROVE  R!GiveAnswer
<1>1. /\ pc = "announce" /\ pc' = "announce" /\ todo # <<>> /\ todo' = Tail(todo)
      /\ sendUp(mGatewayAddress, "discovery_msg", Head(todo), 0)
      /\ UNCHANGED rx /\ todo \in Seq(Nat) /\ todo' \in Seq(Nat)
  BY DEF SendDiscovery, IInv, CountersInv
<1>2. /\ Owed = Announce(todo) /\ Owed' = Announce(todo')
      /\ ~Undecided /\ ~Undecided'
      /\ Serving = IF Owed # <<>> /\ rx # NoRx THEN rx.header ELSE Silence
      /\ Serving' = IF Owed' # <<>> /\ rx # NoRx THEN rx.header ELSE Silence
  BY <1>1 DEF Seen, Answering
<1>3. AckOwed' = AckOwed /\ (~Undecided)' = ~Undecided
  BY <1>2, Zenon DEF AckOwed
<1>4. /\ Owed # <<>> /\ Owed' = Tail(Owed)
      /\ Head(Owed) = R!Answer(mGatewayAddress, "discovery_msg", Head(todo))
  BY <1>1, <1>2, AnnounceParts DEF R!Announcement
<1>5. R!Say(Head(Owed))
  <2>1. mGatewayAddress \in Nat /\ "discovery_msg" \in MsgTypes
    BY HeardAssumption DEF MsgTypes
  <2>. QED
    BY <1>1, <1>4, <2>1, SayStep DEF IInv
<1>6. R!Forget(Owed')
  <2>1. Owed' = <<>> => Serving' = Silence
    BY <1>2
  <2>2. Owed' # <<>> => Serving' = Serving
    BY <1>2, <1>4
  <2>. QED
    BY <2>1, <2>2 DEF R!Forget, R!Nobody, Silence
<1>. QED
  BY <1>3, <1>4, <1>5, <1>6 DEF R!GiveAnswer

(* A ping and a value message are the one answer of their requests. *)
LEMMA RefineOneAnswer ==
  ASSUME IInv, IInv', Seen, Seen', Ping \/ onValueReqMsg
  PROVE  R!GiveAnswer
<1>1. pc = "call" /\ pc' = "idle"
  BY DEF Ping, onValueReqMsg, Calls, Idle
<1>2. PICK dst, type, p0 :
        /\ dst \in Nat /\ type \in MsgTypes
        /\ Owed = <<R!Answer(dst, type, p0)>> /\ sendUp(dst, type, p0, 0)
  <2>1. "ping_msg" \in MsgTypes /\ "value_msg" \in MsgTypes /\ mGatewayAddress \in Nat
    BY HeardAssumption DEF MsgTypes
  <2>2. CASE Ping
    <3>1. /\ Owed = <<R!Answer(rx.header.src, "ping_msg", 0)>>
          /\ sendUp(rx.header.src, "ping_msg", 0, 0) /\ rx.header.src \in Nat
      BY <1>1, <2>2 DEF Ping, Seen, IInv, HandlingInv, IsHeader
    <3>. QED
      BY <2>1, <3>1
  <2>3. CASE onValueReqMsg
    <3>1. /\ Owed = <<R!Answer(mGatewayAddress, "value_msg", Len(components))>>
          /\ sendUp(mGatewayAddress, "value_msg", Len(components), 0)
      BY <1>1, <2>3 DEF onValueReqMsg, Seen, R!Values
    <3>. QED
      BY <2>1, <3>1
  <2>. QED
    BY <2>2, <2>3
<1>3. /\ Head(Owed) = R!Answer(dst, type, p0) /\ Tail(Owed) = <<>> /\ Owed # <<>>
  BY <1>2
<1>4. Owed' = <<>> /\ Serving' = Silence /\ ~Undecided' /\ ~Undecided
  BY <1>1 DEF Seen, Answering
<1>5. AckOwed' = AckOwed /\ (~Undecided)' = ~Undecided
  BY <1>4, Zenon DEF AckOwed
<1>6. R!Say(Head(Owed))
  BY <1>2, <1>3, SayStep DEF IInv
<1>. QED
  BY <1>3, <1>4, <1>5, <1>6 DEF R!GiveAnswer, R!Forget, R!Nobody, Silence

(* A report is sent when nothing is served. *)
LEMMA RefineReport ==
  ASSUME IInv, Seen, Report
  PROVE  R!Report
<1>1. /\ pc = "idle" /\ UNCHANGED <<pc, rx, item, todo>>
      /\ sendUp(mGatewayAddress, "value_msg", Len(components), 0)
  BY DEF Report
<1>2. Serving = Silence /\ Owed = <<>>
  BY <1>1 DEF Seen
<1>3. /\ Serving' = Serving /\ Owed' = Owed /\ (Undecided' <=> Undecided)
      /\ (AckOwed' <=> AckOwed)
  BY <1>1, SameView
<1>4. AckOwed' = AckOwed /\ (~Undecided)' = ~Undecided
  BY <1>3, Zenon DEF AckOwed
<1>5. R!Say(R!Values)
  <2>1. mGatewayAddress \in Nat /\ "value_msg" \in MsgTypes
    BY HeardAssumption DEF MsgTypes
  <2>. QED
    BY <1>1, <2>1, SayStep DEF IInv, R!Values
<1>. QED
  BY <1>2, <1>3, <1>4, <1>5 DEF R!Report, R!Free, R!Nobody, Silence

(* Every step is a step of Responder, or is not seen by it. *)
LEMMA RefineNext == IInv /\ IInv' /\ [Next]_vars => [R!Next]_(R!vars)
<1>. SUFFICES ASSUME IInv, IInv', [Next]_vars PROVE [R!Next]_(R!vars)
  OBVIOUS
<1>1. Seen /\ Seen'
  BY SeenAtLabel, SeenNext
<1>2. Len(Cells) = 6
  BY DEF Cells
<1>3. CASE Step
  BY <1>1, <1>3, RefineSilentEnd, RefineAck, RefineIgnore, RefineDispatch,
     RefineOnDiscovery, RefineSendDiscovery, RefineOneAnswer DEF Step, R!Next
<1>4. CASE Report
  BY <1>1, <1>4, RefineReport DEF R!Next
<1>5. ASSUME NEW f \in Heard, NEW n \in 1..Len(Cells), Receive(f, n)
      PROVE  R!Next
  BY <1>1, <1>2, <1>5, RefineReceive DEF R!Next
<1>6. ASSUME NEW f \in Heard, NEW i \in 0..Len(Cells) - 1, ReadFails(f, i)
      PROVE  R!Next
  <2>1. tx' = Silence /\ mMsgIdUp' = mMsgIdUp /\ UNCHANGED <<pc, rx, item, todo>>
    BY <1>6 DEF ReadFails
  <2>2. R!Pause
    BY <2>1, SameView, PauseStep
  <2>. QED
    BY <2>2 DEF R!Next
<1>7. CASE UNCHANGED vars
  <2>1. /\ Serving' = Serving /\ Owed' = Owed /\ (Undecided' <=> Undecided)
        /\ (AckOwed' <=> AckOwed) /\ mMsgIdUp' = mMsgIdUp /\ tx' = tx
    BY <1>7, SameView DEF vars
  <2>2. AckOwed' = AckOwed /\ (~Undecided)' = ~Undecided
    BY <2>1, Zenon DEF AckOwed
  <2>. QED
    BY <2>1, <2>2 DEF R!vars
<1>. QED
  BY <1>3, <1>4, <1>5, <1>6, <1>7 DEF Next

(* The message handler keeps every promise of Responder: one request at a    *)
(* time, the ack first and once, each answer once, in order and to whom it   *)
(* is for, each message with the next number.                                *)
THEOREM HandlerImplementsResponder == Spec => ServesAsPromised
<1>1. Init => IInv /\ R!Init
  BY InitStep, RefineInit
<1>2. IInv /\ [Next]_vars => IInv'
  BY NextStep
<1>3. IInv /\ IInv' /\ [Next]_vars => [R!Next]_(R!vars)
  BY RefineNext
<1>. QED
  BY <1>1, <1>2, <1>3, PTL DEF Spec, ServesAsPromised, R!Spec
=============================================================================
