----------------------------- MODULE Responder -----------------------------
(***************************************************************************)
(* What the node promises its gateway, without the buffer, the callbacks   *)
(* and the order of the code: it serves one request at a time, owes it at  *)
(* most one ack and then the answers of its kind, each of which is given   *)
(* once and in order, and numbers all it says of its own accord or in      *)
(* answer.  The duty cycle may swallow any of these, but not their number. *)
(***************************************************************************)
EXTENDS Integers, Sequences

CONSTANTS ID_WORD, mMyAddress, mGatewayAddress, Broadcast, components, AckMark

VARIABLES
  serving,  \* the header of the request being served
  ackOwed, decided,   \* whether it is owed an ack; whether its answers are known
  owed,     \* the answers not yet given
  number,   \* of the last message
  tx        \* what this step put on the air
vars == <<serving, ackOwed, decided, owed, number, tx>>

Nobody == [dst |-> -1]
Silence == [dst |-> -1]

Answer(dst, type, p0) == [dst |-> dst, type |-> type, p0 |-> p0]
Announcement(e) == Answer(mGatewayAddress, "discovery_msg", e)
Announcements(es) == [i \in 1..Len(es) |-> Announcement(es[i])]
Values == Answer(mGatewayAddress, "value_msg", Len(components))

\* The answers a request may be owed.  Which components a discovery request
\* asks for is not known here: none, one, or all.
Answers(h) ==
  CASE h.flags.ack_response -> {<<>>}
    [] ~h.flags.ack_response /\ h.flags.msgType = "ping_req" ->
         {<<Answer(h.src, "ping_msg", 0)>>}
    [] ~h.flags.ack_response /\ h.flags.msgType = "value_req" -> {<<Values>>}
    [] ~h.flags.ack_response /\ h.flags.msgType = "discovery_req" ->
         {<<>>, Announcements(components)}
           \cup {<<Announcement(components[i])>> : i \in 1..Len(components)}
    [] OTHER -> {<<>>}

Init ==
  /\ serving = Nobody /\ ackOwed = FALSE /\ decided = TRUE
  /\ owed = Announcements(components)
  /\ number = 0 /\ tx = Silence

Free == serving = Nobody /\ owed = <<>>

\* A request that has been given all its answers is forgotten.
Forget(rest) == serving' = IF rest = <<>> THEN Nobody ELSE serving

\* A frame for this node arrives.
Accept ==
  /\ Free
  /\ serving' # Nobody /\ serving'.dst \in {mMyAddress, Broadcast}
  /\ ackOwed' = serving'.flags.ack_request /\ decided' = FALSE
  /\ tx' = Silence
  /\ UNCHANGED <<owed, number>>

\* The ack, if one is owed, is sent or swallowed; it has the request's number.
Acknowledge ==
  /\ serving # Nobody /\ ackOwed
  /\ tx' \in {Silence,
              [dst |-> serving.src, src |-> mMyAddress, id |-> serving.id,
               flags |-> [ack_response |-> TRUE, ack_request |-> FALSE,
                          msgType |-> serving.flags.msgType],
               p0 |-> AckMark]}
  /\ ackOwed' = FALSE
  /\ UNCHANGED <<serving, decided, owed, number>>

\* After the ack it is settled which answers are owed.
Decide ==
  /\ serving # Nobody /\ ~ackOwed /\ ~decided
  /\ owed' \in Answers(serving) /\ Forget(owed')
  /\ decided' = TRUE /\ tx' = Silence
  /\ UNCHANGED <<ackOwed, number>>

\* A message takes the next number, and is sent or swallowed.
Say(m) ==
  /\ number' = (number + 1) % ID_WORD
  /\ tx' \in {Silence,
              [dst |-> m.dst, src |-> mMyAddress, id |-> number',
               flags |-> [ack_response |-> FALSE, ack_request |-> TRUE,
                          msgType |-> m.type],
               p0 |-> m.p0, p1 |-> 0]}

GiveAnswer ==
  /\ owed # <<>>
  /\ Say(Head(owed))
  /\ owed' = Tail(owed) /\ Forget(owed')
  /\ UNCHANGED <<ackOwed, decided>>

Report == Free /\ Say(Values) /\ UNCHANGED <<serving, ackOwed, decided, owed>>

\* The radio falls silent.
Pause == tx' = Silence /\ UNCHANGED <<serving, ackOwed, decided, owed, number>>

Next == Accept \/ Acknowledge \/ Decide \/ GiveAnswer \/ Report \/ Pause

Spec == Init /\ [][Next]_vars
=============================================================================
