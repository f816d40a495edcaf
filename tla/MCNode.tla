------------------------------- MODULE MCNode -------------------------------
(***************************************************************************)
(* Node in a network of this node (1), the gateway (0) and another node    *)
(* (2).  The cover is entity 0; entity 4 is a number and 33 none.  Ids do  *)
(* not matter here: there is one.                                          *)
(***************************************************************************)
EXTENDS Node

MCcomponents == <<0, 4>>

Frame(dst, type, ack, asksAck, p0, p1) ==
  [dst |-> dst, src |-> 0, id |-> 0, p0 |-> p0, p1 |-> p1,
   flags |-> [ack_response |-> ack, ack_request |-> asksAck, msgType |-> type]]

\* Services for the cover; one that asks for an ack, one for a number, one for
\* the other node and one in an ack; and a value request.
MCHeard ==
  {Frame(1, "service_req", FALSE, FALSE, 0, s) : s \in {0, 1, 2}}
    \cup {Frame(1, "service_req", FALSE, TRUE, 0, 0),
          Frame(1, "service_req", FALSE, FALSE, 4, 1),
          Frame(2, "service_req", FALSE, TRUE, 0, 1),
          Frame(1, "service_req", TRUE, FALSE, 0, 1),
          Frame(1, "value_req", FALSE, FALSE, 0, 0)}

\* Less than a header, no more than the entity id, and all of a frame.
MCLengths == {2, 5, 6}
=============================================================================
