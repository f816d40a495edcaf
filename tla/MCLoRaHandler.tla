--------------------------- MODULE MCLoRaHandler ---------------------------
(***************************************************************************)
(* LoRaHandler in a network of this node (1), the gateway (0) and another  *)
(* node (2).  Entity 33 does not exist and is the byte '!'.                *)
(***************************************************************************)
EXTENDS LoRaHandler

MCcomponents == <<0, 4>>

Requests == [ack_response : {FALSE}, ack_request : BOOLEAN,
             msgType : {"ping_req", "discovery_req", "value_req",
                        "valueSet_req", "service_req", "value_msg"}]
\* An ack may carry both flags.
Acks == [ack_response : {TRUE}, ack_request : BOOLEAN,
         msgType : {"value_msg", "discovery_req"}]
Some == {f \in Requests \cup Acks : f.msgType \in {"discovery_req", "value_req"}}

Pings == {f \in Requests : f.msgType = "ping_req"}

Frames(srcs, dsts, flags, p0s) ==
  [dst : dsts, src : srcs, id : {2}, flags : flags, p0 : p0s, p1 : {1}]

\* Every kind of frame to this node from the gateway, and a ping from the
\* other node; some also to all and to the other node, and some with entity
\* id 255.
MCHeard ==
  Frames({0}, {1}, Requests \cup Acks, {4}) \cup Frames({2}, {1}, Pings, {4})
    \cup Frames({0}, {2, 255}, Some, {4}) \cup Frames({0}, {1}, Some, {255})
=============================================================================
