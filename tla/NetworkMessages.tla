-------------------------- MODULE NetworkMessages ---------------------------
(***************************************************************************)
(* The network messages clients and gateways exchange: the action of a     *)
(* NetworkMessageHeader with the fields that its receiver reads.           *)
(*                                                                         *)
(* The writes that one handler makes to one socket for one message are a   *)
(* single frame, with the set of their copies: one copy for each           *)
(* subscription.  A message on its way to a gateway has no copies yet.     *)
(***************************************************************************)

Connect         == [action |-> "CONNECT"]
ConnectMeshPeer == [action |-> "CONNECT_MESH_PEER"]
Disconnect      == [action |-> "DISCONNECT"]
Ack             == [action |-> "ACK"]

SubscribeFrame(subject, id) ==
  [action |-> "SUBSCRIBE", subject |-> subject, id |-> id]

UnsubscribeFrame(subject, id) ==
  [action |-> "UNSUBSCRIBE", subject |-> subject, id |-> id]

MessageFrame(topic, m, copies) ==
  [action |-> "SEND_MESSAGE", subject |-> topic, msg |-> m, copies |-> copies]

IsMessage(frame) == frame.action = "SEND_MESSAGE"
=============================================================================
