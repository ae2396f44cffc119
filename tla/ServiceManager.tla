--------------------------- MODULE ServiceManager ---------------------------
(***************************************************************************)
(* One service in one gateway process: Gateway/ServiceManager.cpp with the *)
(* MeshGatewayConnections it owns, in an arbitrary environment of clients  *)
(* and peer gateways.                                                      *)
(*                                                                         *)
(* Sockets are the accepted connections, of clients and of peer gateways   *)
(* that connected to us; Peers are the connections we made to the peers of *)
(* the service.  out[e] holds the writes to e that its other end may still *)
(* read: m_queuedWrites and what the network carries.                      *)
(***************************************************************************)
EXTENDS Subscriptions, NetworkMessages

CONSTANTS Sockets,                (* accepted sockets, of clients or peers *)
          Peers,                  (* our own connections to peer gateways  *)
          SubscriptionIDs,        (* subscription IDs in SUBSCRIBE headers *)
          SubjectNames,           (* subjects of SUBSCRIBE and UNSUBSCRIBE *)
          Topics,                 (* subjects of sent messages             *)
          LocalMessages,          (* messages our own clients send         *)
          RemoteMessages,         (* messages other gateways' clients send *)
          MaxQueued               (* bound: unread writes to one endpoint  *)

Endpoints == Sockets \cup Peers
Messages  == LocalMessages \cup RemoteMessages

ASSUME ServiceAssumption ==
  /\ Sockets \cap Peers = {}
  /\ LocalMessages \cap RemoteMessages = {}
  /\ MaxQueued \in Nat

VARIABLES
  stage,        (* lifecycle of each accepted socket, seen by the service  *)
  isMeshPeer,   (* Socket::m_isMeshPeer of each accepted socket            *)
  peerStatus,   (* MeshGatewayConnection::m_connectionStatus of each peer  *)
  interest,     (* the subscriptions in m_subjectMatchingEngine            *)
  out,          (* unread writes to each endpoint                          *)
  counted       (* messages in m_serviceStats since the last snapshot      *)

vars == <<stage, isMeshPeer, peerStatus, interest, out, counted>>

(***************************************************************************)
(* A socket is in m_clientSockets or m_meshGatewayConnections_WeAreThe-    *)
(* Server while it is moving or managed.  Once released it lives on, and   *)
(* reads on, until its last read callback and write request have ended.    *)
(***************************************************************************)
Stages == {"unregistered", "moving", "managed", "released", "destroyed"}

Registered(s) == stage[s] \in {"moving", "managed"}

PeerStatuses ==
  {"connecting", "connected", "retrying", "unresolved", "disconnected"}
-----------------------------------------------------------------------------
Entries == [subject : SubjectNames, id : SubscriptionIDs, socket : Sockets]

MessageFrames ==
  [action : {"SEND_MESSAGE"}, subject : Topics, msg : Messages,
   copies : SUBSET Entries]

Frames ==
  {Ack, ConnectMeshPeer}
    \cup [action : {"SUBSCRIBE", "UNSUBSCRIBE"},
          subject : SubjectNames, id : SubscriptionIDs]
    \cup MessageFrames

Write(e, frame) == out' = [out EXCEPT ![e] = Append(@, frame)]

(* relayToMesh: a write to each of our connections, connected or not.  On  *)
(* a connection that was lost it is queued for good, and nobody reads it.  *)
RelayToMesh(frame) ==
  out' = [e \in Endpoints |->
            IF e \in Peers /\ peerStatus[e] # "disconnected"
            THEN Append(out[e], frame)
            ELSE out[e]]

(* A connection ends: m_queuedWrites goes, what was sent is still on its   *)
(* way to the other end.                                                   *)
LosesUnsent(e) ==
  \E n \in 0 .. Len(out[e]) : out' = [out EXCEPT ![e] = SubSeq(@, 1, n)]

(* The bound on every handler that writes.                                 *)
Room == \A e \in Endpoints : Len(out[e]) < MaxQueued
-----------------------------------------------------------------------------
Init ==
  /\ stage      = [s \in Sockets |-> "unregistered"]
  /\ isMeshPeer = [s \in Sockets |-> FALSE]
  /\ peerStatus = [p \in Peers |-> "connecting"]
  /\ interest   = {}
  /\ out        = [e \in Endpoints |-> << >>]
  /\ counted    = {}

(* On the gateway's thread, when it has read the CONNECT of a socket.      *)
registerSocket(s, meshPeer) ==
  /\ stage[s] = "unregistered"
  /\ stage' = [stage EXCEPT ![s] = "moving"]
  /\ isMeshPeer' = [isMeshPeer EXCEPT ![s] = meshPeer]
  /\ UNCHANGED <<peerStatus, interest, out, counted>>

onMoveToLoopComplete(s) ==
  /\ Room
  /\ stage[s] = "moving"
  /\ stage' = [stage EXCEPT ![s] = "managed"]
  /\ Write(s, Ack)
  /\ UNCHANGED <<isMeshPeer, peerStatus, interest, counted>>

(***************************************************************************)
(* onDataReceived runs a handler for whatever the socket delivers: while   *)
(* it is moving, for what was read together with its CONNECT, and after    *)
(* its disconnection was handled, as nothing checks that the socket is     *)
(* still registered: for the rest of the bytes that brought a DISCONNECT,  *)
(* and for what is read after a write has failed.                          *)
(***************************************************************************)
CanReceive(s) == stage[s] \in {"moving", "managed", "released"}

onSubscribe(s, subject, id) ==
  /\ Room
  /\ CanReceive(s)
  /\ interest' = AddSubscription(interest, subject, id, s)
  /\ IF SubscriptionCount(interest', subject) = 1 /\ ~isMeshPeer[s]
     THEN RelayToMesh(SubscribeFrame(subject, id))
     ELSE UNCHANGED out
  /\ UNCHANGED <<stage, isMeshPeer, peerStatus, counted>>

onUnsubscribe(s, subject, id) ==
  /\ Room
  /\ CanReceive(s)
  /\ interest' = RemoveSubscription(interest, subject, s)
  /\ IF SubscriptionCount(interest', subject) = 0 /\ ~isMeshPeer[s]
     THEN RelayToMesh(UnsubscribeFrame(subject, id))
     ELSE UNCHANGED out
  /\ UNCHANGED <<stage, isMeshPeer, peerStatus, counted>>

(* The writes of onMessage, for a message from a peer or from a client.    *)
(* The first is a variant that forgets where the message came from.        *)
Forward_RelaysPeerMessages(topic, m, fromPeer) ==
  LET copies(e) == IF e \in Peers THEN {}
                   ELSE CopiesTo(interest, topic, e, isMeshPeer[e], FALSE)
  IN  out' = [e \in Endpoints |->
                IF copies(e) = {}
                THEN out[e]
                ELSE Append(out[e], MessageFrame(topic, m, copies(e)))]

Forward(topic, m, fromPeer) ==
  LET copies(e) == IF e \in Peers THEN {}
                   ELSE CopiesTo(interest, topic, e, isMeshPeer[e], fromPeer)
  IN  out' = [e \in Endpoints |->
                IF copies(e) = {}
                THEN out[e]
                ELSE Append(out[e], MessageFrame(topic, m, copies(e)))]

(* onMessage follows the Socket pointer of every entry that matches.  What *)
(* it does with one that dangles is undefined: no behaviour goes on there. *)
PointersAreValid(topic) ==
  \A e \in MatchingEntries(interest, topic) : stage[e.socket] # "destroyed"

(* A variant that counts the messages of peers too.                        *)
onMessage_CountsAll(topic, m, fromPeer) ==
  /\ Room
  /\ PointersAreValid(topic)
  /\ m \in IF fromPeer THEN RemoteMessages ELSE LocalMessages
  /\ Forward(topic, m, fromPeer)
  /\ counted' = counted \cup {m}
  /\ UNCHANGED <<stage, isMeshPeer, peerStatus, interest>>

onMessage(topic, m, fromPeer) ==
  /\ Room
  /\ PointersAreValid(topic)
  /\ m \in IF fromPeer THEN RemoteMessages ELSE LocalMessages
  /\ Forward(topic, m, fromPeer)
  /\ counted' = IF fromPeer THEN counted ELSE counted \cup {m}
  /\ UNCHANGED <<stage, isMeshPeer, peerStatus, interest>>

onSocketMessage(s, topic, m) ==
  /\ CanReceive(s)
  /\ onMessage(topic, m, isMeshPeer[s])

(* A variant that lets go of the socket and keeps its subscriptions.       *)
onDisconnected_KeepsInterest(s) ==
  /\ CanReceive(s)
  /\ stage' = [stage EXCEPT ![s] = "released"]
  /\ LosesUnsent(s)
  /\ UNCHANGED <<isMeshPeer, peerStatus, interest, counted>>

(* A DISCONNECT message, or the socket's status changed to DISCONNECTED.   *)
(* It may come again, and once per way for one socket.                     *)
onDisconnected(s) ==
  /\ CanReceive(s)
  /\ stage' = [stage EXCEPT ![s] = "released"]
  /\ interest' = RemoveAllSubscriptions(interest, s)
  /\ LosesUnsent(s)
  /\ UNCHANGED <<isMeshPeer, peerStatus, counted>>

(* The last reference to a released socket goes.                           *)
SocketDestroyed(s) ==
  /\ stage[s] = "released"
  /\ stage' = [stage EXCEPT ![s] = "destroyed"]
  /\ LosesUnsent(s)
  /\ UNCHANGED <<isMeshPeer, peerStatus, interest, counted>>

(* The counts are reset whether or not the snapshot reaches a coordinator. *)
onStatsTimer ==
  /\ counted' = {}
  /\ UNCHANGED <<stage, isMeshPeer, peerStatus, interest, out>>
-----------------------------------------------------------------------------
(* MeshGatewayConnection.                                                  *)

PeerStep(p, from, to) ==
  /\ peerStatus[p] = from
  /\ peerStatus' = [peerStatus EXCEPT ![p] = to]
  /\ UNCHANGED <<stage, isMeshPeer, interest, counted>>

(* CONNECT_MESH_PEER is written after what was queued while connecting.    *)
onConnectionSucceeded(p) ==
  /\ Room
  /\ PeerStep(p, "connecting", "connected")
  /\ Write(p, ConnectMeshPeer)

onConnectionFailed(p) ==
  /\ PeerStep(p, "connecting", "retrying")
  /\ UNCHANGED out

RetryTimer(p) ==
  /\ PeerStep(p, "retrying", "connecting")
  /\ UNCHANGED out

(* A failed name lookup is logged; nobody is told and nothing is retried.  *)
onResolutionFailed(p) ==
  /\ PeerStep(p, "connecting", "unresolved")
  /\ UNCHANGED out

(* No case of the switch handles DISCONNECTED.                             *)
onPeerDisconnected(p) ==
  /\ PeerStep(p, "connected", "disconnected")
  /\ LosesUnsent(p)

(* After a failed write the connection is still read.                      *)
onPeerMessage(p, topic, m) ==
  /\ peerStatus[p] \in {"connected", "disconnected"}
  /\ onMessage(topic, m, TRUE)
-----------------------------------------------------------------------------
(* The other end reads the next write; a socket that is not connected yet  *)
(* keeps its writes queued.                                                *)
Delivered(e) ==
  /\ \/ e \in Sockets /\ stage[e] \in {"managed", "released", "destroyed"}
     \/ e \in Peers /\ peerStatus[e] \in {"connected", "disconnected"}
  /\ out[e] # << >>
  /\ out' = [out EXCEPT ![e] = Tail(@)]
  /\ UNCHANGED <<stage, isMeshPeer, peerStatus, interest, counted>>

SocketStep(s) ==
  \/ \E meshPeer \in BOOLEAN : registerSocket(s, meshPeer)
  \/ onMoveToLoopComplete(s)
  \/ \E subject \in SubjectNames, id \in SubscriptionIDs :
       onSubscribe(s, subject, id) \/ onUnsubscribe(s, subject, id)
  \/ \E topic \in Topics, m \in Messages : onSocketMessage(s, topic, m)
  \/ onDisconnected(s)
  \/ SocketDestroyed(s)

PeerConnectionStep(p) ==
  \/ onConnectionSucceeded(p)
  \/ onConnectionFailed(p)
  \/ RetryTimer(p)
  \/ onResolutionFailed(p)
  \/ onPeerDisconnected(p)
  \/ \E topic \in Topics, m \in Messages : onPeerMessage(p, topic, m)

Next ==
  \/ \E s \in Sockets : SocketStep(s)
  \/ \E p \in Peers : PeerConnectionStep(p)
  \/ \E e \in Endpoints : Delivered(e)
  \/ onStatsTimer

Spec == Init /\ [][Next]_vars
-----------------------------------------------------------------------------
(***************************************************************************)
(* Every variable has its type: in particular what the service queues are  *)
(* well-formed network messages and the table names known sockets only.    *)
(***************************************************************************)
TypeOK ==
  /\ stage \in [Sockets -> Stages]
  /\ isMeshPeer \in [Sockets -> BOOLEAN]
  /\ peerStatus \in [Peers -> PeerStatuses]
  /\ interest \in SUBSET Entries
  /\ out \in [Endpoints -> Seq(Frames)]
  /\ counted \in SUBSET LocalMessages

(***************************************************************************)
(* The interest graph holds a raw Socket pointer for each subscription,    *)
(* "until removeSubscription() or removeAllSubscriptions() is called"; can *)
(* it "hold a pointer to a Socket after the Socket object no longer        *)
(* exists?" (Notes - Socket.txt).  It holds none if this is an invariant.  *)
(***************************************************************************)
NoDanglingPointer == \A e \in interest : stage[e.socket] # "destroyed"

(***************************************************************************)
(* There is one way to an entry of a socket that the service has let go    *)
(* of: a SUBSCRIBE that the socket delivers after its disconnection.  No   *)
(* order of moving, subscribing, disconnecting, once or again, and         *)
(* destroying sockets leaves one behind otherwise, and each further        *)
(* disconnection removes it (ServiceManager.cpp, onDisconnected and        *)
(* onSubscribe).                                                           *)
(***************************************************************************)
Stale(s) == ~Registered(s) /\ \E e \in interest : e.socket = s

StaleInterestIsLate ==
  [][\A s \in Sockets : Stale(s)' =>
       \/ Stale(s) /\ ~onDisconnected(s)
       \/ /\ stage[s] = "released"
          /\ \E subject \in SubjectNames, id \in SubscriptionIDs :
               onSubscribe(s, subject, id)]_vars

(***************************************************************************)
(* The mesh carries each message once and no further than one hop: what is *)
(* queued to a peer gateway is a single copy of a message of our own       *)
(* clients, and only on a connection the peer made to us (comment of       *)
(* onMessage; the rules of "Notes - mesh.txt").                            *)
(***************************************************************************)
MayBeWritten(e, frame) ==
  IsMessage(frame) =>
    /\ e \notin Peers
    /\ isMeshPeer[e] => /\ frame.msg \in LocalMessages
                       /\ \E entry \in Entries : frame.copies = {entry}

NoRelay ==
  \A e \in Endpoints : \A i \in DOMAIN out[e] : MayBeWritten(e, out[e][i])

(***************************************************************************)
(* The inductive invariant: the properties above, and that nothing has     *)
(* happened to a socket before its CONNECT.  A socket may still become a   *)
(* client or a mesh peer then, so nothing may be queued to it yet.         *)
(***************************************************************************)
UntouchedBeforeConnect ==
  \A s \in Sockets : stage[s] = "unregistered" =>
    /\ out[s] = << >>
    /\ \A e \in interest : e.socket # s

IInv ==
  /\ TypeOK
  /\ NoRelay
  /\ UntouchedBeforeConnect
=============================================================================
