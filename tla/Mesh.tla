-------------------------------- MODULE Mesh --------------------------------
(***************************************************************************)
(* The mesh of one service: gateways that each connect to every other one, *)
(* the clients of each gateway, and the TCP connections between them.      *)
(*                                                                         *)
(* A connection is named by the end that makes it: a client, or the pair   *)
(* <<g, h>> for the MeshGatewayConnection of gateway g to gateway h.  The  *)
(* frames that one end writes are what the other end reads; each gateway   *)
(* does what a ServiceManager does, which ImplementsServiceManagers says.  *)
(***************************************************************************)
EXTENDS Subscriptions, NetworkMessages, SequencesExt

CONSTANTS Gateways,
          Clients,
          Home,             (* the gateway each client connects to         *)
          NETClients,       (* clients that use MessagingMeshLib.NET; the
                               others use MessagingMeshLib                 *)
          SubjectNames,     (* subjects that clients subscribe to          *)
          Topics,           (* subjects that clients send messages on      *)
          Publications,     (* bound: messages each client sends           *)
          MaxSubscriptions, (* bound: subscriptions each client makes      *)
          MaxQueued,        (* bound of ServiceManager, never reached here *)
          MayFail,          (* connections that may fail or break          *)
          MeshFirst         (* do clients start when the mesh is up?       *)

ASSUME MeshAssumption ==
  /\ Home \in [Clients -> Gateways]
  /\ NETClients \subseteq Clients
  /\ Clients \cap (Gateways \X Gateways) = {}
  /\ Publications \in [Clients -> Nat]
  /\ MaxSubscriptions \in [Clients -> Nat]
  /\ MaxQueued \in Nat
  /\ MayFail \subseteq Clients \cup (Gateways \X Gateways)
  /\ MeshFirst \in BOOLEAN

Links       == {l \in Gateways \X Gateways : l[1] # l[2]}
Connections == Clients \cup Links
Server      == [e \in Connections |-> IF e \in Links THEN e[2] ELSE Home[e]]
Accepted    == [g \in Gateways |-> {e \in Connections : Server[e] = g}]
Outgoing    == [g \in Gateways |-> {l \in Links : l[1] = g}]

IDs         == UNION {1 .. MaxSubscriptions[c] : c \in Clients}
Messages    == UNION {[from : {c}, n : 1 .. Publications[c], topic : Topics] :
                        c \in Clients}
SentFrom    == [g \in Gateways |-> {m \in Messages : Home[m.from] = g}]

VARIABLES
  stage,          (* of the accepted socket of each connection             *)
  peerStatus,     (* m_connectionStatus of each MeshGatewayConnection      *)
  interest,       (* the subscription table of each gateway                *)
  up,             (* frames to the server end of each connection           *)
  down,           (* frames from the server end of each connection         *)
  counted,        (* messages in the statistics of each gateway            *)
  client,         (* state of each client's Connection object              *)
  subscriptions,  (* what each client subscribed to, by subscription ID    *)
  published,      (* how many messages each client has sent                *)
  inbox,          (* messages each client has read and not yet dispatched  *)
  received        (* callbacks of each client, in their order              *)

gatewayVars == <<stage, peerStatus, interest, up, down, counted>>
clientVars  == <<client, subscriptions, published, inbox, received>>
vars        == <<gatewayVars, clientVars>>

(* What is read of a connection is handled until its socket is destroyed.  *)
CanReceive(e) == stage[e] \in {"moving", "managed", "released"}

(* What an accepted socket has written, or had when it ended, is sent.     *)
Sends(e) == stage[e] \in {"managed", "released", "destroyed"}

(* What the other gateway wrote to us, or had when the link broke, is sent.*)
Linked(l) == peerStatus[l] \in {"connected", "disconnected"}
-----------------------------------------------------------------------------
Init ==
  /\ stage         = [e \in Connections |-> "unregistered"]
  /\ peerStatus    = [l \in Links |-> "connecting"]
  /\ interest      = [g \in Gateways |-> {}]
  /\ up            = [e \in Connections |-> << >>]
  /\ down          = [e \in Connections |-> << >>]
  /\ counted       = [g \in Gateways |-> {}]
  /\ client        = [c \in Clients |-> "new"]
  /\ subscriptions = [c \in Clients |-> << >>]
  /\ published     = [c \in Clients |-> 0]
  /\ inbox         = [c \in Clients |-> << >>]
  /\ received      = [c \in Clients |-> << >>]

Written(queues, e, frame) == [queues EXCEPT ![e] = Append(@, frame)]
Read(queues, e)           == [queues EXCEPT ![e] = Tail(@)]

(* When one end of a connection ends, m_queuedWrites goes, and what it had *)
(* sent is still on its way.                                               *)
Unsent(queues, e) ==
  {[queues EXCEPT ![e] = SubSeq(@, 1, n)] : n \in 0 .. Len(queues[e])}
-----------------------------------------------------------------------------
(* The user's calls on a client's Connection object.                       *)

MeshIsUp == \A l \in Links : /\ peerStatus[l] = "connected"
                             /\ stage[l] = "managed"

connect(c) ==
  /\ client[c] = "new"
  /\ MeshFirst => MeshIsUp
  /\ client' = [client EXCEPT ![c] = "connecting"]
  /\ up' = Written(up, c, Connect)
  /\ UNCHANGED <<stage, peerStatus, interest, down, counted,
                 subscriptions, published, inbox, received>>

(* A variant that gives the ID of a released subscription away again.      *)
subscribe_ReusesID(c, subject) ==
  LET free == {id \in DOMAIN subscriptions[c] : ~subscriptions[c][id].active}
      id   == IF free = {} THEN Len(subscriptions[c]) + 1 ELSE CHOOSE i \in free : TRUE
      new  == [subject |-> subject, active |-> TRUE]
  IN  /\ client[c] = "open"
      /\ Len(subscriptions[c]) < MaxSubscriptions[c]
      /\ \A i \in DOMAIN subscriptions[c] \ free :
           subscriptions[c][i].subject # subject
      /\ subscriptions' = [subscriptions EXCEPT ![c] =
                             IF free = {} THEN Append(@, new)
                             ELSE [@ EXCEPT ![id] = new]]
      /\ up' = Written(up, c, SubscribeFrame(subject, id))
      /\ UNCHANGED <<stage, peerStatus, interest, down, counted,
                     client, published, inbox, received>>

(* For a subject it already holds, a client sends nothing.                 *)
subscribe(c, subject) ==
  /\ client[c] = "open"
  /\ Len(subscriptions[c]) < MaxSubscriptions[c]
  /\ \A id \in DOMAIN subscriptions[c] :
       subscriptions[c][id].active => subscriptions[c][id].subject # subject
  /\ subscriptions' = [subscriptions EXCEPT ![c] =
                         Append(@, [subject |-> subject, active |-> TRUE])]
  /\ up' = Written(up, c, SubscribeFrame(subject, Len(subscriptions[c]) + 1))
  /\ UNCHANGED <<stage, peerStatus, interest, down, counted,
                 client, published, inbox, received>>

(* The last callback of a subject is released.  MessagingMeshLib tells the *)
(* gateway nothing; neither library names the subject in an UNSUBSCRIBE.   *)
releaseSubscription(c, id) ==
  /\ client[c] = "open"
  /\ id \in DOMAIN subscriptions[c]
  /\ subscriptions[c][id].active
  /\ subscriptions' = [subscriptions EXCEPT ![c][id].active = FALSE]
  /\ up' = IF c \in NETClients
           THEN Written(up, c, UnsubscribeFrame(NoSubject, id))
           ELSE up
  /\ UNCHANGED <<stage, peerStatus, interest, down, counted,
                 client, published, inbox, received>>

sendMessage(c, topic) ==
  /\ client[c] = "open"
  /\ published[c] < Publications[c]
  /\ published' = [published EXCEPT ![c] = @ + 1]
  /\ LET m == [from |-> c, n |-> published[c] + 1, topic |-> topic]
     IN  up' = Written(up, c, MessageFrame(topic, m, {}))
  /\ UNCHANGED <<stage, peerStatus, interest, down, counted,
                 client, subscriptions, inbox, received>>

(* The end of the Connection object.  Only MessagingMeshLib unsubscribes   *)
(* first, in the order of a hash map.                                      *)
Farewell(c) ==
  LET active  == {id \in DOMAIN subscriptions[c] : subscriptions[c][id].active}
      leaving == IF c \in NETClients THEN {} ELSE active
  IN  [i \in 1 .. Cardinality(leaving) |->
         UnsubscribeFrame(NoSubject, SetToSeq(leaving)[i])]
      \o <<Disconnect>>

close(c) ==
  /\ client[c] = "open"
  /\ client' = [client EXCEPT ![c] = "closed"]
  /\ up' = [up EXCEPT ![c] = @ \o Farewell(c)]
  /\ inbox' = [inbox EXCEPT ![c] = << >>]
  /\ UNCHANGED <<stage, peerStatus, interest, down, counted,
                 subscriptions, published, received>>
-----------------------------------------------------------------------------
(* What the threads of a client do with what its gateway writes.           *)

ClientReads(c) ==
  /\ Sends(c)
  /\ client[c] \in {"connecting", "open"}
  /\ down[c] # << >>
  /\ down' = Read(down, c)
  /\ UNCHANGED <<stage, peerStatus, interest, up, counted,
                 subscriptions, published, received>>

onAck(c) ==
  /\ ClientReads(c)
  /\ Head(down[c]) = Ack
  /\ client' = [client EXCEPT ![c] = "open"]
  /\ UNCHANGED inbox

onGatewayMessage(c) ==
  /\ ClientReads(c)
  /\ IsMessage(Head(down[c]))
  /\ LET frame  == Head(down[c])
         copies == SetToSeq(frame.copies)
     IN  inbox' = [inbox EXCEPT ![c] = @ \o
                     [i \in DOMAIN copies |->
                        [id |-> copies[i].id, msg |-> frame.msg]]]
  /\ UNCHANGED client

(* A message for a subscription that the client has released is dropped.   *)
processGatewayMessage(c) ==
  /\ client[c] = "open"
  /\ inbox[c] # << >>
  /\ LET message == Head(inbox[c])
     IN  received' = IF subscriptions[c][message.id].active
                     THEN [received EXCEPT ![c] = Append(@, message)]
                     ELSE received
  /\ inbox' = Read(inbox, c)
  /\ UNCHANGED <<gatewayVars, client, subscriptions, published>>
-----------------------------------------------------------------------------
(* The server end of a connection.                                         *)

(* The frame it reads next, if there is one.                               *)
NextFrame(e) ==
  IF up[e] # << >> /\ (e \in Links => Linked(e))
  THEN {Head(up[e])}
  ELSE {}

(* Nobody reads what is written to a link that was lost.                   *)
Relayed(queues, g, frame) ==
  [e \in Connections |->
     IF e \in Outgoing[g] /\ peerStatus[e] # "disconnected"
     THEN Append(queues[e], frame)
     ELSE queues[e]]

(* Gateway::onConnect, which hands the socket to the service.              *)
onConnect(e) ==
  /\ stage[e] = "unregistered"
  /\ (IF e \in Links THEN ConnectMeshPeer ELSE Connect) \in NextFrame(e)
  /\ stage' = [stage EXCEPT ![e] = "moving"]
  /\ up' = Read(up, e)
  /\ UNCHANGED <<peerStatus, interest, down, counted, clientVars>>

(* Gateway::onDataReceived passes over any other message of a new socket.  *)
IgnoredBeforeConnect(e) ==
  /\ stage[e] = "unregistered"
  /\ \E frame \in NextFrame(e) : frame \notin {Connect, ConnectMeshPeer}
  /\ up' = Read(up, e)
  /\ UNCHANGED <<stage, peerStatus, interest, down, counted, clientVars>>

onMoveToLoopComplete(e) ==
  /\ stage[e] = "moving"
  /\ stage' = [stage EXCEPT ![e] = "managed"]
  /\ down' = Written(down, e, Ack)
  /\ UNCHANGED <<peerStatus, interest, up, counted, clientVars>>

(* Variants: one that relays the subscriptions of peers too, and one that  *)
(* counts the subscriptions before it adds this one.                       *)
onSubscribe_RelaysPeers(e, frame) ==
  LET g     == Server[e]
      table == AddSubscription(interest[g], frame.subject, frame.id, e)
  IN  /\ frame.action = "SUBSCRIBE"
      /\ interest' = [interest EXCEPT ![g] = table]
      /\ up' = IF SubscriptionCount(table, frame.subject) = 1
               THEN Relayed(Read(up, e), g, frame)
               ELSE Read(up, e)
      /\ UNCHANGED <<stage, down, counted>>

onSubscribe_CountsBefore(e, frame) ==
  LET g     == Server[e]
      table == AddSubscription(interest[g], frame.subject, frame.id, e)
  IN  /\ frame.action = "SUBSCRIBE"
      /\ interest' = [interest EXCEPT ![g] = table]
      /\ up' = IF /\ SubscriptionCount(interest[g], frame.subject) = 1
                  /\ e \notin Links
               THEN Relayed(Read(up, e), g, frame)
               ELSE Read(up, e)
      /\ UNCHANGED <<stage, down, counted>>

onSubscribe(e, frame) ==
  LET g     == Server[e]
      table == AddSubscription(interest[g], frame.subject, frame.id, e)
  IN  /\ frame.action = "SUBSCRIBE"
      /\ interest' = [interest EXCEPT ![g] = table]
      /\ up' = IF SubscriptionCount(table, frame.subject) = 1 /\ e \notin Links
               THEN Relayed(Read(up, e), g, frame)
               ELSE Read(up, e)
      /\ UNCHANGED <<stage, down, counted>>

(* A variant that removes all that the socket subscribed to.               *)
onUnsubscribe_RemovesAll(e, frame) ==
  LET g     == Server[e]
      table == RemoveAllSubscriptions(interest[g], e)
  IN  /\ frame.action = "UNSUBSCRIBE"
      /\ interest' = [interest EXCEPT ![g] = table]
      /\ up' = IF SubscriptionCount(table, frame.subject) = 0 /\ e \notin Links
               THEN Relayed(Read(up, e), g, frame)
               ELSE Read(up, e)
      /\ UNCHANGED <<stage, down, counted>>

onUnsubscribe(e, frame) ==
  LET g     == Server[e]
      table == RemoveSubscription(interest[g], frame.subject, e)
  IN  /\ frame.action = "UNSUBSCRIBE"
      /\ interest' = [interest EXCEPT ![g] = table]
      /\ up' = IF SubscriptionCount(table, frame.subject) = 0 /\ e \notin Links
               THEN Relayed(Read(up, e), g, frame)
               ELSE Read(up, e)
      /\ UNCHANGED <<stage, down, counted>>

(* Variants that relay the messages of peers, and that forward those of    *)
(* clients only.                                                           *)
Forwarded_RelaysPeerMessages(queues, g, frame, fromPeer) ==
  LET copies(e) == IF Server[e] # g THEN {}
                   ELSE CopiesTo(interest[g], frame.subject, e, e \in Links, FALSE)
  IN  [e \in Connections |->
         IF copies(e) = {}
         THEN queues[e]
         ELSE Append(queues[e],
                     MessageFrame(frame.subject, frame.msg, copies(e)))]

Forwarded_FromClientsOnly(queues, g, frame, fromPeer) ==
  LET copies(e) == IF Server[e] # g \/ fromPeer THEN {}
                   ELSE CopiesTo(interest[g], frame.subject, e, e \in Links, FALSE)
  IN  [e \in Connections |->
         IF copies(e) = {}
         THEN queues[e]
         ELSE Append(queues[e],
                     MessageFrame(frame.subject, frame.msg, copies(e)))]

(* What gateway g writes for a message from one of its clients or a peer.  *)
Forwarded(queues, g, frame, fromPeer) ==
  LET copies(e) == IF Server[e] # g THEN {}
                   ELSE CopiesTo(interest[g], frame.subject, e,
                                 e \in Links, fromPeer)
  IN  [e \in Connections |->
         IF copies(e) = {}
         THEN queues[e]
         ELSE Append(queues[e],
                     MessageFrame(frame.subject, frame.msg, copies(e)))]

(* No behaviour goes on where onMessage follows a dangling pointer.        *)
PointersAreValid(g, frame) ==
  \A entry \in MatchingEntries(interest[g], frame.subject) :
    stage[entry.socket] # "destroyed"

onMessage(e, frame) ==
  /\ IsMessage(frame)
  /\ PointersAreValid(Server[e], frame)
  /\ down' = Forwarded(down, Server[e], frame, e \in Links)
  /\ up' = Read(up, e)
  /\ counted' = [counted EXCEPT ![Server[e]] =
                   IF e \in Links THEN @ ELSE @ \cup {frame.msg}]
  /\ UNCHANGED <<stage, interest>>

(* A variant that keeps the subscriptions of the socket.                   *)
Disconnected_KeepsInterest(e) ==
  /\ stage' = [stage EXCEPT ![e] = "released"]
  /\ down' \in Unsent(down, e)
  /\ UNCHANGED <<interest, counted>>

Disconnected(e) ==
  /\ stage' = [stage EXCEPT ![e] = "released"]
  /\ interest' = [interest EXCEPT ![Server[e]] = RemoveAllSubscriptions(@, e)]
  /\ down' \in Unsent(down, e)
  /\ UNCHANGED counted

(* The DISCONNECT of a client is read; or the end of its connection is,    *)
(* with what was still unread lost; or a write fails, and reading goes on. *)
onDisconnected(e) ==
  /\ CanReceive(e)
  /\ Disconnected(e)
  /\ \/ e \in Clients /\ Disconnect \in NextFrame(e) /\ up' = Read(up, e)
     \/ e \in Clients /\ client[e] = "closed" /\ up' = [up EXCEPT ![e] = << >>]
     \/ e \in MayFail /\ UNCHANGED up
  /\ UNCHANGED <<peerStatus, clientVars>>

(* The last reference to the released socket goes; nothing is read then.   *)
SocketDestroyed(e) ==
  /\ stage[e] = "released"
  /\ stage' = [stage EXCEPT ![e] = "destroyed"]
  /\ down' \in Unsent(down, e)
  /\ UNCHANGED <<peerStatus, interest, up, counted, clientVars>>

onDataReceived(e) ==
  /\ CanReceive(e)
  /\ \E frame \in NextFrame(e) :
       onSubscribe(e, frame) \/ onUnsubscribe(e, frame) \/ onMessage(e, frame)
  /\ UNCHANGED <<peerStatus, clientVars>>
-----------------------------------------------------------------------------
(* The end of a link that made it: MeshGatewayConnection.                  *)

PeerStep(l, from, to) ==
  /\ peerStatus[l] = from
  /\ peerStatus' = [peerStatus EXCEPT ![l] = to]
  /\ UNCHANGED <<stage, interest, down, counted, clientVars>>

onConnectionSucceeded(l) ==
  /\ PeerStep(l, "connecting", "connected")
  /\ up' = Written(up, l, ConnectMeshPeer)

onConnectionFailed(l) ==
  /\ l \in MayFail
  /\ PeerStep(l, "connecting", "retrying")
  /\ UNCHANGED up

RetryTimer(l) ==
  /\ PeerStep(l, "retrying", "connecting")
  /\ UNCHANGED up

onResolutionFailed(l) ==
  /\ l \in MayFail
  /\ PeerStep(l, "connecting", "unresolved")
  /\ UNCHANGED up

onPeerDisconnected(l) ==
  /\ l \in MayFail
  /\ PeerStep(l, "connected", "disconnected")
  /\ up' \in Unsent(up, l)

(* A variant that counts the messages of peers too.                        *)
PeerReads_Counts(l) ==
  /\ Linked(l)
  /\ Sends(l)
  /\ down[l] # << >>
  /\ LET frame == Head(down[l])
     IN  /\ IsMessage(frame) => PointersAreValid(l[1], frame)
         /\ IF IsMessage(frame)
            THEN /\ down' = Forwarded(Read(down, l), l[1], frame, TRUE)
                 /\ counted' = [counted EXCEPT ![l[1]] = @ \cup {frame.msg}]
            ELSE /\ down' = Read(down, l)
                 /\ UNCHANGED counted
  /\ UNCHANGED <<stage, peerStatus, interest, up, clientVars>>

(* The ACK changes nothing; a message goes to the clients of this gateway. *)
PeerReads(l) ==
  /\ Linked(l)
  /\ Sends(l)
  /\ down[l] # << >>
  /\ LET frame == Head(down[l])
     IN  /\ IsMessage(frame) => PointersAreValid(l[1], frame)
         /\ down' = IF IsMessage(frame)
                    THEN Forwarded(Read(down, l), l[1], frame, TRUE)
                    ELSE Read(down, l)
  /\ UNCHANGED <<stage, peerStatus, interest, up, counted, clientVars>>
-----------------------------------------------------------------------------
UserStep(c) ==
  \/ connect(c)
  \/ \E subject \in SubjectNames : subscribe(c, subject)
  \/ \E id \in IDs : releaseSubscription(c, id)
  \/ \E topic \in Topics : sendMessage(c, topic)
  \/ close(c)

ClientStep(c) == onAck(c) \/ onGatewayMessage(c) \/ processGatewayMessage(c)

ServerStep(e) ==
  onConnect(e) \/ IgnoredBeforeConnect(e) \/ onMoveToLoopComplete(e)
    \/ onDataReceived(e)

LinkStatusStep(l) ==
  \/ onConnectionSucceeded(l) \/ onConnectionFailed(l) \/ RetryTimer(l)
  \/ onResolutionFailed(l) \/ onPeerDisconnected(l)

Next ==
  \/ \E c \in Clients : UserStep(c) \/ ClientStep(c)
  \/ \E e \in Connections :
       ServerStep(e) \/ onDisconnected(e) \/ SocketDestroyed(e)
  \/ \E l \in Links : LinkStatusStep(l) \/ PeerReads(l)

Spec == Init /\ [][Next]_vars
-----------------------------------------------------------------------------
(* The threads that read sockets and dispatch messages keep running, and   *)
(* TCP delivers while a connection lasts, the end of a closed connection   *)
(* too.  Nothing makes a user call, or makes a connection fail.            *)
Fairness ==
  /\ \A c \in Clients : WF_vars(ClientStep(c))
  /\ \A e \in Connections : WF_vars(ServerStep(e))
  /\ \A l \in Links : WF_vars(PeerReads(l))
  /\ \A c \in Clients : WF_vars(client[c] = "closed" /\ onDisconnected(c))

FairSpec == Spec /\ Fairness
-----------------------------------------------------------------------------
(***************************************************************************)
(* What each gateway does to its sockets, its table, its statistics and    *)
(* the writes that wait for their readers is a behaviour of ServiceManager *)
(* with the other gateways and the clients for its environment.  So what   *)
(* is proved of a ServiceManager holds of every gateway here; and a peer   *)
(* never sends a gateway a message that one of its own clients sent.       *)
(***************************************************************************)
SM(g) == INSTANCE ServiceManager WITH
  Sockets <- Accepted[g],
  Peers <- Outgoing[g],
  SubscriptionIDs <- IDs,
  SubjectNames <- SubjectNames \cup {NoSubject},
  LocalMessages <- SentFrom[g],
  RemoteMessages <- Messages \ SentFrom[g],
  stage      <- [e \in Accepted[g] |-> stage[e]],
  isMeshPeer <- [e \in Accepted[g] |-> e \in Links /\ stage[e] # "unregistered"],
  peerStatus <- [l \in Outgoing[g] |-> peerStatus[l]],
  interest   <- interest[g],
  out        <- [e \in Accepted[g] \cup Outgoing[g] |->
                   IF e \in Outgoing[g] THEN up[e] ELSE down[e]],
  counted    <- counted[g]

ImplementsServiceManagers ==
  /\ \A g \in Gateways : SM(g)!Init
  /\ [][\A g \in Gateways : UNCHANGED SM(g)!vars \/ SM(g)!Next]_vars

(* Every variable has its type.                                            *)
TypeOK ==
  /\ \A g \in Gateways : SM(g)!TypeOK
  /\ client \in [Clients -> {"new", "connecting", "open", "closed"}]
  /\ subscriptions \in
       [Clients -> Seq([subject : SubjectNames, active : BOOLEAN])]
  /\ \A c \in Clients : published[c] \in 0 .. Publications[c]
  /\ \A c \in Clients : Range(inbox[c]) \cup Range(received[c])
                          \subseteq [id : IDs, msg : Messages]

(***************************************************************************)
(* A subscription gets the messages of one sender in the order they were   *)
(* sent, and none of them twice, whether it gets them from its own gateway *)
(* or over the mesh (ServiceManager::onMessage relays a message at most    *)
(* once and never onward; the connections and queues keep order).          *)
(***************************************************************************)
InOrderAndOnce ==
  \A c \in Clients : \A j \in DOMAIN received[c] : \A i \in 1 .. j - 1 :
    LET earlier == received[c][i]
        later   == received[c][j]
    IN  /\ earlier.id = later.id
        /\ earlier.msg.from = later.msg.from
        => earlier.msg.n < later.msg.n

(***************************************************************************)
(* A callback gets messages of the subject it subscribed to: a gateway     *)
(* that keeps an old subscription of the client, or one that relays a      *)
(* message under another gateway's subscription ID, never makes a client   *)
(* take it for another subscription (ConnectionImpl::subscribe and         *)
(* processGatewayMessage, ServiceManager::onMessage).                      *)
(***************************************************************************)
DeliveredToItsSubject ==
  \A c \in Clients : \A message \in Range(received[c]) :
    Matches(subscriptions[c][message.id].subject, message.msg.topic)

(***************************************************************************)
(* A gateway holds a peer's interest in a subject only when a client of    *)
(* that peer has subscribed to it: subscriptions of peers are not relayed  *)
(* onward or back ("Notes - mesh.txt": only client subscriptions are       *)
(* propagated to peer gateways; ServiceManager::onSubscribe).              *)
(***************************************************************************)
EverSubscribed(c, subject) ==
  \E id \in DOMAIN subscriptions[c] : subscriptions[c][id].subject = subject

PeerInterestComesFromClients ==
  \A l \in Links : \A e \in {f \in interest[l[2]] : f.socket = l} :
    \E c \in Clients : Home[c] = l[1] /\ EverSubscribed(c, e.subject)

(***************************************************************************)
(* While a client is connected its gateway knows of the subscriptions it   *)
(* holds, as far as they are its first to their subjects: no other         *)
(* subscription of it and no UNSUBSCRIBE, its own or a relayed one, takes  *)
(* them away (ServiceManager::onSubscribe and onUnsubscribe).              *)
(***************************************************************************)
InFlight(c) == {up[c][i] : i \in DOMAIN up[c]}

FirstFor(c, id) ==
  \A earlier \in 1 .. id - 1 :
    subscriptions[c][earlier].subject # subscriptions[c][id].subject

Known(c, id) ==
  LET subject == subscriptions[c][id].subject
  IN  \/ SubscribeFrame(subject, id) \in InFlight(c)
      \/ Entry(subject, id, c) \in interest[Home[c]]

Attached(c) == client[c] = "open" /\ stage[c] = "managed"

FirstSubscriptionIsKnown ==
  \A c \in Clients : Attached(c) =>
    \A id \in DOMAIN subscriptions[c] :
      subscriptions[c][id].active /\ FirstFor(c, id) => Known(c, id)

(***************************************************************************)
(* The same for every subscription that is held: "The lifetime of the      *)
(* subscription is the lifetime of the object returned"                    *)
(* (ConnectionImpl::subscribe).                                            *)
(***************************************************************************)
HeldSubscriptionIsKnown ==
  \A c \in Clients : Attached(c) =>
    \A id \in DOMAIN subscriptions[c] :
      subscriptions[c][id].active => Known(c, id)

(***************************************************************************)
(* When nothing is on its way and the whole mesh is connected, every other *)
(* gateway knows of a subject that a connected client has subscribed to,   *)
(* "Client subscriptions to a local gateway are propagated to the other    *)
(* gateways in the mesh" (Project overview.txt): first for a subject that  *)
(* the clients of one gateway only have ever subscribed to ...             *)
(***************************************************************************)
Quiet ==
  /\ MeshIsUp
  /\ \A e \in Connections : up[e] = << >> /\ down[e] = << >>

PeersKnow(g, subject) ==
  \A l \in Outgoing[g] : EntriesOf(interest[l[2]], subject, l) # {}

SoleInterestReachesTheMesh ==
  Quiet => \A c \in Clients : Attached(c) =>
    \A id \in DOMAIN subscriptions[c] :
      LET subject == subscriptions[c][id].subject
      IN  (\A d \in Clients : EverSubscribed(d, subject) => Home[d] = Home[c])
            => PeersKnow(Home[c], subject)

(* ... and for every subject.                                              *)
InterestReachesTheMesh ==
  Quiet => \A c \in Clients : Attached(c) =>
    \A id \in DOMAIN subscriptions[c] :
      PeersKnow(Home[c], subscriptions[c][id].subject)

(***************************************************************************)
(* A message that its gateway is about to handle while the gateways on its *)
(* way have the interest of a held subscription reaches the callback of    *)
(* that subscription, if the subscription stays and no connection on the   *)
(* way ends.                                                               *)
(***************************************************************************)
Route(c, d) == {c, d} \cup {l \in Links : l = <<Home[d], Home[c]>>}

Lasts(c, d) ==
  /\ Attached(c) /\ Attached(d)
  /\ \A l \in Route(c, d) \cap Links :
       stage[l] = "managed" /\ peerStatus[l] = "connected"

Holds(c, id) == id \in DOMAIN subscriptions[c] /\ subscriptions[c][id].active

Interested(d, id, topic) ==
  \E e \in interest[Home[d]] : e.id = id /\ e.socket = d /\ Matches(e.subject, topic)

PeerInterested(c, d, topic) ==
  Home[c] # Home[d] =>
    \E e \in interest[Home[c]] : e.socket = <<Home[d], Home[c]>>
                                 /\ Matches(e.subject, topic)

Due(m, d, id) ==
  /\ Lasts(m.from, d) /\ Holds(d, id)
  /\ MessageFrame(m.topic, m, {}) \in InFlight(m.from)
  /\ Interested(d, id, m.topic)
  /\ PeerInterested(m.from, d, m.topic)

EveryDueMessageIsReceived ==
  \A m \in Messages, d \in Clients, id \in IDs :
    Due(m, d, id) ~> \/ [id |-> id, msg |-> m] \in Range(received[d])
                     \/ ~Lasts(m.from, d)
                     \/ ~Holds(d, id)

=============================================================================
