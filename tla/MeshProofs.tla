----------------------------- MODULE MeshProofs -----------------------------
(***************************************************************************)
(* The mesh of one service: for any gateways, clients, subjects and        *)
(* messages, in both libraries, whatever connections do; and that gateways *)
(* which share a configuration file are connected each to each.            *)
(***************************************************************************)
EXTENDS Mesh, TLAPS, FiniteSetTheorems

(* The values of what does not depend on subscriptions.                    *)
Shape ==
  /\ stage \in [Connections -> {"unregistered", "moving", "managed", "released",
                            "destroyed"}]
  /\ peerStatus \in
       [Links -> {"connecting", "connected", "retrying", "unresolved", "disconnected"}]
  /\ client \in [Clients -> {"new", "connecting", "open", "closed"}]
  /\ subscriptions \in [Clients -> Seq([subject : SubjectNames, active : BOOLEAN])]
  /\ published \in [Clients -> Nat]
  /\ \A c \in Clients : /\ Len(subscriptions[c]) <= MaxSubscriptions[c]
                        /\ published[c] <= Publications[c]
  /\ counted \in [Gateways -> SUBSET Messages]
  /\ \A g \in Gateways : counted[g] \subseteq SentFrom[g]
  /\ DOMAIN interest = Gateways

(* The messages that were sent.                                            *)
Published == {m \in Messages : m.n <= published[m.from]}

(* What may be on its way: a client tells of its subscriptions, under the  *)
(* IDs they have, and a gateway of those of its clients.                   *)
Subscribed(c) == {SubscribeFrame(subscriptions[c][id].subject, id) : id \in DOMAIN subscriptions[c]}
Sent(c)       == {MessageFrame(m.topic, m, {}) : m \in {n \in Published : n.from = c}}
Releases      == {UnsubscribeFrame(NoSubject, id) : id \in IDs}
FromClient(c) == {Connect, Disconnect} \cup Subscribed(c) \cup Releases \cup Sent(c)

Told(g) == {s \in SubjectNames : \E c \in Clients : Home[c] = g /\ EverSubscribed(c, s)}
Relays(g) == {SubscribeFrame(s, id) : s \in Told(g), id \in IDs}
FromGateway(g) == {ConnectMeshPeer} \cup Relays(g) \cup Releases

(* What a table may hold of a connection, and what its server may write.   *)
EntriesAbout(e) ==
  IF e \in Clients
  THEN {Entry(subscriptions[e][id].subject, id, e) : id \in DOMAIN subscriptions[e]}
  ELSE {Entry(s, id, e) : s \in Told(e[1]), id \in IDs}

Hits(e, topic) ==
  {S \in SUBSET EntriesAbout(e) :
     IsFiniteSet(S) /\ \A x \in S : Matches(x.subject, topic)}

(* A peer gets messages of this gateway's own clients only.                *)
MayGet(e) == IF e \in Clients THEN Published ELSE {m \in Published : Home[m.from] = e[2]}

Copies(e) == UNION {{MessageFrame(m.topic, m, S) : S \in Hits(e, m.topic)} : m \in MayGet(e)}
Answers(e) == {Ack} \cup Copies(e)

(* What a client may be given.                                             *)
Deliveries(c) ==
  {d \in [id : DOMAIN subscriptions[c], msg : Published] :
     Matches(subscriptions[c][d.id].subject, d.msg.topic)}

(* Queues that hold nothing else.                                          *)
UpFrames     == [e \in Connections |-> IF e \in Clients THEN FromClient(e) ELSE FromGateway(e[1])]
DownFrames   == [e \in Connections |-> Answers(e)]
Deliverables == [c \in Clients |-> Deliveries(c)]

Carries(queues, T) == DOMAIN queues = DOMAIN T /\ \A e \in DOMAIN T : queues[e] \in Seq(T[e])

Flow ==
  /\ Carries(up, UpFrames) /\ Carries(down, DownFrames)
  /\ Carries(inbox, Deliverables) /\ Carries(received, Deliverables)

Tables ==
  \A g \in Gateways :
    IsFiniteSet(interest[g]) /\ interest[g] \subseteq UNION {EntriesAbout(e) : e \in Accepted[g]}

IInv == Shape /\ Flow /\ Tables
-----------------------------------------------------------------------------
(* The community modules' listing of a finite set.                         *)
LEMMA SetToSeqLists ==
  ASSUME NEW S, IsFiniteSet(S)
  PROVE  /\ Cardinality(S) \in Nat
         /\ SetToSeq(S) \in [1 .. Cardinality(S) -> S]
         /\ \A i, j \in 1 .. Cardinality(S) : SetToSeq(S)[i] = SetToSeq(S)[j] => i = j
<1>1. Cardinality(S) \in Nat /\ ExistsBijection(1 .. Cardinality(S), S)
  BY FS_CardinalityType
<1>2. PICK f \in [1 .. Cardinality(S) -> S] : IsInjective(f)
  BY <1>1 DEF ExistsBijection, Bijection, Injection, IsInjective
<1> QED BY <1>1, <1>2 DEF SetToSeq, IsInjective

(* Connections are of one kind, and served by one gateway.                 *)
LEMMA KindsOfConnections ==
  /\ \A c \in Clients : c \in Connections /\ c \notin Links /\ Server[c] = Home[c]
                        /\ Home[c] \in Gateways
  /\ \A l \in Links : l \in Connections /\ l \notin Clients /\ Server[l] = l[2]
                      /\ l[1] \in Gateways /\ l[2] \in Gateways /\ l[1] # l[2]
  /\ \A e \in Connections : Server[e] \in Gateways /\ e \in Accepted[Server[e]]
                            /\ (e \in Clients \/ e \in Links)
  /\ \A g \in Gateways : \A e : e \in Accepted[g] <=> e \in Connections /\ Server[e] = g
  /\ \A g \in Gateways : \A e : e \in Outgoing[g] <=> e \in Links /\ e[1] = g
BY MeshAssumption DEF Links, Connections, Server, Accepted, Outgoing

(* Facts of sequences that are needed again and again.                     *)
LEMMA Elements ==
  ASSUME NEW S, NEW q \in Seq(S)
  PROVE  /\ \A i \in DOMAIN q : q[i] \in S /\ i \in 1 .. Len(q)
         /\ q # << >> => Head(q) \in S /\ Tail(q) \in Seq(S)
         /\ \A x \in S : Append(q, x) \in Seq(S)
         /\ \A r \in Seq(S) : q \o r \in Seq(S)
         /\ Len(q) \in Nat
OBVIOUS

(* What was sent of a queue is a prefix of it.                             *)
LEMMA PrefixOf ==
  ASSUME NEW S, NEW q \in Seq(S), NEW n \in 0 .. Len(q)
  PROVE  /\ SubSeq(q, 1, n) \in Seq(S) /\ Len(SubSeq(q, 1, n)) = n
         /\ \A i \in 1 .. n : i \in DOMAIN q /\ SubSeq(q, 1, n)[i] = q[i]
<1>1. Len(q) \in Nat /\ DOMAIN q = 1 .. Len(q) /\ n \in Nat
  OBVIOUS
<1>2. /\ \A i \in 1 .. n : i \in DOMAIN q /\ q[i] \in S
      /\ SubSeq(q, 1, n) = [i \in 1 .. n |-> q[i]]
  BY <1>1
<1> QED BY <1>1, <1>2

(* A queue of some frames is a queue of more of them.                      *)
LEMMA Widened ==
  ASSUME NEW S, NEW T, S \subseteq T, NEW q \in Seq(S)
  PROVE  q \in Seq(T)
<1>1. \A i \in 1 .. Len(q) : q[i] \in T
  OBVIOUS
<1> QED BY <1>1

(* What is done to one queue of a family.                                  *)
LEMMA QueueOperations ==
  ASSUME NEW T, NEW queues, Carries(queues, T), NEW e \in DOMAIN T
  PROVE  /\ Carries([queues EXCEPT ![e] = << >>], T)
         /\ \A rest \in Unsent(queues, e) : Carries(rest, T)
         /\ queues[e] # << >> => Head(queues[e]) \in T[e] /\ Carries(Read(queues, e), T)
         /\ \A x \in T[e] : Carries(Written(queues, e, x), T)
         /\ \A r \in Seq(T[e]) : Carries([queues EXCEPT ![e] = @ \o r], T)
<1>1. DOMAIN queues = DOMAIN T /\ \A d \in DOMAIN T : queues[d] \in Seq(T[d])
  BY DEF Carries
<1>2. ASSUME NEW r \in Seq(T[e]) PROVE Carries([queues EXCEPT ![e] = r], T)
  BY <1>1, <1>2 DEF Carries
<1>3. << >> \in Seq(T[e])
  OBVIOUS
<1>4. queues[e] \in Seq(T[e])
  BY <1>1
<1>5. queues[e] # << >> => Head(queues[e]) \in T[e] /\ Carries(Read(queues, e), T)
  BY <1>2, <1>4, Elements DEF Read
<1>6. \A x \in T[e] : Carries(Written(queues, e, x), T)
  BY <1>2, <1>4, Elements DEF Written
<1>7. \A r \in Seq(T[e]) : Carries([queues EXCEPT ![e] = @ \o r], T)
  BY <1>2, <1>4, Elements
<1>8. ASSUME NEW rest \in Unsent(queues, e) PROVE Carries(rest, T)
  <2>1. PICK n \in 0 .. Len(queues[e]) :
          rest = [queues EXCEPT ![e] = SubSeq(queues[e], 1, n)]
    BY DEF Unsent
  <2>2. SubSeq(queues[e], 1, n) \in Seq(T[e])
    BY <1>4, PrefixOf
  <2> QED BY <1>2, <2>1, <2>2
<1> QED BY <1>2, <1>3, <1>5, <1>6, <1>7, <1>8

(* A client has IDs of its own.                                            *)
LEMMA SubscriptionIDs ==
  ASSUME Shape, NEW c \in Clients, NEW id \in DOMAIN subscriptions[c]
  PROVE  /\ id \in IDs /\ id \in Nat /\ id >= 1 /\ id <= Len(subscriptions[c])
         /\ subscriptions[c][id].subject \in SubjectNames
         /\ EverSubscribed(c, subscriptions[c][id].subject)
         /\ subscriptions[c][id].subject \in Told(Home[c])
<1>1. subscriptions[c] \in Seq([subject : SubjectNames, active : BOOLEAN])
  BY DEF Shape
<1>2. id \in 1 .. Len(subscriptions[c]) /\ Len(subscriptions[c]) \in Nat
  BY <1>1
<1>3. subscriptions[c][id] \in [subject : SubjectNames, active : BOOLEAN]
  BY <1>1, Elements
<1>4. MaxSubscriptions[c] \in Nat /\ Len(subscriptions[c]) <= MaxSubscriptions[c]
  BY MeshAssumption DEF Shape
<1>5. id \in 1 .. MaxSubscriptions[c]
  BY <1>2, <1>4
<1>6. id \in IDs
  BY <1>5 DEF IDs
<1>7. EverSubscribed(c, subscriptions[c][id].subject)
  BY DEF EverSubscribed
<1>8. subscriptions[c][id].subject \in SubjectNames
  BY <1>3
<1>9. subscriptions[c][id].subject \in Told(Home[c])
  BY <1>7, <1>8 DEF Told
<1> QED BY <1>2, <1>6, <1>7, <1>8, <1>9

(* What the frames of each kind say.                                       *)
LEMMA ClientFrames ==
  ASSUME NEW c, NEW frame \in FromClient(c)
  PROVE  /\ frame.action = "SUBSCRIBE" => frame \in Subscribed(c)
         /\ frame.action = "UNSUBSCRIBE" => frame \in Releases
         /\ IsMessage(frame) => frame \in Sent(c)
BY DEF FromClient, Subscribed, Releases, Sent, IsMessage, Connect, Disconnect,
       SubscribeFrame, UnsubscribeFrame, MessageFrame

(* The frames that a gateway writes to its peers.                          *)
LEMMA GatewayFrames ==
  ASSUME NEW g, NEW frame \in FromGateway(g)
  PROVE  /\ frame.action = "SUBSCRIBE" => frame \in Relays(g)
         /\ frame.action = "UNSUBSCRIBE" => frame \in Releases
         /\ ~IsMessage(frame)
BY DEF FromGateway, Relays, Releases, IsMessage, ConnectMeshPeer,
       SubscribeFrame, UnsubscribeFrame

(* The messages that a gateway writes to its connections.                  *)
LEMMA AnswerFrames ==
  ASSUME NEW e, NEW frame \in Answers(e), IsMessage(frame)
  PROVE  /\ frame.msg \in MayGet(e) /\ frame.msg \in Published /\ frame.msg \in Messages
         /\ frame.subject = frame.msg.topic /\ frame.copies \in Hits(e, frame.msg.topic)
         /\ frame = MessageFrame(frame.msg.topic, frame.msg, frame.copies)
<1>1. frame \in Copies(e)
  BY DEF Answers, IsMessage, Ack
<1>2. PICK m \in MayGet(e) : \E S \in Hits(e, m.topic) : frame = MessageFrame(m.topic, m, S)
  BY <1>1 DEF Copies
<1>3. PICK S \in Hits(e, m.topic) : frame = MessageFrame(m.topic, m, S)
  BY <1>2
<1>4. frame.msg = m /\ frame.subject = m.topic /\ frame.copies = S
  BY <1>3 DEF MessageFrame
<1> QED BY <1>3, <1>4 DEF MayGet, Published
-----------------------------------------------------------------------------
(* A subscription keeps its ID and its subject, whatever becomes of it,    *)
(* and no message is taken back.                                           *)
SubscriptionsKept ==
  \A c \in Clients :
    /\ \A id \in DOMAIN subscriptions[c] :
         /\ id \in DOMAIN subscriptions'[c]
         /\ subscriptions'[c][id].subject = subscriptions[c][id].subject
    /\ published[c] <= published'[c]

(* So what was true of a frame, an entry or a delivery remains true.       *)
LEMMA NothingBecomesWrong ==
  ASSUME Shape, Shape', SubscriptionsKept
  PROVE  /\ \A c \in Clients : FromClient(c) \subseteq FromClient(c)'
         /\ \A g : FromGateway(g) \subseteq FromGateway(g)'
         /\ \A e \in Connections : EntriesAbout(e) \subseteq EntriesAbout(e)'
         /\ \A e \in Connections : Answers(e) \subseteq Answers(e)'
         /\ \A c \in Clients : Deliveries(c) \subseteq Deliveries(c)'
<1>0. Published \subseteq Published'
  <2> SUFFICES ASSUME NEW m \in Messages, m.n <= published[m.from]
               PROVE  m.n <= published'[m.from]
    BY DEF Published
  <2>1. PICK c \in Clients : m \in [from : {c}, n : 1 .. Publications[c], topic : Topics]
    BY DEF Messages
  <2>2. m.from = c /\ m.n \in Int /\ published[c] \in Int /\ published'[c] \in Int
    BY <2>1 DEF Shape
  <2> QED BY <2>2 DEF SubscriptionsKept
<1>1. ASSUME NEW c \in Clients
      PROVE  FromClient(c) \subseteq FromClient(c)' /\ Deliveries(c) \subseteq Deliveries(c)'
  <2>1. Subscribed(c) \subseteq Subscribed(c)'
    BY DEF SubscriptionsKept, Subscribed
  <2>2. Deliveries(c) \subseteq Deliveries(c)'
    BY <1>0 DEF SubscriptionsKept, Deliveries
  <2>3. Sent(c) \subseteq Sent(c)'
    BY <1>0 DEF Sent
  <2> QED BY <2>1, <2>2, <2>3 DEF FromClient, Releases
<1>2. \A g : Told(g) \subseteq Told(g)'
  BY DEF SubscriptionsKept, Told, EverSubscribed
<1>3. \A g : FromGateway(g) \subseteq FromGateway(g)'
  <2>1. \A g : Relays(g) \subseteq Relays(g)'
    BY <1>2 DEF Relays
  <2> QED BY <2>1 DEF FromGateway, Releases
<1>4. ASSUME NEW e \in Connections PROVE EntriesAbout(e) \subseteq EntriesAbout(e)'
  BY <1>2 DEF EntriesAbout, SubscriptionsKept
<1>5. ASSUME NEW e \in Connections PROVE Answers(e) \subseteq Answers(e)'
  <2>1. \A topic : Hits(e, topic) \subseteq Hits(e, topic)'
    BY <1>4 DEF Hits
  <2>2. Copies(e) \subseteq Copies(e)'
    BY <1>0, <2>1 DEF Copies, MayGet
  <2> QED BY <2>2 DEF Answers
<1> QED BY <1>1, <1>3, <1>4, <1>5

(* Queues that a frame is relayed to.                                      *)
LEMMA RelayedFrames ==
  ASSUME NEW queues, Carries(queues, UpFrames), NEW g \in Gateways,
         NEW frame \in FromGateway(g)
  PROVE  Carries(Relayed(queues, g, frame), UpFrames)
<1>1. DOMAIN UpFrames = Connections /\ \A l \in Links : UpFrames[l] = FromGateway(l[1])
  BY KindsOfConnections DEF UpFrames
<1>2. ASSUME NEW e \in Connections PROVE Relayed(queues, g, frame)[e] \in Seq(UpFrames[e])
  <2>1. \/ Relayed(queues, g, frame)[e] = queues[e]
        \/ /\ e \in Links /\ e[1] = g
           /\ Relayed(queues, g, frame)[e] = Append(queues[e], frame)
    BY KindsOfConnections DEF Relayed
  <2>2. queues[e] \in Seq(UpFrames[e])
    BY <1>1 DEF Carries
  <2>3. CASE e \in Links /\ e[1] = g
    <3>1. frame \in UpFrames[e]
      BY <1>1, <2>3
    <3>2. Append(queues[e], frame) \in Seq(UpFrames[e])
      BY <2>2, <3>1, Elements
    <3> QED BY <2>1, <2>2, <3>2
  <2> QED BY <2>1, <2>2, <2>3
<1>3. DOMAIN Relayed(queues, g, frame) = Connections
  BY DEF Relayed
<1> QED BY <1>1, <1>2, <1>3 DEF Carries

(* The copies that a gateway makes of a message.                           *)
LEMMA CopiesAreHits ==
  ASSUME Tables, NEW g \in Gateways, NEW e \in Accepted[g],
         NEW topic, NEW fromPeer \in BOOLEAN
  PROVE  CopiesTo(interest[g], topic, e, e \in Links, fromPeer) \in Hits(e, topic)
<1> DEFINE hits == {x \in MatchingEntries(interest[g], topic) : x.socket = e}
           copies == CopiesTo(interest[g], topic, e, e \in Links, fromPeer)
<1>1. ASSUME NEW x \in hits PROVE x \in EntriesAbout(e) /\ Matches(x.subject, topic)
  <2>1. x \in interest[g] /\ x.socket = e /\ Matches(x.subject, topic)
    BY DEF MatchingEntries
  <2>2. PICK d \in Accepted[g] : x \in EntriesAbout(d)
    BY <2>1 DEF Tables
  <2>3. x.socket = d
    BY <2>2 DEF EntriesAbout, Entry
  <2> QED BY <2>1, <2>2, <2>3
<1>2. IsFiniteSet(hits)
  BY FS_Subset DEF Tables, MatchingEntries
<1>3. copies \subseteq hits /\ IsFiniteSet(copies)
  <2>1. copies = hits \/ copies = {} \/ (hits # {} /\ copies = {CHOOSE x \in hits : TRUE})
    BY DEF CopiesTo
  <2> HIDE DEF hits, copies
  <2>2. copies \subseteq hits
    BY <2>1
  <2> QED BY <1>2, <2>2, FS_Subset
<1> HIDE DEF hits, copies
<1>4. copies \in Hits(e, topic)
  BY <1>1, <1>3 DEF Hits
<1> QED BY <1>4 DEF copies

(* Queues that a message is forwarded to.                                  *)
LEMMA ForwardedFrames ==
  ASSUME Tables, NEW queues, Carries(queues, DownFrames),
         NEW g \in Gateways, NEW fromPeer \in BOOLEAN,
         NEW frame, frame.msg \in Published, frame.subject = frame.msg.topic,
         fromPeer \/ Home[frame.msg.from] = g
  PROVE  Carries(Forwarded(queues, g, frame, fromPeer), DownFrames)
<1> DEFINE q == Forwarded(queues, g, frame, fromPeer)
           copies(e) == IF Server[e] # g THEN {}
                        ELSE CopiesTo(interest[g], frame.subject, e, e \in Links, fromPeer)
<1>1. /\ DOMAIN q = Connections
      /\ \A e \in Connections :
           q[e] = IF copies(e) = {} THEN queues[e]
                  ELSE Append(queues[e], MessageFrame(frame.subject, frame.msg, copies(e)))
  BY DEF Forwarded
<1>2. ASSUME NEW e \in Connections, copies(e) # {}
      PROVE  MessageFrame(frame.subject, frame.msg, copies(e)) \in Answers(e)
  <2>1. e \in Accepted[g]
    BY <1>2, KindsOfConnections
  <2>2. copies(e) = CopiesTo(interest[g], frame.subject, e, e \in Links, fromPeer)
    BY <1>2
  <2>3. copies(e) \in Hits(e, frame.msg.topic)
    BY <2>1, <2>2, CopiesAreHits
  <2> HIDE DEF copies
  <2>4. MessageFrame(frame.msg.topic, frame.msg, copies(e))
          \in {MessageFrame(frame.msg.topic, frame.msg, S) : S \in Hits(e, frame.msg.topic)}
    BY <2>3
  <2>5. frame.msg \in MayGet(e)
    <3>1. CASE e \in Clients
      BY <3>1 DEF MayGet
    <3>2. CASE e \in Links
      <4>1. ~fromPeer
        BY <1>2, <2>2, <3>2 DEF CopiesTo, copies
      <4> QED BY <2>1, <3>2, <4>1, KindsOfConnections DEF MayGet
    <3> QED BY <3>1, <3>2, KindsOfConnections
  <2>6. MessageFrame(frame.msg.topic, frame.msg, copies(e)) \in Copies(e)
    BY <2>4, <2>5 DEF Copies
  <2> QED BY <2>6 DEF Answers
<1> HIDE DEF q, copies
<1>3. DOMAIN DownFrames = Connections /\ \A e \in Connections : DownFrames[e] = Answers(e)
  BY DEF DownFrames
<1>4. ASSUME NEW e \in Connections PROVE q[e] \in Seq(DownFrames[e])
  BY <1>1, <1>2, <1>3, Elements DEF Carries
<1> QED BY <1>1, <1>3, <1>4 DEF Carries, q
-----------------------------------------------------------------------------
(* The initial states.                                                     *)
LEMMA InvInitially == Init => IInv
<1> SUFFICES ASSUME Init PROVE IInv
  OBVIOUS
<1>1. \A S : << >> \in Seq(S)
  OBVIOUS
<1>2. Shape
  BY <1>1, MeshAssumption DEF Init, Shape
<1>3. Flow
  BY <1>1 DEF Init, Flow, Carries, UpFrames, DownFrames, Deliverables
<1>4. Tables
  BY FS_EmptySet DEF Init, Tables
<1> QED BY <1>2, <1>3, <1>4 DEF IInv

(* A step that leaves the subscriptions alone.                             *)
LEMMA SubscriptionsUnchanged ==
  ASSUME UNCHANGED <<subscriptions, published>>
  PROVE  /\ UpFrames' = UpFrames /\ DownFrames' = DownFrames /\ Deliverables' = Deliverables
         /\ \A e : EntriesAbout(e)' = EntriesAbout(e)
BY DEF UpFrames, DownFrames, Deliverables, FromClient, FromGateway, EntriesAbout, Answers,
       Deliveries, Copies, Hits, MayGet, Published, Subscribed, Sent, Releases, Relays, Told, EverSubscribed

(* The tables, and the queues, of a step that leaves subscriptions alone.  *)
LEMMA QueueStep ==
  ASSUME IInv, Shape', UNCHANGED <<subscriptions, published, interest>>,
         Carries(up', UpFrames), Carries(down', DownFrames),
         Carries(inbox', Deliverables), Carries(received', Deliverables)
  PROVE  IInv'
<1>1. Flow'
  BY SubscriptionsUnchanged DEF Flow, Carries
<1>2. Tables'
  BY SubscriptionsUnchanged DEF IInv, Tables
<1> QED BY <1>1, <1>2 DEF IInv

(* A step that changes tables and what clients and gateways write.         *)
LEMMA TableStep ==
  ASSUME IInv, Shape', UNCHANGED <<subscriptions, published, down, inbox, received>>,
         Carries(up', UpFrames),
         \A g \in Gateways : /\ IsFiniteSet(interest'[g])
                             /\ interest'[g] \subseteq UNION {EntriesAbout(e) : e \in Accepted[g]}
  PROVE  IInv'
<1>1. Flow'
  BY SubscriptionsUnchanged DEF IInv, Flow, Carries
<1>2. Tables'
  BY SubscriptionsUnchanged DEF Tables
<1> QED BY <1>1, <1>2 DEF IInv

(* The frames of the clients' calls.                                       *)
LEMMA FramesOfCalls ==
  ASSUME Shape, NEW c \in Clients
  PROVE  /\ c \in DOMAIN UpFrames /\ UpFrames[c] = FromClient(c)
         /\ Connect \in FromClient(c) /\ Disconnect \in FromClient(c)
         /\ \A id \in IDs : UnsubscribeFrame(NoSubject, id) \in FromClient(c)
<1>1. c \in DOMAIN UpFrames /\ UpFrames[c] = FromClient(c)
  BY KindsOfConnections DEF UpFrames
<1> QED BY <1>1 DEF FromClient, Releases
-----------------------------------------------------------------------------
(* The calls of a client's user.                                           *)
LEMMA connectKeeps ==
  ASSUME IInv, NEW c \in Clients, connect(c)
  PROVE  IInv'
<1>1. Shape'
  BY DEF connect, IInv, Shape
<1>2. Carries(up', UpFrames)
  BY FramesOfCalls, QueueOperations DEF connect, IInv, Flow
<1> QED BY <1>1, <1>2, QueueStep DEF connect, IInv, Flow

(* What a client that closes its connection still writes.                  *)
LEMMA FarewellFrames ==
  ASSUME Shape, NEW c \in Clients
  PROVE  Farewell(c) \in Seq({Disconnect} \cup Releases)
<1> DEFINE active  == {id \in DOMAIN subscriptions[c] : subscriptions[c][id].active}
           leaving == IF c \in NETClients THEN {} ELSE active
           goodbyes == [i \in 1 .. Cardinality(leaving) |->
                          UnsubscribeFrame(NoSubject, SetToSeq(leaving)[i])]
<1>1. leaving \subseteq 1 .. Len(subscriptions[c]) /\ Len(subscriptions[c]) \in Nat
  BY Elements DEF Shape
<1>2. IsFiniteSet(leaving) /\ leaving \subseteq IDs
  <2>1. leaving \subseteq IDs
    BY SubscriptionIDs
  <2>2. IsFiniteSet(1 .. Len(subscriptions[c]))
    BY <1>1, FS_Interval
  <2> HIDE DEF leaving
  <2> QED BY <1>1, <2>1, <2>2, FS_Subset
<1> HIDE DEF leaving
<1>3. Cardinality(leaving) \in Nat /\ SetToSeq(leaving) \in [1 .. Cardinality(leaving) -> leaving]
  BY <1>2, SetToSeqLists
<1>4. \A i \in 1 .. Cardinality(leaving) : goodbyes[i] \in {Disconnect} \cup Releases
  BY <1>2, <1>3 DEF Releases
<1>5. goodbyes \in Seq({Disconnect} \cup Releases)
  BY <1>3, <1>4
<1>6. <<Disconnect>> \in Seq({Disconnect} \cup Releases)
  OBVIOUS
<1>7. Farewell(c) = goodbyes \o <<Disconnect>>
  BY DEF Farewell, leaving
<1> HIDE DEF goodbyes
<1> QED BY <1>5, <1>6, <1>7, Elements

(* Closing: the farewell is of frames that a client may write.             *)
LEMMA closeKeeps ==
  ASSUME IInv, NEW c \in Clients, close(c)
  PROVE  IInv'
<1>1. Shape'
  BY DEF close, IInv, Shape
<1>2. Farewell(c) \in Seq(FromClient(c))
  <2>1. {Disconnect} \cup Releases \subseteq FromClient(c)
    BY DEF FromClient
  <2> QED BY <2>1, FarewellFrames, Widened DEF IInv
<1>3. Carries(up', UpFrames)
  BY <1>2, FramesOfCalls, QueueOperations DEF close, IInv, Flow
<1>4. Carries(inbox', Deliverables)
  BY QueueOperations DEF close, IInv, Flow, Deliverables
<1> QED BY <1>1, <1>3, <1>4, QueueStep DEF close, IInv, Flow

(* What was on its way stays right when a subscription is made or let go.  *)
LEMMA KeptStep ==
  ASSUME IInv, Shape', SubscriptionsKept, UNCHANGED <<interest, down, inbox, received>>,
         NEW c \in Clients, \A e \in Connections \ {c} : up'[e] = up[e],
         DOMAIN up' = DOMAIN up, up'[c] \in Seq(FromClient(c)')
  PROVE  IInv'
<1>1. DOMAIN UpFrames = Connections /\ DOMAIN UpFrames' = Connections
      /\ DOMAIN DownFrames = Connections /\ DOMAIN DownFrames' = Connections
      /\ DOMAIN Deliverables = Clients /\ DOMAIN Deliverables' = Clients
  BY DEF UpFrames, DownFrames, Deliverables
<1>2. ASSUME NEW e \in Connections PROVE UpFrames[e] \subseteq UpFrames'[e]
  BY NothingBecomesWrong DEF IInv, UpFrames
<1>3. ASSUME NEW e \in Connections PROVE DownFrames[e] \subseteq DownFrames'[e]
  BY NothingBecomesWrong DEF IInv, DownFrames
<1>4. ASSUME NEW d \in Clients PROVE Deliverables[d] \subseteq Deliverables'[d]
  BY NothingBecomesWrong DEF IInv, Deliverables
<1>5. UpFrames'[c] = FromClient(c)'
  BY KindsOfConnections DEF UpFrames
<1>6. ASSUME NEW e \in Connections PROVE up'[e] \in Seq(UpFrames'[e])
  <2>1. CASE e = c
    BY <1>5, <2>1
  <2>2. CASE e # c
    <3>1. up[e] \in Seq(UpFrames[e])
      BY <1>1 DEF IInv, Flow, Carries
    <3> QED BY <1>2, <2>2, <3>1, Widened
  <2> QED BY <2>1, <2>2
<1>7. ASSUME NEW e \in Connections PROVE down'[e] \in Seq(DownFrames'[e])
  <2>1. down[e] \in Seq(DownFrames[e])
    BY <1>1 DEF IInv, Flow, Carries
  <2> QED BY <1>3, <2>1, Widened
<1>8. ASSUME NEW d \in Clients
      PROVE  inbox'[d] \in Seq(Deliverables'[d]) /\ received'[d] \in Seq(Deliverables'[d])
  <2>1. inbox[d] \in Seq(Deliverables[d]) /\ received[d] \in Seq(Deliverables[d])
    BY <1>1 DEF IInv, Flow, Carries
  <2> QED BY <1>4, <2>1, Widened
<1>9. Flow'
  BY <1>1, <1>6, <1>7, <1>8 DEF IInv, Flow, Carries
<1>10. Tables'
  <2>1. ASSUME NEW g \in Gateways, NEW x \in interest[g]
        PROVE  \E e \in Accepted[g] : x \in EntriesAbout(e)'
    <3>1. PICK e \in Accepted[g] : x \in EntriesAbout(e)
      BY DEF IInv, Tables
    <3> QED BY <3>1, NothingBecomesWrong, KindsOfConnections DEF IInv
  <2> QED BY <2>1 DEF IInv, Tables
<1> QED BY <1>9, <1>10 DEF IInv

(* A new subscription: its ID is its place in the sequence.                *)
LEMMA subscribeKeeps ==
  ASSUME IInv, NEW c \in Clients, NEW subject \in SubjectNames, subscribe(c, subject)
  PROVE  IInv'
<1> DEFINE q   == subscriptions[c]
           n   == Len(q)
           new == [subject |-> subject, active |-> TRUE]
<1>0. /\ subscriptions \in [Clients -> Seq([subject : SubjectNames, active : BOOLEAN])]
      /\ MaxSubscriptions[c] \in Nat /\ n < MaxSubscriptions[c]
      /\ subscriptions' = [subscriptions EXCEPT ![c] = Append(q, new)]
  <2>1. subscriptions \in [Clients -> Seq([subject : SubjectNames, active : BOOLEAN])]
    BY DEF IInv, Shape
  <2>2. MaxSubscriptions[c] \in Nat
    BY MeshAssumption
  <2>3. n < MaxSubscriptions[c] /\ subscriptions' = [subscriptions EXCEPT ![c] = Append(q, new)]
    BY DEF subscribe
  <2> QED BY <2>1, <2>2, <2>3
<1>1. q \in Seq([subject : SubjectNames, active : BOOLEAN])
  BY <1>0
<1>n. n \in Nat /\ n + 1 <= MaxSubscriptions[c]
  BY <1>0, <1>1, Elements
<1> HIDE DEF q
<1>a. Append(q, new) \in Seq([subject : SubjectNames, active : BOOLEAN])
      /\ Len(Append(q, new)) = n + 1
      /\ \A id \in DOMAIN q : id \in DOMAIN Append(q, new) /\ Append(q, new)[id] = q[id]
      /\ n + 1 \in DOMAIN Append(q, new) /\ Append(q, new)[n + 1] = new
  BY <1>1
<1>2. /\ subscriptions' \in [Clients -> Seq([subject : SubjectNames, active : BOOLEAN])]
      /\ subscriptions'[c] = Append(q, new)
      /\ \A d \in Clients \ {c} : subscriptions'[d] = subscriptions[d]
  BY <1>0, <1>a
<1>3. Shape'
  BY <1>2, <1>a, <1>n DEF subscribe, IInv, Shape
<1>4. /\ \A id \in DOMAIN subscriptions[c] :
           id \in DOMAIN subscriptions'[c] /\ subscriptions'[c][id] = subscriptions[c][id]
      /\ n + 1 \in DOMAIN subscriptions'[c] /\ subscriptions'[c][n + 1] = new
  BY <1>2, <1>a DEF q
<1>5. SubscriptionsKept
  <2>1. \A d \in Clients : published[d] <= published'[d]
    BY DEF subscribe, IInv, Shape
  <2> QED BY <1>2, <1>4, <2>1 DEF SubscriptionsKept
<1>6. up' = Written(up, c, SubscribeFrame(subject, n + 1))
  BY DEF subscribe, q
<1> HIDE DEF n
<1>7. up'[c] \in Seq(FromClient(c)')
  <2>1. SubscribeFrame(subject, n + 1) \in Subscribed(c)'
    BY <1>4 DEF Subscribed
  <2>2. SubscribeFrame(subject, n + 1) \in FromClient(c)'
    BY <2>1 DEF FromClient
  <2>3. up[c] \in Seq(FromClient(c)) /\ c \in DOMAIN up
    BY FramesOfCalls DEF IInv, Flow, Carries
  <2>4. up[c] \in Seq(FromClient(c)')
    BY <1>3, <1>5, <2>3, NothingBecomesWrong, Widened DEF IInv
  <2>5. up'[c] = Append(up[c], SubscribeFrame(subject, n + 1))
    BY <1>6, <2>3 DEF Written
  <2> QED BY <2>2, <2>4, <2>5, Elements
<1>8. DOMAIN up' = DOMAIN up /\ \A e \in Connections \ {c} : up'[e] = up[e]
  BY <1>6 DEF Written, IInv, Flow, Carries, UpFrames
<1> QED BY <1>3, <1>5, <1>7, <1>8, KeptStep DEF subscribe

(* A new publication: its number is one above those before.                *)
LEMMA sendMessageKeeps ==
  ASSUME IInv, NEW c \in Clients, NEW topic \in Topics, sendMessage(c, topic)
  PROVE  IInv'
<1> DEFINE m == [from |-> c, n |-> published[c] + 1, topic |-> topic]
<1>1. /\ published \in [Clients -> Nat] /\ Publications[c] \in Nat
      /\ published[c] < Publications[c] /\ published' = [published EXCEPT ![c] = @ + 1]
      /\ \A d \in Clients : published[d] <= Publications[d]
  BY MeshAssumption DEF sendMessage, IInv, Shape
<1>2. published' \in [Clients -> Nat] /\ \A d \in Clients : published'[d] <= Publications[d]
  BY <1>1
<1>3. Shape'
  BY <1>2 DEF sendMessage, IInv, Shape
<1>4. SubscriptionsKept
  <2>1. \A d \in Clients : published[d] <= published'[d]
    BY <1>1
  <2> QED BY <2>1 DEF sendMessage, SubscriptionsKept
<1>5. published'[c] = published[c] + 1 /\ published[c] + 1 \in 1 .. Publications[c]
  BY <1>1
<1>6. m \in [from : {c}, n : 1 .. Publications[c], topic : Topics]
  BY <1>5
<1>7. m \in Messages /\ m.from = c /\ m.topic = topic /\ m.n <= published'[m.from]
  BY <1>5, <1>6 DEF Messages
<1>8. up' = Written(up, c, MessageFrame(topic, m, {}))
  BY DEF sendMessage
<1> HIDE DEF m
<1>9. MessageFrame(topic, m, {}) \in Sent(c)'
  BY <1>7 DEF Sent, Published
<1>10. up'[c] \in Seq(FromClient(c)')
  <2>1. up[c] \in Seq(FromClient(c)) /\ c \in DOMAIN up
    BY FramesOfCalls DEF IInv, Flow, Carries
  <2>2. up[c] \in Seq(FromClient(c)')
    BY <1>3, <1>4, <2>1, NothingBecomesWrong, Widened DEF IInv
  <2>3. up'[c] = Append(up[c], MessageFrame(topic, m, {}))
    BY <1>8, <2>1 DEF Written
  <2>4. MessageFrame(topic, m, {}) \in FromClient(c)'
    BY <1>9 DEF FromClient
  <2> QED BY <2>2, <2>3, <2>4, Elements
<1>11. DOMAIN up' = DOMAIN up /\ \A e \in Connections \ {c} : up'[e] = up[e]
  BY <1>8 DEF Written, IInv, Flow, Carries, UpFrames
<1> QED BY <1>3, <1>4, <1>10, <1>11, KeptStep DEF sendMessage

(* A subscription let go keeps its ID and its subject.                     *)
LEMMA releaseSubscriptionKeeps ==
  ASSUME IInv, NEW c \in Clients, NEW id \in IDs, releaseSubscription(c, id)
  PROVE  IInv'
<1> DEFINE old == subscriptions[c]
           new == [old[id] EXCEPT !.active = FALSE]
           q   == [old EXCEPT ![id] = new]
<1>1. /\ subscriptions \in [Clients -> Seq([subject : SubjectNames, active : BOOLEAN])]
      /\ id \in DOMAIN old
  BY DEF releaseSubscription, IInv, Shape
<1>2. old \in Seq([subject : SubjectNames, active : BOOLEAN])
  BY <1>1
<1>5. subscriptions' = [subscriptions EXCEPT ![c] = q]
  BY DEF releaseSubscription
<1> HIDE DEF old
<1>3. new \in [subject : SubjectNames, active : BOOLEAN] /\ new.subject = old[id].subject
  <2>1. old[id] \in [subject : SubjectNames, active : BOOLEAN]
    BY <1>1, <1>2, Elements
  <2> QED BY <2>1
<1> HIDE DEF new
<1>4. /\ q \in Seq([subject : SubjectNames, active : BOOLEAN]) /\ Len(q) = Len(old)
      /\ DOMAIN q = DOMAIN old
      /\ \A i \in DOMAIN q : q[i] = IF i = id THEN new ELSE old[i]
  BY <1>1, <1>2, <1>3
<1> HIDE DEF q
<1>6. /\ subscriptions' \in [Clients -> Seq([subject : SubjectNames, active : BOOLEAN])]
      /\ subscriptions'[c] = q
      /\ \A d \in Clients \ {c} : subscriptions'[d] = subscriptions[d]
  BY <1>1, <1>4, <1>5
<1>7. Shape'
  BY <1>4, <1>6 DEF releaseSubscription, IInv, Shape, old
<1>8. SubscriptionsKept
  <2>1. \A d \in Clients : published[d] <= published'[d]
    BY DEF releaseSubscription, IInv, Shape
  <2> QED BY <1>3, <1>4, <1>6, <2>1 DEF SubscriptionsKept, old
<1>9. Carries(up', UpFrames)
  BY FramesOfCalls, QueueOperations DEF releaseSubscription, IInv, Flow
<1>10. up'[c] \in Seq(FromClient(c)')
  <2>1. up'[c] \in Seq(FromClient(c))
    BY <1>9, FramesOfCalls DEF IInv, Carries
  <2> QED BY <1>7, <1>8, <2>1, NothingBecomesWrong, Widened DEF IInv
<1>11. DOMAIN up' = DOMAIN up /\ \A e \in Connections \ {c} : up'[e] = up[e]
  BY DEF releaseSubscription, Written, IInv, Flow, Carries, UpFrames
<1> QED BY <1>7, <1>8, <1>10, <1>11, KeptStep DEF releaseSubscription
-----------------------------------------------------------------------------
(* What the client's loop and its dispatcher do.                           *)
LEMMA onAckKeeps ==
  ASSUME IInv, NEW c \in Clients, onAck(c)
  PROVE  IInv'
<1>1. Shape'
  BY DEF onAck, ClientReads, IInv, Shape
<1>2. Carries(down', DownFrames)
  BY KindsOfConnections, QueueOperations DEF onAck, ClientReads, IInv, Flow, DownFrames
<1> QED BY <1>1, <1>2, QueueStep DEF onAck, ClientReads, IInv, Flow

(* One delivery for each copy that the frame carries.                      *)
LEMMA onGatewayMessageKeeps ==
  ASSUME IInv, NEW c \in Clients, onGatewayMessage(c)
  PROVE  IInv'
<1> DEFINE frame  == Head(down[c])
           copies == SetToSeq(frame.copies)
           given  == [i \in DOMAIN copies |-> [id |-> copies[i].id, msg |-> frame.msg]]
<1>1. Shape'
  BY DEF onGatewayMessage, ClientReads, IInv, Shape
<1>2. /\ c \in Connections /\ c \in DOMAIN DownFrames /\ DownFrames[c] = Answers(c)
      /\ c \in DOMAIN Deliverables /\ Deliverables[c] = Deliveries(c)
  BY KindsOfConnections DEF DownFrames, Deliverables
<1>3. Carries(down', DownFrames) /\ frame \in Answers(c)
  <2>1. down' = Read(down, c) /\ down[c] # << >> /\ Carries(down, DownFrames)
    BY DEF onGatewayMessage, ClientReads, IInv, Flow
  <2>2. Carries(Read(down, c), DownFrames) /\ frame \in DownFrames[c]
    BY <1>2, <2>1, QueueOperations
  <2> QED BY <1>2, <2>1, <2>2
<1>4. inbox' = [inbox EXCEPT ![c] = @ \o given] /\ IsMessage(frame)
  BY DEF onGatewayMessage
<1> HIDE DEF frame
<1>5. frame.msg \in Published /\ frame.copies \in Hits(c, frame.msg.topic)
  BY <1>3, <1>4, AnswerFrames
<1>6. IsFiniteSet(frame.copies)
  BY <1>5 DEF Hits
<1>7. Cardinality(frame.copies) \in Nat /\ copies \in [1 .. Cardinality(frame.copies) -> frame.copies]
  BY <1>6, SetToSeqLists
<1> HIDE DEF copies
<1>8. ASSUME NEW i \in DOMAIN copies PROVE given[i] \in Deliveries(c)
  <2>1. copies[i] \in EntriesAbout(c) /\ Matches(copies[i].subject, frame.msg.topic)
    BY <1>5, <1>7 DEF Hits
  <2>2. PICK id \in DOMAIN subscriptions[c] : copies[i] = Entry(subscriptions[c][id].subject, id, c)
    BY <2>1 DEF EntriesAbout
  <2>3. copies[i].id = id /\ copies[i].subject = subscriptions[c][id].subject
    BY <2>2 DEF Entry
  <2>4. given[i] = [id |-> id, msg |-> frame.msg]
    BY <2>3
  <2> HIDE DEF given
  <2> QED BY <1>5, <2>1, <2>3, <2>4 DEF Deliveries
<1>9. given \in Seq(Deliveries(c))
  BY <1>7, <1>8
<1> HIDE DEF given
<1>10. Carries(inbox', Deliverables)
  BY <1>2, <1>4, <1>9, QueueOperations DEF IInv, Flow
<1> QED BY <1>1, <1>3, <1>10, QueueStep DEF onGatewayMessage, ClientReads, IInv, Flow

(* The dispatcher hands over what is in the inbox.                         *)
LEMMA processGatewayMessageKeeps ==
  ASSUME IInv, NEW c \in Clients, processGatewayMessage(c)
  PROVE  IInv'
<1>1. Shape'
  BY DEF processGatewayMessage, gatewayVars, IInv, Shape
<1>2. c \in DOMAIN Deliverables
  BY DEF Deliverables
<1>3. Carries(inbox', Deliverables) /\ Head(inbox[c]) \in Deliverables[c]
  BY <1>2, QueueOperations DEF processGatewayMessage, IInv, Flow
<1>4. Carries(Written(received, c, Head(inbox[c])), Deliverables)
  BY <1>2, <1>3, QueueOperations DEF IInv, Flow
<1>5. received' = Written(received, c, Head(inbox[c])) \/ received' = received
  BY DEF processGatewayMessage, Written
<1>6. Carries(received', Deliverables)
  BY <1>4, <1>5 DEF IInv, Flow
<1> QED BY <1>1, <1>3, <1>6, QueueStep DEF processGatewayMessage, gatewayVars, IInv, Flow
-----------------------------------------------------------------------------
(* The frame that the server end of a connection reads.                    *)
LEMMA NextFrames ==
  ASSUME IInv, NEW e \in Connections, NEW frame \in NextFrame(e)
  PROVE  /\ up[e] # << >> /\ frame = Head(up[e]) /\ frame \in UpFrames[e]
         /\ Carries(Read(up, e), UpFrames)
<1>1. up[e] # << >> /\ frame = Head(up[e])
  BY DEF NextFrame
<1>2. e \in DOMAIN UpFrames
  BY DEF UpFrames
<1> QED BY <1>1, <1>2, QueueOperations DEF IInv, Flow

(* What the server end of a connection does before it is accepted.         *)
LEMMA onConnectKeeps ==
  ASSUME IInv, NEW e \in Connections, onConnect(e)
  PROVE  IInv'
<1>1. Shape'
  BY DEF onConnect, clientVars, IInv, Shape
<1>2. Carries(up', UpFrames)
  BY NextFrames DEF onConnect
<1> QED BY <1>1, <1>2, QueueStep DEF onConnect, clientVars, IInv, Flow

(* A frame that a socket without a manager drops.                          *)
LEMMA IgnoredBeforeConnectKeeps ==
  ASSUME IInv, NEW e \in Connections, IgnoredBeforeConnect(e)
  PROVE  IInv'
<1>1. Shape'
  BY DEF IgnoredBeforeConnect, clientVars, IInv, Shape
<1>2. Carries(up', UpFrames)
  BY NextFrames DEF IgnoredBeforeConnect
<1> QED BY <1>1, <1>2, QueueStep DEF IgnoredBeforeConnect, clientVars, IInv, Flow

(* The acknowledgement.                                                    *)
LEMMA onMoveToLoopCompleteKeeps ==
  ASSUME IInv, NEW e \in Connections, onMoveToLoopComplete(e)
  PROVE  IInv'
<1>1. Shape'
  BY DEF onMoveToLoopComplete, clientVars, IInv, Shape
<1>2. e \in DOMAIN DownFrames /\ Ack \in DownFrames[e]
  BY DEF DownFrames, Answers
<1>3. Carries(down', DownFrames)
  BY <1>2, QueueOperations DEF onMoveToLoopComplete, IInv, Flow
<1> QED BY <1>1, <1>3, QueueStep DEF onMoveToLoopComplete, clientVars, IInv, Flow

(* The table of a gateway after a change that adds an entry about one of   *)
(* its connections, or takes entries away.                                 *)
LEMMA ChangedTable ==
  ASSUME IInv, NEW g \in Gateways, NEW e \in Accepted[g], NEW table,
         \/ table \subseteq interest[g]
         \/ \E x \in EntriesAbout(e) : table = interest[g] \cup {x}
  PROVE  \A h \in Gateways :
           /\ IsFiniteSet([interest EXCEPT ![g] = table][h])
           /\ [interest EXCEPT ![g] = table][h] \subseteq UNION {EntriesAbout(d) : d \in Accepted[h]}
<1>1. IsFiniteSet(table)
  BY FS_Subset, FS_AddElement DEF IInv, Tables
<1>2. table \subseteq UNION {EntriesAbout(d) : d \in Accepted[g]}
  BY DEF IInv, Tables
<1> QED BY <1>1, <1>2 DEF IInv, Shape, Tables

(* What the manager does with a SUBSCRIBE: entry and relay.                *)
LEMMA onSubscribeKeeps ==
  ASSUME IInv, NEW e \in Connections, NEW frame \in NextFrame(e), onSubscribe(e, frame),
         UNCHANGED <<peerStatus, clientVars>>
  PROVE  IInv'
<1> DEFINE g     == Server[e]
           table == AddSubscription(interest[g], frame.subject, frame.id, e)
<1>1. g \in Gateways /\ e \in Accepted[g]
  BY KindsOfConnections
<1>2. frame \in UpFrames[e] /\ Carries(Read(up, e), UpFrames) /\ frame.action = "SUBSCRIBE"
  BY NextFrames DEF onSubscribe
<1>3. Shape'
  BY DEF onSubscribe, clientVars, IInv, Shape
<1>4. ASSUME e \in Clients
      PROVE  frame \in FromGateway(g) /\ Entry(frame.subject, frame.id, e) \in EntriesAbout(e)
  <2>1. frame \in Subscribed(e)
    BY <1>2, <1>4, ClientFrames DEF UpFrames
  <2>2. PICK id \in DOMAIN subscriptions[e] : frame = SubscribeFrame(subscriptions[e][id].subject, id)
    BY <2>1 DEF Subscribed
  <2>3. frame.subject = subscriptions[e][id].subject /\ frame.id = id
    BY <2>2 DEF SubscribeFrame
  <2>4. id \in IDs /\ frame.subject \in Told(g)
    BY <1>4, <2>3, SubscriptionIDs, KindsOfConnections DEF IInv
  <2>5. frame = SubscribeFrame(frame.subject, id)
    BY <2>2, <2>3
  <2>6. frame \in FromGateway(g)
    BY <2>4, <2>5 DEF FromGateway, Relays
  <2> QED BY <1>4, <2>3, <2>6 DEF EntriesAbout
<1>5. ASSUME e \in Links PROVE Entry(frame.subject, frame.id, e) \in EntriesAbout(e)
  <2>1. frame \in Relays(e[1])
    BY <1>2, <1>5, GatewayFrames, KindsOfConnections DEF UpFrames
  <2>2. frame.subject \in Told(e[1]) /\ frame.id \in IDs
    BY <2>1 DEF Relays, SubscribeFrame
  <2> QED BY <1>5, <2>2, KindsOfConnections DEF EntriesAbout
<1>6. Entry(frame.subject, frame.id, e) \in EntriesAbout(e)
  BY <1>4, <1>5, KindsOfConnections
<1>7. table = interest[g] \/ table = interest[g] \cup {Entry(frame.subject, frame.id, e)}
  BY DEF AddSubscription
<1>8. interest' = [interest EXCEPT ![g] = table]
  BY DEF onSubscribe
<1>9. \/ up' = Read(up, e)
      \/ e \in Clients /\ up' = Relayed(Read(up, e), g, frame)
  BY KindsOfConnections DEF onSubscribe
<1> HIDE DEF g, table
<1>10. \A h \in Gateways :
         /\ IsFiniteSet(interest'[h])
         /\ interest'[h] \subseteq UNION {EntriesAbout(d) : d \in Accepted[h]}
  BY <1>1, <1>6, <1>7, <1>8, ChangedTable
<1>11. Carries(up', UpFrames)
  BY <1>1, <1>2, <1>4, <1>9, RelayedFrames
<1> QED BY <1>3, <1>10, <1>11, TableStep DEF onSubscribe, clientVars

(* What the manager does with an UNSUBSCRIBE.                              *)
LEMMA onUnsubscribeKeeps ==
  ASSUME IInv, NEW e \in Connections, NEW frame \in NextFrame(e), onUnsubscribe(e, frame),
         UNCHANGED <<peerStatus, clientVars>>
  PROVE  IInv'
<1> DEFINE g     == Server[e]
           table == RemoveSubscription(interest[g], frame.subject, e)
<1>1. g \in Gateways /\ e \in Accepted[g]
  BY KindsOfConnections
<1>2. frame \in UpFrames[e] /\ Carries(Read(up, e), UpFrames) /\ frame.action = "UNSUBSCRIBE"
  BY NextFrames DEF onUnsubscribe
<1>3. Shape'
  BY DEF onUnsubscribe, clientVars, IInv, Shape
<1>4. frame \in Releases
  BY <1>2, ClientFrames, GatewayFrames DEF UpFrames
<1>5. frame \in FromGateway(g)
  BY <1>4 DEF FromGateway
<1>6. table \subseteq interest[g]
  BY DEF RemoveSubscription
<1>7. interest' = [interest EXCEPT ![g] = table]
  BY DEF onUnsubscribe
<1>8. up' = Read(up, e) \/ up' = Relayed(Read(up, e), g, frame)
  BY DEF onUnsubscribe
<1> HIDE DEF g, table
<1>9. \A h \in Gateways :
        /\ IsFiniteSet(interest'[h])
        /\ interest'[h] \subseteq UNION {EntriesAbout(d) : d \in Accepted[h]}
  BY <1>1, <1>6, <1>7, ChangedTable
<1>10. Carries(up', UpFrames)
  BY <1>1, <1>2, <1>5, <1>8, RelayedFrames
<1> QED BY <1>3, <1>9, <1>10, TableStep DEF onUnsubscribe, clientVars

(* What the manager does with a message.                                   *)
LEMMA onMessageKeeps ==
  ASSUME IInv, NEW e \in Connections, NEW frame \in NextFrame(e), onMessage(e, frame),
         UNCHANGED <<peerStatus, clientVars>>
  PROVE  IInv'
<1> DEFINE g == Server[e]
<1>1. g \in Gateways
  BY KindsOfConnections
<1>2. frame \in UpFrames[e] /\ Carries(Read(up, e), UpFrames) /\ IsMessage(frame)
  BY NextFrames DEF onMessage
<1>3. e \in Clients /\ frame \in Sent(e)
  BY <1>2, ClientFrames, GatewayFrames, KindsOfConnections DEF UpFrames
<1>4. PICK m \in {n \in Published : n.from = e} : frame = MessageFrame(m.topic, m, {})
  BY <1>3 DEF Sent
<1>5. frame.msg = m /\ frame.subject = m.topic
  BY <1>4 DEF MessageFrame
<1>6. /\ frame.msg \in Published /\ frame.msg \in Messages /\ frame.subject = frame.msg.topic
      /\ Home[frame.msg.from] = g /\ frame.msg \in SentFrom[g]
  BY <1>1, <1>3, <1>4, <1>5, KindsOfConnections DEF SentFrom, Published
<1>7. Shape'
  <2>1. /\ counted' \in [Gateways -> SUBSET Messages]
        /\ \A h \in Gateways : counted'[h] \subseteq SentFrom[h]
    BY <1>1, <1>6 DEF onMessage, IInv, Shape
  <2> QED BY <2>1 DEF onMessage, clientVars, IInv, Shape
<1>8. down' = Forwarded(down, g, frame, e \in Links)
  BY DEF onMessage
<1> HIDE DEF g
<1>9. Carries(down', DownFrames)
  <2>1. Tables /\ Carries(down, DownFrames) /\ (e \in Links) \in BOOLEAN
    BY DEF IInv, Flow
  <2> QED BY <1>1, <1>6, <1>8, <2>1, ForwardedFrames
<1> QED BY <1>2, <1>7, <1>9, QueueStep DEF onMessage, clientVars, IInv, Flow

(* What the end of a connection leaves of its queues.                      *)
LEMMA QueuesAfterTheEnd ==
  ASSUME NEW e \in Connections, onDisconnected(e)
  PROVE  /\ down' \in Unsent(down, e)
         /\ \/ up' = up
            \/ e \in Clients /\ up[e] # << >> /\ Head(up[e]) = Disconnect /\ up' = Read(up, e)
            \/ e \in Clients /\ client[e] = "closed" /\ up' = [up EXCEPT ![e] = << >>]
<1>1. down' \in Unsent(down, e)
  BY DEF onDisconnected, Disconnected
<1>2. CASE e \in Clients /\ Disconnect \in NextFrame(e) /\ up' = Read(up, e)
  BY <1>1, <1>2 DEF NextFrame
<1>3. CASE e \in Clients /\ client[e] = "closed" /\ up' = [up EXCEPT ![e] = << >>]
  BY <1>1, <1>3
<1> QED BY <1>1, <1>2, <1>3 DEF onDisconnected

(* The end of a connection, at its server.                                 *)
LEMMA onDisconnectedKeeps ==
  ASSUME IInv, NEW e \in Connections, onDisconnected(e)
  PROVE  IInv'
<1> DEFINE g == Server[e]
<1>1. g \in Gateways /\ e \in Accepted[g]
  BY KindsOfConnections
<1>2. Shape'
  BY DEF onDisconnected, Disconnected, clientVars, IInv, Shape
<1>3. e \in DOMAIN UpFrames /\ e \in DOMAIN DownFrames
  BY DEF UpFrames, DownFrames
<1>4. Carries(up', UpFrames) /\ Carries(down', DownFrames)
  <2>1. Carries(down, DownFrames) /\ Carries(up, UpFrames)
    BY DEF IInv, Flow
  <2>2. Carries(down', DownFrames)
    BY <1>3, <2>1, QueueOperations, QueuesAfterTheEnd
  <2>3. Carries([up EXCEPT ![e] = << >>], UpFrames)
        /\ (up[e] # << >> => Carries(Read(up, e), UpFrames))
    BY <1>3, <2>1, QueueOperations
  <2> QED BY <2>1, <2>2, <2>3, QueuesAfterTheEnd
<1>5. interest' = [interest EXCEPT ![g] = RemoveAllSubscriptions(interest[g], e)]
  BY DEF onDisconnected, Disconnected
<1>6. RemoveAllSubscriptions(interest[g], e) \subseteq interest[g]
  BY DEF RemoveAllSubscriptions
<1> HIDE DEF g
<1>7. \A h \in Gateways :
        /\ IsFiniteSet(interest'[h])
        /\ interest'[h] \subseteq UNION {EntriesAbout(d) : d \in Accepted[h]}
  BY <1>1, <1>5, <1>6, ChangedTable
<1>8. Flow'
  BY <1>4, SubscriptionsUnchanged DEF onDisconnected, clientVars, IInv, Flow, Carries
<1>9. Tables'
  BY <1>7, SubscriptionsUnchanged DEF onDisconnected, clientVars, Tables
<1> QED BY <1>2, <1>8, <1>9 DEF IInv

(* The end of a released socket.                                           *)
LEMMA SocketDestroyedKeeps ==
  ASSUME IInv, NEW e \in Connections, SocketDestroyed(e)
  PROVE  IInv'
<1>1. Shape'
  BY DEF SocketDestroyed, clientVars, IInv, Shape
<1>2. e \in DOMAIN DownFrames
  BY DEF DownFrames
<1>3. Carries(down', DownFrames)
  BY <1>2, QueueOperations DEF SocketDestroyed, IInv, Flow
<1> QED BY <1>1, <1>3, QueueStep DEF SocketDestroyed, clientVars, IInv, Flow
-----------------------------------------------------------------------------
(* The life of a link, at the gateway that opened it.                      *)
LEMMA LinkStatusKeeps ==
  ASSUME IInv, NEW l \in Links, LinkStatusStep(l)
  PROVE  IInv'
<1>1. Shape'
  BY DEF LinkStatusStep, onConnectionSucceeded, onConnectionFailed, RetryTimer,
         onResolutionFailed, onPeerDisconnected, PeerStep, clientVars, IInv, Shape
<1>2. l \in DOMAIN UpFrames /\ ConnectMeshPeer \in UpFrames[l]
  BY KindsOfConnections DEF UpFrames, FromGateway
<1>3. /\ UNCHANGED <<subscriptions, published, interest, down, inbox, received>>
      /\ up' = up \/ up' = Written(up, l, ConnectMeshPeer) \/ up' \in Unsent(up, l)
  BY DEF LinkStatusStep, onConnectionSucceeded, onConnectionFailed, RetryTimer,
         onResolutionFailed, onPeerDisconnected, PeerStep, clientVars
<1>4. Carries(up, UpFrames)
  BY DEF IInv, Flow
<1>5. Carries(up', UpFrames)
  <2>1. Carries(Written(up, l, ConnectMeshPeer), UpFrames)
    BY <1>2, <1>4, QueueOperations
  <2>2. \A rest \in Unsent(up, l) : Carries(rest, UpFrames)
    BY <1>2, <1>4, QueueOperations
  <2> QED BY <1>3, <1>4, <2>1, <2>2
<1> QED BY <1>1, <1>3, <1>5, QueueStep DEF IInv, Flow

(* What a gateway reads from a peer that it connected to.                  *)
LEMMA PeerReadsKeeps ==
  ASSUME IInv, NEW l \in Links, PeerReads(l)
  PROVE  IInv'
<1> DEFINE frame == Head(down[l])
<1>1. Shape'
  BY DEF PeerReads, clientVars, IInv, Shape
<1>2. l \in Connections /\ l[1] \in Gateways
  BY KindsOfConnections
<1>3. l \in DOMAIN DownFrames /\ DownFrames[l] = Answers(l)
  BY <1>2 DEF DownFrames
<1>4. Carries(Read(down, l), DownFrames) /\ frame \in Answers(l)
  BY <1>3, QueueOperations DEF PeerReads, IInv, Flow
<1>5. down' = IF IsMessage(frame) THEN Forwarded(Read(down, l), l[1], frame, TRUE)
                                  ELSE Read(down, l)
  BY DEF PeerReads
<1> HIDE DEF frame
<1>6. Carries(down', DownFrames)
  <2>1. CASE IsMessage(frame)
    <3>1. frame.msg \in Published /\ frame.subject = frame.msg.topic
      BY <1>4, <2>1, AnswerFrames
    <3>2. Carries(Forwarded(Read(down, l), l[1], frame, TRUE), DownFrames)
      BY <1>2, <1>4, <3>1, ForwardedFrames DEF IInv
    <3> QED BY <1>5, <2>1, <3>2
  <2> QED BY <1>4, <1>5, <2>1
<1> QED BY <1>1, <1>6, QueueStep DEF PeerReads, clientVars, IInv, Flow

(* Every step keeps it.                                                    *)
LEMMA InvInductive == IInv /\ [Next]_vars => IInv'
<1> SUFFICES ASSUME IInv, [Next]_vars PROVE IInv'
  OBVIOUS
<1>1. ASSUME NEW c \in Clients, UserStep(c) \/ ClientStep(c) PROVE IInv'
  BY <1>1, connectKeeps, subscribeKeeps, releaseSubscriptionKeeps, sendMessageKeeps,
     closeKeeps,
     onAckKeeps, onGatewayMessageKeeps, processGatewayMessageKeeps DEF UserStep, ClientStep
<1>2. ASSUME NEW e \in Connections,
             ServerStep(e) \/ onDisconnected(e) \/ SocketDestroyed(e)
      PROVE  IInv'
  BY <1>2, onConnectKeeps, IgnoredBeforeConnectKeeps, onMoveToLoopCompleteKeeps,
     onSubscribeKeeps, onUnsubscribeKeeps, onMessageKeeps, onDisconnectedKeeps,
     SocketDestroyedKeeps
     DEF ServerStep, onDataReceived
<1>3. ASSUME NEW l \in Links, LinkStatusStep(l) \/ PeerReads(l) PROVE IInv'
  BY <1>3, LinkStatusKeeps, PeerReadsKeeps
<1>4. CASE UNCHANGED vars
  BY <1>4, QueueStep DEF vars, gatewayVars, clientVars, IInv, Shape, Flow
<1> QED BY <1>1, <1>2, <1>3, <1>4 DEF Next

(* So the invariant holds in every behaviour.                              *)
LEMMA Invariance == Spec => []IInv
BY InvInitially, InvInductive, PTL DEF Spec
-----------------------------------------------------------------------------
(* Every gateway has the types of a ServiceManager.                        *)
LEMMA GatewayTypes ==
  ASSUME IInv, NEW g \in Gateways
  PROVE  SM(g)!TypeOK
<1> DEFINE Peers   == Outgoing[g]
           Sockets == Accepted[g]
<1>1. /\ \A e \in Sockets : e \in Connections /\ e \in DOMAIN DownFrames /\ DownFrames[e] = Answers(e)
      /\ \A l \in Peers : /\ l \in Links /\ l[1] = g /\ l \in Connections
                           /\ l \in DOMAIN UpFrames /\ UpFrames[l] = FromGateway(g)
  BY KindsOfConnections DEF UpFrames, DownFrames
<1>2. ASSUME NEW e \in Sockets
      PROVE  EntriesAbout(e) \subseteq SM(g)!Entries
  <2>1. e \in Clients \/ e \in Links
    BY <1>1, KindsOfConnections
  <2>2. CASE e \in Clients
    BY <2>2, SubscriptionIDs DEF EntriesAbout, Entry, IInv, SM!Entries
  <2>3. CASE e \in Links
    BY <2>3, KindsOfConnections DEF EntriesAbout, Entry, Told, SM!Entries
  <2> QED BY <2>1, <2>2, <2>3
<1>3. ASSUME NEW e \in Sockets
      PROVE  Answers(e) \subseteq SM(g)!Frames
  <2> SUFFICES ASSUME NEW frame \in Answers(e) PROVE frame \in SM(g)!Frames
    OBVIOUS
  <2>1. CASE ~IsMessage(frame)
    BY <2>1 DEF Answers, Copies, IsMessage, MessageFrame, SM!Frames, SM!Ack, Ack
  <2>2. CASE IsMessage(frame)
    <3>1. /\ frame.msg \in Messages /\ frame.copies \in SUBSET SM(g)!Entries
          /\ frame = MessageFrame(frame.msg.topic, frame.msg, frame.copies)
      BY <1>2, <2>2, AnswerFrames DEF Hits
    <3>2. frame.msg.topic \in Topics
      BY <3>1 DEF Messages
    <3>3. frame.msg \in SM(g)!Messages
      BY <3>1 DEF SM!Messages
    <3> QED BY <3>1, <3>2, <3>3 DEF MessageFrame, SM!Frames, SM!MessageFrames
  <2> QED BY <2>1, <2>2
<1>4. FromGateway(g) \subseteq SM(g)!Frames
  BY DEF FromGateway, Relays, Releases, Told, SubscribeFrame, UnsubscribeFrame,
         ConnectMeshPeer,
         SM!Frames, SM!ConnectMeshPeer
<1>5. ASSUME NEW e \in Sockets \cup Peers
      PROVE  (IF e \in Peers THEN up[e] ELSE down[e]) \in Seq(SM(g)!Frames)
  <2>1. CASE e \in Peers
    <3>1. up[e] \in Seq(FromGateway(g))
      BY <1>1, <2>1 DEF IInv, Flow, Carries
    <3> QED BY <1>4, <2>1, <3>1, Widened
  <2>2. CASE e \notin Peers
    <3>1. down[e] \in Seq(Answers(e))
      BY <1>1, <2>2 DEF IInv, Flow, Carries
    <3> QED BY <1>3, <2>2, <3>1, Widened
  <2> QED BY <2>1, <2>2
<1>6. [e \in Sockets |-> stage[e]] \in [Sockets -> SM(g)!Stages]
  BY <1>1 DEF IInv, Shape, SM!Stages
<1>7. [e \in Sockets |-> e \in Links /\ stage[e] # "unregistered"] \in [Sockets -> BOOLEAN]
  OBVIOUS
<1>8. [l \in Peers |-> peerStatus[l]] \in [Peers -> SM(g)!PeerStatuses]
  BY <1>1 DEF IInv, Shape, SM!PeerStatuses
<1>9. interest[g] \subseteq SM(g)!Entries
  BY <1>2 DEF IInv, Tables
<1>10. counted[g] \subseteq SentFrom[g]
  BY DEF IInv, Shape
<1>11. [e \in Sockets \cup Peers |-> IF e \in Peers THEN up[e] ELSE down[e]]
         \in [Sockets \cup Peers -> Seq(SM(g)!Frames)]
  BY <1>5
<1> QED BY <1>6, <1>7, <1>8, <1>9, <1>10, <1>11 DEF SM!TypeOK, SM!Endpoints

(***************************************************************************)
(* Every variable keeps its type, in particular those of each gateway the  *)
(* types of a ServiceManager: whatever clients do and connections carry.   *)
(***************************************************************************)
THEOREM TypeCorrect == Spec => []TypeOK
<1>1. IInv => TypeOK
  <2> SUFFICES ASSUME IInv PROVE TypeOK
    OBVIOUS
  <2>1. \A g \in Gateways : SM(g)!TypeOK
    BY GatewayTypes
  <2>2. \A c \in Clients : published[c] \in 0 .. Publications[c]
    BY MeshAssumption DEF IInv, Shape
  <2>3. ASSUME NEW c \in Clients, NEW q \in {inbox[c], received[c]}
        PROVE  Range(q) \subseteq [id : IDs, msg : Messages]
    <3>1. q \in Seq(Deliveries(c))
      BY DEF IInv, Flow, Carries, Deliverables
    <3>2. \A d \in Deliveries(c) : d \in [id : IDs, msg : Messages]
      BY SubscriptionIDs DEF IInv, Deliveries, Published
    <3> QED BY <3>1, <3>2, Elements DEF Range
  <2> QED BY <2>1, <2>2, <2>3 DEF TypeOK, IInv, Shape
<1> QED BY <1>1, Invariance, PTL

(***************************************************************************)
(* A gateway that holds a peer's interest in a subject holds what a client *)
(* of that peer has subscribed to: onSubscribe relays no peer's interest,  *)
(* onward or back.                                                         *)
(***************************************************************************)
THEOREM PeerInterestHolds == Spec => []PeerInterestComesFromClients
<1>1. IInv => PeerInterestComesFromClients
  <2> SUFFICES ASSUME IInv, NEW l \in Links, NEW x \in interest[l[2]], x.socket = l
               PROVE  \E c \in Clients : Home[c] = l[1] /\ EverSubscribed(c, x.subject)
    BY DEF PeerInterestComesFromClients
  <2>1. PICK e \in Accepted[l[2]] : x \in EntriesAbout(e)
    BY KindsOfConnections DEF IInv, Tables
  <2>2. e = l
    BY <2>1 DEF EntriesAbout, Entry
  <2>3. x.subject \in Told(l[1])
    BY <2>1, <2>2, KindsOfConnections DEF EntriesAbout, Entry
  <2> QED BY <2>3 DEF Told
<1> QED BY <1>1, Invariance, PTL

(***************************************************************************)
(* A callback gets messages of the subject it subscribed to, although      *)
(* gateways keep entries of subscriptions that were released, and relay    *)
(* messages with IDs of other gateways' subscriptions.                     *)
(***************************************************************************)
THEOREM DeliveredToItsSubjectHolds == Spec => []DeliveredToItsSubject
<1>1. IInv => DeliveredToItsSubject
  <2> SUFFICES ASSUME IInv, NEW c \in Clients, NEW d \in Range(received[c])
               PROVE  Matches(subscriptions[c][d.id].subject, d.msg.topic)
    BY DEF DeliveredToItsSubject
  <2>1. received[c] \in Seq(Deliveries(c))
    BY DEF IInv, Flow, Carries, Deliverables
  <2>2. d \in Deliveries(c)
    BY <2>1, Elements DEF Range
  <2> QED BY <2>2 DEF Deliveries
<1> QED BY <1>1, Invariance, PTL
-----------------------------------------------------------------------------
(* The order of messages.  A message that a sender sends after another is  *)
(* behind it wherever the two are: in one queue, or in two that the        *)
(* messages to a client go through one after the other.                    *)
Before(m, n)   == m.from = n.from => m.n < n.n
Precedes(A, B) == \A m \in A, n \in B : Before(m, n)

(* The messages in a queue, those given to a client, and their order.      *)
MessagesIn(q) == {q[i].msg : i \in {j \in DOMAIN q : IsMessage(q[j])}}
GivenTo(d)    == {x.msg : x \in Range(inbox[d]) \cup Range(received[d])}

InOrder(q) ==
  \A i, j \in DOMAIN q :
    i < j /\ IsMessage(q[i]) /\ IsMessage(q[j]) => Before(q[i].msg, q[j].msg)

(* Two messages for the same subscription.                                 *)
OnceFor(x, y) == x.id = y.id => Before(x.msg, y.msg)
Once(q)       == \A i, j \in DOMAIN q : i < j => OnceFor(q[i], q[j])

QueuesInOrder ==
  /\ \A c \in Clients : InOrder(up[c])
  /\ \A e \in Connections : InOrder(down[e])
  /\ \A d \in Clients : /\ Once(inbox[d]) /\ Once(received[d])
                        /\ \A x \in Range(received[d]), y \in Range(inbox[d]) : OnceFor(x, y)

(* From its sender to its gateway, to a peer of that, to a client there.   *)
StationsInOrder ==
  /\ \A e \in Connections, c \in Clients : Precedes(MessagesIn(down[e]), MessagesIn(up[c]))
  /\ \A d \in Clients, c \in Clients : Precedes(GivenTo(d), MessagesIn(up[c]))
  /\ \A d \in Clients : \A l \in Outgoing[Home[d]] :
       /\ Precedes(MessagesIn(down[d]), MessagesIn(down[l]))
       /\ Precedes(GivenTo(d), MessagesIn(down[l]))
  /\ \A d \in Clients : Precedes(GivenTo(d), MessagesIn(down[d]))

Order == QueuesInOrder /\ StationsInOrder

(* What reading, writing and clearing a queue do to its messages.          *)
LEMMA ReadInOrder ==
  ASSUME NEW S, NEW q \in Seq(S), q # << >>, InOrder(q)
  PROVE  /\ InOrder(Tail(q)) /\ MessagesIn(Tail(q)) \subseteq MessagesIn(q)
         /\ IsMessage(Head(q)) => /\ Head(q).msg \in MessagesIn(q)
                                  /\ Precedes({Head(q).msg}, MessagesIn(Tail(q)))
<1>1. /\ 1 \in DOMAIN q /\ Head(q) = q[1]
      /\ \A i \in DOMAIN Tail(q) : i \in Nat /\ i >= 1 /\ i + 1 \in DOMAIN q /\ Tail(q)[i] = q[i + 1]
  OBVIOUS
<1>2. InOrder(Tail(q))
  BY <1>1 DEF InOrder
<1>3. ASSUME NEW m \in MessagesIn(Tail(q))
      PROVE  \E i \in DOMAIN q : i > 1 /\ IsMessage(q[i]) /\ m = q[i].msg
  <2>1. PICK i \in DOMAIN Tail(q) : IsMessage(Tail(q)[i]) /\ m = Tail(q)[i].msg
    BY DEF MessagesIn
  <2>2. i + 1 \in DOMAIN q /\ i + 1 > 1 /\ Tail(q)[i] = q[i + 1]
    BY <1>1
  <2> QED BY <2>1, <2>2
<1>4. MessagesIn(Tail(q)) \subseteq MessagesIn(q)
  BY <1>3 DEF MessagesIn
<1>5. ASSUME IsMessage(Head(q))
      PROVE  Head(q).msg \in MessagesIn(q) /\ Precedes({Head(q).msg}, MessagesIn(Tail(q)))
  <2>1. Head(q).msg \in MessagesIn(q)
    BY <1>1, <1>5 DEF MessagesIn
  <2>2. ASSUME NEW m \in MessagesIn(Tail(q)) PROVE Before(Head(q).msg, m)
    BY <1>1, <1>3, <1>5 DEF InOrder
  <2> QED BY <2>1, <2>2 DEF Precedes
<1> QED BY <1>2, <1>4, <1>5

(* Order in a queue that a frame is written to.                            *)
LEMMA WrittenInOrder ==
  ASSUME NEW S, NEW q \in Seq(S), NEW frame, InOrder(q)
  PROVE  /\ ~IsMessage(frame) => /\ InOrder(Append(q, frame))
                                 /\ MessagesIn(Append(q, frame)) = MessagesIn(q)
         /\ IsMessage(frame) /\ Precedes(MessagesIn(q), {frame.msg})
              => /\ InOrder(Append(q, frame))
                 /\ MessagesIn(Append(q, frame)) = MessagesIn(q) \cup {frame.msg}
<1> DEFINE r == Append(q, frame)
           n == Len(q)
<1>1. /\ n \in Nat /\ DOMAIN q = 1 .. n /\ DOMAIN r = 1 .. n + 1
      /\ r[n + 1] = frame /\ \A i \in 1 .. n : r[i] = q[i]
  OBVIOUS
<1> HIDE DEF r, n
<1>2. ASSUME NEW i \in DOMAIN r PROVE i \in DOMAIN q \/ i = n + 1
  BY <1>1
<1>3. \A i, j \in DOMAIN r : i < j => i \in DOMAIN q
  BY <1>1
<1>4. /\ ~IsMessage(frame) => MessagesIn(r) = MessagesIn(q)
      /\ IsMessage(frame) => MessagesIn(r) = MessagesIn(q) \cup {frame.msg}
  <2>1. ASSUME NEW m PROVE m \in MessagesIn(r) <=> m \in MessagesIn(q) \/ (IsMessage(frame) /\ m = frame.msg)
    BY <1>1, <1>2 DEF MessagesIn
  <2> QED BY <2>1
<1>5. ASSUME IsMessage(frame) => Precedes(MessagesIn(q), {frame.msg}) PROVE InOrder(r)
  <2> SUFFICES ASSUME NEW i \in DOMAIN r, NEW j \in DOMAIN r, i < j,
                      IsMessage(r[i]), IsMessage(r[j])
               PROVE  Before(r[i].msg, r[j].msg)
    BY DEF InOrder
  <2>1. i \in DOMAIN q /\ r[i] = q[i]
    BY <1>1, <1>3
  <2>2. CASE j \in DOMAIN q
    BY <1>1, <2>1, <2>2 DEF InOrder
  <2>3. CASE j = n + 1
    BY <1>1, <1>5, <2>1, <2>3 DEF Precedes, MessagesIn
  <2> QED BY <1>2, <2>2, <2>3
<1> QED BY <1>4, <1>5 DEF r

(* The places of two queues put together.                                  *)
LEMMA Joined ==
  ASSUME NEW S, NEW T, NEW q \in Seq(S), NEW r \in Seq(T)
  PROVE  /\ Len(q) \in Nat
         /\ \A i \in DOMAIN (q \o r) :
              /\ i \in Nat
              /\ \/ i \in DOMAIN q /\ (q \o r)[i] = q[i]
                 \/ /\ i \notin DOMAIN q /\ i - Len(q) \in DOMAIN r
                    /\ (q \o r)[i] = r[i - Len(q)]
         /\ \A i, j \in DOMAIN (q \o r) : i < j /\ j \in DOMAIN q => i \in DOMAIN q
         /\ DOMAIN q \subseteq DOMAIN (q \o r)
OBVIOUS

(* Order when frames that are no messages follow.                          *)
LEMMA JoinedInOrder ==
  ASSUME NEW S, NEW T, NEW q \in Seq(S), NEW r \in Seq(T), InOrder(q),
         \A i \in DOMAIN r : ~IsMessage(r[i])
  PROVE  InOrder(q \o r) /\ MessagesIn(q \o r) = MessagesIn(q)
<1> DEFINE s == q \o r
<1>1. /\ DOMAIN q \subseteq DOMAIN s /\ \A i \in DOMAIN q : s[i] = q[i]
      /\ \A i \in DOMAIN s \ DOMAIN q : i - Len(q) \in DOMAIN r /\ s[i] = r[i - Len(q)]
  BY Joined
<1> HIDE DEF s
<1>2. \A i \in DOMAIN s : IsMessage(s[i]) => i \in DOMAIN q
  BY <1>1
<1> QED BY <1>1, <1>2 DEF InOrder, MessagesIn, s
-----------------------------------------------------------------------------
(* The queues, and whose messages they hold.                               *)
LEMMA QueuesOfMessages ==
  ASSUME IInv
  PROVE  /\ \A c \in Clients : up[c] \in Seq(FromClient(c))
         /\ \A e \in Connections : down[e] \in Seq(Answers(e))
         /\ \A d \in Clients : inbox[d] \in Seq(Deliveries(d)) /\ received[d] \in Seq(Deliveries(d))
         /\ \A c \in Clients : \A m \in MessagesIn(up[c]) : m \in Published /\ m.from = c
         /\ \A e \in Connections : \A m \in MessagesIn(down[e]) : m \in MayGet(e) /\ m \in Published
         /\ \A d \in Clients : \A m \in GivenTo(d) : m \in Published
<1>1. ASSUME NEW c \in Clients
      PROVE  up[c] \in Seq(FromClient(c)) /\ inbox[c] \in Seq(Deliveries(c))
             /\ received[c] \in Seq(Deliveries(c))
  BY KindsOfConnections DEF IInv, Flow, Carries, UpFrames, Deliverables
<1>2. ASSUME NEW e \in Connections PROVE down[e] \in Seq(Answers(e))
  BY DEF IInv, Flow, Carries, DownFrames
<1>3. ASSUME NEW c \in Clients, NEW m \in MessagesIn(up[c]) PROVE m \in Published /\ m.from = c
  <2>1. PICK i \in DOMAIN up[c] : IsMessage(up[c][i]) /\ m = up[c][i].msg
    BY DEF MessagesIn
  <2>2. up[c][i] \in Sent(c)
    BY <1>1, <2>1, Elements, ClientFrames
  <2> QED BY <2>1, <2>2 DEF Sent, MessageFrame
<1>4. ASSUME NEW e \in Connections, NEW m \in MessagesIn(down[e])
      PROVE  m \in MayGet(e) /\ m \in Published
  <2>1. PICK i \in DOMAIN down[e] : IsMessage(down[e][i]) /\ m = down[e][i].msg
    BY DEF MessagesIn
  <2>2. down[e][i] \in Answers(e)
    BY <1>2, Elements
  <2> QED BY <2>1, <2>2, AnswerFrames
<1>5. ASSUME NEW d \in Clients, NEW m \in GivenTo(d) PROVE m \in Published
  <2>1. PICK x \in Deliveries(d) : m = x.msg
    BY <1>1, Elements DEF GivenTo, Range
  <2> QED BY <2>1 DEF Deliveries
<1> QED BY <1>1, <1>2, <1>3, <1>4, <1>5

(* Where messages only leave queues, order remains.                        *)
LEMMA FewerMessages ==
  ASSUME Order, UNCHANGED <<inbox, received>>,
         \A c \in Clients : InOrder(up'[c]) /\ MessagesIn(up'[c]) \subseteq MessagesIn(up[c]),
         \A e \in Connections :
           InOrder(down'[e]) /\ MessagesIn(down'[e]) \subseteq MessagesIn(down[e])
  PROVE  Order'
<1>1. QueuesInOrder'
  BY DEF Order, QueuesInOrder
<1>2. \A d \in Clients : GivenTo(d)' = GivenTo(d)
  BY DEF GivenTo
<1>3. \A d \in Clients : \A l \in Outgoing[Home[d]] : d \in Connections /\ l \in Connections
  BY KindsOfConnections
<1>4. ASSUME NEW A, NEW B, NEW C, NEW D, C \subseteq A, D \subseteq B, Precedes(A, B)
      PROVE  Precedes(C, D)
  BY <1>4 DEF Precedes
<1>5. \A e \in Connections, c \in Clients : Precedes(MessagesIn(down'[e]), MessagesIn(up'[c]))
  BY <1>4 DEF Order, StationsInOrder
<1>6. \A d \in Clients, c \in Clients : Precedes(GivenTo(d), MessagesIn(up'[c]))
  BY <1>4 DEF Order, StationsInOrder
<1>7. ASSUME NEW d \in Clients, NEW l \in Outgoing[Home[d]]
      PROVE  /\ Precedes(MessagesIn(down'[d]), MessagesIn(down'[l]))
             /\ Precedes(GivenTo(d), MessagesIn(down'[l]))
  <2>1. /\ Precedes(MessagesIn(down[d]), MessagesIn(down[l]))
        /\ Precedes(GivenTo(d), MessagesIn(down[l]))
    BY DEF Order, StationsInOrder
  <2>2. /\ MessagesIn(down'[d]) \subseteq MessagesIn(down[d])
        /\ MessagesIn(down'[l]) \subseteq MessagesIn(down[l])
    BY <1>3
  <2> QED BY <1>4, <2>1, <2>2
<1>8. \A d \in Clients : Precedes(GivenTo(d), MessagesIn(down'[d]))
  BY <1>3, <1>4, KindsOfConnections DEF Order, StationsInOrder
<1>9. StationsInOrder'
  BY <1>2, <1>5, <1>6, <1>7, <1>8 DEF StationsInOrder
<1> QED BY <1>1, <1>9 DEF Order

(* A frame that is no message is written to a queue, one is read, or the   *)
(* last ones or all are lost.                                              *)
LEMMA OneQueue ==
  ASSUME NEW S, NEW q \in Seq(S), InOrder(q), NEW r,
         \/ r = q \/ r = << >>
         \/ \E n \in 0 .. Len(q) : r = SubSeq(q, 1, n)
         \/ q # << >> /\ r = Tail(q)
         \/ \E frame : ~IsMessage(frame) /\ r = Append(q, frame)
  PROVE  InOrder(r) /\ MessagesIn(r) \subseteq MessagesIn(q)
<1>1. CASE r = << >>
  BY <1>1 DEF InOrder, MessagesIn
<1>2. CASE q # << >> /\ r = Tail(q)
  BY <1>2, ReadInOrder
<1>3. CASE \E frame : ~IsMessage(frame) /\ r = Append(q, frame)
  BY <1>3, WrittenInOrder
<1>4. CASE \E n \in 0 .. Len(q) : r = SubSeq(q, 1, n)
  <2>1. PICK n \in 0 .. Len(q) : r = SubSeq(q, 1, n)
    BY <1>4
  <2>2. DOMAIN r = 1 .. n /\ \A i \in 1 .. n : i \in DOMAIN q /\ r[i] = q[i]
    BY <2>1, PrefixOf
  <2> QED BY <2>2 DEF InOrder, MessagesIn
<1> QED BY <1>1, <1>2, <1>3, <1>4

(* The frames that carry no message.                                       *)
LEMMA OthersAreNoMessages ==
  /\ ~IsMessage(Connect) /\ ~IsMessage(ConnectMeshPeer) /\ ~IsMessage(Ack)
  /\ ~IsMessage(Disconnect)
  /\ \A s, id : ~IsMessage(SubscribeFrame(s, id)) /\ ~IsMessage(UnsubscribeFrame(s, id))
BY DEF IsMessage, Connect, ConnectMeshPeer, Ack, Disconnect, SubscribeFrame,
       UnsubscribeFrame

(* Calls of users other than sendMessage and close.                        *)
LEMMA CallsKeepOrder ==
  ASSUME IInv, Order, NEW c \in Clients, UNCHANGED <<down, inbox, received>>,
         \/ up' = up
         \/ \E frame : ~IsMessage(frame) /\ up' = Written(up, c, frame)
  PROVE  Order'
<1>1. ASSUME NEW d \in Clients
      PROVE  up'[d] = up[d] \/ \E frame : ~IsMessage(frame) /\ up'[d] = Append(up[d], frame)
  <2>1. c \in DOMAIN up /\ d \in DOMAIN up
    <3>1. DOMAIN up = Connections
      BY DEF IInv, Flow, Carries, UpFrames
    <3> QED BY <3>1, KindsOfConnections
  <2>2. CASE up' = up
    BY <2>2
  <2>3. ASSUME NEW frame, ~IsMessage(frame), up' = Written(up, c, frame)
        PROVE  up'[d] = up[d] \/ up'[d] = Append(up[d], frame)
    <3>1. up' = [up EXCEPT ![c] = Append(@, frame)]
      BY <2>3 DEF Written
    <3> QED BY <2>1, <3>1
  <2> QED BY <2>2, <2>3
<1>2. ASSUME NEW d \in Clients
      PROVE  InOrder(up'[d]) /\ MessagesIn(up'[d]) \subseteq MessagesIn(up[d])
  BY <1>1, OneQueue, QueuesOfMessages DEF Order, QueuesInOrder
<1> QED BY <1>2, FewerMessages DEF Order, QueuesInOrder

(* A new publication comes after all of its sender's.                      *)
LEMMA sendMessageKeepsOrder ==
  ASSUME IInv, Order, NEW c \in Clients, NEW topic \in Topics, sendMessage(c, topic)
  PROVE  Order'
<1> DEFINE m == [from |-> c, n |-> published[c] + 1, topic |-> topic]
<1>1. ASSUME NEW k \in Published PROVE Before(k, m)
  <2> SUFFICES ASSUME k.from = c PROVE k.n < published[c] + 1
    BY DEF Before
  <2>1. k.n \in Int /\ k.n <= published[c] /\ published[c] \in Int
    BY DEF Published, Messages, IInv, Shape
  <2> QED BY <2>1
<1>2. up[c] \in Seq(FromClient(c)) /\ c \in DOMAIN up
  BY KindsOfConnections, QueuesOfMessages DEF IInv, Flow, Carries, UpFrames
<1>3. /\ UNCHANGED <<down, inbox, received>> /\ up' = Written(up, c, MessageFrame(topic, m, {}))
  BY DEF sendMessage
<1>4. MessageFrame(topic, m, {}).msg = m /\ IsMessage(MessageFrame(topic, m, {}))
  BY DEF MessageFrame, IsMessage
<1> HIDE DEF m
<1>5. up'[c] = Append(up[c], MessageFrame(topic, m, {})) /\ \A d \in Clients \ {c} : up'[d] = up[d]
  BY <1>2, <1>3 DEF Written
<1>6. InOrder(up'[c]) /\ MessagesIn(up'[c]) = MessagesIn(up[c]) \cup {m}
  <2>1. Precedes(MessagesIn(up[c]), {m})
    BY <1>1, QueuesOfMessages DEF Precedes
  <2> QED BY <1>2, <1>4, <1>5, <2>1, WrittenInOrder DEF Order, QueuesInOrder
<1>7. QueuesInOrder'
  BY <1>3, <1>5, <1>6 DEF Order, QueuesInOrder
<1>8. \A d \in Clients : GivenTo(d)' = GivenTo(d)
  BY <1>3 DEF GivenTo
<1>9. StationsInOrder'
  BY SMTT(30), <1>1, <1>3, <1>5, <1>6, <1>8, QueuesOfMessages DEF Order, StationsInOrder, Precedes
<1> QED BY <1>7, <1>9 DEF Order

(* The farewell carries no message.                                        *)
LEMMA closeKeepsOrder ==
  ASSUME IInv, Order, NEW c \in Clients, close(c)
  PROVE  Order'
<1>1. up[c] \in Seq(FromClient(c)) /\ c \in DOMAIN up /\ inbox[c] \in Seq(Deliveries(c))
      /\ c \in DOMAIN inbox
  BY KindsOfConnections, QueuesOfMessages DEF IInv, Flow, Carries, UpFrames, Deliverables
<1>2. /\ \A d \in Clients \ {c} : up'[d] = up[d] /\ inbox'[d] = inbox[d]
      /\ up'[c] = up[c] \o Farewell(c) /\ inbox'[c] = << >> /\ UNCHANGED <<down, received>>
  BY <1>1 DEF close
<1>3. InOrder(up'[c]) /\ MessagesIn(up'[c]) = MessagesIn(up[c])
  <2>1. Farewell(c) \in Seq({Disconnect} \cup Releases)
    BY FarewellFrames DEF IInv
  <2>2. \A frame \in {Disconnect} \cup Releases : ~IsMessage(frame)
    BY OthersAreNoMessages DEF Releases
  <2>3. InOrder(up[c]) /\ \A i \in DOMAIN Farewell(c) : ~IsMessage(Farewell(c)[i])
    BY <2>1, <2>2, Elements DEF Order, QueuesInOrder
  <2> QED BY <1>1, <1>2, <2>1, <2>3, JoinedInOrder
<1>4. \A d \in Clients : GivenTo(d)' \subseteq GivenTo(d)
  BY <1>2 DEF GivenTo, Range
<1>5. QueuesInOrder'
  <2>1. Once(<< >>) /\ Range(<< >>) = {}
    BY DEF Once, Range
  <2> QED BY <1>2, <1>3, <2>1 DEF Order, QueuesInOrder
<1>6. StationsInOrder'
  BY <1>2, <1>3, <1>4 DEF Order, StationsInOrder, Precedes
<1> QED BY <1>5, <1>6 DEF Order
-----------------------------------------------------------------------------
(* The acknowledgement carries no message.                                 *)
LEMMA onAckKeepsOrder ==
  ASSUME IInv, Order, NEW c \in Clients, onAck(c)
  PROVE  Order'
<1>1. /\ UNCHANGED <<up, inbox, received>> /\ down[c] # << >>
      /\ down' = [down EXCEPT ![c] = Tail(down[c])]
  BY DEF onAck, ClientReads, Read
<1>2. ASSUME NEW e \in Connections
      PROVE  down'[e] = down[e] \/ (down[e] # << >> /\ down'[e] = Tail(down[e]))
  BY <1>1 DEF IInv, Flow, Carries, DownFrames
<1>3. ASSUME NEW e \in Connections
      PROVE  InOrder(down'[e]) /\ MessagesIn(down'[e]) \subseteq MessagesIn(down[e])
  BY <1>2, OneQueue, QueuesOfMessages DEF Order, QueuesInOrder
<1> QED BY <1>1, <1>3, FewerMessages DEF Order, QueuesInOrder

(* The message was the first of those that were to come.                   *)
LEMMA onGatewayMessageKeepsOrder ==
  ASSUME IInv, Order, NEW c \in Clients, onGatewayMessage(c)
  PROVE  Order'
<1> DEFINE frame  == Head(down[c])
           copies == SetToSeq(frame.copies)
           given  == [i \in DOMAIN copies |-> [id |-> copies[i].id, msg |-> frame.msg]]
<1>1. /\ UNCHANGED <<up, received>> /\ down[c] # << >> /\ IsMessage(frame)
      /\ down' = Read(down, c) /\ inbox' = [inbox EXCEPT ![c] = @ \o given]
  BY DEF onGatewayMessage, ClientReads
<1>2. /\ down[c] \in Seq(Answers(c)) /\ inbox[c] \in Seq(Deliveries(c))
      /\ c \in DOMAIN down /\ c \in DOMAIN inbox /\ c \in Connections
  BY SMTT(30), KindsOfConnections, QueuesOfMessages DEF IInv, Flow, Carries, DownFrames, Deliverables
<1>3. /\ down'[c] = Tail(down[c]) /\ \A e \in Connections \ {c} : down'[e] = down[e]
      /\ inbox'[c] = inbox[c] \o given /\ \A d \in Clients \ {c} : inbox'[d] = inbox[d]
  BY <1>1, <1>2 DEF Read
<1>4. frame \in Answers(c)
  BY <1>1, <1>2, Elements
<1> HIDE DEF frame
<1>5. /\ InOrder(Tail(down[c])) /\ MessagesIn(Tail(down[c])) \subseteq MessagesIn(down[c])
      /\ frame.msg \in MessagesIn(down[c]) /\ Precedes({frame.msg}, MessagesIn(Tail(down[c])))
  BY <1>1, <1>2, ReadInOrder DEF Order, QueuesInOrder, frame
<1>6. frame.copies \in Hits(c, frame.msg.topic)
  BY <1>1, <1>4, AnswerFrames
<1>7. /\ Cardinality(frame.copies) \in Nat
      /\ copies \in [1 .. Cardinality(frame.copies) -> frame.copies]
      /\ \A i, j \in 1 .. Cardinality(frame.copies) : copies[i] = copies[j] => i = j
  BY <1>6, SetToSeqLists DEF Hits
<1> HIDE DEF copies
<1>8. ASSUME NEW x \in frame.copies, NEW y \in frame.copies, x.id = y.id PROVE x = y
  <2>1. x \in EntriesAbout(c) /\ y \in EntriesAbout(c)
    BY <1>6 DEF Hits
  <2> QED BY <1>8, <2>1 DEF EntriesAbout, Entry
<1>9. /\ DOMAIN given = 1 .. Cardinality(frame.copies) /\ given \in Seq({given[i] : i \in DOMAIN given})
      /\ \A i \in DOMAIN given : given[i].msg = frame.msg
      /\ \A i, j \in DOMAIN given : given[i].id = given[j].id => i = j
  BY <1>7, <1>8
<1> HIDE DEF given
<1>10. \A x \in Range(inbox[c]) \cup Range(received[c]) : Before(x.msg, frame.msg)
  BY <1>5 DEF Order, StationsInOrder, Precedes, GivenTo
<1>11. /\ Len(inbox[c]) \in Nat
       /\ \A i \in DOMAIN inbox'[c] :
            /\ i \in Nat
            /\ \/ i \in DOMAIN inbox[c] /\ inbox'[c][i] = inbox[c][i]
               \/ /\ i \notin DOMAIN inbox[c] /\ i - Len(inbox[c]) \in DOMAIN given
                  /\ inbox'[c][i] = given[i - Len(inbox[c])]
       /\ \A i, j \in DOMAIN inbox'[c] : i < j /\ j \in DOMAIN inbox[c] => i \in DOMAIN inbox[c]
  <2>1. PICK T : given \in Seq(T)
    BY <1>9
  <2>2. inbox'[c] = inbox[c] \o given
    BY <1>3
  <2> DEFINE q == inbox[c]
  <2>3. q \in Seq(Deliveries(c))
    BY <1>2
  <2> HIDE DEF q
  <2>4. /\ Len(q) \in Nat
        /\ \A i \in DOMAIN (q \o given) :
             /\ i \in Nat
             /\ \/ i \in DOMAIN q /\ (q \o given)[i] = q[i]
                \/ /\ i \notin DOMAIN q /\ i - Len(q) \in DOMAIN given
                   /\ (q \o given)[i] = given[i - Len(q)]
        /\ \A i, j \in DOMAIN (q \o given) : i < j /\ j \in DOMAIN q => i \in DOMAIN q
    BY <2>1, <2>3, Joined
  <2> QED BY <2>2, <2>4 DEF q
<1>12. Once(inbox'[c])
  <2> SUFFICES ASSUME NEW i \in DOMAIN inbox'[c], NEW j \in DOMAIN inbox'[c], i < j,
                      inbox'[c][i].id = inbox'[c][j].id
               PROVE  Before(inbox'[c][i].msg, inbox'[c][j].msg)
    BY DEF Once, OnceFor
  <2>1. CASE j \in DOMAIN inbox[c]
    BY <1>11, <2>1 DEF Order, QueuesInOrder, Once, OnceFor
  <2>2. CASE j \notin DOMAIN inbox[c] /\ i \in DOMAIN inbox[c]
    BY <1>9, <1>10, <1>11, <2>2 DEF Range
  <2>3. CASE j \notin DOMAIN inbox[c] /\ i \notin DOMAIN inbox[c]
    <3>1. i - Len(inbox[c]) = j - Len(inbox[c])
      BY <1>9, <1>11, <2>3
    <3> QED BY <1>11, <3>1
  <2> QED BY <2>1, <2>2, <2>3
<1>13. ASSUME NEW y \in Range(inbox'[c]) PROVE y \in Range(inbox[c]) \/ y.msg = frame.msg
  BY <1>9, <1>11 DEF Range
<1>14. \A d \in Clients : GivenTo(d)' \subseteq IF d = c THEN GivenTo(d) \cup {frame.msg} ELSE GivenTo(d)
  BY <1>1, <1>3, <1>13 DEF GivenTo
<1>15. QueuesInOrder'
  <2>1. \A x \in Range(received[c]), y \in Range(inbox'[c]) : OnceFor(x, y)
    BY <1>10, <1>13 DEF Order, QueuesInOrder, OnceFor
  <2> QED BY <1>1, <1>3, <1>5, <1>12, <2>1 DEF Order, QueuesInOrder
<1>16. StationsInOrder'
  <2>1. \A e \in Connections, d \in Clients : Precedes(MessagesIn(down'[e]), MessagesIn(up[d]))
    BY <1>3, <1>5 DEF Order, StationsInOrder, Precedes
  <2>2. \A d \in Clients, f \in Clients : Precedes(GivenTo(d)', MessagesIn(up[f]))
    BY <1>2, <1>5, <1>14 DEF Order, StationsInOrder, Precedes
  <2>3. ASSUME NEW d \in Clients, NEW l \in Outgoing[Home[d]]
        PROVE  /\ Precedes(MessagesIn(down'[d]), MessagesIn(down'[l]))
               /\ Precedes(GivenTo(d)', MessagesIn(down'[l]))
    <3>1. down'[l] = down[l] /\ MessagesIn(down'[d]) \subseteq MessagesIn(down[d])
      BY <1>3, <1>5, KindsOfConnections
    <3>2. Precedes(MessagesIn(down[d]), MessagesIn(down[l])) /\ Precedes(GivenTo(d), MessagesIn(down[l]))
      BY DEF Order, StationsInOrder
    <3> QED BY <1>5, <1>14, <3>1, <3>2 DEF Precedes
  <2>4. ASSUME NEW d \in Clients PROVE Precedes(GivenTo(d)', MessagesIn(down'[d]))
    <3>1. Precedes(GivenTo(d), MessagesIn(down[d]))
      BY DEF Order, StationsInOrder
    <3>2. CASE d = c
      BY <1>3, <1>5, <1>14, <3>1, <3>2 DEF Precedes
    <3>3. CASE d # c
      BY <1>3, <1>14, <3>1, <3>3, KindsOfConnections DEF Precedes
    <3> QED BY <3>2, <3>3
  <2> QED BY <1>1, <2>1, <2>2, <2>3, <2>4 DEF StationsInOrder
<1> QED BY <1>15, <1>16 DEF Order

(* A delivery passes from the inbox to what was received.                  *)
LEMMA processGatewayMessageKeepsOrder ==
  ASSUME IInv, Order, NEW c \in Clients, processGatewayMessage(c)
  PROVE  Order'
<1> DEFINE x      == Head(inbox[c])
           rest   == Tail(inbox[c])
           longer == Append(received[c], x)
<1>1. /\ UNCHANGED <<up, down>> /\ inbox[c] # << >> /\ inbox' = Read(inbox, c)
      /\ received' = received \/ received' = Written(received, c, x)
  BY DEF processGatewayMessage, gatewayVars, Written
<1>2. /\ inbox[c] \in Seq(Deliveries(c)) /\ received[c] \in Seq(Deliveries(c))
      /\ c \in DOMAIN inbox /\ c \in DOMAIN received
  BY QueuesOfMessages DEF IInv, Flow, Carries, Deliverables
<1>3. /\ inbox'[c] = rest /\ received'[c] \in {received[c], longer}
      /\ \A d \in Clients \ {c} : inbox'[d] = inbox[d] /\ received'[d] = received[d]
  <2>1. inbox'[c] = rest /\ \A d \in Clients \ {c} : inbox'[d] = inbox[d]
    BY <1>1, <1>2 DEF Read
  <2> HIDE DEF x
  <2>2. CASE received' = received
    BY <2>1, <2>2
  <2>3. CASE received' = Written(received, c, x)
    BY <1>2, <2>1, <2>3 DEF Written
  <2> QED BY <1>1, <2>2, <2>3
<1>4. /\ 1 \in DOMAIN inbox[c] /\ x = inbox[c][1]
      /\ \A i \in DOMAIN rest :
           i \in Nat /\ i >= 1 /\ i + 1 \in DOMAIN inbox[c] /\ rest[i] = inbox[c][i + 1]
  BY <1>1, <1>2
<1>5. /\ DOMAIN longer = 1 .. Len(received[c]) + 1 /\ Len(received[c]) \in Nat
      /\ DOMAIN received[c] = 1 .. Len(received[c])
      /\ \A i \in DOMAIN received[c] : longer[i] = received[c][i]
      /\ longer[Len(received[c]) + 1] = x
  BY <1>2
<1> HIDE DEF x, rest, longer
<1>6. /\ Once(rest) /\ Range(rest) \subseteq Range(inbox[c])
      /\ x \in Range(inbox[c]) /\ \A y \in Range(rest) : OnceFor(x, y)
  <2>1. Once(inbox[c])
    BY DEF Order, QueuesInOrder
  <2> QED BY <1>4, <2>1 DEF Once, Range
<1>7. /\ Once(longer)
      /\ Range(longer) = Range(received[c]) \cup {x}
  <2>1. Once(received[c]) /\ \A y \in Range(received[c]) : OnceFor(y, x)
    BY <1>6 DEF Order, QueuesInOrder
  <2>2. Range(longer) = Range(received[c]) \cup {x}
    BY <1>5 DEF Range
  <2>3. Once(longer)
    BY <1>5, <2>1 DEF Once, Range
  <2> QED BY <2>2, <2>3
<1>8. \A d \in Clients : GivenTo(d)' \subseteq GivenTo(d)
  <2>1. Range(received'[c]) \subseteq Range(received[c]) \cup {x}
    BY <1>3, <1>7
  <2>2. \A d \in Clients : \A y \in Range(inbox'[d]) \cup Range(received'[d]) :
          y \in Range(inbox[d]) \cup Range(received[d])
    BY <1>3, <1>6, <2>1
  <2> QED BY <2>2 DEF GivenTo
<1>9. QueuesInOrder'
  <2>1. \A y \in Range(received'[c]), z \in Range(inbox'[c]) : OnceFor(y, z)
    BY <1>3, <1>6, <1>7 DEF Order, QueuesInOrder
  <2>2. Once(inbox'[c]) /\ Once(received'[c])
    BY <1>3, <1>6, <1>7 DEF Order, QueuesInOrder
  <2> QED BY <1>1, <1>3, <2>1, <2>2 DEF Order, QueuesInOrder
<1>10. StationsInOrder'
  BY <1>1, <1>8 DEF Order, StationsInOrder, Precedes
<1> QED BY <1>9, <1>10 DEF Order
-----------------------------------------------------------------------------
(* Server ends that read a frame which is no message, or lose them all:    *)
(* what is relayed is written to links, and is no message either.          *)
LEMMA ServerKeepsOrder ==
  ASSUME IInv, Order, NEW e \in Connections,
         \/ onConnect(e) \/ IgnoredBeforeConnect(e) \/ onMoveToLoopComplete(e)
         \/ onDisconnected(e) \/ SocketDestroyed(e)
         \/ /\ \E frame \in NextFrame(e) : onSubscribe(e, frame) \/ onUnsubscribe(e, frame)
            /\ UNCHANGED <<peerStatus, clientVars>>
  PROVE  Order'
<1> DEFINE g == Server[e]
<1>1. UNCHANGED <<inbox, received>>
  BY DEF onConnect, IgnoredBeforeConnect, onMoveToLoopComplete, onDisconnected,
         SocketDestroyed, clientVars
<1>2. /\ \/ up' = up \/ up' = [up EXCEPT ![e] = << >>]
         \/ up[e] # << >> /\ up' = Read(up, e)
         \/ up[e] # << >> /\ \E frame : up' = Relayed(Read(up, e), g, frame)
      /\ down' = down \/ down' = Written(down, e, Ack) \/ down' \in Unsent(down, e)
  <2>1. CASE onDisconnected(e)
    BY <2>1, QueuesAfterTheEnd
  <2>2. CASE ~onDisconnected(e)
    BY <2>2 DEF onConnect, IgnoredBeforeConnect, onMoveToLoopComplete, SocketDestroyed,
                onSubscribe, onUnsubscribe, NextFrame
  <2> QED BY <2>1, <2>2
<1>3. DOMAIN up = Connections /\ DOMAIN down = Connections
  BY DEF IInv, Flow, Carries, UpFrames, DownFrames
<1>4. ASSUME NEW c \in Clients
      PROVE  up'[c] = up[c] \/ up'[c] = << >> \/ (up[c] # << >> /\ up'[c] = Tail(up[c]))
  <2>1. c \in Connections /\ c \notin Outgoing[g]
    BY KindsOfConnections
  <2>2. \A frame : Relayed(Read(up, e), g, frame)[c] = Read(up, e)[c]
    BY <2>1 DEF Relayed
  <2>3. Read(up, e)[c] = IF c = e THEN Tail(up[c]) ELSE up[c]
    BY <1>3, <2>1 DEF Read
  <2> QED BY <1>2, <1>3, <2>1, <2>2, <2>3
<1>5. ASSUME NEW d \in Connections
      PROVE  \/ down'[d] = down[d] \/ down'[d] = Append(down[d], Ack)
             \/ \E n \in 0 .. Len(down[d]) : down'[d] = SubSeq(down[d], 1, n)
  BY <1>2, <1>3 DEF Written, Unsent
<1>6. \A c \in Clients : InOrder(up'[c]) /\ MessagesIn(up'[c]) \subseteq MessagesIn(up[c])
  BY <1>4, OneQueue, QueuesOfMessages DEF Order, QueuesInOrder
<1>7. ASSUME NEW d \in Connections
      PROVE  InOrder(down'[d]) /\ MessagesIn(down'[d]) \subseteq MessagesIn(down[d])
  BY <1>5, OneQueue, QueuesOfMessages, OthersAreNoMessages DEF Order, QueuesInOrder
<1> QED BY <1>1, <1>6, <1>7, FewerMessages

(* What a link's own end does to its status.                               *)
LEMMA LinkStatusKeepsOrder ==
  ASSUME IInv, Order, NEW l \in Links, LinkStatusStep(l)
  PROVE  Order'
<1>1. /\ UNCHANGED <<down, inbox, received>>
      /\ up' = up \/ up' = Written(up, l, ConnectMeshPeer) \/ up' \in Unsent(up, l)
  BY DEF LinkStatusStep, onConnectionSucceeded, onConnectionFailed, RetryTimer,
         onResolutionFailed, onPeerDisconnected, PeerStep, clientVars
<1>2. ASSUME NEW c \in Clients PROVE up'[c] = up[c]
  BY <1>1, KindsOfConnections DEF Written, Unsent, IInv, Flow, Carries, UpFrames
<1> QED BY <1>1, <1>2, FewerMessages DEF Order, QueuesInOrder

(* A message that is forwarded comes last where it is written.             *)
LEMMA ForwardedInOrder ==
  ASSUME NEW queues, NEW g \in Gateways, NEW frame, IsMessage(frame), NEW fromPeer,
         NEW e \in Connections, NEW S, queues[e] \in Seq(S), InOrder(queues[e]),
         Server[e] = g => Precedes(MessagesIn(queues[e]), {frame.msg})
  PROVE  /\ InOrder(Forwarded(queues, g, frame, fromPeer)[e])
         /\ \/ Forwarded(queues, g, frame, fromPeer)[e] = queues[e]
            \/ /\ Server[e] = g
               /\ MessagesIn(Forwarded(queues, g, frame, fromPeer)[e])
                    \subseteq MessagesIn(queues[e]) \cup {frame.msg}
<1> DEFINE q      == Forwarded(queues, g, frame, fromPeer)
           copies == IF Server[e] # g THEN {}
                     ELSE CopiesTo(interest[g], frame.subject, e, e \in Links, fromPeer)
           copy   == MessageFrame(frame.subject, frame.msg, copies)
<1>1. q[e] = IF copies = {} THEN queues[e] ELSE Append(queues[e], copy)
  BY DEF Forwarded
<1>2. copies # {} => Server[e] = g
  OBVIOUS
<1>3. IsMessage(copy) /\ copy.msg = frame.msg
  BY DEF IsMessage, MessageFrame
<1> HIDE DEF q, copies, copy
<1>4. CASE copies = {}
  BY <1>1, <1>4 DEF q
<1>5. CASE copies # {}
  BY <1>1, <1>2, <1>3, <1>5, WrittenInOrder DEF q
<1> QED BY <1>4, <1>5

(* The message was the first of those its client still had on their way.   *)
LEMMA onMessageKeepsOrder ==
  ASSUME IInv, Order, NEW e \in Connections, NEW frame \in NextFrame(e), onMessage(e, frame),
         UNCHANGED <<peerStatus, clientVars>>
  PROVE  Order'
<1> DEFINE g == Home[e]
           m == frame.msg
<1>1. /\ up[e] # << >> /\ frame = Head(up[e]) /\ IsMessage(frame)
      /\ UNCHANGED <<inbox, received>> /\ up' = Read(up, e)
  BY NextFrames DEF onMessage, clientVars
<1>2. e \in Clients
  BY <1>1, NextFrames, GatewayFrames, KindsOfConnections DEF UpFrames
<1>3. Server[e] = g /\ g \in Gateways /\ (e \in Links) = FALSE /\ DOMAIN up = Connections
  BY <1>2, KindsOfConnections DEF IInv, Flow, Carries, UpFrames
<1>4. down' = Forwarded(down, g, frame, FALSE)
  BY <1>3 DEF onMessage
<1>5. up'[e] = Tail(up[e]) /\ \A c \in Clients \ {e} : up'[c] = up[c]
  BY <1>1, <1>2, <1>3 DEF Read
<1>6. /\ InOrder(up'[e]) /\ MessagesIn(up'[e]) \subseteq MessagesIn(up[e])
      /\ m \in MessagesIn(up[e]) /\ Precedes({m}, MessagesIn(up'[e])) /\ m.from = e
  <2>1. up[e] \in Seq(FromClient(e)) /\ InOrder(up[e])
    BY <1>2, QueuesOfMessages DEF Order, QueuesInOrder
  <2>2. /\ InOrder(up'[e]) /\ MessagesIn(up'[e]) \subseteq MessagesIn(up[e])
        /\ m \in MessagesIn(up[e]) /\ Precedes({m}, MessagesIn(up'[e]))
    BY <1>1, <1>5, <2>1, ReadInOrder
  <2> QED BY <1>2, <2>2, QueuesOfMessages
<1> HIDE DEF g, m
<1>7. ASSUME NEW f \in Connections
      PROVE  /\ InOrder(down'[f])
             /\ \/ down'[f] = down[f]
                \/ Server[f] = g /\ MessagesIn(down'[f]) \subseteq MessagesIn(down[f]) \cup {m}
  <2>1. Precedes(MessagesIn(down[f]), {m})
    BY <1>2, <1>6 DEF Order, StationsInOrder, Precedes
  <2>2. down[f] \in Seq(Answers(f)) /\ InOrder(down[f])
    BY QueuesOfMessages DEF Order, QueuesInOrder
  <2>3. /\ InOrder(Forwarded(down, g, frame, FALSE)[f])
        /\ \/ Forwarded(down, g, frame, FALSE)[f] = down[f]
           \/ /\ Server[f] = g
              /\ MessagesIn(Forwarded(down, g, frame, FALSE)[f])
                   \subseteq MessagesIn(down[f]) \cup {frame.msg}
    <3>1. /\ g \in Gateways /\ IsMessage(frame) /\ f \in Connections
          /\ down[f] \in Seq(Answers(f)) /\ InOrder(down[f])
          /\ Server[f] = g => Precedes(MessagesIn(down[f]), {frame.msg})
      BY <1>1, <1>3, <2>1, <2>2 DEF m
    <3> QED BY <3>1, ForwardedInOrder, Zenon
  <2> QED BY <1>4, <2>3 DEF m
<1>8. QueuesInOrder'
  BY <1>1, <1>5, <1>6, <1>7 DEF Order, QueuesInOrder
<1>9. \A d \in Clients : GivenTo(d)' = GivenTo(d)
  BY <1>1 DEF GivenTo
<1>10. ASSUME NEW c \in Clients PROVE Precedes({m}, MessagesIn(up'[c]))
  BY <1>5, <1>6, QueuesOfMessages DEF Precedes, Before
<1>11. ASSUME NEW c \in Clients PROVE MessagesIn(up'[c]) \subseteq MessagesIn(up[c])
  BY <1>5, <1>6
<1>12. ASSUME NEW f \in Connections, NEW c \in Clients
       PROVE  Precedes(MessagesIn(down'[f]), MessagesIn(up'[c]))
  <2>1. Precedes(MessagesIn(down[f]), MessagesIn(up[c]))
    BY DEF Order, StationsInOrder
  <2> QED BY <1>7, <1>10, <1>11, <2>1 DEF Precedes
<1>13. \A d \in Clients, c \in Clients : Precedes(GivenTo(d)', MessagesIn(up'[c]))
  BY <1>9, <1>11 DEF Order, StationsInOrder, Precedes
<1>14. ASSUME NEW d \in Clients, NEW l \in Outgoing[Home[d]]
       PROVE  /\ Precedes(MessagesIn(down'[d]), MessagesIn(down'[l]))
              /\ Precedes(GivenTo(d)', MessagesIn(down'[l]))
  <2>1. /\ l \in Links /\ l \in Connections /\ l[1] = Home[d] /\ l[1] # l[2] /\ Server[l] = l[2]
        /\ d \in Connections /\ Server[d] = Home[d]
    BY KindsOfConnections
  <2>2. /\ Precedes(MessagesIn(down[d]), MessagesIn(down[l]))
        /\ Precedes(GivenTo(d), MessagesIn(down[l]))
    BY DEF Order, StationsInOrder
  <2>3. Precedes(GivenTo(d), {m}) /\ Precedes(MessagesIn(down[d]), {m})
    BY <1>2, <1>6, <2>1 DEF Order, StationsInOrder, Precedes
  <2>4. ASSUME Home[d] = g PROVE Precedes({m}, MessagesIn(down[l])) /\ down'[l] = down[l]
    <3>1. \A k \in MessagesIn(down[l]) : Home[k.from] = l[2]
      BY <2>1, QueuesOfMessages, KindsOfConnections DEF MayGet
    <3>2. \A k \in MessagesIn(down[l]) : k.from # m.from
      BY <1>6, <2>1, <2>4, <3>1 DEF g
    <3> QED BY <1>7, <2>1, <2>4, <3>2 DEF Precedes, Before
  <2>5. Precedes(GivenTo(d)', MessagesIn(down'[l]))
    BY <1>7, <1>9, <2>1, <2>2, <2>3 DEF Precedes
  <2>6. CASE Home[d] = g
    BY <1>7, <2>1, <2>2, <2>4, <2>5, <2>6 DEF Precedes
  <2>7. CASE Home[d] # g
    BY <1>7, <2>1, <2>2, <2>3, <2>5, <2>7 DEF Precedes
  <2> QED BY <2>6, <2>7
<1>15. ASSUME NEW d \in Clients PROVE Precedes(GivenTo(d)', MessagesIn(down'[d]))
  <2>1. Precedes(GivenTo(d), MessagesIn(down[d])) /\ Precedes(GivenTo(d), {m})
    BY <1>2, <1>6 DEF Order, StationsInOrder, Precedes
  <2> QED BY <1>7, <1>9, <2>1, KindsOfConnections DEF Precedes
<1>16. StationsInOrder'
  BY <1>12, <1>13, <1>14, <1>15 DEF StationsInOrder
<1> QED BY <1>8, <1>16 DEF Order

(* The message was the first of those that still come from that peer.      *)
LEMMA PeerReadsKeepsOrder ==
  ASSUME IInv, Order, NEW l \in Links, PeerReads(l)
  PROVE  Order'
<1> DEFINE frame == Head(down[l])
           m     == frame.msg
           g     == l[1]
<1>1. /\ l \in Connections /\ l \notin Clients /\ Server[l] = l[2] /\ g # l[2]
      /\ g \in Gateways /\ DOMAIN down = Connections
  BY KindsOfConnections DEF IInv, Flow, Carries, DownFrames
<1>2. /\ down[l] # << >> /\ down[l] \in Seq(Answers(l)) /\ InOrder(down[l])
      /\ UNCHANGED <<up, inbox, received>>
      /\ down' = IF IsMessage(frame) THEN Forwarded(Read(down, l), g, frame, TRUE)
                                     ELSE Read(down, l)
  BY <1>1, QueuesOfMessages DEF PeerReads, clientVars, Order, QueuesInOrder
<1>3. Read(down, l)[l] = Tail(down[l]) /\ \A e \in Connections \ {l} : Read(down, l)[e] = down[e]
  BY <1>1 DEF Read
<1>4. /\ InOrder(Tail(down[l])) /\ MessagesIn(Tail(down[l])) \subseteq MessagesIn(down[l])
      /\ Tail(down[l]) \in Seq(Answers(l))
      /\ IsMessage(frame) => /\ m \in MessagesIn(down[l])
                             /\ Precedes({m}, MessagesIn(Tail(down[l])))
  BY <1>2, ReadInOrder, Elements
<1> HIDE DEF frame, m, g
<1>5. CASE ~IsMessage(frame)
  <2>1. \A e \in Connections : InOrder(down'[e]) /\ MessagesIn(down'[e]) \subseteq MessagesIn(down[e])
    BY <1>2, <1>3, <1>4, <1>5 DEF Order, QueuesInOrder
  <2> QED BY <1>2, <2>1, FewerMessages DEF Order, QueuesInOrder
<1>6. CASE IsMessage(frame)
  <2>1. /\ \A c \in Clients : Precedes({m}, MessagesIn(up[c]))
        /\ \A d \in Clients : Home[d] = g => /\ Precedes(MessagesIn(down[d]), {m})
                                              /\ Precedes(GivenTo(d), {m})
    <3>1. \A d \in Clients : Home[d] = g => l \in Outgoing[Home[d]]
      BY KindsOfConnections DEF g
    <3> QED BY <1>1, <1>4, <1>6, <3>1 DEF Order, StationsInOrder, Precedes
  <2>2. /\ InOrder(down'[l]) /\ MessagesIn(down'[l]) \subseteq MessagesIn(down[l])
        /\ Precedes({m}, MessagesIn(down'[l]))
    <3>1. down'[l] = Tail(down[l])
      BY <1>1, <1>2, <1>3, <1>6 DEF Forwarded
    <3> QED BY <1>4, <1>6, <3>1
  <2>3. ASSUME NEW k \in Links \ {l} PROVE down'[k] = down[k]
    BY <1>2, <1>3, <1>6, KindsOfConnections DEF Forwarded, CopiesTo
  <2>4. ASSUME NEW d \in Clients
        PROVE  /\ InOrder(down'[d])
               /\ \/ down'[d] = down[d]
                  \/ Home[d] = g /\ MessagesIn(down'[d]) \subseteq MessagesIn(down[d]) \cup {m}
    <3>1. d \in Connections /\ d # l /\ Server[d] = Home[d] /\ Read(down, l)[d] = down[d]
      BY <1>1, <1>3, KindsOfConnections
    <3>2. down[d] \in Seq(Answers(d)) /\ InOrder(down[d])
      BY <3>1, QueuesOfMessages DEF Order, QueuesInOrder
    <3> DEFINE queues == Read(down, l)
    <3> HIDE DEF queues
    <3>3. queues[d] \in Seq(Answers(d)) /\ InOrder(queues[d]) /\ queues[d] = down[d]
      BY <3>1, <3>2 DEF queues
    <3>4. Server[d] = g => Precedes(MessagesIn(queues[d]), {frame.msg})
      BY <2>1, <3>1, <3>3 DEF m
    <3>5. /\ InOrder(Forwarded(queues, g, frame, TRUE)[d])
          /\ \/ Forwarded(queues, g, frame, TRUE)[d] = queues[d]
             \/ /\ Server[d] = g
                /\ MessagesIn(Forwarded(queues, g, frame, TRUE)[d])
                     \subseteq MessagesIn(queues[d]) \cup {frame.msg}
      <4>1. g \in Gateways /\ d \in Connections
        BY <1>1, <3>1
      <4> QED BY <4>1, <1>6, <3>3, <3>4, ForwardedInOrder, Zenon
    <3> QED BY <1>2, <1>6, <3>1, <3>3, <3>5 DEF queues, m
  <2>5. QueuesInOrder'
    BY <1>2, <2>2, <2>3, <2>4, KindsOfConnections DEF Order, QueuesInOrder
  <2>6. \A d \in Clients : GivenTo(d)' = GivenTo(d)
    BY <1>2 DEF GivenTo
  <2>7. ASSUME NEW d \in Clients, NEW c \in Clients
        PROVE  Precedes(MessagesIn(down'[d]), MessagesIn(up'[c]))
    <3>1. Precedes(MessagesIn(down[d]), MessagesIn(up[c]))
      BY KindsOfConnections DEF Order, StationsInOrder
    <3> QED BY <1>2, <2>1, <2>4, <3>1 DEF Precedes
  <2>8. \A k \in Links : MessagesIn(down'[k]) \subseteq MessagesIn(down[k])
    BY <2>2, <2>3
  <2>9. ASSUME NEW e \in Connections, NEW c \in Clients
        PROVE  Precedes(MessagesIn(down'[e]), MessagesIn(up'[c]))
    <3>1. Precedes(MessagesIn(down[e]), MessagesIn(up[c]))
      BY DEF Order, StationsInOrder
    <3> QED BY <1>2, <2>7, <2>8, <3>1, KindsOfConnections DEF Precedes
  <2>10. ASSUME NEW d \in Clients, NEW k \in Outgoing[Home[d]]
         PROVE  /\ Precedes(MessagesIn(down'[d]), MessagesIn(down'[k]))
                /\ Precedes(GivenTo(d)', MessagesIn(down'[k]))
    <3>1. k \in Links /\ k \in Connections /\ k[1] = Home[d]
      BY KindsOfConnections
    <3>2. /\ Precedes(MessagesIn(down[d]), MessagesIn(down[k]))
          /\ Precedes(GivenTo(d), MessagesIn(down[k]))
      BY DEF Order, StationsInOrder
    <3>3. ASSUME Home[d] = g PROVE Precedes({m}, MessagesIn(down'[k]))
      <4>1. CASE k = l
        BY <2>2, <4>1
      <4>2. CASE k # l
        <5>1. k[2] # l[2]
          BY <3>1, <3>3, <4>2 DEF Links, g
        <5>2. \A n \in MessagesIn(down[k]) : Home[n.from] = k[2]
          BY <3>1, QueuesOfMessages, KindsOfConnections DEF MayGet
        <5>3. Home[m.from] = l[2]
          BY <1>1, <1>4, <1>6, QueuesOfMessages DEF MayGet
        <5>4. \A n \in MessagesIn(down[k]) : n.from # m.from
          BY <5>1, <5>2, <5>3
        <5> QED BY <2>8, <3>1, <5>4 DEF Precedes, Before
      <4> QED BY <4>1, <4>2
    <3> QED BY <2>4, <2>6, <2>8, <3>1, <3>2, <3>3 DEF Precedes
  <2>11. ASSUME NEW d \in Clients PROVE Precedes(GivenTo(d)', MessagesIn(down'[d]))
    <3>1. Precedes(GivenTo(d), MessagesIn(down[d]))
      BY DEF Order, StationsInOrder
    <3> QED BY <2>1, <2>4, <2>6, <3>1 DEF Precedes
  <2>12. \A d, c \in Clients : Precedes(GivenTo(d)', MessagesIn(up'[c]))
    BY <1>2, <2>6 DEF Order, StationsInOrder
  <2>13. StationsInOrder'
    BY <2>9, <2>10, <2>11, <2>12 DEF StationsInOrder
  <2> QED BY <2>5, <2>13 DEF Order
<1> QED BY <1>5, <1>6

(* Every step keeps the order.                                             *)
LEMMA OrderInductive == IInv /\ Order /\ [Next]_vars => Order'
<1> SUFFICES ASSUME IInv, Order, [Next]_vars PROVE Order'
  OBVIOUS
<1>1. ASSUME NEW c \in Clients, UserStep(c) PROVE Order'
  <2>1. CASE connect(c)
    BY <2>1, CallsKeepOrder, OthersAreNoMessages DEF connect
  <2>2. CASE \E subject \in SubjectNames : subscribe(c, subject)
    BY <2>2, CallsKeepOrder, OthersAreNoMessages DEF subscribe
  <2>3. CASE \E id \in IDs : releaseSubscription(c, id)
    BY <2>3, CallsKeepOrder, OthersAreNoMessages DEF releaseSubscription
  <2> QED BY <1>1, <2>1, <2>2, <2>3, sendMessageKeepsOrder, closeKeepsOrder DEF UserStep
<1>2. ASSUME NEW c \in Clients, ClientStep(c) PROVE Order'
  BY <1>2, onAckKeepsOrder, onGatewayMessageKeepsOrder, processGatewayMessageKeepsOrder
     DEF ClientStep
<1>3. ASSUME NEW e \in Connections,
             ServerStep(e) \/ onDisconnected(e) \/ SocketDestroyed(e)
      PROVE  Order'
  BY <1>3, ServerKeepsOrder, onMessageKeepsOrder DEF ServerStep, onDataReceived
<1>4. ASSUME NEW l \in Links, LinkStatusStep(l) \/ PeerReads(l) PROVE Order'
  BY <1>4, LinkStatusKeepsOrder, PeerReadsKeepsOrder
<1>5. CASE UNCHANGED vars
  BY <1>5, FewerMessages DEF vars, gatewayVars, clientVars, Order, QueuesInOrder
<1> QED BY <1>1, <1>2, <1>3, <1>4, <1>5 DEF Next

(***************************************************************************)
(* The messages of one sender reach a subscription in the order they were  *)
(* sent and no message reaches it twice, from its own gateway or over the  *)
(* mesh: on each part of the way they are in order, and a message takes    *)
(* one way only, as no gateway relays a peer's messages onward.            *)
(***************************************************************************)
THEOREM InOrderAndOnceHolds == Spec => []InOrderAndOnce
<1>1. Init => Order
  BY DEF Init, Order, QueuesInOrder, StationsInOrder, InOrder, Once, Precedes, MessagesIn,
         GivenTo, Range, Connections, Outgoing, Links
<1>2. Spec => []Order
  BY <1>1, Invariance, OrderInductive, PTL DEF Spec
<1>3. IInv /\ Order => InOrderAndOnce
  <2> SUFFICES ASSUME IInv, Order, NEW c \in Clients, NEW j \in DOMAIN received[c],
                      NEW i \in 1 .. j - 1
               PROVE  OnceFor(received[c][i], received[c][j])
    BY DEF InOrderAndOnce, OnceFor, Before
  <2>1. i \in DOMAIN received[c] /\ i < j
    BY QueuesOfMessages
  <2> QED BY <2>1 DEF Order, QueuesInOrder, Once
<1> QED BY <1>2, <1>3, Invariance, PTL
-----------------------------------------------------------------------------
(* What a gateway knows of a client.  One that has subscriptions has been  *)
(* accepted, so none of its SUBSCRIBEs is passed over; they are read in    *)
(* the order of their IDs; of its subscriptions to a subject the first is  *)
(* in the table, and one is there or on its way.                           *)
IDsInOrder(q) ==
  \A i, j \in DOMAIN q :
    i < j /\ q[i].action = "SUBSCRIBE" /\ q[j].action = "SUBSCRIBE" => q[i].id < q[j].id

(* The gateway has an entry under the subject, or is being told of it.     *)
SubjectKnown(c, id) ==
  \/ SubscribeFrame(subscriptions[c][id].subject, id) \in InFlight(c)
  \/ EntriesOf(interest[Home[c]], subscriptions[c][id].subject, c) # {}

KnowledgeOf(c) ==
  /\ client[c] \in {"new", "connecting"} => subscriptions[c] = << >>
  /\ client[c] \in {"open", "closed"} => Sends(c)
  /\ IDsInOrder(up[c])
  /\ stage[c] = "managed" =>
       \A x \in interest[Home[c]] : x.socket = c => FirstFor(c, x.id)
  /\ stage[c] = "managed" => \A id \in DOMAIN subscriptions[c] : SubjectKnown(c, id)

Knowledge == \A c \in Clients : KnowledgeOf(c)

(* What becomes of the IDs in a queue.                                     *)
LEMMA ReadIDs ==
  ASSUME NEW S, NEW q \in Seq(S), q # << >>, IDsInOrder(q)
  PROVE  /\ IDsInOrder(Tail(q))
         /\ \A i \in DOMAIN q : q[i] = Head(q) \/ \E j \in DOMAIN Tail(q) : Tail(q)[j] = q[i]
         /\ \A j \in DOMAIN Tail(q) : \E i \in DOMAIN q : q[i] = Tail(q)[j]
         /\ \A j \in DOMAIN Tail(q) :
              Head(q).action = "SUBSCRIBE" /\ Tail(q)[j].action = "SUBSCRIBE" => Head(q).id < Tail(q)[j].id
<1> DEFINE first == Head(q)
           rest  == Tail(q)
<1>1. /\ 1 \in DOMAIN q /\ first = q[1]
      /\ \A i \in DOMAIN rest : i \in Nat /\ i >= 1 /\ i + 1 \in DOMAIN q /\ rest[i] = q[i + 1]
      /\ \A i \in DOMAIN q : i = 1 \/ (i - 1 \in DOMAIN rest /\ q[i] = rest[i - 1])
  OBVIOUS
<1> HIDE DEF first, rest
<1>2. IDsInOrder(rest)
  BY <1>1 DEF IDsInOrder
<1>3. \A i \in DOMAIN q : q[i] = first \/ \E j \in DOMAIN rest : rest[j] = q[i]
  BY <1>1
<1>4. \A j \in DOMAIN rest : \E i \in DOMAIN q : q[i] = rest[j]
  BY <1>1
<1>5. \A j \in DOMAIN rest :
        first.action = "SUBSCRIBE" /\ rest[j].action = "SUBSCRIBE" => first.id < rest[j].id
  BY <1>1 DEF IDsInOrder
<1> QED BY <1>2, <1>3, <1>4, <1>5 DEF first, rest

(* IDs in a queue that a frame is written to.                              *)
LEMMA WrittenIDs ==
  ASSUME NEW S, NEW q \in Seq(S), IDsInOrder(q), NEW frame,
         frame.action = "SUBSCRIBE" =>
           \A i \in DOMAIN q : q[i].action = "SUBSCRIBE" => q[i].id < frame.id
  PROVE  /\ IDsInOrder(Append(q, frame))
         /\ \A i \in DOMAIN q : \E j \in DOMAIN Append(q, frame) : Append(q, frame)[j] = q[i]
         /\ \E j \in DOMAIN Append(q, frame) : Append(q, frame)[j] = frame
<1> DEFINE n      == Len(q)
           longer == Append(q, frame)
<1>1. /\ n \in Nat /\ DOMAIN q = 1 .. n /\ DOMAIN longer = 1 .. n + 1
      /\ longer[n + 1] = frame /\ \A i \in 1 .. n : longer[i] = q[i]
  OBVIOUS
<1> HIDE DEF n, longer
<1>2. /\ \A i \in DOMAIN q : \E j \in DOMAIN longer : longer[j] = q[i]
      /\ \E j \in DOMAIN longer : longer[j] = frame
  BY <1>1
<1>3. IDsInOrder(longer)
  <2> SUFFICES ASSUME NEW i \in DOMAIN longer, NEW j \in DOMAIN longer, i < j,
                      longer[i].action = "SUBSCRIBE", longer[j].action = "SUBSCRIBE"
               PROVE  longer[i].id < longer[j].id
    BY DEF IDsInOrder
  <2>1. i \in DOMAIN q /\ longer[i] = q[i] /\ (j \in DOMAIN q \/ j = n + 1)
    BY <1>1
  <2>2. CASE j \in DOMAIN q
    BY <1>1, <2>1, <2>2 DEF IDsInOrder
  <2>3. CASE j = n + 1
    BY <1>1, <2>1, <2>3
  <2> QED BY <2>1, <2>2, <2>3
<1> QED BY <1>2, <1>3 DEF longer

(* IDs in a queue that another frame is written to.                        *)
LEMMA WrittenOthers ==
  ASSUME NEW S, NEW q \in Seq(S), IDsInOrder(q), NEW frame, frame.action # "SUBSCRIBE"
  PROVE  /\ IDsInOrder(Append(q, frame))
         /\ \A i \in DOMAIN q : \E j \in DOMAIN Append(q, frame) : Append(q, frame)[j] = q[i]
<1>1. frame.action = "SUBSCRIBE" =>
        \A i \in DOMAIN q : q[i].action = "SUBSCRIBE" => q[i].id < frame.id
  OBVIOUS
<1> QED BY <1>1, WrittenIDs

(* The entries of a client are of its subscriptions.                       *)
LEMMA EntriesOfClients ==
  ASSUME IInv, NEW c \in Clients, NEW x \in interest[Home[c]], x.socket = c
  PROVE  /\ x.id \in DOMAIN subscriptions[c] /\ x.subject = subscriptions[c][x.id].subject
         /\ x = Entry(x.subject, x.id, c) /\ x.subject \in SubjectNames
<1>1. PICK e \in Accepted[Home[c]] : x \in EntriesAbout(e)
  BY KindsOfConnections DEF IInv, Tables
<1>2. e = c
  BY <1>1 DEF EntriesAbout, Entry
<1>3. PICK id \in DOMAIN subscriptions[c] : x = Entry(subscriptions[c][id].subject, id, c)
  BY <1>1, <1>2 DEF EntriesAbout
<1> QED BY <1>3, SubscriptionIDs DEF Entry, IInv

(* Steps that take nothing from what is known, and leave the subscriptions *)
(* the subjects they have.                                                 *)
LEMMA KnowledgeKept ==
  ASSUME IInv, NEW c \in Clients, KnowledgeOf(c),
         DOMAIN subscriptions'[c] = DOMAIN subscriptions[c],
         \A id \in DOMAIN subscriptions[c] :
           subscriptions'[c][id].subject = subscriptions[c][id].subject,
         client'[c] \in {"new", "connecting"} => subscriptions'[c] = << >>,
         client'[c] \in {"open", "closed"} => Sends(c)',
         stage'[c] = "managed" => stage[c] = "managed" \/ subscriptions[c] = << >>,
         IDsInOrder(up'[c]),
         \A id \in DOMAIN subscriptions[c] :
           LET frame == SubscribeFrame(subscriptions[c][id].subject, id)
           IN  frame \in InFlight(c) => frame \in InFlight(c)',
         \A x : x.socket = c => (x \in interest'[Home[c]] <=> x \in interest[Home[c]])
  PROVE  KnowledgeOf(c)'
<1>1. ASSUME stage'[c] = "managed", NEW x \in interest'[Home[c]], x.socket = c
      PROVE  FirstFor(c, x.id)'
  <2>0. x \in interest[Home[c]]
    BY <1>1
  <2>2. x.id \in DOMAIN subscriptions[c]
    BY <1>1, <2>0, EntriesOfClients
  <2>1. x \in interest[Home[c]] /\ FirstFor(c, x.id)
    BY <1>1, <2>0, <2>2 DEF KnowledgeOf
  <2>3. \A earlier \in 1 .. x.id - 1 : earlier \in DOMAIN subscriptions[c]
    BY <2>2, Elements DEF IInv, Shape
  <2> QED BY <2>1, <2>2, <2>3 DEF FirstFor
<1>2. ASSUME stage'[c] = "managed", NEW id \in DOMAIN subscriptions[c] PROVE SubjectKnown(c, id)'
  <2>1. stage[c] = "managed"
    BY <1>2
  <2>2. SubjectKnown(c, id)
    BY <2>1 DEF KnowledgeOf
  <2>3. \A s : EntriesOf(interest[Home[c]], s, c) \subseteq EntriesOf(interest'[Home[c]], s, c)
    BY DEF EntriesOf
  <2> QED BY <2>2, <2>3 DEF SubjectKnown
<1> QED BY <1>1, <1>2 DEF KnowledgeOf

(* What other connections do to a table is nothing to a client.            *)
LEMMA EntriesOfOthers ==
  ASSUME NEW table, NEW c, NEW e, e # c, NEW x, x.socket = c
  PROVE  /\ \A s, id : x \in AddSubscription(table, s, id, e) <=> x \in table
         /\ \A s : x \in RemoveSubscription(table, s, e) <=> x \in table
         /\ x \in RemoveAllSubscriptions(table, e) <=> x \in table
BY DEF AddSubscription, RemoveSubscription, RemoveAllSubscriptions, EntriesOf, Entry

(* Frames that are read or written.                                        *)
LEMMA KnowledgeWithFrames ==
  ASSUME IInv, NEW c \in Clients, KnowledgeOf(c),
         DOMAIN subscriptions'[c] = DOMAIN subscriptions[c],
         \A id \in DOMAIN subscriptions[c] :
           subscriptions'[c][id].subject = subscriptions[c][id].subject,
         client'[c] \in {"new", "connecting"} => subscriptions'[c] = << >>,
         client'[c] \in {"open", "closed"} => Sends(c)',
         stage'[c] = "managed" => stage[c] = "managed" \/ subscriptions[c] = << >>,
         \/ up'[c] = up[c]
         \/ \E frame : frame.action # "SUBSCRIBE" /\ up'[c] = Append(up[c], frame)
         \/ /\ up[c] # << >> /\ up'[c] = Tail(up[c])
            /\ Head(up[c]).action # "SUBSCRIBE" \/ subscriptions[c] = << >>,
         \A x : x.socket = c => (x \in interest'[Home[c]] <=> x \in interest[Home[c]])
  PROVE  KnowledgeOf(c)'
<1>1. up[c] \in Seq(FromClient(c)) /\ IDsInOrder(up[c])
  BY QueuesOfMessages DEF KnowledgeOf
<1>2. /\ IDsInOrder(up'[c])
      /\ \A i \in DOMAIN up[c] : up[c][i].action = "SUBSCRIBE" /\ subscriptions[c] # << >>
           => \E j \in DOMAIN up'[c] : up'[c][j] = up[c][i]
  <2>1. CASE up'[c] = up[c]
    BY <1>1, <2>1
  <2>2. CASE \E frame : frame.action # "SUBSCRIBE" /\ up'[c] = Append(up[c], frame)
    <3>1. PICK frame : frame.action # "SUBSCRIBE" /\ up'[c] = Append(up[c], frame)
      BY <2>2
    <3>2. /\ IDsInOrder(Append(up[c], frame))
          /\ \A i \in DOMAIN up[c] :
               \E j \in DOMAIN Append(up[c], frame) : Append(up[c], frame)[j] = up[c][i]
      <4>1. frame.action # "SUBSCRIBE"
        BY <3>1
      <4> QED BY <1>1, <4>1, WrittenOthers
    <3> QED BY <3>1, <3>2
  <2>3. CASE /\ up[c] # << >> /\ up'[c] = Tail(up[c])
             /\ Head(up[c]).action # "SUBSCRIBE" \/ subscriptions[c] = << >>
    <3>1. /\ IDsInOrder(Tail(up[c]))
          /\ \A i \in DOMAIN up[c] :
               up[c][i] = Head(up[c]) \/ \E j \in DOMAIN Tail(up[c]) : Tail(up[c])[j] = up[c][i]
      BY <1>1, <2>3, ReadIDs
    <3> QED BY <2>3, <3>1
  <2> QED BY <2>1, <2>2, <2>3
<1>3. ASSUME NEW id \in DOMAIN subscriptions[c],
             SubscribeFrame(subscriptions[c][id].subject, id) \in InFlight(c)
      PROVE  SubscribeFrame(subscriptions[c][id].subject, id) \in InFlight(c)'
  BY <1>2, <1>3 DEF InFlight, SubscribeFrame
<1> QED BY <1>2, <1>3, KnowledgeKept
-----------------------------------------------------------------------------
(* What is kept for each connection, gateway and client.                   *)
LEMMA FunctionsOfState ==
  ASSUME IInv
  PROVE  /\ DOMAIN up = Connections /\ DOMAIN stage = Connections /\ DOMAIN interest = Gateways
         /\ DOMAIN client = Clients /\ DOMAIN subscriptions = Clients
BY DEF IInv, Shape, Flow, Carries, UpFrames

(* Steps that concern the connections of others only.                      *)
LEMMA KnowledgeUntouched ==
  ASSUME IInv, NEW c \in Clients, KnowledgeOf(c),
         UNCHANGED <<client[c], stage[c], subscriptions[c], up[c]>>,
         \A x : x.socket = c => (x \in interest'[Home[c]] <=> x \in interest[Home[c]])
  PROVE  KnowledgeOf(c)'
BY KnowledgeWithFrames DEF KnowledgeOf, Sends

(* The calls that leave a client the subscriptions it has.                 *)
LEMMA SubjectsOfCalls ==
  ASSUME IInv, NEW d \in Clients, NEW c \in Clients,
         \/ connect(d)
         \/ \E id \in IDs : releaseSubscription(d, id)
         \/ \E topic \in Topics : sendMessage(d, topic)
  PROVE  /\ DOMAIN subscriptions'[c] = DOMAIN subscriptions[c]
         /\ \A id \in DOMAIN subscriptions[c] :
              subscriptions'[c][id].subject = subscriptions[c][id].subject
<1>1. CASE subscriptions' = subscriptions
  BY <1>1
<1>2. CASE \E id \in IDs : releaseSubscription(d, id)
  <2>1. PICK k \in IDs : releaseSubscription(d, k)
    BY <1>2
  <2>2. /\ k \in DOMAIN subscriptions[d]
        /\ subscriptions' = [subscriptions EXCEPT ![d] = [subscriptions[d] EXCEPT ![k] =
                               [subscriptions[d][k] EXCEPT !.active = FALSE]]]
    BY <2>1 DEF releaseSubscription
  <2>3. CASE d # c
    BY <2>2, <2>3, FunctionsOfState
  <2>4. CASE d = c
    <3> DEFINE old == subscriptions[c]
               new == [old EXCEPT ![k] = [old[k] EXCEPT !.active = FALSE]]
    <3>1. subscriptions'[c] = new /\ k \in DOMAIN old
      BY <2>2, <2>4, FunctionsOfState
    <3>2. old[k] \in [subject : SubjectNames, active : BOOLEAN]
      BY <3>1, Elements DEF IInv, Shape
    <3>3. [old[k] EXCEPT !.active = FALSE].subject = old[k].subject
      BY <3>2
    <3> HIDE DEF old
    <3>4. DOMAIN new = DOMAIN old /\ \A id \in DOMAIN old : new[id].subject = old[id].subject
      BY <3>1, <3>3
    <3> QED BY <3>1, <3>4 DEF old
  <2> QED BY <2>3, <2>4
<1> QED BY <1>1, <1>2 DEF connect, sendMessage

(* Calls that make no subscription.                                        *)
LEMMA CallsKeepKnowledge ==
  ASSUME IInv, Knowledge, NEW d \in Clients, NEW c \in Clients,
         \/ connect(d)
         \/ \E id \in IDs : releaseSubscription(d, id)
         \/ \E topic \in Topics : sendMessage(d, topic)
  PROVE  KnowledgeOf(c)'
<1>1. KnowledgeOf(c)
  BY DEF Knowledge
<1>2. UNCHANGED <<stage, interest>>
  BY DEF connect, releaseSubscription, sendMessage
<1>3. /\ \/ d = c /\ client[c] = "new" /\ client'[c] = "connecting"
         \/ d = c /\ client[c] = "open" /\ client'[c] = "open"
         \/ d # c /\ client'[c] = client[c]
      /\ client'[c] \in {"new", "connecting"} => subscriptions'[c] = subscriptions[c]
  BY FunctionsOfState DEF connect, releaseSubscription, sendMessage
<1>4. /\ DOMAIN subscriptions'[c] = DOMAIN subscriptions[c]
      /\ \A id \in DOMAIN subscriptions[c] :
           subscriptions'[c][id].subject = subscriptions[c][id].subject
  BY SubjectsOfCalls
<1>5. up'[c] = up[c] \/ \E frame : frame.action # "SUBSCRIBE" /\ up'[c] = Append(up[c], frame)
  <2>1. /\ Connect.action # "SUBSCRIBE"
        /\ \A id : UnsubscribeFrame(NoSubject, id).action # "SUBSCRIBE"
        /\ \A topic, m : MessageFrame(topic, m, {}).action # "SUBSCRIBE"
    BY DEF Connect, UnsubscribeFrame, MessageFrame
  <2>2. \/ up' = up
        \/ \E frame : frame.action # "SUBSCRIBE" /\ up' = Written(up, d, frame)
    BY <2>1 DEF connect, releaseSubscription, sendMessage
  <2> QED BY <2>2, FunctionsOfState, KindsOfConnections DEF Written
<1> QED BY <1>1, <1>2, <1>3, <1>4, <1>5, KnowledgeWithFrames DEF KnowledgeOf, Sends

(* A closed client's SUBSCRIBEs are read before its farewell.              *)
LEMMA closeKeepsKnowledge ==
  ASSUME IInv, Knowledge, NEW d \in Clients, close(d), NEW c \in Clients
  PROVE  KnowledgeOf(c)'
<1>1. KnowledgeOf(c)
  BY DEF Knowledge
<1>2. /\ UNCHANGED <<stage, interest, subscriptions>>
      /\ client' = [client EXCEPT ![d] = "closed"] /\ client[d] = "open"
      /\ up' = [up EXCEPT ![d] = up[d] \o Farewell(d)]
  BY DEF close
<1>3. CASE d # c
  BY <1>1, <1>2, <1>3, FunctionsOfState, KnowledgeUntouched
<1>4. CASE d = c
  <2> DEFINE q == up[c]
             r == Farewell(c)
  <2>1. /\ q \in Seq(FromClient(c)) /\ r \in Seq({Disconnect} \cup Releases)
        /\ \A i \in DOMAIN r : r[i].action # "SUBSCRIBE"
    <3>1. r \in Seq({Disconnect} \cup Releases)
      BY FarewellFrames DEF IInv
    <3>2. \A frame \in {Disconnect} \cup Releases : frame.action # "SUBSCRIBE"
      BY DEF Disconnect, Releases, UnsubscribeFrame
    <3> QED BY <3>1, <3>2, Elements, QueuesOfMessages
  <2>2. up'[c] = q \o r
    BY <1>2, <1>4, FunctionsOfState, KindsOfConnections
  <2>3. IDsInOrder(q)
    BY <1>1 DEF KnowledgeOf
  <2>4. /\ client'[c] = "closed" /\ Sends(c)'
        /\ UNCHANGED <<stage, interest, subscriptions>>
    BY <1>1, <1>2, <1>4, FunctionsOfState DEF KnowledgeOf, Sends
  <2>5. InFlight(c) = {q[i] : i \in DOMAIN q}
    BY DEF InFlight
  <2> HIDE DEF q, r
  <2>6. /\ \A i, j \in DOMAIN (q \o r) : i < j /\ j \in DOMAIN q => i \in DOMAIN q
        /\ \A i \in DOMAIN (q \o r) : \/ i \in DOMAIN q /\ (q \o r)[i] = q[i]
                                      \/ (q \o r)[i].action # "SUBSCRIBE"
        /\ \A i \in DOMAIN q : i \in DOMAIN (q \o r)
    BY <2>1, Joined
  <2>7. IDsInOrder(q \o r)
    BY <2>3, <2>6 DEF IDsInOrder
  <2>8. \A i \in DOMAIN q : i \in DOMAIN (q \o r) /\ (q \o r)[i] = q[i]
    BY <2>1
  <2>9. InFlight(c) \subseteq InFlight(c)'
    BY <2>2, <2>5, <2>8 DEF InFlight
  <2> QED BY <1>1, <2>2, <2>4, <2>7, <2>9, KnowledgeKept
<1> QED BY <1>3, <1>4

(* The SUBSCRIBE with the next ID is on its way.                           *)
LEMMA subscribeKeepsKnowledge ==
  ASSUME IInv, Knowledge, NEW d \in Clients, NEW subject \in SubjectNames, subscribe(d, subject),
         NEW c \in Clients
  PROVE  KnowledgeOf(c)'
<1> DEFINE old   == subscriptions[c]
           n     == Len(old)
           frame == SubscribeFrame(subject, n + 1)
           new   == Append(old, [subject |-> subject, active |-> TRUE])
<1>1. KnowledgeOf(c)
  BY DEF Knowledge
<1>2. /\ UNCHANGED <<stage, interest, client>> /\ client[d] = "open"
      /\ subscriptions' = [subscriptions EXCEPT ![d] =
                             Append(@, [subject |-> subject, active |-> TRUE])]
      /\ up' = Written(up, d, SubscribeFrame(subject, Len(subscriptions[d]) + 1))
  BY DEF subscribe
<1>3. CASE d # c
  BY <1>1, <1>2, <1>3, FunctionsOfState, KnowledgeUntouched DEF Written
<1>4. CASE d = c
  <2>1. subscriptions'[c] = new /\ up'[c] = Append(up[c], frame)
    BY <1>2, <1>4, FunctionsOfState, KindsOfConnections DEF Written
  <2>2. old \in Seq([subject : SubjectNames, active : BOOLEAN])
    BY DEF IInv, Shape
  <2>3. /\ n \in Nat /\ DOMAIN old = 1 .. n /\ DOMAIN new = 1 .. n + 1
        /\ new[n + 1].subject = subject /\ \A id \in 1 .. n : new[id] = old[id]
    BY <2>2
  <2>4. frame.action = "SUBSCRIBE" /\ frame.id = n + 1
    BY DEF SubscribeFrame
  <2>5. up[c] \in Seq(FromClient(c)) /\ IDsInOrder(up[c])
    BY <1>1, QueuesOfMessages DEF KnowledgeOf
  <2> HIDE DEF new, n
  <2>6. ASSUME NEW i \in DOMAIN up[c], up[c][i].action = "SUBSCRIBE" PROVE up[c][i].id < n + 1
    <3>1. up[c][i] \in Subscribed(c)
      BY <2>5, <2>6, Elements, ClientFrames
    <3>2. up[c][i].id \in DOMAIN old
      BY <3>1 DEF Subscribed, SubscribeFrame
    <3> QED BY <2>3, <3>2
  <2> HIDE DEF frame
  <2>7. /\ IDsInOrder(Append(up[c], frame))
        /\ \A i \in DOMAIN up[c] : \E j \in DOMAIN Append(up[c], frame) : Append(up[c], frame)[j] = up[c][i]
        /\ \E j \in DOMAIN Append(up[c], frame) : Append(up[c], frame)[j] = frame
    BY ZenonT(60), <2>4, <2>5, <2>6, WrittenIDs
  <2>8. InFlight(c) \subseteq InFlight(c)' /\ frame \in InFlight(c)'
    BY <2>1, <2>7 DEF InFlight
  <2> HIDE DEF old
  <2>9. ASSUME stage'[c] = "managed", NEW x \in interest'[Home[c]], x.socket = c
        PROVE  FirstFor(c, x.id)'
    <3>1. x \in interest[Home[c]] /\ FirstFor(c, x.id) /\ x.id \in DOMAIN old
      BY <1>1, <1>2, <2>9, EntriesOfClients DEF KnowledgeOf, old
    <3>2. \A earlier \in 1 .. x.id - 1 : earlier \in 1 .. n
      BY <2>3, <3>1
    <3> QED BY <2>1, <2>3, <3>1, <3>2 DEF FirstFor, old
  <2>10. ASSUME stage'[c] = "managed", NEW id \in DOMAIN subscriptions'[c]
         PROVE  SubjectKnown(c, id)'
    <3>1. CASE id = n + 1
      <4>1. frame = SubscribeFrame(subscriptions'[c][id].subject, id)
        BY <2>1, <2>3, <3>1 DEF frame
      <4> QED BY <2>8, <4>1 DEF SubjectKnown
    <3>2. CASE id # n + 1
      <4>1. id \in DOMAIN old /\ subscriptions'[c][id] = old[id]
        BY <2>1, <2>3, <3>2
      <4>2. SubjectKnown(c, id)
        BY <1>1, <1>2, <2>10, <4>1 DEF KnowledgeOf, old
      <4> QED BY <1>2, <2>8, <4>1, <4>2 DEF SubjectKnown, old
    <3> QED BY <3>1, <3>2
  <2>11. client'[c] = "open" /\ Sends(c)'
    BY <1>1, <1>2, <1>4 DEF KnowledgeOf, Sends
  <2> QED BY <2>1, <2>7, <2>9, <2>10, <2>11 DEF KnowledgeOf
<1> QED BY <1>3, <1>4

(* What clients read tells gateways nothing.                               *)
LEMMA ClientStepsKeepKnowledge ==
  ASSUME IInv, Knowledge, NEW d \in Clients, ClientStep(d), NEW c \in Clients
  PROVE  KnowledgeOf(c)'
<1>1. KnowledgeOf(c) /\ UNCHANGED <<stage, subscriptions, up, interest>>
  BY DEF ClientStep, onAck, onGatewayMessage, processGatewayMessage, ClientReads,
         gatewayVars, Knowledge
<1>2. CASE UNCHANGED client
  BY <1>1, <1>2, KnowledgeUntouched
<1>3. CASE onAck(d)
  <2>1. Sends(d) /\ client[d] \in {"connecting", "open"}
        /\ client' = [client EXCEPT ![d] = "open"]
    BY <1>3 DEF onAck, ClientReads
  <2>2. CASE d # c
    BY <1>1, <2>1, <2>2, FunctionsOfState, KnowledgeUntouched
  <2>3. CASE d = c
    <3>1. client'[c] = "open" /\ Sends(c)'
      BY <1>1, <2>1, <2>3, FunctionsOfState DEF Sends
    <3> QED BY <1>1, <3>1, KnowledgeWithFrames
  <2> QED BY <2>2, <2>3
<1> QED BY ZenonT(60), <1>2, <1>3 DEF ClientStep, onGatewayMessage, processGatewayMessage

(* Links are none of the clients' connections.                             *)
LEMMA LinkStepsKeepKnowledge ==
  ASSUME IInv, Knowledge, NEW l \in Links, LinkStatusStep(l) \/ PeerReads(l), NEW c \in Clients
  PROVE  KnowledgeOf(c)'
<1>1. l # c
  BY KindsOfConnections
<1>2. KnowledgeOf(c) /\ UNCHANGED <<stage, client, subscriptions, interest>>
  BY DEF LinkStatusStep, onConnectionSucceeded, onConnectionFailed, RetryTimer,
         onResolutionFailed, onPeerDisconnected, PeerStep, PeerReads, clientVars, Knowledge
<1>3. up'[c] = up[c]
  <2>1. up' = up \/ \E q : up' = [up EXCEPT ![l] = q]
    BY DEF LinkStatusStep, onConnectionSucceeded, onConnectionFailed, RetryTimer,
           onResolutionFailed, onPeerDisconnected, PeerStep, PeerReads, Written, Unsent
  <2> QED BY <1>1, <2>1, FunctionsOfState, KindsOfConnections
<1> QED BY <1>2, <1>3, KnowledgeUntouched

(* What a gateway reads from a connection, and relays to peers, is another *)
(* matter than what a client wrote to it.                                  *)
LEMMA UpOfClients ==
  ASSUME IInv, NEW e \in Connections, NEW c \in Clients, NEW g \in Gateways, NEW frame
  PROVE  /\ e # c => Read(up, e)[c] = up[c] /\ Relayed(Read(up, e), g, frame)[c] = up[c]
         /\ e = c => Read(up, e)[c] = Tail(up[c])
                     /\ Relayed(Read(up, e), g, frame)[c] = Tail(up[c])
<1>1. c \in Connections /\ c \notin Outgoing[g]
  BY KindsOfConnections
<1>2. Relayed(Read(up, e), g, frame)[c] = Read(up, e)[c]
  BY <1>1 DEF Relayed
<1> QED BY <1>1, <1>2, FunctionsOfState DEF Read

(* A client that has not been accepted has subscribed to nothing.          *)
LEMMA AcceptingKeepsKnowledge ==
  ASSUME IInv, Knowledge, NEW e \in Connections,
         onConnect(e) \/ IgnoredBeforeConnect(e) \/ onMoveToLoopComplete(e), NEW c \in Clients
  PROVE  KnowledgeOf(c)'
<1>1. KnowledgeOf(c) /\ UNCHANGED <<client, subscriptions, interest>>
  BY DEF onConnect, IgnoredBeforeConnect, onMoveToLoopComplete, clientVars, Knowledge
<1>2. \/ up' = up
      \/ up' = Read(up, e) /\ up[e] # << >>
  BY NextFrames DEF onConnect, IgnoredBeforeConnect, onMoveToLoopComplete
<1>3. CASE e # c
  <2>1. up'[c] = up[c] /\ stage'[c] = stage[c]
    BY <1>2, <1>3, FunctionsOfState, KindsOfConnections
       DEF Read, onConnect, IgnoredBeforeConnect, onMoveToLoopComplete
  <2> QED BY <1>1, <2>1, KnowledgeUntouched
<1>4. CASE e = c
  <2>1. stage[c] \in {"unregistered", "moving"}
    BY <1>4 DEF onConnect, IgnoredBeforeConnect, onMoveToLoopComplete
  <2>2. client[c] \in {"new", "connecting"} /\ subscriptions[c] = << >>
    BY <1>1, <2>1 DEF KnowledgeOf, Sends, IInv, Shape
  <2>3. up'[c] = up[c] \/ (up[c] # << >> /\ up'[c] = Tail(up[c]))
    BY <1>2, <1>4, FunctionsOfState, KindsOfConnections DEF Read
  <2> QED BY <1>1, <2>2, <2>3, KnowledgeWithFrames
<1> QED BY <1>3, <1>4

(* What one connection does leaves the entries of others alone.            *)
LEMMA TableOfOthers ==
  ASSUME IInv, NEW c \in Clients, NEW e, e # c, NEW g \in Gateways,
         \/ \E s, id : interest' = [interest EXCEPT ![g] = AddSubscription(interest[g], s, id, e)]
         \/ \E s : interest' = [interest EXCEPT ![g] = RemoveSubscription(interest[g], s, e)]
         \/ interest' = [interest EXCEPT ![g] = RemoveAllSubscriptions(interest[g], e)]
  PROVE  \A x : x.socket = c => (x \in interest'[Home[c]] <=> x \in interest[Home[c]])
<1> SUFFICES ASSUME NEW x, x.socket = c
             PROVE  x \in interest'[Home[c]] <=> x \in interest[Home[c]]
  OBVIOUS
<1>1. CASE g # Home[c]
  BY <1>1, FunctionsOfState, KindsOfConnections
<1>2. CASE g = Home[c]
  <2>1. CASE \E s, id : interest' = [interest EXCEPT ![g] = AddSubscription(interest[g], s, id, e)]
    <3>1. PICK s, id : interest' = [interest EXCEPT ![g] = AddSubscription(interest[g], s, id, e)]
      BY <2>1
    <3>2. interest'[Home[c]] = AddSubscription(interest[Home[c]], s, id, e)
      BY <1>2, <3>1, FunctionsOfState, KindsOfConnections
    <3>3. x \in AddSubscription(interest[Home[c]], s, id, e) <=> x \in interest[Home[c]]
      BY EntriesOfOthers, Zenon
    <3> QED BY <3>2, <3>3
  <2>2. CASE \E s : interest' = [interest EXCEPT ![g] = RemoveSubscription(interest[g], s, e)]
    <3>1. PICK s : interest' = [interest EXCEPT ![g] = RemoveSubscription(interest[g], s, e)]
      BY <2>2
    <3>2. interest'[Home[c]] = RemoveSubscription(interest[Home[c]], s, e)
      BY <1>2, <3>1, FunctionsOfState, KindsOfConnections
    <3>3. x \in RemoveSubscription(interest[Home[c]], s, e) <=> x \in interest[Home[c]]
      BY EntriesOfOthers, Zenon
    <3> QED BY <3>2, <3>3
  <2>3. CASE interest' = [interest EXCEPT ![g] = RemoveAllSubscriptions(interest[g], e)]
    <3>1. interest'[Home[c]] = RemoveAllSubscriptions(interest[Home[c]], e)
      BY <1>2, <2>3, FunctionsOfState, KindsOfConnections
    <3>2. x \in RemoveAllSubscriptions(interest[Home[c]], e) <=> x \in interest[Home[c]]
      BY EntriesOfOthers, Zenon
    <3> QED BY <3>1, <3>2
  <2> QED BY <2>1, <2>2, <2>3
<1> QED BY <1>1, <1>2

(* The libraries' UNSUBSCRIBEs name no subject anyone uses.                *)
LEMMA onUnsubscribeKeepsKnowledge ==
  ASSUME IInv, Knowledge, NoSubject \notin SubjectNames, NEW e \in Connections,
         NEW frame \in NextFrame(e), onUnsubscribe(e, frame), UNCHANGED clientVars, NEW c \in Clients
  PROVE  KnowledgeOf(c)'
<1> DEFINE g == Server[e]
<1>1. KnowledgeOf(c) /\ UNCHANGED <<client, subscriptions, stage>> /\ g \in Gateways
  BY KindsOfConnections DEF onUnsubscribe, clientVars, Knowledge
<1>2. /\ interest' = [interest EXCEPT ![g] = RemoveSubscription(interest[g], frame.subject, e)]
      /\ up' = Read(up, e) \/ up' = Relayed(Read(up, e), g, frame)
      /\ frame.action = "UNSUBSCRIBE" /\ up[e] # << >> /\ frame = Head(up[e])
  BY NextFrames DEF onUnsubscribe
<1> HIDE DEF g
<1>3. CASE e # c
  <2>1. up'[c] = up[c]
    BY <1>1, <1>2, <1>3, UpOfClients
  <2>2. \A x : x.socket = c => (x \in interest'[Home[c]] <=> x \in interest[Home[c]])
    BY <1>1, <1>2, <1>3, TableOfOthers
  <2> QED BY <1>1, <2>1, <2>2, KnowledgeUntouched
<1>4. CASE e = c
  <2>1. up'[c] = Tail(up[c]) /\ up[c] # << >> /\ Head(up[c]).action # "SUBSCRIBE"
    BY <1>1, <1>2, <1>4, UpOfClients
  <2>2. frame.subject = NoSubject
    <3>1. frame \in Releases
      BY <1>2, <1>4, NextFrames, ClientFrames DEF UpFrames
    <3> QED BY <3>1 DEF Releases, UnsubscribeFrame
  <2>3. \A x : x.socket = c => (x \in interest'[Home[c]] <=> x \in interest[Home[c]])
    <3>1. \A x \in interest[Home[c]] : x.socket = c => x.subject # NoSubject
      BY EntriesOfClients
    <3>2. interest'[Home[c]] = IF g = Home[c] THEN interest[g] \ EntriesOf(interest[g], NoSubject, c)
                                              ELSE interest[Home[c]]
      BY <1>1, <1>2, <1>4, <2>2, FunctionsOfState, KindsOfConnections DEF RemoveSubscription
    <3> QED BY <3>1, <3>2 DEF EntriesOf
  <2> QED BY <1>1, <2>1, <2>3, KnowledgeWithFrames DEF KnowledgeOf, Sends
<1> QED BY <1>3, <1>4

(* A message changes no table.                                             *)
LEMMA onMessageKeepsKnowledge ==
  ASSUME IInv, Knowledge, NEW e \in Connections,
         NEW frame \in NextFrame(e), onMessage(e, frame), UNCHANGED clientVars, NEW c \in Clients
  PROVE  KnowledgeOf(c)'
<1>1. KnowledgeOf(c) /\ UNCHANGED <<client, subscriptions, stage, interest>>
  BY DEF onMessage, clientVars, Knowledge
<1>2. up' = Read(up, e) /\ IsMessage(frame) /\ up[e] # << >> /\ frame = Head(up[e])
  BY NextFrames DEF onMessage
<1>3. CASE e # c
  BY <1>1, <1>2, <1>3, UpOfClients, KindsOfConnections, KnowledgeUntouched
<1>4. CASE e = c
  <2>1. up'[c] = Tail(up[c]) /\ up[c] # << >> /\ Head(up[c]).action # "SUBSCRIBE"
    BY SMTT(30), <1>2, <1>4, UpOfClients, KindsOfConnections DEF IsMessage
  <2> QED BY <1>1, <2>1, KnowledgeWithFrames DEF KnowledgeOf, Sends
<1> QED BY <1>3, <1>4

(* With the connection goes the claim about it.                            *)
LEMMA onDisconnectedKeepsKnowledge ==
  ASSUME IInv, Knowledge, NEW e \in Connections, onDisconnected(e), NEW c \in Clients
  PROVE  KnowledgeOf(c)'
<1> DEFINE g == Server[e]
<1>1. KnowledgeOf(c) /\ UNCHANGED <<client, subscriptions>> /\ g \in Gateways
  BY KindsOfConnections DEF onDisconnected, clientVars, Knowledge
<1>2. /\ interest' = [interest EXCEPT ![g] = RemoveAllSubscriptions(interest[g], e)]
      /\ \/ up' = up \/ (up[e] # << >> /\ up' = Read(up, e))
         \/ up' = [up EXCEPT ![e] = << >>]
      /\ stage' = [stage EXCEPT ![e] = "released"]
  <2>1. /\ interest' = [interest EXCEPT ![g] = RemoveAllSubscriptions(interest[g], e)]
        /\ stage' = [stage EXCEPT ![e] = "released"]
    BY DEF onDisconnected, Disconnected
  <2> HIDE DEF g
  <2> QED BY <2>1, QueuesAfterTheEnd
<1>3. CASE e # c
  <2>1. up'[c] = up[c] /\ stage'[c] = stage[c]
    BY <1>2, <1>3, FunctionsOfState, KindsOfConnections DEF Read
  <2>2. \A x : x.socket = c => (x \in interest'[Home[c]] <=> x \in interest[Home[c]])
    BY <1>1, <1>2, <1>3, TableOfOthers
  <2> QED BY <1>1, <2>1, <2>2, KnowledgeUntouched
<1>4. CASE e = c
  <2>1. /\ stage'[c] = "released"
        /\ \/ up'[c] = up[c] \/ up'[c] = << >> \/ (up[c] # << >> /\ up'[c] = Tail(up[c]))
    BY <1>2, <1>4, FunctionsOfState, KindsOfConnections DEF Read
  <2>2. up[c] \in Seq(FromClient(c)) /\ IDsInOrder(up[c]) /\ IDsInOrder(<< >>)
    BY <1>1, QueuesOfMessages DEF KnowledgeOf, IDsInOrder
  <2>3. up[c] # << >> => IDsInOrder(Tail(up[c]))
    BY <2>2, ReadIDs
  <2>4. IDsInOrder(up'[c])
    BY <2>1, <2>2, <2>3
  <2> QED BY <1>1, <2>1, <2>4 DEF KnowledgeOf, Sends
<1> QED BY <1>3, <1>4

(* Nor is anything claimed of a released socket.                           *)
LEMMA SocketDestroyedKeepsKnowledge ==
  ASSUME IInv, Knowledge, NEW e \in Connections, SocketDestroyed(e), NEW c \in Clients
  PROVE  KnowledgeOf(c)'
<1>1. KnowledgeOf(c) /\ UNCHANGED <<client, subscriptions, up, interest>>
      /\ stage' = [stage EXCEPT ![e] = "destroyed"]
  BY DEF SocketDestroyed, clientVars, Knowledge
<1>2. CASE e # c
  BY <1>1, <1>2, FunctionsOfState, KindsOfConnections, KnowledgeUntouched
<1>3. CASE e = c
  <2>1. stage'[c] = "destroyed"
    BY <1>1, <1>3, FunctionsOfState
  <2> QED BY <1>1, <2>1 DEF KnowledgeOf, Sends
<1> QED BY <1>2, <1>3

(* The next SUBSCRIBE of a client that its gateway reads: whatever was     *)
(* asked before it is in the table.                                        *)
LEMMA onSubscribeKeepsKnowledge ==
  ASSUME IInv, Knowledge, NEW e \in Connections, CanReceive(e),
         NEW frame \in NextFrame(e), onSubscribe(e, frame), UNCHANGED clientVars, NEW c \in Clients
  PROVE  KnowledgeOf(c)'
<1> DEFINE g     == Server[e]
           table == interest[Home[c]]
           q     == up[c]
           subs  == subscriptions[c]
<1>1. KnowledgeOf(c) /\ UNCHANGED <<client, subscriptions, stage>> /\ g \in Gateways
  BY KindsOfConnections DEF onSubscribe, clientVars, Knowledge
<1>2. /\ interest' = [interest EXCEPT ![g] =
                        AddSubscription(interest[g], frame.subject, frame.id, e)]
      /\ up' = Read(up, e) \/ up' = Relayed(Read(up, e), g, frame)
      /\ frame.action = "SUBSCRIBE" /\ up[e] # << >> /\ frame = Head(up[e])
  BY NextFrames DEF onSubscribe
<1>3. CASE e # c
  <2> HIDE DEF g
  <2>1. up'[c] = up[c]
    BY <1>1, <1>2, <1>3, UpOfClients
  <2>2. \A x : x.socket = c => (x \in interest'[Home[c]] <=> x \in interest[Home[c]])
    BY <1>1, <1>2, <1>3, TableOfOthers
  <2> QED BY <1>1, <2>1, <2>2, KnowledgeUntouched
<1>4. CASE e = c
  <2>1. PICK k \in DOMAIN subs : frame = SubscribeFrame(subs[k].subject, k)
    BY <1>2, <1>4, NextFrames, ClientFrames DEF UpFrames, Subscribed
  <2> DEFINE s == subs[k].subject
  <2>2. frame.subject = s /\ frame.id = k /\ q # << >> /\ Head(q) = SubscribeFrame(s, k)
    BY <1>2, <1>4, <2>1 DEF SubscribeFrame
  <2>3. /\ interest'[Home[c]] = AddSubscription(table, s, k, c)
        /\ up'[c] = Tail(q)
    <3>1. g = Home[c]
      BY <1>4, KindsOfConnections
    <3>2. interest'[Home[c]] = AddSubscription(table, s, k, c)
      BY <1>2, <1>4, <2>2, <3>1, FunctionsOfState, KindsOfConnections
    <3> HIDE DEF g
    <3>3. up'[c] = Tail(q)
      BY <1>1, <1>2, <1>4, UpOfClients
    <3> QED BY <3>2, <3>3
  <2>4. stage[c] \in {"managed", "released"}
    <3>1. subs # << >>
      BY <2>1
    <3> QED BY <1>1, <1>4, <3>1 DEF KnowledgeOf, Sends, CanReceive, IInv, Shape
  <2>5. /\ IDsInOrder(Tail(q))
        /\ \A i \in DOMAIN q : q[i] = Head(q) \/ \E j \in DOMAIN Tail(q) : Tail(q)[j] = q[i]
        /\ \A j \in DOMAIN Tail(q) :
             Head(q).action = "SUBSCRIBE" /\ Tail(q)[j].action = "SUBSCRIBE" => Head(q).id < Tail(q)[j].id
    <3>1. q \in Seq(FromClient(c)) /\ IDsInOrder(q)
      BY <1>1, QueuesOfMessages DEF KnowledgeOf
    <3> HIDE DEF q
    <3> QED BY <2>2, <3>1, ReadIDs
  <2>6. \A id \in DOMAIN subs : id \in Nat /\ id >= 1
    BY SubscriptionIDs DEF IInv
  <2>7. /\ InFlight(c) = {q[i] : i \in DOMAIN q}
        /\ InFlight(c)' = {Tail(q)[i] : i \in DOMAIN Tail(q)}
    BY <2>3 DEF InFlight
  <2>12. CASE stage[c] = "released"
    BY <1>1, <2>3, <2>5, <2>12 DEF KnowledgeOf, Sends
  <2> SUFFICES ASSUME stage[c] = "managed" PROVE KnowledgeOf(c)'
    BY <2>4, <2>12
  <2>8. \A id \in DOMAIN subs : SubjectKnown(c, id)
    BY <1>1 DEF KnowledgeOf
  <2> HIDE DEF q, subs, table, s
  <2>9. ASSUME NEW id \in DOMAIN subs, SubscribeFrame(subs[id].subject, id) \in InFlight(c)
        PROVE  \/ id = k
               \/ k < id /\ SubscribeFrame(subs[id].subject, id) \in InFlight(c)'
    <3> DEFINE f == SubscribeFrame(subs[id].subject, id)
    <3>1. f.id = id /\ f.action = "SUBSCRIBE" /\ Head(q).id = k /\ Head(q).action = "SUBSCRIBE"
      BY <2>2 DEF SubscribeFrame
    <3>2. PICK i \in DOMAIN q : q[i] = f
      BY <2>7, <2>9
    <3> HIDE DEF f
    <3>3. CASE f = Head(q)
      BY <3>1, <3>3
    <3>4. CASE \E j \in DOMAIN Tail(q) : Tail(q)[j] = f
      <4>1. PICK j \in DOMAIN Tail(q) : Tail(q)[j] = f
        BY <3>4
      <4>2. k < id
        BY <2>5, <3>1, <4>1
      <4>3. f \in InFlight(c)'
        BY <2>7, <4>1
      <4> QED BY <4>2, <4>3 DEF f
    <3> QED BY <2>5, <3>2, <3>3, <3>4
  <2>10. ASSUME NEW x \in interest'[Home[c]], x.socket = c PROVE FirstFor(c, x.id)'
    <3>1. CASE x \in table
      BY <1>1, <2>10, <3>1 DEF KnowledgeOf, FirstFor, table
    <3>2. CASE x \notin table
      <4>1. EntriesOf(table, s, c) = {} /\ x.id = k
        BY <2>3, <3>2 DEF AddSubscription, Entry
      <4>2. ASSUME NEW earlier \in 1 .. k - 1, subs[earlier].subject = s PROVE FALSE
        <5>1. earlier \in DOMAIN subs /\ earlier < k /\ k \in Nat
          <6>1. subs \in Seq([subject : SubjectNames, active : BOOLEAN])
            BY DEF subs, IInv, Shape
          <6> QED BY <2>6, <6>1, Elements
        <5>2. SubscribeFrame(subs[earlier].subject, earlier) \in InFlight(c)
          BY <2>8, <4>1, <4>2, <5>1 DEF SubjectKnown, subs, table
        <5> QED BY <2>6, <2>9, <5>1, <5>2
      <4> QED BY <1>1, <4>1, <4>2 DEF FirstFor, subs, s
    <3> QED BY <3>1, <3>2
  <2>11. ASSUME NEW id \in DOMAIN subs PROVE SubjectKnown(c, id)'
    <3>1. /\ EntriesOf(table, subs[id].subject, c) \subseteq EntriesOf(interest'[Home[c]], subs[id].subject, c)
          /\ EntriesOf(interest'[Home[c]], s, c) # {}
      <4>1. CASE EntriesOf(table, s, c) # {}
        BY <2>3, <4>1 DEF AddSubscription
      <4>2. CASE EntriesOf(table, s, c) = {}
        <5>1. interest'[Home[c]] = table \cup {Entry(s, k, c)}
          BY <2>3, <4>2 DEF AddSubscription
        <5>2. Entry(s, k, c).subject = s /\ Entry(s, k, c).socket = c
          BY DEF Entry
        <5> QED BY <5>1, <5>2 DEF EntriesOf
      <4> QED BY <4>1, <4>2
    <3>2. CASE SubscribeFrame(subs[id].subject, id) \in InFlight(c)
      BY <1>1, <2>9, <2>11, <3>1, <3>2 DEF SubjectKnown, subs, s
    <3>3. CASE EntriesOf(table, subs[id].subject, c) # {}
      BY <1>1, <3>1, <3>3 DEF SubjectKnown, subs
    <3> QED BY <2>8, <3>2, <3>3 DEF SubjectKnown, subs, table
  <2> QED BY <1>1, <2>3, <2>5, <2>10, <2>11 DEF KnowledgeOf, Sends, subs
<1> QED BY <1>3, <1>4

(* Every step keeps the knowledge.                                         *)
LEMMA KnowledgeInductive ==
  ASSUME NoSubject \notin SubjectNames
  PROVE  IInv /\ Knowledge /\ [Next]_vars => Knowledge'
<1> SUFFICES ASSUME IInv, Knowledge, [Next]_vars, NEW c \in Clients PROVE KnowledgeOf(c)'
  BY DEF Knowledge
<1>1. CASE UNCHANGED vars
  BY <1>1, KnowledgeUntouched DEF vars, gatewayVars, clientVars, Knowledge
<1>2. ASSUME NEW d \in Clients, UserStep(d) PROVE KnowledgeOf(c)'
  BY <1>2, CallsKeepKnowledge, subscribeKeepsKnowledge, closeKeepsKnowledge DEF UserStep
<1>3. ASSUME NEW d \in Clients, ClientStep(d) PROVE KnowledgeOf(c)'
  BY <1>3, ClientStepsKeepKnowledge
<1>4. ASSUME NEW e \in Connections, ServerStep(e) PROVE KnowledgeOf(c)'
  <2>1. CASE onDataReceived(e)
    BY <2>1, onSubscribeKeepsKnowledge, onUnsubscribeKeepsKnowledge, onMessageKeepsKnowledge
       DEF onDataReceived
  <2>2. CASE onConnect(e) \/ IgnoredBeforeConnect(e) \/ onMoveToLoopComplete(e)
    BY <2>2, AcceptingKeepsKnowledge
  <2> QED BY <1>4, <2>1, <2>2 DEF ServerStep
<1>5. ASSUME NEW e \in Connections, onDisconnected(e) PROVE KnowledgeOf(c)'
  BY <1>5, onDisconnectedKeepsKnowledge
<1>7. ASSUME NEW e \in Connections, SocketDestroyed(e) PROVE KnowledgeOf(c)'
  BY <1>7, SocketDestroyedKeepsKnowledge
<1>6. ASSUME NEW l \in Links, LinkStatusStep(l) \/ PeerReads(l) PROVE KnowledgeOf(c)'
  BY <1>6, LinkStepsKeepKnowledge
<1> QED BY <1>1, <1>2, <1>3, <1>4, <1>5, <1>6, <1>7 DEF Next

(* So it is kept in every behaviour.                                       *)
LEMMA KnowledgeAlways ==
  ASSUME NoSubject \notin SubjectNames
  PROVE  Spec => []Knowledge
<1>1. Init => Knowledge
  BY KindsOfConnections DEF Init, Knowledge, KnowledgeOf, IDsInOrder
<1>2. IInv /\ Knowledge /\ [Next]_vars => Knowledge'
  BY KnowledgeInductive
<1> QED BY <1>1, <1>2, Invariance, PTL DEF Spec

(* While a client is connected its gateway knows of its first subscription *)
(* to each subject, or is about to (ServiceManager::onSubscribe and        *)
(* onUnsubscribe): no later one and no UNSUBSCRIBE takes it away.  The     *)
(* subjects that clients use are not the empty one that libraries put in   *)
(* their UNSUBSCRIBEs.                                                     *)
THEOREM FirstSubscriptionIsKnownHolds ==
  ASSUME NoSubject \notin SubjectNames
  PROVE  Spec => []FirstSubscriptionIsKnown
<1>1. IInv /\ Knowledge => FirstSubscriptionIsKnown
  <2> SUFFICES ASSUME IInv, Knowledge, NEW c \in Clients, Attached(c),
                      NEW id \in DOMAIN subscriptions[c], FirstFor(c, id)
               PROVE  Known(c, id)
    BY DEF FirstSubscriptionIsKnown
  <2> DEFINE s == subscriptions[c][id].subject
  <2>1. KnowledgeOf(c) /\ SubjectKnown(c, id)
    BY DEF Knowledge, KnowledgeOf, Attached
  <2>2. CASE EntriesOf(interest[Home[c]], s, c) # {}
    <3>1. PICK x \in interest[Home[c]] : x.socket = c /\ x.subject = s
      BY <2>2 DEF EntriesOf
    <3>2. /\ x.id \in DOMAIN subscriptions[c] /\ subscriptions[c][x.id].subject = s
          /\ x = Entry(s, x.id, c) /\ FirstFor(c, x.id)
      BY <2>1, <3>1, EntriesOfClients DEF KnowledgeOf, Attached
    <3>3. x.id \in Nat /\ id \in Nat /\ x.id >= 1 /\ id >= 1
      BY <3>2, SubscriptionIDs DEF IInv
    <3>4. ~(x.id < id) /\ ~(id < x.id)
      BY <3>2, <3>3 DEF FirstFor
    <3> QED BY <3>1, <3>2, <3>3, <3>4 DEF Known
  <2> QED BY <2>1, <2>2 DEF SubjectKnown, Known
<1> QED BY <1>1, Invariance, KnowledgeAlways, PTL
-----------------------------------------------------------------------------
(* What gateways tell each other of their clients' subscriptions, when the *)
(* mesh is up before there are any and no connection fails: of a subject   *)
(* that only clients of one gateway subscribe to, all its peers have been  *)
(* told, or are about to.                                                  *)
SoleTo(g, s) == \A d \in Clients : EverSubscribed(d, s) => Home[d] = g

(* The same of a gateway and a peer that it connects to.                   *)
SubjectRelayed(l, s) ==
  \/ \E id \in IDs : SubscribeFrame(s, id) \in InFlight(l)
  \/ EntriesOf(interest[l[2]], s, l) # {}

RelayedOver(l) ==
  \A x \in interest[l[1]] : SoleTo(l[1], x.subject) => SubjectRelayed(l, x.subject)

(* Clients come after the links, which then stay.                          *)
MeshStays == (\E c \in Clients : client[c] # "new") => MeshIsUp

Relaying == MeshStays /\ \A l \in Links : RelayedOver(l)

(* Entries about such a subject are of clients.                            *)
LEMMA SoleEntries ==
  ASSUME IInv, NEW g \in Gateways, NEW x \in interest[g]
  PROVE  /\ x.subject \in SubjectNames
         /\ SoleTo(g, x.subject) => \E c \in Clients : subscriptions[c] # << >>
<1>1. PICK e \in Accepted[g] : x \in EntriesAbout(e)
  BY DEF IInv, Tables
<1>2. CASE e \in Clients
  <2>1. PICK id \in DOMAIN subscriptions[e] : x = Entry(subscriptions[e][id].subject, id, e)
    BY <1>1, <1>2 DEF EntriesAbout
  <2>2. subscriptions[e] # << >>
    OBVIOUS
  <2> QED BY <1>2, <2>1, <2>2, SubscriptionIDs DEF Entry, IInv
<1>3. CASE e \in Links
  <2>1. x.subject \in Told(e[1]) /\ e[1] # g
    BY <1>1, <1>3, KindsOfConnections DEF EntriesAbout, Entry
  <2> QED BY <2>1 DEF Told, SoleTo
<1> QED BY <1>1, <1>2, <1>3, KindsOfConnections

(* No client unsubscribes from a subject in name.                          *)
LEMMA SubjectsStay ==
  ASSUME IInv, [Next]_vars, NEW c \in Clients, NEW s, EverSubscribed(c, s)
  PROVE  EverSubscribed(c, s)'
<1>1. CASE UNCHANGED subscriptions
  BY <1>1 DEF EverSubscribed
<1>2. ASSUME NEW d \in Clients, UserStep(d) PROVE EverSubscribed(c, s)'
  <2>1. CASE \E subject \in SubjectNames : subscribe(d, subject)
    <3>1. PICK subject \in SubjectNames : subscribe(d, subject)
      BY <2>1
    <3> DEFINE new == [subject |-> subject, active |-> TRUE]
    <3>2. subscriptions' = [subscriptions EXCEPT ![d] = Append(subscriptions[d], new)]
      BY <3>1 DEF subscribe
    <3> HIDE DEF new
    <3>3. CASE d # c
      BY <3>2, <3>3, FunctionsOfState DEF EverSubscribed
    <3>4. CASE d = c
      <4>1. subscriptions'[c] = Append(subscriptions[c], new)
        BY <3>2, <3>4, FunctionsOfState
      <4>2. subscriptions[c] \in Seq([subject : SubjectNames, active : BOOLEAN])
        BY DEF IInv, Shape
      <4>3. \A id \in DOMAIN subscriptions[c] :
              /\ id \in DOMAIN Append(subscriptions[c], new)
              /\ Append(subscriptions[c], new)[id] = subscriptions[c][id]
        BY <4>2
      <4> QED BY <4>1, <4>3 DEF EverSubscribed
    <3> QED BY <3>3, <3>4
  <2>2. CASE \/ connect(d)
             \/ \E id \in IDs : releaseSubscription(d, id)
             \/ \E topic \in Topics : sendMessage(d, topic)
    BY <2>2, SubjectsOfCalls DEF EverSubscribed
  <2>3. CASE close(d)
    BY <1>1, <2>3 DEF close
  <2> QED BY <1>2, <2>1, <2>2, <2>3 DEF UserStep
<1>3. ASSUME NEW d \in Clients, ClientStep(d) PROVE UNCHANGED subscriptions
  BY <1>3 DEF ClientStep, onAck, onGatewayMessage, processGatewayMessage, ClientReads
<1>4. ASSUME NEW e \in Connections,
             ServerStep(e) \/ onDisconnected(e) \/ SocketDestroyed(e)
      PROVE  UNCHANGED subscriptions
  BY <1>4
     DEF ServerStep, onConnect, IgnoredBeforeConnect, onMoveToLoopComplete, onDataReceived,
              onDisconnected, SocketDestroyed, clientVars
<1>5. ASSUME NEW l \in Links, LinkStatusStep(l) \/ PeerReads(l) PROVE UNCHANGED subscriptions
  BY <1>5 DEF LinkStatusStep, onConnectionSucceeded, onConnectionFailed, RetryTimer,
              onResolutionFailed, onPeerDisconnected, PeerStep, PeerReads, clientVars
<1>6. CASE UNCHANGED vars
  BY <1>1, <1>6 DEF vars, clientVars
<1> QED BY <1>1, <1>2, <1>3, <1>4, <1>5, <1>6 DEF Next

(* Frames in a queue that is read or written.                              *)
LEMMA FramesWritten ==
  ASSUME NEW S, NEW q \in Seq(S), NEW f
  PROVE  /\ \A i \in DOMAIN q : \E j \in DOMAIN Append(q, f) : Append(q, f)[j] = q[i]
         /\ \E j \in DOMAIN Append(q, f) : Append(q, f)[j] = f
<1>1. /\ \A i \in DOMAIN q : i \in DOMAIN Append(q, f) /\ Append(q, f)[i] = q[i]
      /\ Len(q) + 1 \in DOMAIN Append(q, f) /\ Append(q, f)[Len(q) + 1] = f
  OBVIOUS
<1> QED BY <1>1

(* A frame in a queue is its first, or stays in it.                        *)
LEMMA FramesRead ==
  ASSUME NEW S, NEW q \in Seq(S), q # << >>, NEW i \in DOMAIN q
  PROVE  q[i] = Head(q) \/ \E j \in DOMAIN Tail(q) : Tail(q)[j] = q[i]
<1>1. i # 1 => i - 1 \in DOMAIN Tail(q) /\ Tail(q)[i - 1] = q[i]
  OBVIOUS
<1>2. Head(q) = q[1]
  OBVIOUS
<1> QED BY <1>1, <1>2

(* What was relayed is in flight, or has become an entry.                  *)
LEMMA RelayedStays ==
  ASSUME IInv, NEW l \in Links, NEW s \in SubjectNames, SubjectRelayed(l, s),
         EntriesOf(interest[l[2]], s, l) # {} => EntriesOf(interest'[l[2]], s, l) # {},
         \/ up'[l] = up[l]
         \/ \E f : up'[l] = Append(up[l], f)
         \/ /\ up[l] # << >> /\ up'[l] = Tail(up[l])
            /\ \/ Head(up[l]).action # "SUBSCRIBE"
               \/ EntriesOf(interest'[l[2]], Head(up[l]).subject, l) # {}
  PROVE  SubjectRelayed(l, s)'
<1>1. CASE EntriesOf(interest[l[2]], s, l) # {}
  BY <1>1 DEF SubjectRelayed
<1>2. CASE \E id \in IDs : SubscribeFrame(s, id) \in InFlight(l)
  <2>1. PICK id \in IDs : \E i \in DOMAIN up[l] : up[l][i] = SubscribeFrame(s, id)
    BY <1>2 DEF InFlight
  <2>2. PICK i \in DOMAIN up[l] : up[l][i] = SubscribeFrame(s, id)
    BY <2>1
  <2>3. up[l] \in Seq(FromGateway(l[1]))
    BY KindsOfConnections DEF IInv, Flow, Carries, UpFrames
  <2>4. \/ Head(up[l]) = SubscribeFrame(s, id) /\ up'[l] = Tail(up[l])
           /\ \/ Head(up[l]).action # "SUBSCRIBE"
              \/ EntriesOf(interest'[l[2]], Head(up[l]).subject, l) # {}
        \/ \E j \in DOMAIN up'[l] : up'[l][j] = SubscribeFrame(s, id)
    <3>1. CASE up'[l] = up[l]
      BY <2>2, <3>1
    <3>2. CASE \E f : up'[l] = Append(up[l], f)
      <4>1. PICK f : up'[l] = Append(up[l], f)
        BY <3>2
      <4>2. \E j \in DOMAIN Append(up[l], f) : Append(up[l], f)[j] = up[l][i]
        BY <2>2, <2>3, FramesWritten
      <4> QED BY <2>2, <4>1, <4>2
    <3>3. CASE /\ up[l] # << >> /\ up'[l] = Tail(up[l])
               /\ \/ Head(up[l]).action # "SUBSCRIBE"
                  \/ EntriesOf(interest'[l[2]], Head(up[l]).subject, l) # {}
      <4>1. up[l][i] = Head(up[l]) \/ \E j \in DOMAIN Tail(up[l]) : Tail(up[l])[j] = up[l][i]
        BY <2>2, <2>3, <3>3, FramesRead
      <4>2. CASE up[l][i] = Head(up[l])
        BY <2>2, <3>3, <4>2
      <4>3. CASE \E j \in DOMAIN Tail(up[l]) : Tail(up[l])[j] = up[l][i]
        BY <2>2, <3>3, <4>3
      <4> QED BY <4>1, <4>2, <4>3
    <3> QED BY <3>1, <3>2, <3>3
  <2>5. SubscribeFrame(s, id).subject = s /\ SubscribeFrame(s, id).action = "SUBSCRIBE"
    BY DEF SubscribeFrame
  <2> QED BY <2>4, <2>5 DEF SubjectRelayed, InFlight
<1> QED BY <1>1, <1>2 DEF SubjectRelayed

(* What is to be shown of a step for one link.                             *)
LEMMA RelayedOverKept ==
  ASSUME IInv, [Next]_vars, NEW l \in Links, RelayedOver(l),
         \A x \in interest'[l[1]] : \/ \E y \in interest[l[1]] : y.subject = x.subject
                                    \/ ~SoleTo(l[1], x.subject)
                                    \/ SubjectRelayed(l, x.subject)',
         \A s \in SubjectNames : SubjectRelayed(l, s) => SubjectRelayed(l, s)'
  PROVE  RelayedOver(l)'
<1> SUFFICES ASSUME NEW x \in interest'[l[1]], SoleTo(l[1], x.subject)'
             PROVE  SubjectRelayed(l, x.subject)'
  BY DEF RelayedOver
<1>1. SoleTo(l[1], x.subject)
  BY SubjectsStay DEF SoleTo
<1>2. CASE \E y \in interest[l[1]] : y.subject = x.subject
  <2>1. x.subject \in SubjectNames /\ SubjectRelayed(l, x.subject)
    BY <1>1, <1>2, SoleEntries, KindsOfConnections DEF RelayedOver
  <2> QED BY <2>1
<1> QED BY <1>1, <1>2

(* Connections stay when none fails, and clients wait for the mesh.        *)
LEMMA MeshStaysUp ==
  ASSUME IInv, MayFail = {}, MeshFirst, MeshStays, [Next]_vars
  PROVE  MeshStays'
<1>1. ASSUME MeshIsUp, NEW l \in Links PROVE peerStatus'[l] = "connected" /\ stage'[l] = "managed"
  <2>0. peerStatus[l] = "connected" /\ stage[l] = "managed" /\ l \in Connections
    BY SMTT(30), <1>1, KindsOfConnections DEF MeshIsUp
  <2>1. ASSUME NEW d \in Clients, UserStep(d) \/ ClientStep(d) PROVE UNCHANGED <<peerStatus, stage>>
    BY <2>1 DEF UserStep, connect, subscribe, releaseSubscription, sendMessage, close,
                ClientStep, onAck, onGatewayMessage, processGatewayMessage, ClientReads, gatewayVars
  <2>2. ASSUME NEW e \in Connections, ServerStep(e)
        PROVE  UNCHANGED peerStatus /\ stage'[l] = stage[l]
    <3>1. CASE onDataReceived(e)
      BY <3>1 DEF onDataReceived, onSubscribe, onUnsubscribe, onMessage
    <3>2. CASE onConnect(e) \/ IgnoredBeforeConnect(e) \/ onMoveToLoopComplete(e)
      BY <2>0, <3>2, FunctionsOfState
         DEF onConnect, IgnoredBeforeConnect, onMoveToLoopComplete
    <3> QED BY <2>2, <3>1, <3>2 DEF ServerStep
  <2>3. ASSUME NEW e \in Connections, onDisconnected(e)
        PROVE  UNCHANGED peerStatus /\ stage'[l] = stage[l]
    <3>1. e \in Clients /\ stage' = [stage EXCEPT ![e] = "released"] /\ UNCHANGED peerStatus
      BY <2>3 DEF onDisconnected, Disconnected
    <3> QED BY <2>0, <3>1, FunctionsOfState, KindsOfConnections
  <2>7. ASSUME NEW e \in Connections, SocketDestroyed(e)
        PROVE  UNCHANGED peerStatus /\ stage'[l] = stage[l]
    BY <2>0, <2>7, FunctionsOfState DEF SocketDestroyed
  <2>4. ASSUME NEW k \in Links, LinkStatusStep(k)
        PROVE  peerStatus'[l] = "connected" /\ UNCHANGED stage
    <3>1. peerStatus \in [Links -> {"connecting", "connected", "retrying", "unresolved", "disconnected"}]
      BY DEF IInv, Shape
    <3> QED BY <2>0, <2>4, <3>1
               DEF LinkStatusStep, onConnectionSucceeded, onConnectionFailed,
                 RetryTimer, onResolutionFailed, onPeerDisconnected, PeerStep
  <2>5. ASSUME NEW k \in Links, PeerReads(k) PROVE UNCHANGED <<peerStatus, stage>>
    BY <2>5 DEF PeerReads
  <2>6. CASE UNCHANGED vars
    BY <2>0, <2>6 DEF vars, gatewayVars
  <2> QED BY <2>0, <2>1, <2>2, <2>3, <2>4, <2>5, <2>6, <2>7 DEF Next
<1>2. ASSUME NEW c \in Clients, client[c] = "new", client'[c] # "new" PROVE MeshIsUp
  <2>1. ASSUME NEW d \in Clients, UserStep(d) \/ ClientStep(d) PROVE MeshIsUp
    <3>1. CASE connect(d)
      BY <3>1 DEF connect
    <3>2. CASE client[d] # "new"
      BY <3>2 DEF MeshStays
    <3> QED BY <1>2, <2>1, <3>1, <3>2
            DEF UserStep, subscribe, releaseSubscription, sendMessage, close,
                ClientStep, onAck, onGatewayMessage, processGatewayMessage, ClientReads
  <2>2. ASSUME NEW e \in Connections,
               ServerStep(e) \/ onDisconnected(e) \/ SocketDestroyed(e)
        PROVE  UNCHANGED client
    BY <2>2
       DEF ServerStep, onConnect, IgnoredBeforeConnect, onMoveToLoopComplete,
           onDataReceived, onDisconnected, SocketDestroyed, clientVars
  <2>3. ASSUME NEW l \in Links, LinkStatusStep(l) \/ PeerReads(l) PROVE UNCHANGED client
    BY <2>3 DEF LinkStatusStep, onConnectionSucceeded, onConnectionFailed, RetryTimer,
                onResolutionFailed, onPeerDisconnected, PeerStep, PeerReads, clientVars
  <2>4. CASE UNCHANGED vars
    BY <1>2, <2>4 DEF vars, clientVars
  <2> QED BY SMTT(30), <1>2, <2>1, <2>2, <2>3, <2>4 DEF Next
<1>3. (\E c \in Clients : client'[c] # "new") => MeshIsUp
  BY <1>2 DEF MeshStays
<1>4. MeshIsUp => MeshIsUp'
  BY <1>1 DEF MeshIsUp
<1> QED BY <1>3, <1>4 DEF MeshStays

(* A link whose frames have not been read since the mesh came up.          *)
LEMMA LinksOfClients ==
  ASSUME IInv, Knowledge, MeshStays, NEW l \in Links,
         peerStatus[l] # "connected" \/ stage[l] # "managed"
  PROVE  \A x \in interest[l[1]] : ~SoleTo(l[1], x.subject)
<1> SUFFICES ASSUME NEW x \in interest[l[1]], SoleTo(l[1], x.subject) PROVE FALSE
  OBVIOUS
<1>1. PICK c \in Clients : subscriptions[c] # << >>
  BY SoleEntries, KindsOfConnections
<1>2. client[c] # "new"
  BY <1>1 DEF Knowledge, KnowledgeOf
<1> QED BY <1>2 DEF MeshStays, MeshIsUp

(* Steps that do nothing to what one link's server holds of it, and add    *)
(* nothing to the table it relays.                                         *)
LEMMA RelayingUntouched ==
  ASSUME IInv, [Next]_vars, NEW l \in Links, RelayedOver(l),
         interest'[l[1]] \subseteq interest[l[1]],
         \A s \in SubjectNames :
           EntriesOf(interest[l[2]], s, l) # {} => EntriesOf(interest'[l[2]], s, l) # {},
         \/ up'[l] = up[l]
         \/ \E f : up'[l] = Append(up[l], f)
         \/ /\ up[l] # << >> /\ up'[l] = Tail(up[l])
            /\ Head(up[l]).action # "SUBSCRIBE"
  PROVE  RelayedOver(l)'
<1>1. \A s \in SubjectNames : SubjectRelayed(l, s) => SubjectRelayed(l, s)'
  BY RelayedStays
<1> QED BY <1>1, RelayedOverKept

(* Clients write to their own connections.                                 *)
LEMMA ClientsKeepRelaying ==
  ASSUME IInv, [Next]_vars, NEW d \in Clients, UserStep(d) \/ ClientStep(d),
         NEW l \in Links, RelayedOver(l)
  PROVE  RelayedOver(l)'
<1>1. UNCHANGED interest
  BY DEF UserStep, connect, subscribe, releaseSubscription, sendMessage, close,
         ClientStep, onAck, onGatewayMessage, processGatewayMessage, ClientReads, gatewayVars
<1>2. up' = up \/ \E q : up' = [up EXCEPT ![d] = q]
  <2>1. CASE UserStep(d)
    BY <2>1
       DEF Written, UserStep, connect, subscribe, releaseSubscription, sendMessage, close
  <2>2. CASE ClientStep(d)
    BY <2>2
       DEF ClientStep, onAck, onGatewayMessage, processGatewayMessage, ClientReads,
           gatewayVars
  <2> QED BY SMTT(30), <2>1, <2>2
<1>3. up'[l] = up[l]
  BY <1>2, FunctionsOfState, KindsOfConnections
<1> QED BY SMTT(30), <1>1, <1>3, RelayingUntouched

(* Without failures a link that is up stays up.                            *)
LEMMA LinkStepsKeepRelaying ==
  ASSUME IInv, [Next]_vars, MayFail = {}, NEW k \in Links, LinkStatusStep(k) \/ PeerReads(k),
         NEW l \in Links, RelayedOver(l)
  PROVE  RelayedOver(l)'
<1>1. UNCHANGED interest
  BY DEF LinkStatusStep, onConnectionSucceeded, onConnectionFailed, RetryTimer,
         onResolutionFailed, onPeerDisconnected, PeerStep, PeerReads
<1>2. up' = up \/ up' = Written(up, k, ConnectMeshPeer)
  BY DEF LinkStatusStep, onConnectionSucceeded, onConnectionFailed, RetryTimer,
         onResolutionFailed, onPeerDisconnected, PeerStep, PeerReads
<1>3. up'[l] = up[l] \/ \E f : up'[l] = Append(up[l], f)
  <2>1. l \in DOMAIN up
    BY FunctionsOfState, KindsOfConnections
  <2>2. Written(up, k, ConnectMeshPeer)[l] = IF k = l THEN Append(up[l], ConnectMeshPeer) ELSE up[l]
    BY <2>1 DEF Written
  <2> QED BY <1>2, <2>2
<1> QED BY <1>1, <1>3, RelayingUntouched

(* Links are accepted before any client is there.                          *)
LEMMA AcceptingKeepsRelaying ==
  ASSUME IInv, Knowledge, MeshStays, [Next]_vars, NEW e \in Connections,
         onConnect(e) \/ IgnoredBeforeConnect(e) \/ onMoveToLoopComplete(e),
         NEW l \in Links, RelayedOver(l)
  PROVE  RelayedOver(l)'
<1>1. UNCHANGED <<interest, subscriptions>>
  BY DEF onConnect, IgnoredBeforeConnect, onMoveToLoopComplete, clientVars
<1>2. up' = up \/ up' = Read(up, e)
  BY DEF onConnect, IgnoredBeforeConnect, onMoveToLoopComplete
<1>3. CASE e # l
  <2>1. up'[l] = up[l]
    BY <1>2, <1>3, FunctionsOfState, KindsOfConnections DEF Read
  <2> QED BY <1>1, <2>1, RelayingUntouched
<1>4. CASE e = l
  <2>1. stage[l] # "managed"
    BY <1>4 DEF onConnect, IgnoredBeforeConnect, onMoveToLoopComplete
  <2>2. \A x \in interest'[l[1]] : ~SoleTo(l[1], x.subject)'
    BY <1>1, <2>1, LinksOfClients DEF SoleTo, EverSubscribed
  <2> QED BY <2>2 DEF RelayedOver
<1> QED BY <1>3, <1>4

(* What its server reads from a link, and writes to others.                *)
LEMMA UpOfLinks ==
  ASSUME IInv, NEW e \in Connections, NEW l \in Links, NEW frame
  PROVE  /\ e # l => /\ Read(up, e)[l] = up[l]
                     /\ \/ Relayed(Read(up, e), Server[e], frame)[l] = up[l]
                        \/ Relayed(Read(up, e), Server[e], frame)[l] = Append(up[l], frame)
         /\ e = l => /\ Read(up, e)[l] = Tail(up[l])
                     /\ Relayed(Read(up, e), Server[e], frame)[l] = Tail(up[l])
<1>1. /\ l \in Connections /\ Server[e] \in Gateways /\ Server[l] = l[2] /\ l[1] # l[2]
      /\ l \in Outgoing[Server[e]] <=> l[1] = Server[e]
  BY KindsOfConnections
<1>2. \/ Relayed(Read(up, e), Server[e], frame)[l] = Read(up, e)[l]
      \/ /\ l[1] = Server[e]
         /\ Relayed(Read(up, e), Server[e], frame)[l] = Append(Read(up, e)[l], frame)
  BY <1>1 DEF Relayed
<1>3. Read(up, e)[l] = IF e = l THEN Tail(up[l]) ELSE up[l]
  BY <1>1, FunctionsOfState DEF Read
<1> QED BY <1>1, <1>2, <1>3

(* What it writes to a link that was not lost.                             *)
LEMMA RelayedToLinks ==
  ASSUME IInv, NEW e \in Clients, NEW l \in Links, NEW frame,
         Server[e] = l[1], peerStatus[l] # "disconnected"
  PROVE  Relayed(Read(up, e), Server[e], frame)[l] = Append(up[l], frame)
<1>1. l \in Connections /\ l \in Outgoing[Server[e]] /\ e # l
  BY KindsOfConnections
<1>2. Relayed(Read(up, e), Server[e], frame)[l] = Append(Read(up, e)[l], frame)
  BY <1>1 DEF Relayed
<1> QED BY <1>1, <1>2, FunctionsOfState DEF Read

(* Nothing is unsubscribed under a subject that anyone uses.               *)
LEMMA onUnsubscribeKeepsRelaying ==
  ASSUME IInv, [Next]_vars, NoSubject \notin SubjectNames, NEW e \in Connections,
         NEW frame \in NextFrame(e), onUnsubscribe(e, frame), NEW l \in Links, RelayedOver(l)
  PROVE  RelayedOver(l)'
<1> DEFINE g == Server[e]
<1>1. /\ interest' = [interest EXCEPT ![g] = RemoveSubscription(interest[g], frame.subject, e)]
      /\ up' = Read(up, e) \/ up' = Relayed(Read(up, e), g, frame)
      /\ frame.action = "UNSUBSCRIBE" /\ up[e] # << >> /\ frame = Head(up[e])
  BY NextFrames DEF onUnsubscribe
<1>2. frame.subject = NoSubject
  <2>1. frame \in Releases
    BY <1>1, NextFrames, ClientFrames, GatewayFrames DEF UpFrames
  <2> QED BY <2>1 DEF Releases, UnsubscribeFrame
<1>3. \/ up'[l] = up[l]
      \/ \E f : up'[l] = Append(up[l], f)
      \/ up[l] # << >> /\ up'[l] = Tail(up[l]) /\ Head(up[l]).action # "SUBSCRIBE"
  <2>1. CASE e = l
    BY <1>1, <2>1, UpOfLinks
  <2>2. CASE e # l
    <3>1. CASE up' = Read(up, e)
      BY <2>2, <3>1, UpOfLinks
    <3>2. CASE up' = Relayed(Read(up, e), g, frame)
      <4>1. up'[l] = up[l] \/ up'[l] = Append(up[l], frame)
        BY <2>2, <3>2, UpOfLinks
      <4> QED BY <4>1
    <3> QED BY <1>1, <3>1, <3>2
  <2> QED BY <2>1, <2>2
<1> HIDE DEF g
<1>4. \A h \in Gateways : /\ interest'[h] \subseteq interest[h]
                          /\ \A x \in interest[h] : x.subject # NoSubject => x \in interest'[h]
  BY <1>1, <1>2, FunctionsOfState DEF RemoveSubscription, EntriesOf
<1>5. \A s \in SubjectNames :
        EntriesOf(interest[l[2]], s, l) # {} => EntriesOf(interest'[l[2]], s, l) # {}
  BY <1>4, KindsOfConnections DEF EntriesOf
<1> QED BY <1>3, <1>4, <1>5, KindsOfConnections, RelayingUntouched

(* A message changes no table.                                             *)
LEMMA onMessageKeepsRelaying ==
  ASSUME IInv, [Next]_vars, NEW e \in Connections,
         NEW frame \in NextFrame(e), onMessage(e, frame), NEW l \in Links, RelayedOver(l)
  PROVE  RelayedOver(l)'
<1>1. /\ UNCHANGED interest
      /\ up' = Read(up, e) /\ up[e] # << >> /\ frame = Head(up[e]) /\ frame.action # "SUBSCRIBE"
  BY NextFrames DEF onMessage, IsMessage
<1>2. \/ up'[l] = up[l]
      \/ up[l] # << >> /\ up'[l] = Tail(up[l]) /\ Head(up[l]).action # "SUBSCRIBE"
  BY <1>1, UpOfLinks
<1> QED BY <1>1, <1>2, RelayingUntouched

(* A client that leaves takes entries of its own gateway's table.          *)
LEMMA onDisconnectedKeepsRelaying ==
  ASSUME IInv, [Next]_vars, MayFail = {}, NEW e \in Connections, onDisconnected(e),
         NEW l \in Links, RelayedOver(l)
  PROVE  RelayedOver(l)'
<1> DEFINE g == Server[e]
<1>1. /\ e \in Clients /\ e # l
      /\ interest' = [interest EXCEPT ![g] = RemoveAllSubscriptions(interest[g], e)]
      /\ up' = up \/ up' = Read(up, e) \/ up' = [up EXCEPT ![e] = << >>]
  BY QueuesAfterTheEnd, KindsOfConnections DEF onDisconnected, Disconnected
<1> HIDE DEF g
<1>2. up'[l] = up[l]
  BY <1>1, FunctionsOfState, KindsOfConnections DEF Read
<1>3. \A h \in Gateways : /\ interest'[h] \subseteq interest[h]
                          /\ \A x \in interest[h] : x.socket # e => x \in interest'[h]
  BY <1>1, FunctionsOfState DEF RemoveAllSubscriptions
<1>4. \A s \in SubjectNames :
        EntriesOf(interest[l[2]], s, l) # {} => EntriesOf(interest'[l[2]], s, l) # {}
  BY <1>1, <1>3, KindsOfConnections DEF EntriesOf
<1> QED BY <1>2, <1>3, <1>4, KindsOfConnections, RelayingUntouched

(* The end of a released socket changes no table.                          *)
LEMMA SocketDestroyedKeepsRelaying ==
  ASSUME IInv, [Next]_vars, NEW e \in Connections, SocketDestroyed(e),
         NEW l \in Links, RelayedOver(l)
  PROVE  RelayedOver(l)'
<1>1. UNCHANGED <<interest, up>>
  BY DEF SocketDestroyed
<1> QED BY <1>1, RelayingUntouched

(* A gateway that reads a SUBSCRIBE tells its peers of a new subject, and  *)
(* has told them before of one that is in its table.                       *)
LEMMA onSubscribeKeepsRelaying ==
  ASSUME IInv, Knowledge, MeshStays, [Next]_vars, NEW e \in Connections, NEW frame \in NextFrame(e),
         onSubscribe(e, frame), NEW l \in Links, RelayedOver(l)
  PROVE  RelayedOver(l)'
<1> DEFINE g     == Server[e]
           s     == frame.subject
           table == AddSubscription(interest[g], s, frame.id, e)
<1>1. /\ interest' = [interest EXCEPT ![g] = table]
      /\ up' = IF SubscriptionCount(table, s) = 1 /\ e \notin Links
               THEN Relayed(Read(up, e), g, frame)
               ELSE Read(up, e)
      /\ frame.action = "SUBSCRIBE" /\ up[e] # << >> /\ frame = Head(up[e])
  BY NextFrames DEF onSubscribe
<1>2. g \in Gateways /\ l[1] \in Gateways /\ l[2] \in Gateways /\ l[1] # l[2]
  BY KindsOfConnections
<1>3. /\ interest[g] \subseteq table
      /\ \A x \in table : x \in interest[g] \/ x = Entry(s, frame.id, e)
      /\ EntriesOf(table, s, e) # {}
  <2>1. CASE EntriesOf(interest[g], s, e) # {}
    BY <2>1 DEF AddSubscription
  <2>2. CASE EntriesOf(interest[g], s, e) = {}
    <3>1. table = interest[g] \cup {Entry(s, frame.id, e)}
      BY <2>2 DEF AddSubscription
    <3>2. Entry(s, frame.id, e).subject = s /\ Entry(s, frame.id, e).socket = e
      BY DEF Entry
    <3> QED BY <3>1, <3>2 DEF EntriesOf
  <2> QED BY <2>1, <2>2
<1>4. Entry(s, frame.id, e).subject = s /\ Entry(s, frame.id, e).socket = e
  BY DEF Entry
<1>5. /\ e # l => \/ up'[l] = up[l]
                  \/ \E f : up'[l] = Append(up[l], f)
      /\ e = l => g = l[2] /\ up'[l] = Tail(up[l])
  <2>1. CASE e = l
    BY <1>1, <2>1, UpOfLinks, KindsOfConnections
  <2>2. CASE e # l
    <3>1. CASE up' = Read(up, e)
      BY <2>2, <3>1, UpOfLinks
    <3>2. CASE up' = Relayed(Read(up, e), g, frame)
      <4>1. up'[l] = up[l] \/ up'[l] = Append(up[l], frame)
        BY <2>2, <3>2, UpOfLinks
      <4> QED BY <2>2, <4>1
    <3> QED BY <1>1, <3>1, <3>2
  <2> QED BY <2>1, <2>2
<1>6. interest'[l[1]] = IF l[1] = g THEN table ELSE interest[l[1]]
  BY <1>1, <1>2, FunctionsOfState
<1>7. interest'[l[2]] = IF l[2] = g THEN table ELSE interest[l[2]]
  BY <1>1, <1>2, FunctionsOfState
<1>8. ASSUME l[1] = g, e \in Clients, SubscriptionCount(table, s) = 1
      PROVE  SubjectRelayed(l, s)'
  <2>1. e \notin Links /\ e # l
    BY <1>8, KindsOfConnections
  <2>2. up'[l] = Append(up[l], frame)
    <3>1. frame \in Subscribed(e)
      BY <1>1, <1>8, NextFrames, ClientFrames DEF UpFrames
    <3>2. subscriptions[e] # << >>
      BY <3>1 DEF Subscribed
    <3>3. client[e] # "new"
      BY <1>8, <3>2 DEF Knowledge, KnowledgeOf
    <3>4. peerStatus[l] # "disconnected"
      BY <1>8, <3>3 DEF MeshStays, MeshIsUp
    <3> QED BY <1>1, <1>8, <2>1, <3>4, RelayedToLinks
  <2>3. \E j \in DOMAIN Append(up[l], frame) : Append(up[l], frame)[j] = frame
    <3>1. up[l] \in Seq(FromGateway(l[1]))
      BY KindsOfConnections DEF IInv, Flow, Carries, UpFrames
    <3> QED BY ZenonT(60), <3>1, FramesWritten
  <2>4. PICK k \in DOMAIN subscriptions[e] : frame = SubscribeFrame(subscriptions[e][k].subject, k)
    <3>1. frame \in FromClient(e)
      BY <1>8, NextFrames, FramesOfCalls DEF IInv
    <3>2. frame \in Subscribed(e)
      BY <1>1, <3>1, ClientFrames
    <3> QED BY <3>2 DEF Subscribed
  <2>5. frame = SubscribeFrame(s, k) /\ k \in IDs
    BY <1>8, <2>4, SubscriptionIDs DEF SubscribeFrame, IInv
  <2>6. frame \in InFlight(l)'
    BY <2>2, <2>3 DEF InFlight
  <2> QED BY <2>5, <2>6 DEF SubjectRelayed
<1>9. ASSUME l[1] = g, e \in Clients, SubscriptionCount(table, s) # 1
      PROVE  \E y \in interest[g] : y.subject = s
  <2> SUFFICES ASSUME \A y \in interest[g] : y.subject # s PROVE FALSE
    OBVIOUS
  <2>1. EntriesOf(interest[g], s, e) = {}
    BY DEF EntriesOf
  <2>2. table = interest[g] \cup {Entry(s, frame.id, e)}
    BY <2>1 DEF AddSubscription
  <2>3. {x \in table : x.subject = s} = {Entry(s, frame.id, e)}
    BY <1>4, <2>2
  <2>4. SubscriptionCount(table, s) = 1
    BY <2>3, FS_Singleton DEF SubscriptionCount
  <2> QED BY <1>9, <2>4
<1>10. ASSUME l[1] = g, e \in Links PROVE ~SoleTo(g, s)
  <2>1. e[1] # g /\ e[1] \in Gateways
    BY <1>10, KindsOfConnections
  <2>2. frame \in Relays(e[1])
    BY <1>1, <1>10, NextFrames, GatewayFrames, KindsOfConnections DEF UpFrames
  <2>3. s \in Told(e[1])
    BY <2>2 DEF Relays, SubscribeFrame
  <2> QED BY <2>1, <2>3 DEF Told, SoleTo
<1> HIDE DEF g, table, s
<1>11. \A x \in interest'[l[1]] : \/ \E y \in interest[l[1]] : y.subject = x.subject
                                  \/ ~SoleTo(l[1], x.subject)
                                  \/ SubjectRelayed(l, x.subject)'
  <2> SUFFICES ASSUME NEW x \in interest'[l[1]], x \notin interest[l[1]]
               PROVE  \/ \E y \in interest[l[1]] : y.subject = x.subject
                      \/ ~SoleTo(l[1], x.subject)
                      \/ SubjectRelayed(l, x.subject)'
    OBVIOUS
  <2>1. l[1] = g /\ x.subject = s
    BY <1>3, <1>4, <1>6
  <2> QED BY <1>8, <1>9, <1>10, <2>1, KindsOfConnections
<1>12. \A r : EntriesOf(interest[l[2]], r, l) # {} => EntriesOf(interest'[l[2]], r, l) # {}
  BY <1>3, <1>7 DEF EntriesOf
<1>13. ASSUME e = l PROVE EntriesOf(interest'[l[2]], s, l) # {}
  BY <1>3, <1>5, <1>7, <1>13
<1>14. \/ up'[l] = up[l]
       \/ \E f : up'[l] = Append(up[l], f)
       \/ /\ up[l] # << >> /\ up'[l] = Tail(up[l])
          /\ \/ Head(up[l]).action # "SUBSCRIBE"
             \/ EntriesOf(interest'[l[2]], Head(up[l]).subject, l) # {}
  BY <1>1, <1>5, <1>13 DEF s
<1>15. \A r \in SubjectNames : SubjectRelayed(l, r) => SubjectRelayed(l, r)'
  BY <1>12, <1>14, RelayedStays
<1> QED BY <1>11, <1>15, RelayedOverKept

(* Every step keeps the relaying.                                          *)
LEMMA RelayingInductive ==
  ASSUME MayFail = {}, MeshFirst, NoSubject \notin SubjectNames
  PROVE  IInv /\ Knowledge /\ Relaying /\ [Next]_vars => Relaying'
<1> SUFFICES ASSUME IInv, Knowledge, Relaying, [Next]_vars PROVE Relaying'
  OBVIOUS
<1>1. MeshStays /\ MeshStays'
  BY MeshStaysUp DEF Relaying
<1> SUFFICES ASSUME NEW l \in Links PROVE RelayedOver(l)'
  BY <1>1 DEF Relaying
<1>2. RelayedOver(l)
  BY DEF Relaying
<1>3. CASE UNCHANGED vars
  BY <1>2, <1>3, RelayingUntouched DEF vars, gatewayVars
<1>4. ASSUME NEW d \in Clients, UserStep(d) \/ ClientStep(d) PROVE RelayedOver(l)'
  BY <1>2, <1>4, ClientsKeepRelaying
<1>5. ASSUME NEW e \in Connections, ServerStep(e) PROVE RelayedOver(l)'
  <2>1. CASE onDataReceived(e)
    BY <1>1, <1>2, <2>1, onSubscribeKeepsRelaying, onUnsubscribeKeepsRelaying,
       onMessageKeepsRelaying
       DEF onDataReceived
  <2>2. CASE onConnect(e) \/ IgnoredBeforeConnect(e) \/ onMoveToLoopComplete(e)
    BY <1>1, <1>2, <2>2, AcceptingKeepsRelaying
  <2> QED BY <1>5, <2>1, <2>2 DEF ServerStep
<1>6. ASSUME NEW e \in Connections, onDisconnected(e) PROVE RelayedOver(l)'
  BY <1>2, <1>6, onDisconnectedKeepsRelaying
<1>8. ASSUME NEW e \in Connections, SocketDestroyed(e) PROVE RelayedOver(l)'
  BY <1>2, <1>8, SocketDestroyedKeepsRelaying
<1>7. ASSUME NEW k \in Links, LinkStatusStep(k) \/ PeerReads(k) PROVE RelayedOver(l)'
  BY <1>2, <1>7, LinkStepsKeepRelaying
<1> QED BY <1>3, <1>4, <1>5, <1>6, <1>7, <1>8 DEF Next

(* When nothing is on its way, all peers of a client's gateway have the    *)
(* interest in a subject that no client of another gateway has subscribed  *)
(* to (ServiceManager::onSubscribe), as far as the mesh was up before the  *)
(* clients and no connection failed.                                       *)
THEOREM SoleInterestReachesTheMeshHolds ==
  ASSUME MayFail = {}, MeshFirst, NoSubject \notin SubjectNames
  PROVE  Spec => []SoleInterestReachesTheMesh
<1>1. Init => Relaying
  BY KindsOfConnections DEF Init, Relaying, MeshStays, RelayedOver
<1>2. IInv /\ Knowledge /\ Relaying /\ [Next]_vars => Relaying'
  BY RelayingInductive
<1>3. Spec => []Knowledge
  BY KnowledgeAlways
<1>4. IInv /\ Knowledge /\ Relaying => SoleInterestReachesTheMesh
  <2> SUFFICES ASSUME IInv, Knowledge, Relaying, Quiet, NEW c \in Clients, Attached(c),
                      NEW id \in DOMAIN subscriptions[c],
                      SoleTo(Home[c], subscriptions[c][id].subject),
                      NEW l \in Outgoing[Home[c]]
               PROVE  EntriesOf(interest[l[2]], subscriptions[c][id].subject, l) # {}
    BY DEF SoleInterestReachesTheMesh, PeersKnow, SoleTo
  <2> DEFINE s == subscriptions[c][id].subject
  <2>1. l \in Links /\ l[1] = Home[c] /\ c \in Connections /\ l \in Connections
    BY KindsOfConnections
  <2>2. InFlight(c) = {} /\ InFlight(l) = {}
    BY <2>1 DEF Quiet, InFlight
  <2>3. EntriesOf(interest[Home[c]], s, c) # {}
    BY <2>2 DEF Knowledge, KnowledgeOf, SubjectKnown, Attached
  <2>4. PICK x \in interest[l[1]] : x.subject = s
    BY <2>1, <2>3 DEF EntriesOf
  <2>5. SubjectRelayed(l, s)
    BY <2>1, <2>4 DEF Relaying, RelayedOver
  <2> QED BY <2>2, <2>5 DEF SubjectRelayed
<1> QED BY <1>1, <1>2, <1>3, <1>4, Invariance, PTL DEF Spec
-----------------------------------------------------------------------------
(* What each gateway does, as a ServiceManager: its table holds sockets    *)
(* only that have connected, so a new one gets nothing, whichever kind it  *)
(* will be.                                                                *)
ConnectedOnly ==
  \A g \in Gateways : \A x \in interest[g] : stage[x.socket] # "unregistered"

(* Which end of a connection is whose.                                     *)
LEMMA EndsOfGateways ==
  ASSUME NEW g \in Gateways
  PROVE  /\ \A e \in Accepted[g] : e \in Connections /\ e \notin Outgoing[g] /\ Server[e] = g
         /\ \A l \in Outgoing[g] : l \in Connections /\ l \in Links /\ l \notin Accepted[g]
                                   /\ Server[l] # g /\ l[1] = g
         /\ \A e \in Connections : Server[e] = g => e \in Accepted[g]
         /\ \A l \in Links : l[1] = g => l \in Outgoing[g]
         /\ \A c \in Clients : c \notin Outgoing[g]
BY KindsOfConnections

(* What is kept for each connection and gateway.                           *)
LEMMA QueuesOfState ==
  ASSUME IInv
  PROVE  /\ DOMAIN up = Connections /\ DOMAIN down = Connections /\ DOMAIN stage = Connections
         /\ DOMAIN interest = Gateways /\ DOMAIN counted = Gateways /\ DOMAIN peerStatus = Links
BY DEF IInv, Shape, Flow, Carries, UpFrames, DownFrames

(* Steps of others.                                                        *)
LEMMA NotOfThisGateway ==
  ASSUME NEW g \in Gateways,
         \A e \in Accepted[g] : stage'[e] = stage[e] /\ down'[e] = down[e],
         \A l \in Outgoing[g] : peerStatus'[l] = peerStatus[l] /\ up'[l] = up[l],
         interest'[g] = interest[g], counted'[g] = counted[g]
  PROVE  UNCHANGED SM(g)!vars
BY DEF SM!vars

(* A peer or a client reads what the gateway wrote.                        *)
LEMMA ReadFromGateway ==
  ASSUME NEW g \in Gateways, NEW d \in Accepted[g] \cup Outgoing[g],
         \A e \in Accepted[g] : stage'[e] = stage[e] /\ (e # d => down'[e] = down[e]),
         \A l \in Outgoing[g] : peerStatus'[l] = peerStatus[l] /\ (l # d => up'[l] = up[l]),
         interest'[g] = interest[g], counted'[g] = counted[g],
         d \in Accepted[g] => Sends(d) /\ down[d] # << >> /\ down'[d] = Tail(down[d]),
         d \in Outgoing[g] => Linked(d) /\ up[d] # << >> /\ up'[d] = Tail(up[d])
  PROVE  SM(g)!Next
<1> DEFINE ends == Accepted[g] \cup Outgoing[g]
           out  == [e \in ends |-> IF e \in Outgoing[g] THEN up[e] ELSE down[e]]
           new  == [e \in ends |-> IF e \in Outgoing[g] THEN up'[e] ELSE down'[e]]
<1>1. \A e \in Accepted[g] : e \notin Outgoing[g]
  BY EndsOfGateways
<1>2. new = [out EXCEPT ![d] = Tail(out[d])] /\ out[d] # << >>
  BY <1>1
<1>3. SM(g)!Delivered(d)
  BY <1>1, <1>2 DEF SM!Delivered, SM!Endpoints, Sends, Linked
<1> QED BY <1>3 DEF SM!Next, SM!Endpoints

(* What the end of a connection leaves is what ServiceManager says.        *)
LEMMA EndImplements ==
  ASSUME IInv, NEW g \in Gateways, NEW d \in Accepted[g] \cup Outgoing[g],
         d \in Accepted[g] => down' \in Unsent(down, d) /\ \A l \in Outgoing[g] : up'[l] = up[l],
         d \in Outgoing[g] => up' \in Unsent(up, d) /\ UNCHANGED down
  PROVE  SM(g)!LosesUnsent(d)
<1> DEFINE ends == Accepted[g] \cup Outgoing[g]
           out  == [e \in ends |-> IF e \in Outgoing[g] THEN up[e] ELSE down[e]]
           new  == [e \in ends |-> IF e \in Outgoing[g] THEN up'[e] ELSE down'[e]]
<1>1. /\ \A e \in Accepted[g] : e \notin Outgoing[g]
      /\ ends \subseteq DOMAIN down /\ ends \subseteq DOMAIN up
  BY EndsOfGateways, QueuesOfState
<1>2. \E n \in 0 .. Len(out[d]) : new = [out EXCEPT ![d] = SubSeq(out[d], 1, n)]
  <2>1. CASE d \in Accepted[g]
    <3>1. PICK n \in 0 .. Len(down[d]) : down' = [down EXCEPT ![d] = SubSeq(down[d], 1, n)]
      BY <2>1 DEF Unsent
    <3>2. out[d] = down[d] /\ new[d] = SubSeq(down[d], 1, n)
      BY <1>1, <2>1, <3>1
    <3>3. \A e \in ends : e # d => new[e] = out[e]
      BY <1>1, <2>1, <3>1
    <3>4. new = [out EXCEPT ![d] = SubSeq(out[d], 1, n)]
      BY <3>2, <3>3
    <3> QED BY <3>2, <3>4
  <2>2. CASE d \in Outgoing[g]
    <3>1. PICK n \in 0 .. Len(up[d]) : up' = [up EXCEPT ![d] = SubSeq(up[d], 1, n)]
      BY <2>2 DEF Unsent
    <3>2. out[d] = up[d] /\ new[d] = SubSeq(up[d], 1, n)
      BY <1>1, <2>2, <3>1
    <3>3. \A e \in ends : e # d => new[e] = out[e]
      BY <1>1, <2>2, <3>1
    <3>4. new = [out EXCEPT ![d] = SubSeq(out[d], 1, n)]
      BY <3>2, <3>3
    <3> QED BY <3>2, <3>4
  <2> QED BY <2>1, <2>2
<1> QED BY <1>2 DEF SM!LosesUnsent, SM!Endpoints

(* The users' calls write what no gateway has read yet: stuttering.        *)
LEMMA UserStepsImplement ==
  ASSUME IInv, NEW g \in Gateways, NEW c \in Clients, UserStep(c)
  PROVE  UNCHANGED SM(g)!vars
<1>1. UNCHANGED <<stage, peerStatus, interest, down, counted>>
  BY DEF UserStep, connect, subscribe, releaseSubscription, sendMessage, close
<1>2. up' = up \/ \E q : up' = [up EXCEPT ![c] = q]
  BY DEF Written, UserStep, connect, subscribe, releaseSubscription, sendMessage, close
<1>3. \A e \in Outgoing[g] : up'[e] = up[e]
  BY <1>2, FunctionsOfState, EndsOfGateways
<1> QED BY <1>1, <1>3, NotOfThisGateway

(* A client that reads makes room on its socket: Delivered.                *)
LEMMA ClientStepsImplement ==
  ASSUME IInv, NEW g \in Gateways, NEW c \in Clients, ClientStep(c)
  PROVE  UNCHANGED SM(g)!vars \/ SM(g)!Next
<1>1. CASE processGatewayMessage(c)
  BY <1>1 DEF processGatewayMessage, gatewayVars, SM!vars
<1>2. CASE ClientReads(c)
  <2>1. /\ UNCHANGED <<stage, peerStatus, interest, up, counted>>
        /\ Sends(c) /\ down[c] # << >> /\ down' = [down EXCEPT ![c] = Tail(down[c])]
    BY <1>2 DEF ClientReads, Read
  <2>2. CASE c \in Accepted[g]
    BY <2>1, <2>2, EndsOfGateways, QueuesOfState, ReadFromGateway
  <2>3. CASE c \notin Accepted[g]
    BY <2>1, <2>3, EndsOfGateways, QueuesOfState, NotOfThisGateway
  <2> QED BY <2>2, <2>3
<1> QED BY <1>1, <1>2 DEF ClientStep, onAck, onGatewayMessage

(* Frames that a gateway passes over, or that only make it a server.       *)
LEMMA AcceptingImplements ==
  ASSUME IInv, NEW g \in Gateways, SM(g)!Room, NEW e \in Connections,
         onConnect(e) \/ IgnoredBeforeConnect(e) \/ onMoveToLoopComplete(e)
  PROVE  UNCHANGED SM(g)!vars \/ SM(g)!Next
<1>1. CASE onMoveToLoopComplete(e)
  <2>1. /\ stage[e] = "moving" /\ stage' = [stage EXCEPT ![e] = "managed"]
        /\ down' = [down EXCEPT ![e] = Append(down[e], Ack)]
        /\ UNCHANGED <<peerStatus, interest, up, counted>>
    BY <1>1 DEF onMoveToLoopComplete, Written
  <2>2. CASE e \in Accepted[g]
    <3> DEFINE sockets == Accepted[g]
               ends    == Accepted[g] \cup Outgoing[g]
    <3>a. [x \in sockets |-> stage'[x]] = [[x \in sockets |-> stage[x]] EXCEPT ![e] = "managed"]
      BY <2>1, <2>2, EndsOfGateways, QueuesOfState
    <3>b. [x \in sockets |-> x \in Links /\ stage'[x] # "unregistered"]
            = [x \in sockets |-> x \in Links /\ stage[x] # "unregistered"]
      BY <2>1, <2>2, EndsOfGateways, QueuesOfState
    <3>c. [x \in ends |-> IF x \in Outgoing[g] THEN up'[x] ELSE down'[x]]
            = [[x \in ends |-> IF x \in Outgoing[g] THEN up[x] ELSE down[x]]
                 EXCEPT ![e] = Append(@, Ack)]
      <4>1. e \in ends /\ e \notin Outgoing[g] /\ down'[e] = Append(down[e], Ack)
            /\ \A x \in ends : x # e => down'[x] = down[x]
        BY <2>1, <2>2, EndsOfGateways, QueuesOfState
      <4> QED BY <2>1, <4>1
    <3>1. SM(g)!onMoveToLoopComplete(e)
      BY <2>1, <2>2, <3>a, <3>b, <3>c
         DEF SM!onMoveToLoopComplete, SM!Write, SM!Endpoints, SM!Ack, Ack
    <3> QED BY <2>2, <3>1 DEF SM!Next, SM!SocketStep
  <2>3. CASE e \notin Accepted[g]
    BY <2>1, <2>3, EndsOfGateways, QueuesOfState, NotOfThisGateway
  <2> QED BY <2>2, <2>3
<1>2. CASE onConnect(e) \/ IgnoredBeforeConnect(e)
  <2>1. /\ stage[e] = "unregistered"
        /\ stage' = stage \/ stage' = [stage EXCEPT ![e] = "moving"]
        /\ up[e] # << >> /\ up' = [up EXCEPT ![e] = Tail(up[e])]
        /\ e \in Links => Linked(e)
        /\ UNCHANGED <<peerStatus, interest, down, counted>>
    BY <1>2 DEF onConnect, IgnoredBeforeConnect, NextFrame, Read
  <2>2. CASE e \in Outgoing[g]
    BY <2>1, <2>2, EndsOfGateways, QueuesOfState, ReadFromGateway
  <2>3. CASE e \notin Accepted[g] \cup Outgoing[g]
    BY <2>1, <2>3, EndsOfGateways, QueuesOfState, NotOfThisGateway
  <2>4. CASE e \in Accepted[g] /\ stage' = stage
    BY <2>1, <2>4, EndsOfGateways, QueuesOfState, NotOfThisGateway
  <2>5. CASE e \in Accepted[g] /\ stage' = [stage EXCEPT ![e] = "moving"]
    <3> DEFINE sockets == Accepted[g]
    <3>a. [x \in sockets |-> stage'[x]] = [[x \in sockets |-> stage[x]] EXCEPT ![e] = "moving"]
      BY <2>1, <2>5, EndsOfGateways, QueuesOfState
    <3>b. /\ e \in sockets /\ stage'[e] = "moving"
          /\ \A x \in sockets : x # e => stage'[x] = stage[x]
      BY <2>1, <2>5, EndsOfGateways, QueuesOfState
    <3>c. \A x \in Outgoing[g] : up'[x] = up[x]
      BY <2>1, <2>5, EndsOfGateways, QueuesOfState
    <3>1. CASE e \in Links
      <4>1. [x \in sockets |-> x \in Links /\ stage'[x] # "unregistered"]
              = [[x \in sockets |-> x \in Links /\ stage[x] # "unregistered"] EXCEPT ![e] = TRUE]
        BY <3>b, <3>1
      <4>2. SM(g)!registerSocket(e, TRUE)
        BY <2>1, <2>5, <3>a, <3>c, <4>1 DEF SM!registerSocket
      <4> QED BY <2>5, <4>2 DEF SM!Next, SM!SocketStep
    <3>2. CASE e \notin Links
      <4>1. [x \in sockets |-> x \in Links /\ stage'[x] # "unregistered"]
              = [[x \in sockets |-> x \in Links /\ stage[x] # "unregistered"] EXCEPT ![e] = FALSE]
        BY <3>b, <3>2
      <4>2. SM(g)!registerSocket(e, FALSE)
        BY <2>1, <2>5, <3>a, <3>c, <4>1 DEF SM!registerSocket
      <4> QED BY <2>5, <4>2 DEF SM!Next, SM!SocketStep
    <3> QED BY <3>1, <3>2
  <2> QED BY <2>1, <2>2, <2>3, <2>4, <2>5
<1> QED BY <1>1, <1>2

(* The table of a gateway names its own sockets, which have connected.     *)
LEMMA SocketsOfEntries ==
  ASSUME IInv, NEW g \in Gateways, NEW x \in interest[g]
  PROVE  x.socket \in Accepted[g]
<1>1. PICK e \in Accepted[g] : x \in EntriesAbout(e)
  BY DEF IInv, Tables
<1> QED BY <1>1 DEF EntriesAbout, Entry

(* Every step keeps the entries those of sockets that have connected.      *)
LEMMA ConnectedInductive == IInv /\ ConnectedOnly /\ [Next]_vars => ConnectedOnly'
<1> SUFFICES ASSUME IInv, ConnectedOnly, [Next]_vars, NEW g \in Gateways, NEW x \in interest'[g]
             PROVE  stage'[x.socket] # "unregistered"
  BY DEF ConnectedOnly
<1>1. CASE UNCHANGED <<stage, interest>>
  BY SMTT(30), <1>1 DEF ConnectedOnly
<1>2. ASSUME NEW c \in Clients, UserStep(c) \/ ClientStep(c) PROVE UNCHANGED <<stage, interest>>
  BY <1>2 DEF UserStep, connect, subscribe, releaseSubscription, sendMessage, close,
              ClientStep, onAck, onGatewayMessage, processGatewayMessage, ClientReads, gatewayVars
<1>3. ASSUME NEW e \in Connections, onConnect(e) \/ IgnoredBeforeConnect(e) \/ onMoveToLoopComplete(e)
      PROVE  stage'[x.socket] # "unregistered"
  <2>1. /\ UNCHANGED interest
        /\ stage' = stage \/ stage' = [stage EXCEPT ![e] = "moving"]
                          \/ stage' = [stage EXCEPT ![e] = "managed"]
    BY <1>3 DEF onConnect, IgnoredBeforeConnect, onMoveToLoopComplete
  <2>2. x.socket \in Connections /\ stage[x.socket] # "unregistered"
    BY <2>1, SocketsOfEntries, KindsOfConnections DEF ConnectedOnly
  <2> QED BY <2>1, <2>2, QueuesOfState DEF CanReceive
<1>4. ASSUME NEW e \in Connections, onDataReceived(e) PROVE stage'[x.socket] # "unregistered"
  <2>1. UNCHANGED stage /\ CanReceive(e)
    BY <1>4 DEF onDataReceived, onSubscribe, onUnsubscribe, onMessage
  <2>2. x \in interest[g] \/ x.socket = e
    <3>1. PICK frame \in NextFrame(e) :
            onSubscribe(e, frame) \/ onUnsubscribe(e, frame) \/ onMessage(e, frame)
      BY <1>4 DEF onDataReceived
    <3>2. CASE onMessage(e, frame)
      BY <3>2 DEF onMessage
    <3>3. CASE onUnsubscribe(e, frame)
      BY <3>3, QueuesOfState DEF onUnsubscribe, RemoveSubscription
    <3>4. CASE onSubscribe(e, frame)
      BY <3>4, QueuesOfState DEF onSubscribe, AddSubscription, Entry
    <3> QED BY <3>1, <3>2, <3>3, <3>4
  <2> QED BY <2>1, <2>2 DEF ConnectedOnly, CanReceive
<1>8. ASSUME NEW e \in Connections, SocketDestroyed(e) PROVE stage'[x.socket] # "unregistered"
  <2>1. UNCHANGED interest /\ stage' = [stage EXCEPT ![e] = "destroyed"]
    BY <1>8 DEF SocketDestroyed
  <2>2. x.socket \in Connections /\ stage[x.socket] # "unregistered"
    BY <2>1, SocketsOfEntries, KindsOfConnections DEF ConnectedOnly
  <2> QED BY <2>1, <2>2, QueuesOfState
<1>5. ASSUME NEW e \in Connections, onDisconnected(e) PROVE stage'[x.socket] # "unregistered"
  <2>1. /\ stage' = [stage EXCEPT ![e] = "released"]
        /\ interest' = [interest EXCEPT ![Server[e]] =
                          RemoveAllSubscriptions(interest[Server[e]], e)]
    BY <1>5 DEF onDisconnected, Disconnected
  <2>2. x \in interest[g] /\ (g = Server[e] => x.socket # e)
    BY <2>1, QueuesOfState DEF RemoveAllSubscriptions
  <2>3. x.socket \in Connections /\ Server[x.socket] = g /\ stage[x.socket] # "unregistered"
    BY <2>2, SocketsOfEntries, KindsOfConnections DEF ConnectedOnly
  <2> QED BY <2>1, <2>2, <2>3, QueuesOfState DEF CanReceive
<1>6. ASSUME NEW l \in Links, LinkStatusStep(l) \/ PeerReads(l) PROVE UNCHANGED <<stage, interest>>
  BY <1>6 DEF LinkStatusStep, onConnectionSucceeded, onConnectionFailed, RetryTimer,
              onResolutionFailed, onPeerDisconnected, PeerStep, PeerReads
<1>7. CASE UNCHANGED vars
  BY <1>1, <1>7 DEF vars, gatewayVars
<1> QED BY <1>1, <1>2, <1>3, <1>4, <1>5, <1>6, <1>7, <1>8 DEF Next, ServerStep

(* The copies that a gateway makes, with what it knows of the socket.      *)
LEMMA CopiesOfSockets ==
  ASSUME IInv, ConnectedOnly, NEW g \in Gateways, NEW e \in Accepted[g],
         NEW topic, NEW fromPeer \in BOOLEAN
  PROVE  CopiesTo(interest[g], topic, e, e \in Links /\ stage[e] # "unregistered", fromPeer)
           = CopiesTo(interest[g], topic, e, e \in Links, fromPeer)
<1>1. CASE stage[e] # "unregistered"
  BY <1>1
<1>2. CASE stage[e] = "unregistered"
  <2>1. {x \in MatchingEntries(interest[g], topic) : x.socket = e} = {}
    BY <1>2 DEF ConnectedOnly, MatchingEntries
  <2> QED BY <2>1 DEF CopiesTo
<1> QED BY <1>1, <1>2

(* The operators of the two modules are the same.                          *)
LEMMA SameOperators ==
  ASSUME NEW g \in Gateways
  PROVE  /\ \A topic, m, S : SM(g)!MessageFrame(topic, m, S) = MessageFrame(topic, m, S)
         /\ \A table, topic : SM(g)!MatchingEntries(table, topic) = MatchingEntries(table, topic)
         /\ \A table, topic, e, toPeer, peer :
              SM(g)!CopiesTo(table, topic, e, toPeer, peer) = CopiesTo(table, topic, e, toPeer, peer)
         /\ \A table, subject, id, e :
              SM(g)!AddSubscription(table, subject, id, e) = AddSubscription(table, subject, id, e)
         /\ \A table, subject, e :
              SM(g)!RemoveSubscription(table, subject, e) = RemoveSubscription(table, subject, e)
         /\ \A table, e : SM(g)!RemoveAllSubscriptions(table, e) = RemoveAllSubscriptions(table, e)
         /\ \A table, subject : SM(g)!SubscriptionCount(table, subject)
                                  = SubscriptionCount(table, subject)
         /\ \A subject, id : SM(g)!SubscribeFrame(subject, id) = SubscribeFrame(subject, id)
         /\ \A subject, id : SM(g)!UnsubscribeFrame(subject, id) = UnsubscribeFrame(subject, id)
<1>1. \A pattern, subject : SM(g)!Matches(pattern, subject) <=> Matches(pattern, subject)
  BY DEF SM!Matches, Matches, SM!TokenMatches, TokenMatches, SM!WILDCARD_GREATER_THAN,
         WILDCARD_GREATER_THAN, SM!WILDCARD_STAR, WILDCARD_STAR, SM!NoSubject, NoSubject
<1>2. \A table, topic : SM(g)!MatchingEntries(table, topic) = MatchingEntries(table, topic)
  BY <1>1 DEF SM!MatchingEntries, MatchingEntries
<1>3. \A table, topic, e, toPeer, peer :
        SM(g)!CopiesTo(table, topic, e, toPeer, peer) = CopiesTo(table, topic, e, toPeer, peer)
  BY <1>2 DEF SM!CopiesTo, CopiesTo
<1>4. \A table, subject, e : SM(g)!EntriesOf(table, subject, e) = EntriesOf(table, subject, e)
  BY DEF SM!EntriesOf, EntriesOf
<1>5. \A table, subject, id, e :
        SM(g)!AddSubscription(table, subject, id, e) = AddSubscription(table, subject, id, e)
  BY <1>4 DEF SM!AddSubscription, AddSubscription, SM!Entry, Entry
<1>6. \A table, subject, e :
        SM(g)!RemoveSubscription(table, subject, e) = RemoveSubscription(table, subject, e)
  BY <1>4 DEF SM!RemoveSubscription, RemoveSubscription
<1>7. /\ \A topic, m, S : SM(g)!MessageFrame(topic, m, S) = MessageFrame(topic, m, S)
      /\ \A subject, id : SM(g)!SubscribeFrame(subject, id) = SubscribeFrame(subject, id)
      /\ \A subject, id : SM(g)!UnsubscribeFrame(subject, id) = UnsubscribeFrame(subject, id)
  BY DEF SM!MessageFrame, MessageFrame, SM!SubscribeFrame, SubscribeFrame,
         SM!UnsubscribeFrame, UnsubscribeFrame
<1>8. \A table, e : SM(g)!RemoveAllSubscriptions(table, e) = RemoveAllSubscriptions(table, e)
  BY DEF SM!RemoveAllSubscriptions, RemoveAllSubscriptions
<1>9. \A table, subject : SM(g)!SubscriptionCount(table, subject)
                             = SubscriptionCount(table, subject)
  <2>1. \A S : SM(g)!Cardinality(S) = Cardinality(S)
    BY DEF SM!Cardinality, Cardinality
  <2> QED BY <2>1 DEF SM!SubscriptionCount, SubscriptionCount
<1> QED BY <1>2, <1>3, <1>5, <1>6, <1>7, <1>8, <1>9

(* The pointers that onMessage follows are of the gateway's own sockets.   *)
LEMMA PointersImplement ==
  ASSUME IInv, NEW g \in Gateways, NEW frame, PointersAreValid(g, frame)
  PROVE  SM(g)!PointersAreValid(frame.subject)
<1> SUFFICES ASSUME NEW x \in SM(g)!MatchingEntries(interest[g], frame.subject)
             PROVE  [e \in Accepted[g] |-> stage[e]][x.socket] # "destroyed"
  BY DEF SM!PointersAreValid
<1>1. x \in MatchingEntries(interest[g], frame.subject)
  BY SameOperators
<1>2. x.socket \in Accepted[g] /\ stage[x.socket] # "destroyed"
  BY <1>1, SocketsOfEntries DEF MatchingEntries, PointersAreValid
<1> QED BY <1>2

(* Two functions that agree.                                               *)
LEMMA SameFunction ==
  ASSUME NEW S, NEW f, NEW h, f = [x \in S |-> f[x]], h = [x \in S |-> h[x]],
         \A x \in S : f[x] = h[x]
  PROVE  f = h
OBVIOUS

(* What is forwarded to the sockets of one gateway is Forward's doing.     *)
LEMMA ForwardImplements ==
  ASSUME IInv, ConnectedOnly, NEW g \in Gateways, NEW fromPeer \in BOOLEAN, NEW frame,
         NEW queues, \A e \in Accepted[g] : queues[e] = down[e],
         \A e \in Accepted[g] : down'[e] = Forwarded(queues, g, frame, fromPeer)[e],
         \A l \in Outgoing[g] : up'[l] = up[l]
  PROVE  SM(g)!Forward(frame.subject, frame.msg, fromPeer)
<1> DEFINE ends == Accepted[g] \cup Outgoing[g]
           copies(e) == IF Server[e] # g THEN {}
                        ELSE CopiesTo(interest[g], frame.subject, e, e \in Links, fromPeer)
           isMeshPeer == [e \in Accepted[g] |-> e \in Links /\ stage[e] # "unregistered"]
           theirs(e) == IF e \in Outgoing[g] THEN {}
                        ELSE SM(g)!CopiesTo(interest[g], frame.subject, e, isMeshPeer[e], fromPeer)
           out == [e \in ends |-> IF e \in Outgoing[g] THEN up[e] ELSE down[e]]
           new == [e \in ends |-> IF e \in Outgoing[g] THEN up'[e] ELSE down'[e]]
<1>1. ASSUME NEW e \in Accepted[g] PROVE copies(e) = theirs(e)
  <2>1. Server[e] = g /\ e \notin Outgoing[g]
    BY EndsOfGateways
  <2>2. isMeshPeer[e] = (e \in Links /\ stage[e] # "unregistered")
    OBVIOUS
  <2> QED BY <2>1, <2>2, CopiesOfSockets, SameOperators
<1>2. ASSUME NEW e \in Accepted[g]
      PROVE  down'[e] = IF copies(e) = {} THEN down[e]
                        ELSE Append(down[e], MessageFrame(frame.subject, frame.msg, copies(e)))
  BY EndsOfGateways DEF Forwarded
<1> HIDE DEF copies
<1> DEFINE forwarded == [e \in ends |->
             IF theirs(e) = {} THEN out[e]
             ELSE Append(out[e], SM(g)!MessageFrame(frame.subject, frame.msg, theirs(e)))]
<1>3. new = forwarded
  <2>1. ASSUME NEW e \in ends PROVE new[e] = forwarded[e]
    <3>1. CASE e \in Outgoing[g]
      BY <3>1
    <3>2. CASE e \notin Outgoing[g]
      <4>1. e \in Accepted[g] /\ new[e] = down'[e] /\ out[e] = down[e]
        BY <3>2
      <4>2. forwarded[e] = IF theirs(e) = {} THEN out[e]
              ELSE Append(out[e], SM(g)!MessageFrame(frame.subject, frame.msg, theirs(e)))
        OBVIOUS
      <4> HIDE DEF theirs, out, new, forwarded
      <4>3. copies(e) = theirs(e)
        BY <1>1, <4>1
      <4>4. SM(g)!MessageFrame(frame.subject, frame.msg, theirs(e))
              = MessageFrame(frame.subject, frame.msg, theirs(e))
        BY SameOperators
      <4> QED BY <1>2, <4>1, <4>2, <4>3, <4>4
    <3> QED BY <3>1, <3>2
  <2>2. new = [e \in ends |-> new[e]] /\ forwarded = [e \in ends |-> forwarded[e]]
    OBVIOUS
  <2>3. \A e \in ends : new[e] = forwarded[e]
    BY <2>1
  <2> HIDE DEF new, forwarded, ends
  <2> QED BY <2>2, <2>3, SameFunction, Zenon
<1> QED BY <1>3 DEF SM!Forward, SM!Endpoints

(* A frame is the server's handler and the other end's Delivered.          *)
LEMMA onDataReceivedImplements ==
  ASSUME IInv, ConnectedOnly, NEW g \in Gateways, SM(g)!Room, NEW e \in Connections,
         onDataReceived(e)
  PROVE  UNCHANGED SM(g)!vars \/ SM(g)!Next
<1>1. PICK frame \in NextFrame(e) :
        onSubscribe(e, frame) \/ onUnsubscribe(e, frame) \/ onMessage(e, frame)
  BY DEF onDataReceived
<1>2. /\ CanReceive(e) /\ UNCHANGED <<stage, peerStatus>>
      /\ up[e] # << >> /\ frame = Head(up[e]) /\ frame \in UpFrames[e]
      /\ e \in Links => Linked(e)
  BY <1>1, NextFrames DEF onDataReceived, onSubscribe, onUnsubscribe, onMessage, NextFrame
<1>3. /\ e \in Clients => frame \in FromClient(e)
      /\ e \in Links => frame \in FromGateway(e[1])
  BY <1>2, KindsOfConnections DEF UpFrames
<1>4. IsMessage(frame) => e \in Clients
  BY <1>3, GatewayFrames, KindsOfConnections
<1>5. CASE g # Server[e]
  <2>1. \A x \in Accepted[g] : down'[x] = down[x]
    <3>1. down' = down \/ down' = Forwarded(down, Server[e], frame, e \in Links)
      BY <1>1 DEF onSubscribe, onUnsubscribe, onMessage
    <3>2. \A x \in Accepted[g] : Forwarded(down, Server[e], frame, e \in Links)[x] = down[x]
      BY <1>5, EndsOfGateways DEF Forwarded
    <3> QED BY <3>1, <3>2
  <2>2. interest'[g] = interest[g] /\ counted'[g] = counted[g]
    BY <1>1, <1>5, QueuesOfState DEF onSubscribe, onUnsubscribe, onMessage
  <2>3. \A l \in Outgoing[g] : up'[l] = Read(up, e)[l]
    <3>1. up' = Read(up, e) \/ up' = Relayed(Read(up, e), Server[e], frame)
      BY <1>1 DEF onSubscribe, onUnsubscribe, onMessage
    <3>2. \A l \in Outgoing[g] : l \in Connections /\ l \notin Outgoing[Server[e]]
      BY <1>5, EndsOfGateways, KindsOfConnections
    <3> QED BY <3>1, <3>2 DEF Relayed
  <2>4. \A l \in Outgoing[g] : Read(up, e)[l] = IF l = e THEN Tail(up[e]) ELSE up[l]
    BY EndsOfGateways, QueuesOfState DEF Read
  <2>5. CASE e \in Outgoing[g]
    BY <1>2, <2>1, <2>2, <2>3, <2>4, <2>5, EndsOfGateways, ReadFromGateway
  <2>6. CASE e \notin Outgoing[g]
    BY <1>2, <2>1, <2>2, <2>3, <2>4, <2>6, NotOfThisGateway
  <2> QED BY <2>5, <2>6
<1>6. CASE g = Server[e]
  <2> DEFINE ends == Accepted[g] \cup Outgoing[g]
             isMeshPeer == [x \in Accepted[g] |-> x \in Links /\ stage[x] # "unregistered"]
             out == [x \in ends |-> IF x \in Outgoing[g] THEN up[x] ELSE down[x]]
             new == [x \in ends |-> IF x \in Outgoing[g] THEN up'[x] ELSE down'[x]]
             status == [l \in Outgoing[g] |-> peerStatus[l]]
             relayed == [x \in ends |-> IF x \in Outgoing[g] /\ status[x] # "disconnected"
                                       THEN Append(out[x], frame)
                                       ELSE out[x]]
  <2>1. e \in Accepted[g] /\ e \notin Outgoing[g]
    BY <1>6, EndsOfGateways
  <2>2. isMeshPeer[e] <=> e \in Links
    BY <1>2, <2>1 DEF CanReceive
  <2>3. SM(g)!CanReceive(e)
    BY <1>2, <2>1 DEF SM!CanReceive, CanReceive
  <2>4. \A l \in Outgoing[g] : Read(up, e)[l] = up[l]
    BY <2>1, EndsOfGateways, QueuesOfState DEF Read
  <2>5. \A l \in Outgoing[g] :
          Relayed(Read(up, e), g, frame)[l] = IF status[l] # "disconnected"
                                              THEN Append(up[l], frame)
                                              ELSE up[l]
    BY <2>4, EndsOfGateways DEF Relayed
  <2>6. /\ UNCHANGED down /\ up' = Read(up, e) => new = out
        /\ UNCHANGED down /\ up' = Relayed(Read(up, e), g, frame) => new = relayed
    BY <2>4, <2>5
  <2>7. /\ [x \in Accepted[g] |-> stage'[x]] = [x \in Accepted[g] |-> stage[x]]
        /\ [x \in Accepted[g] |-> x \in Links /\ stage'[x] # "unregistered"] = isMeshPeer
        /\ [l \in Outgoing[g] |-> peerStatus'[l]] = [l \in Outgoing[g] |-> peerStatus[l]]
    BY <1>2
  <2>8. CASE onSubscribe(e, frame)
    <3> DEFINE s  == frame.subject
               id == frame.id
               table == AddSubscription(interest[g], s, id, e)
    <3>1. /\ frame.action = "SUBSCRIBE" /\ interest'[g] = table /\ counted'[g] = counted[g]
          /\ UNCHANGED down
          /\ up' = IF SubscriptionCount(table, s) = 1 /\ e \notin Links
                    THEN Relayed(Read(up, e), g, frame) ELSE Read(up, e)
      BY <1>6, <2>8, QueuesOfState DEF onSubscribe
    <3>2. s \in SubjectNames \cup {NoSubject} /\ id \in IDs /\ frame = SubscribeFrame(s, id)
      <4>1. CASE e \in Clients
        <5>1. PICK k \in DOMAIN subscriptions[e] : frame = SubscribeFrame(subscriptions[e][k].subject, k)
          BY <1>3, <3>1, <4>1, ClientFrames DEF Subscribed
        <5> QED BY <4>1, <5>1, SubscriptionIDs DEF SubscribeFrame, IInv
      <4>2. CASE e \in Links
        BY <1>3, <3>1, <4>2, GatewayFrames DEF Relays, Told, SubscribeFrame
      <4> QED BY <4>1, <4>2, KindsOfConnections
    <3> HIDE DEF s, id, out, new, relayed, isMeshPeer, status
    <3>3. /\ SM(g)!AddSubscription(interest[g], s, id, e) = table
          /\ SM(g)!SubscriptionCount(interest'[g], s) = SubscriptionCount(table, s)
          /\ SM(g)!SubscribeFrame(s, id) = frame
      BY <3>1, <3>2, SameOperators
    <3> HIDE DEF table
    <3>4. IF SM(g)!SubscriptionCount(interest'[g], s) = 1 /\ ~isMeshPeer[e]
          THEN new = relayed ELSE new = out
      BY <2>2, <2>6, <3>1, <3>3
    <3>5. SM(g)!onSubscribe(e, s, id)
      BY <2>3, <2>7, <3>1, <3>3, <3>4
         DEF SM!onSubscribe, SM!RelayToMesh, SM!Endpoints, out, new, relayed, isMeshPeer,
             status
    <3> QED BY <2>1, <3>2, <3>5 DEF SM!Next, SM!SocketStep
  <2>9. CASE onUnsubscribe(e, frame)
    <3> DEFINE s  == frame.subject
               id == frame.id
               table == RemoveSubscription(interest[g], s, e)
    <3>1. /\ frame.action = "UNSUBSCRIBE" /\ interest'[g] = table /\ counted'[g] = counted[g]
          /\ UNCHANGED down
          /\ up' = IF SubscriptionCount(table, s) = 0 /\ e \notin Links
                    THEN Relayed(Read(up, e), g, frame) ELSE Read(up, e)
      BY <1>6, <2>9, QueuesOfState DEF onUnsubscribe
    <3>2. s \in SubjectNames \cup {NoSubject} /\ id \in IDs /\ frame = UnsubscribeFrame(s, id)
      <4>1. frame \in Releases
        BY <1>3, <3>1, ClientFrames, GatewayFrames, KindsOfConnections
      <4> QED BY <4>1 DEF Releases, UnsubscribeFrame
    <3> HIDE DEF s, id, out, new, relayed, isMeshPeer, status
    <3>3. /\ SM(g)!RemoveSubscription(interest[g], s, e) = table
          /\ SM(g)!SubscriptionCount(interest'[g], s) = SubscriptionCount(table, s)
          /\ SM(g)!UnsubscribeFrame(s, id) = frame
      BY <3>1, <3>2, SameOperators
    <3> HIDE DEF table
    <3>4. IF SM(g)!SubscriptionCount(interest'[g], s) = 0 /\ ~isMeshPeer[e]
          THEN new = relayed ELSE new = out
      BY <2>2, <2>6, <3>1, <3>3
    <3>5. SM(g)!onUnsubscribe(e, s, id)
      BY <2>3, <2>7, <3>1, <3>3, <3>4
         DEF SM!onUnsubscribe, SM!RelayToMesh, SM!Endpoints, out, new, relayed, isMeshPeer,
             status
    <3> QED BY <2>1, <3>2, <3>5 DEF SM!Next, SM!SocketStep
  <2>10. CASE onMessage(e, frame)
    <3> HIDE DEF out, new, relayed
    <3>1. /\ IsMessage(frame) /\ down' = Forwarded(down, g, frame, e \in Links)
          /\ up' = Read(up, e) /\ interest'[g] = interest[g]
          /\ counted'[g] = IF e \in Links THEN counted[g] ELSE counted[g] \cup {frame.msg}
      BY <1>6, <2>10, QueuesOfState DEF onMessage
    <3>2. e \in Clients /\ e \notin Links /\ Home[e] = g
      BY <1>4, <1>6, <3>1, KindsOfConnections
    <3>3. frame.msg \in Messages /\ frame.msg \in SentFrom[g] /\ frame.subject \in Topics
      <4>1. PICK m \in {n \in Published : n.from = e} : frame = MessageFrame(m.topic, m, {})
        BY <1>3, <3>1, <3>2, ClientFrames DEF Sent
      <4>2. m \in Messages /\ m.topic \in Topics /\ Home[m.from] = g
        BY <3>2, <4>1 DEF Published, Messages
      <4> QED BY <4>1, <4>2 DEF SentFrom, MessageFrame
    <3>4. SM(g)!Forward(frame.subject, frame.msg, FALSE)
      <4>1. \A x \in Accepted[g] : down'[x] = Forwarded(down, g, frame, FALSE)[x]
        <5>1. (e \in Links) = FALSE
          BY <3>2
        <5> QED BY <3>1, <5>1
      <4>2. \A l \in Outgoing[g] : up'[l] = up[l]
        BY <2>4, <3>1
      <4> QED BY <4>1, <4>2, ForwardImplements
    <3>5. isMeshPeer[e] = FALSE
      BY <2>1, <2>2, <3>2
    <3> DEFINE theirs(x, fromPeer) ==
                 IF x \in Outgoing[g] THEN {}
                 ELSE SM(g)!CopiesTo(interest[g], frame.subject, x, isMeshPeer[x], fromPeer)
               forwarded(fromPeer) == [x \in ends |->
                 IF theirs(x, fromPeer) = {} THEN out[x]
                 ELSE Append(out[x], SM(g)!MessageFrame(frame.subject, frame.msg,
                                                        theirs(x, fromPeer)))]
    <3>6. new = forwarded(isMeshPeer[e])
      <4>1. new = forwarded(FALSE)
        BY <3>4 DEF SM!Forward, SM!Endpoints, new, out
      <4> HIDE DEF new, out, forwarded, isMeshPeer
      <4> QED BY <3>5, <4>1
    <3>7. SM(g)!onSocketMessage(e, frame.subject, frame.msg)
      <4>1. /\ frame.msg \in IF isMeshPeer[e] THEN Messages \ SentFrom[g] ELSE SentFrom[g]
            /\ counted'[g] = IF isMeshPeer[e] THEN counted[g] ELSE counted[g] \cup {frame.msg}
        BY <3>1, <3>2, <3>3, <3>5
      <4>2. SM(g)!PointersAreValid(frame.subject)
        BY <1>6, <2>10, PointersImplement DEF onMessage
      <4> QED
        BY <2>3, <2>7, <3>1, <3>6, <4>1, <4>2
           DEF SM!onSocketMessage, SM!onMessage, SM!Forward, SM!Endpoints, isMeshPeer, new, out
    <3> QED BY <2>1, <3>3, <3>7 DEF SM!Next, SM!SocketStep, SM!Messages
  <2> QED BY <1>1, <2>8, <2>9, <2>10
<1> QED BY <1>5, <1>6

(* The end of a connection, at each of its gateways.                       *)
LEMMA onDisconnectedImplements ==
  ASSUME IInv, NEW g \in Gateways, NEW e \in Connections, onDisconnected(e)
  PROVE  UNCHANGED SM(g)!vars \/ SM(g)!Next
<1>1. /\ CanReceive(e) /\ UNCHANGED <<peerStatus, counted>>
      /\ stage' = [stage EXCEPT ![e] = "released"]
      /\ interest' = [interest EXCEPT ![Server[e]] =
                        RemoveAllSubscriptions(interest[Server[e]], e)]
      /\ down' \in Unsent(down, e)
      /\ up' = up \/ (e \in Clients /\ \E q : up' = [up EXCEPT ![e] = q])
  BY QueuesAfterTheEnd DEF onDisconnected, Disconnected, Read
<1>2. \A l \in Outgoing[g] : up'[l] = up[l]
  BY <1>1, EndsOfGateways, QueuesOfState
<1>3. CASE e \notin Accepted[g]
  <2>1. interest'[g] = interest[g]
    BY <1>1, <1>3, EndsOfGateways, QueuesOfState
  <2>2. \A x \in Accepted[g] : stage'[x] = stage[x] /\ down'[x] = down[x]
    BY <1>1, <1>3, EndsOfGateways, QueuesOfState DEF Unsent
  <2> QED BY <1>1, <1>2, <2>1, <2>2, NotOfThisGateway
<1>4. CASE e \in Accepted[g]
  <2> DEFINE sockets == Accepted[g]
  <2>1. /\ stage'[e] = "released"
        /\ \A x \in sockets : x # e => stage'[x] = stage[x]
        /\ interest'[g] = RemoveAllSubscriptions(interest[g], e)
    BY <1>1, <1>4, EndsOfGateways, QueuesOfState
  <2>2. [x \in sockets |-> stage'[x]] = [[x \in sockets |-> stage[x]] EXCEPT ![e] = "released"]
    BY <2>1
  <2>3. [x \in sockets |-> x \in Links /\ stage'[x] # "unregistered"]
          = [x \in sockets |-> x \in Links /\ stage[x] # "unregistered"]
    BY <1>1, <2>1 DEF CanReceive
  <2>4. SM(g)!LosesUnsent(e)
    BY <1>1, <1>2, <1>4, EndsOfGateways, EndImplements
  <2>5. interest'[g] = SM(g)!RemoveAllSubscriptions(interest[g], e)
    BY <2>1, SameOperators
  <2>6. SM(g)!onDisconnected(e)
    BY <1>1, <1>4, <2>2, <2>3, <2>4, <2>5
       DEF SM!onDisconnected, SM!CanReceive, CanReceive
  <2> QED BY <1>4, <2>6 DEF SM!Next, SM!SocketStep
<1> QED BY <1>3, <1>4

(* The end of a released socket is ServiceManager's.                       *)
LEMMA SocketDestroyedImplements ==
  ASSUME IInv, NEW g \in Gateways, NEW e \in Connections, SocketDestroyed(e)
  PROVE  UNCHANGED SM(g)!vars \/ SM(g)!Next
<1>1. /\ stage[e] = "released" /\ stage' = [stage EXCEPT ![e] = "destroyed"]
      /\ down' \in Unsent(down, e) /\ UNCHANGED <<peerStatus, interest, up, counted>>
  BY DEF SocketDestroyed
<1>2. CASE e \notin Accepted[g]
  <2>1. \A x \in Accepted[g] : stage'[x] = stage[x] /\ down'[x] = down[x]
    BY <1>1, <1>2, EndsOfGateways, QueuesOfState DEF Unsent
  <2> QED BY <1>1, <2>1, NotOfThisGateway
<1>3. CASE e \in Accepted[g]
  <2> DEFINE sockets == Accepted[g]
  <2>1. stage'[e] = "destroyed" /\ \A x \in sockets : x # e => stage'[x] = stage[x]
    BY <1>1, <1>3, EndsOfGateways, QueuesOfState
  <2>2. [x \in sockets |-> stage'[x]] = [[x \in sockets |-> stage[x]] EXCEPT ![e] = "destroyed"]
    BY <2>1
  <2>3. [x \in sockets |-> x \in Links /\ stage'[x] # "unregistered"]
          = [x \in sockets |-> x \in Links /\ stage[x] # "unregistered"]
    BY <1>1, <2>1
  <2>4. SM(g)!LosesUnsent(e)
    BY <1>1, <1>3, EndsOfGateways, EndImplements
  <2>5. SM(g)!SocketDestroyed(e)
    BY <1>1, <1>3, <2>2, <2>3, <2>4 DEF SM!SocketDestroyed
  <2> QED BY <1>3, <2>5 DEF SM!Next, SM!SocketStep
<1> QED BY <1>2, <1>3

(* The life of a link is that of ServiceManager's peers.                   *)
LEMMA LinkStatusImplements ==
  ASSUME IInv, NEW g \in Gateways, SM(g)!Room, NEW l \in Links, LinkStatusStep(l)
  PROVE  UNCHANGED SM(g)!vars \/ SM(g)!Next
<1> DEFINE sockets == Accepted[g]
           peers   == Outgoing[g]
           ends    == sockets \cup peers
           out     == [x \in ends |-> IF x \in peers THEN up[x] ELSE down[x]]
           new     == [x \in ends |-> IF x \in peers THEN up'[x] ELSE down'[x]]
<1>1. /\ UNCHANGED <<stage, interest, down, counted>>
      /\ peerStatus' = [peerStatus EXCEPT ![l] = peerStatus'[l]]
      /\ \/ up' = up
         \/ up' = [up EXCEPT ![l] = Append(up[l], ConnectMeshPeer)]
         \/ \E q : up' = [up EXCEPT ![l] = q]
  BY QueuesOfState
     DEF LinkStatusStep, onConnectionSucceeded, onConnectionFailed, RetryTimer,
         onResolutionFailed, onPeerDisconnected, PeerStep, Written, Unsent
<1>2. CASE l \notin peers
  BY <1>1, <1>2, EndsOfGateways, QueuesOfState, NotOfThisGateway
<1>3. CASE l \in peers
  <2>1. \A from, to : PeerStep(l, from, to) => SM(g)!PeerStep(l, from, to)
    <3> SUFFICES ASSUME NEW from, NEW to, PeerStep(l, from, to) PROVE SM(g)!PeerStep(l, from, to)
      OBVIOUS
    <3>1. /\ UNCHANGED <<stage, interest, counted>> /\ peerStatus[l] = from
          /\ peerStatus' = [peerStatus EXCEPT ![l] = to]
      BY DEF PeerStep
    <3>2. [p \in peers |-> peerStatus'[p]] = [[p \in peers |-> peerStatus[p]] EXCEPT ![l] = to]
      BY <1>3, <3>1, EndsOfGateways, QueuesOfState
    <3> QED BY <1>3, <3>1, <3>2 DEF SM!PeerStep
  <2>2. \A q : up' = [up EXCEPT ![l] = q] => new = [out EXCEPT ![l] = q]
    <3> SUFFICES ASSUME NEW q, up' = [up EXCEPT ![l] = q] PROVE new = [out EXCEPT ![l] = q]
      OBVIOUS
    <3>1. \A p \in peers : up'[p] = IF p = l THEN q ELSE up[p]
      BY EndsOfGateways, QueuesOfState
    <3> QED BY <1>1, <1>3, <3>1
  <2>3. UNCHANGED up => new = out
    BY <1>1
  <2>4. out[l] = up[l]
    BY <1>3
  <2>5. CASE onConnectionSucceeded(l)
    <3>1. new = [out EXCEPT ![l] = Append(out[l], ConnectMeshPeer)]
      BY <2>2, <2>4, <2>5 DEF onConnectionSucceeded, Written
    <3>2. SM(g)!onConnectionSucceeded(l)
      BY <2>1, <2>5, <3>1 DEF onConnectionSucceeded, SM!onConnectionSucceeded, SM!Write,
         SM!Endpoints, SM!ConnectMeshPeer, ConnectMeshPeer
    <3> QED BY <1>3, <3>2 DEF SM!Next, SM!PeerConnectionStep
  <2>6. CASE onPeerDisconnected(l)
    <3>1. SM(g)!LosesUnsent(l)
      BY <1>1, <1>3, <2>6, EndsOfGateways, EndImplements DEF onPeerDisconnected
    <3>2. SM(g)!onPeerDisconnected(l)
      BY <2>1, <2>6, <3>1 DEF onPeerDisconnected, SM!onPeerDisconnected
    <3> QED BY <1>3, <3>2 DEF SM!Next, SM!PeerConnectionStep
  <2>7. CASE onConnectionFailed(l) \/ RetryTimer(l) \/ onResolutionFailed(l)
    <3>1. new = out
      BY <2>3, <2>7 DEF onConnectionFailed, RetryTimer, onResolutionFailed
    <3>2. SM(g)!onConnectionFailed(l) \/ SM(g)!RetryTimer(l) \/ SM(g)!onResolutionFailed(l)
      BY <2>1, <2>7, <3>1 DEF onConnectionFailed, RetryTimer, onResolutionFailed,
         SM!onConnectionFailed, SM!RetryTimer, SM!onResolutionFailed, SM!Endpoints
    <3> QED BY <1>3, <3>2 DEF SM!Next, SM!PeerConnectionStep
  <2> QED BY <2>5, <2>6, <2>7 DEF LinkStatusStep
<1> QED BY <1>2, <1>3

(* What is read from a peer is a message of another gateway's.             *)
LEMMA PeerReadsImplements ==
  ASSUME IInv, ConnectedOnly, NEW g \in Gateways, SM(g)!Room, NEW l \in Links, PeerReads(l)
  PROVE  UNCHANGED SM(g)!vars \/ SM(g)!Next
<1> DEFINE frame == Head(down[l])
           rest  == Read(down, l)
<1>1. /\ Linked(l) /\ Sends(l) /\ down[l] # << >>
      /\ down' = IF IsMessage(frame) THEN Forwarded(rest, l[1], frame, TRUE) ELSE rest
      /\ UNCHANGED <<stage, peerStatus, interest, up, counted>>
  BY DEF PeerReads
<1>2. \A x \in Accepted[g] : rest[x] = IF x = l THEN Tail(down[l]) ELSE down[x]
  BY EndsOfGateways, QueuesOfState DEF Read
<1>3. frame \in Answers(l)
  BY <1>1, KindsOfConnections, Elements DEF IInv, Flow, Carries, DownFrames
<1> HIDE DEF frame, rest
<1>4. CASE g # l[1]
  <2>1. \A x \in Accepted[g] : down'[x] = rest[x]
    <3>1. \A x \in Accepted[g] : Forwarded(rest, l[1], frame, TRUE)[x] = rest[x]
      BY <1>4, EndsOfGateways DEF Forwarded
    <3> QED BY <1>1, <3>1
  <2>2. l \notin Outgoing[g]
    BY <1>4, EndsOfGateways
  <2>3. CASE l \in Accepted[g]
    BY ZenonT(60), <1>1, <1>2, <2>1, <2>2, <2>3, ReadFromGateway
  <2>4. CASE l \notin Accepted[g]
    BY <1>1, <1>2, <2>1, <2>4, NotOfThisGateway
  <2> QED BY <2>3, <2>4
<1>5. CASE g = l[1]
  <2>1. l \in Outgoing[g] /\ l \notin Accepted[g] /\ l[2] # g
    BY <1>5, EndsOfGateways, KindsOfConnections
  <2>2. \A x \in Accepted[g] : rest[x] = down[x]
    BY <1>2, <2>1
  <2>3. CASE ~IsMessage(frame)
    BY <1>1, <2>2, <2>3, NotOfThisGateway
  <2>4. CASE IsMessage(frame)
    <3>1. frame.msg \in Messages /\ frame.msg \notin SentFrom[g] /\ frame.subject \in Topics
      <4>1. frame.msg \in MayGet(l) /\ frame.msg \in Messages /\ frame.subject = frame.msg.topic
        BY <1>3, <2>4, AnswerFrames
      <4>2. Home[frame.msg.from] = l[2]
        BY <4>1, KindsOfConnections DEF MayGet
      <4>3. frame.msg.topic \in Topics
        BY <4>1 DEF Messages
      <4> QED BY <1>5, <2>1, <4>1, <4>2, <4>3, KindsOfConnections DEF SentFrom
    <3>2. SM(g)!Forward(frame.subject, frame.msg, TRUE)
      <4>1. \A x \in Accepted[g] : down'[x] = Forwarded(rest, g, frame, TRUE)[x]
        BY <1>1, <1>5, <2>4
      <4> QED BY <1>1, <2>2, <4>1, ForwardImplements
    <3>3. SM(g)!PointersAreValid(frame.subject)
      BY <1>5, <2>4, PointersImplement DEF PeerReads, frame
    <3>4. SM(g)!onPeerMessage(l, frame.subject, frame.msg)
      BY <1>1, <2>1, <3>1, <3>2, <3>3 DEF SM!onPeerMessage, SM!onMessage, Linked
    <3> QED BY <2>1, <3>1, <3>4 DEF SM!Next, SM!PeerConnectionStep, SM!Messages
  <2> QED BY <2>3, <2>4
<1> QED BY <1>4, <1>5

(***************************************************************************)
(* Each gateway of a mesh is a ServiceManager with the other gateways and  *)
(* the clients for its environment, as far as the number of its unread     *)
(* writes stays below the bound that ServiceManager puts to its handlers   *)
(* for the model checker; the code has none.                               *)
(***************************************************************************)
THEOREM GatewaysAreServiceManagers ==
  Spec /\ [](\A g \in Gateways : SM(g)!Room) => ImplementsServiceManagers
<1> DEFINE Room == \A g \in Gateways : SM(g)!Room
           Step == \A g \in Gateways : UNCHANGED SM(g)!vars \/ SM(g)!Next
<1>1. Init => \A g \in Gateways : SM(g)!Init
  <2> SUFFICES ASSUME Init, NEW g \in Gateways PROVE SM(g)!Init
    OBVIOUS
  <2>1. /\ \A e \in Accepted[g] : stage[e] = "unregistered" /\ down[e] = << >>
        /\ \A l \in Outgoing[g] : peerStatus[l] = "connecting" /\ up[l] = << >>
        /\ interest[g] = {} /\ counted[g] = {}
    BY EndsOfGateways DEF Init
  <2> QED BY <2>1 DEF SM!Init, SM!Endpoints
<1>2. IInv /\ ConnectedOnly /\ Room /\ [Next]_vars => Step
  <2> SUFFICES ASSUME IInv, ConnectedOnly, [Next]_vars, NEW g \in Gateways, SM(g)!Room
               PROVE  UNCHANGED SM(g)!vars \/ SM(g)!Next
    OBVIOUS
  <2>1. ASSUME NEW c \in Clients, UserStep(c) \/ ClientStep(c)
        PROVE  UNCHANGED SM(g)!vars \/ SM(g)!Next
    BY <2>1, UserStepsImplement, ClientStepsImplement
  <2>2. ASSUME NEW e \in Connections,
               ServerStep(e) \/ onDisconnected(e) \/ SocketDestroyed(e)
        PROVE  UNCHANGED SM(g)!vars \/ SM(g)!Next
    BY <2>2, AcceptingImplements, onDataReceivedImplements, onDisconnectedImplements,
       SocketDestroyedImplements
       DEF ServerStep
  <2>3. ASSUME NEW l \in Links, LinkStatusStep(l) \/ PeerReads(l)
        PROVE  UNCHANGED SM(g)!vars \/ SM(g)!Next
    BY <2>3, LinkStatusImplements, PeerReadsImplements
  <2>4. CASE UNCHANGED vars
    BY <2>4, NotOfThisGateway DEF vars, gatewayVars
  <2> QED BY <2>1, <2>2, <2>3, <2>4 DEF Next
<1>3. Init => ConnectedOnly
  BY DEF Init, ConnectedOnly
<1> HIDE DEF Room, Step
<1>4. Spec => []IInv /\ []ConnectedOnly
  BY <1>3, Invariance, ConnectedInductive, PTL DEF Spec
<1>5. Spec /\ []Room => [][Step]_vars
  BY <1>2, <1>4, PTL DEF Spec
<1> QED BY <1>1, <1>5, PTL DEF Spec, ImplementsServiceManagers, Room, Step
-----------------------------------------------------------------------------
(* The configuration file, which all gateways of a mesh share.             *)
Startup == INSTANCE GatewayConfiguration

(* Every entry has the name of a host: one without is each gateway's own.  *)
NamesHosts(raw) ==
  /\ \E n \in Nat : DOMAIN raw.StartupMeshes = 1 .. n
  /\ raw.CoordinatorGateway = Startup!NoEntry \/ raw.CoordinatorGateway.Hostname # ""
  /\ \A i \in DOMAIN raw.StartupMeshes : \A k \in DOMAIN raw.StartupMeshes[i].MeshGateways :
       raw.StartupMeshes[i].MeshGateways[k].Hostname # ""

(* What listens where an entry says, as the gateway looks it up.           *)
Resolved(entry, gateway) ==
  [IPAddress |-> Startup!getIPAddress(gateway, entry.Hostname), Port |-> entry.Port]

(* An entry for the address in the last mesh of the service that was read. *)
Lists(raw, gateway, service, address) ==
  \E i \in DOMAIN raw.StartupMeshes :
    /\ Startup!IsLast(raw, gateway, i)
    /\ raw.StartupMeshes[i].Name = service
    /\ \E k \in DOMAIN raw.StartupMeshes[i].MeshGateways :
         address = Resolved(raw.StartupMeshes[i].MeshGateways[k], gateway)

(* An info is of a peer if its address is not the gateway's own.           *)
LEMMA PeersAreOthers ==
  ASSUME NEW entry, NEW gateway
  PROVE  LET info == Startup!getGatewayInfo(entry, gateway) IN
         /\ Startup!Address(info) = Resolved(entry, gateway)
         /\ info.PeerType = "PEER" <=> Resolved(entry, gateway) # Startup!Own(gateway)
BY DEF Startup!getGatewayInfo, Startup!Address, Startup!Own, Resolved

(***************************************************************************)
(* A gateway connects, for a service, to what the last mesh of that name   *)
(* lists and to nothing else, and never to itself (getPeerGatewayInfos     *)
(* over what GatewayConfig::parse has read): for any file and any gateway, *)
(* also where the file could not be read to its end.                       *)
(***************************************************************************)
THEOREM PeersAreTheOthersListed ==
  ASSUME NEW raw, NEW gateway, NEW service, NEW address
  PROVE  address \in Startup!Peers(raw, gateway, service)
           <=> address # Startup!Own(gateway) /\ Lists(raw, gateway, service, address)
<1> DEFINE read == Startup!MeshesRead(raw, gateway)
           last == {j \in read : raw.StartupMeshes[j].Name = service
                                   /\ Startup!IsLast(raw, gateway, j)}
           listed(i) == Startup!MeshGatewayInfos(raw.StartupMeshes[i], gateway)
           config == Startup!parse(raw, gateway)
<1>1. service \in DOMAIN config <=> \E i \in read : raw.StartupMeshes[i].Name = service
  BY DEF Startup!parse
<1>2. service \in DOMAIN config => config[service] = UNION {listed(i) : i \in last}
  BY DEF Startup!parse
<1>3. read \subseteq DOMAIN raw.StartupMeshes
  BY DEF Startup!MeshesRead
<1>4. \A i : Startup!IsLast(raw, gateway, i) => i \in read
  BY DEF Startup!IsLast
<1>5. \A info : info \in Startup!getPeerGatewayInfos(config, service)
                  <=> info.PeerType = "PEER" /\ \E i \in last : info \in listed(i)
  <2>1. CASE service \in DOMAIN config
    BY <1>2, <2>1 DEF Startup!getPeerGatewayInfos
  <2>2. CASE service \notin DOMAIN config
    <3>1. last = {}
      BY <1>1, <2>2
    <3> QED BY <2>2, <3>1 DEF Startup!getPeerGatewayInfos
  <2> QED BY <2>1, <2>2
<1>6. address \in Startup!Peers(raw, gateway, service)
        <=> \E info \in Startup!getPeerGatewayInfos(config, service) : address = Startup!Address(info)
  BY DEF Startup!Peers
<1>7. \A i : \A info : info \in listed(i)
        <=> \E k \in DOMAIN raw.StartupMeshes[i].MeshGateways :
              info = Startup!getGatewayInfo(raw.StartupMeshes[i].MeshGateways[k], gateway)
  BY DEF Startup!MeshGatewayInfos
<1>8. \A i : i \in last <=> /\ i \in DOMAIN raw.StartupMeshes
                            /\ Startup!IsLast(raw, gateway, i)
                            /\ raw.StartupMeshes[i].Name = service
  BY <1>3, <1>4
<1> HIDE DEF read, last, listed, config
<1> QED BY <1>5, <1>6, <1>7, <1>8, PeersAreOthers DEF Lists

(* Where hosts look names up alike, the file says the same to all.         *)
LEMMA OneFileForAll ==
  ASSUME NEW raw, NamesHosts(raw), NEW g, NEW h, g.lookup = h.lookup,
         NEW service, NEW address, Lists(raw, g, service, address)
  PROVE  Lists(raw, h, service, address)
<1>1. \A name : name # "" => Startup!getIPAddress(g, name) = Startup!getIPAddress(h, name)
  BY DEF Startup!getIPAddress
<1>2. \A entry : entry.Hostname # "" =>
        /\ Startup!IsValid(entry, g) <=> Startup!IsValid(entry, h)
        /\ Resolved(entry, g) = Resolved(entry, h)
  BY <1>1 DEF Startup!IsValid, Resolved
<1>3. Startup!CoordinatorIsValid(raw, g) <=> Startup!CoordinatorIsValid(raw, h)
  BY <1>2 DEF Startup!CoordinatorIsValid, NamesHosts
<1>4. \A i \in DOMAIN raw.StartupMeshes : \A k \in DOMAIN raw.StartupMeshes[i].MeshGateways :
        raw.StartupMeshes[i].MeshGateways[k].Hostname # ""
  BY DEF NamesHosts
<1>5. \A i \in DOMAIN raw.StartupMeshes : \A j \in 1 .. i : j \in DOMAIN raw.StartupMeshes
  <2>1. PICK n \in Nat : DOMAIN raw.StartupMeshes = 1 .. n
    BY DEF NamesHosts
  <2>2. \A i \in 1 .. n : \A j \in 1 .. i : j \in 1 .. n
    BY <2>1
  <2> QED BY <2>1, <2>2
<1>6. Startup!MeshesRead(raw, g) \subseteq Startup!MeshesRead(raw, h)
      /\ Startup!MeshesRead(raw, h) \subseteq Startup!MeshesRead(raw, g)
  BY <1>2, <1>3, <1>4, <1>5 DEF Startup!MeshesRead
<1>7. \A i : Startup!IsLast(raw, g, i) => Startup!IsLast(raw, h, i)
  BY <1>6 DEF Startup!IsLast
<1> QED BY <1>2, <1>4, <1>7 DEF Lists

(***************************************************************************)
(* The mesh is full: of any two gateways that a shared file lists for a    *)
(* service, each connects to the other, if the file names hosts and the    *)
(* two look them up alike. It is what Mesh starts from, and why a message  *)
(* need not be passed on (MeshManager, ServiceManager::initialize).        *)
(***************************************************************************)
THEOREM SharedFileConnectsAll ==
  ASSUME NEW raw, NamesHosts(raw), NEW g, NEW h, g.lookup = h.lookup, NEW service,
         Lists(raw, g, service, Startup!Own(g)), Lists(raw, g, service, Startup!Own(h)),
         Startup!Own(g) # Startup!Own(h)
  PROVE  /\ Startup!Own(h) \in Startup!Peers(raw, g, service)
         /\ Startup!Own(g) \in Startup!Peers(raw, h, service)
<1>1. Lists(raw, h, service, Startup!Own(g))
  BY OneFileForAll
<1> QED BY <1>1, PeersAreTheOthersListed
=============================================================================
