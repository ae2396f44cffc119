------------------------ MODULE ServiceManagerProofs ------------------------
(***************************************************************************)
(* The safety of one service, for every set of sockets, peers, subjects    *)
(* and messages.                                                           *)
(***************************************************************************)
EXTENDS ServiceManager, TLAPS

(***************************************************************************)
(* What the helper that selects the copies of a message returns: entries   *)
(* of the table for that socket; for a mesh peer one entry at most, and    *)
(* none when the message came from a peer.                                 *)
(***************************************************************************)
LEMMA CopiesOfATable ==
  ASSUME NEW table, NEW topic, NEW s,
         NEW toPeer \in BOOLEAN, NEW fromPeer \in BOOLEAN
  PROVE  LET copies == CopiesTo(table, topic, s, toPeer, fromPeer)
         IN  /\ copies \subseteq {e \in table : e.socket = s}
             /\ toPeer /\ copies # {} => ~fromPeer
             /\ toPeer /\ copies # {} => \E e \in table : copies = {e}
<1> DEFINE hits == {e \in MatchingEntries(table, topic) : e.socket = s}
<1>1. hits \subseteq {e \in table : e.socket = s}
  BY DEF MatchingEntries
<1>2. CASE ~toPeer
  BY <1>1, <1>2 DEF CopiesTo
<1>3. CASE toPeer /\ fromPeer
  BY <1>3 DEF CopiesTo
<1>4. CASE toPeer /\ ~fromPeer /\ hits = {}
  BY <1>4 DEF CopiesTo
<1>5. CASE toPeer /\ ~fromPeer /\ hits # {}
  <2> DEFINE e == CHOOSE x \in hits : TRUE
  <2>1. e \in hits
    BY <1>5
  <2>2. CopiesTo(table, topic, s, toPeer, fromPeer) = {e}
    BY <1>5 DEF CopiesTo
  <2> QED BY <1>1, <1>5, <2>1, <2>2
<1> QED BY <1>2, <1>3, <1>4, <1>5

(* Type of the table after each of the operations on it.                   *)
LEMMA TableOperations ==
  ASSUME NEW table \in SUBSET Entries,
         NEW subject \in SubjectNames, NEW id \in SubscriptionIDs,
         NEW s \in Sockets
  PROVE  /\ AddSubscription(table, subject, id, s) \in SUBSET Entries
         /\ RemoveSubscription(table, subject, s) \in SUBSET Entries
         /\ RemoveAllSubscriptions(table, s) \in SUBSET Entries
BY DEF AddSubscription, RemoveSubscription, RemoveAllSubscriptions, Entry,
       EntriesOf, Entries

(* Queues stay queues of frames when a frame is appended to some of them.  *)
LEMMA FramesAreFrames ==
  /\ Ack \in Frames
  /\ ConnectMeshPeer \in Frames
  /\ \A subject \in SubjectNames, id \in SubscriptionIDs :
       SubscribeFrame(subject, id) \in Frames /\ UnsubscribeFrame(subject, id) \in Frames
  /\ \A topic \in Topics, m \in Messages, copies \in SUBSET Entries :
       MessageFrame(topic, m, copies) \in Frames
BY DEF Ack, ConnectMeshPeer, Frames, SubscribeFrame, UnsubscribeFrame,
       MessageFrame, MessageFrames

(* Type of the queues after each of the ways a handler changes them.       *)
LEMMA RelayType ==
  ASSUME out \in [Endpoints -> Seq(Frames)], NEW frame \in Frames,
         RelayToMesh(frame)
  PROVE  out' \in [Endpoints -> Seq(Frames)]
BY DEF RelayToMesh

(* One write to one endpoint.                                              *)
LEMMA WriteType ==
  ASSUME out \in [Endpoints -> Seq(Frames)], NEW frame \in Frames,
         NEW e \in Endpoints, Write(e, frame)
  PROVE  out' \in [Endpoints -> Seq(Frames)]
BY DEF Write

(* What may still be read of a queue: a prefix of it.                      *)
LEMMA Prefix ==
  ASSUME NEW S, NEW q \in Seq(S), NEW n \in 0 .. Len(q)
  PROVE  /\ SubSeq(q, 1, n) \in Seq(S)
         /\ \A i \in DOMAIN SubSeq(q, 1, n) :
              i \in DOMAIN q /\ SubSeq(q, 1, n)[i] = q[i]
<1>1. Len(q) \in Nat /\ DOMAIN q = 1 .. Len(q)
  OBVIOUS
<1>2. /\ \A i \in 1 .. n : q[i] \in S
      /\ SubSeq(q, 1, n) = [i \in 1 .. n |-> q[i]]
  BY <1>1
<1> QED BY <1>1, <1>2

(* A connection that ends leaves the other queues as they are.             *)
LEMMA Lost ==
  ASSUME out \in [Endpoints -> Seq(Frames)], NEW e \in Endpoints,
         LosesUnsent(e)
  PROVE  /\ out' \in [Endpoints -> Seq(Frames)]
         /\ \A d \in Endpoints \ {e} : out'[d] = out[d]
         /\ \A i \in DOMAIN out'[e] :
              i \in DOMAIN out[e] /\ out'[e][i] = out[e][i]
<1>1. PICK n \in 0 .. Len(out[e]) :
        out' = [out EXCEPT ![e] = SubSeq(@, 1, n)]
  BY DEF LosesUnsent
<1>2. out[e] \in Seq(Frames)
  OBVIOUS
<1>3. /\ SubSeq(out[e], 1, n) \in Seq(Frames)
      /\ \A i \in DOMAIN SubSeq(out[e], 1, n) :
           i \in DOMAIN out[e] /\ SubSeq(out[e], 1, n)[i] = out[e][i]
  BY <1>2, Prefix
<1> QED BY <1>1, <1>3

(* The writes of onMessage.                                                *)
LEMMA ForwardType ==
  ASSUME TypeOK, NEW topic \in Topics, NEW m \in Messages,
         NEW fromPeer \in BOOLEAN, Forward(topic, m, fromPeer)
  PROVE  out' \in [Endpoints -> Seq(Frames)]
<1> DEFINE copies(e) ==
      IF e \in Peers THEN {}
      ELSE CopiesTo(interest, topic, e, isMeshPeer[e], fromPeer)
<1>1. ASSUME NEW e \in Endpoints
      PROVE  copies(e) \in SUBSET Entries
  <2>1. CASE e \in Peers
    BY <2>1
  <2>2. CASE e \notin Peers
    <3>1. isMeshPeer[e] \in BOOLEAN /\ interest \in SUBSET Entries
      BY <2>2 DEF TypeOK, Endpoints
    <3> QED BY <2>2, <3>1, CopiesOfATable
  <2> QED BY <2>1, <2>2
<1>2. ASSUME NEW e \in Endpoints
      PROVE  Append(out[e], MessageFrame(topic, m, copies(e))) \in Seq(Frames)
  <2>1. MessageFrame(topic, m, copies(e)) \in Frames
    BY <1>1, FramesAreFrames
  <2>2. out[e] \in Seq(Frames)
    BY DEF TypeOK
  <2> HIDE DEF copies
  <2> QED BY <2>1, <2>2
<1>3. out' = [e \in Endpoints |->
                IF copies(e) = {} THEN out[e]
                ELSE Append(out[e], MessageFrame(topic, m, copies(e)))]
  BY DEF Forward
<1>4. \A e \in Endpoints : out[e] \in Seq(Frames)
  BY DEF TypeOK
<1> HIDE DEF copies
<1> QED BY <1>2, <1>3, <1>4
-----------------------------------------------------------------------------
(* The initial states have the types.                                      *)
LEMMA TypeInit == Init => TypeOK
BY DEF Init, TypeOK, Stages, PeerStatuses, Endpoints

(* Type correctness of one step, action by action.                         *)
LEMMA TypeStep == TypeOK /\ [Next]_vars => TypeOK'
<1> SUFFICES ASSUME TypeOK, [Next]_vars PROVE TypeOK'
  OBVIOUS
<1> USE DEF TypeOK
<1>1. ASSUME NEW s \in Sockets, NEW meshPeer \in BOOLEAN,
             registerSocket(s, meshPeer)
      PROVE  TypeOK'
  BY <1>1 DEF registerSocket, Stages
<1>2. ASSUME NEW s \in Sockets, onMoveToLoopComplete(s)
      PROVE  TypeOK'
  <2>1. out' \in [Endpoints -> Seq(Frames)]
    BY <1>2, FramesAreFrames, WriteType DEF onMoveToLoopComplete, Endpoints
  <2> QED BY <1>2, <2>1 DEF onMoveToLoopComplete, Stages
<1>3. ASSUME NEW s \in Sockets, NEW subject \in SubjectNames,
             NEW id \in SubscriptionIDs, onSubscribe(s, subject, id)
      PROVE  TypeOK'
  <2>1. out' \in [Endpoints -> Seq(Frames)]
    BY <1>3, FramesAreFrames, RelayType DEF onSubscribe
  <2> QED BY <1>3, <2>1, TableOperations DEF onSubscribe
<1>4. ASSUME NEW s \in Sockets, NEW subject \in SubjectNames,
             NEW id \in SubscriptionIDs, onUnsubscribe(s, subject, id)
      PROVE  TypeOK'
  <2>1. out' \in [Endpoints -> Seq(Frames)]
    BY <1>4, FramesAreFrames, RelayType DEF onUnsubscribe
  <2> QED BY <1>4, <2>1, TableOperations DEF onUnsubscribe
<1>5. ASSUME NEW topic \in Topics, NEW m \in Messages,
             NEW fromPeer \in BOOLEAN, onMessage(topic, m, fromPeer)
      PROVE  TypeOK'
  <2>1. out' \in [Endpoints -> Seq(Frames)]
    BY <1>5, ForwardType DEF onMessage
  <2> QED BY <1>5, <2>1 DEF onMessage
<1>6. ASSUME NEW s \in Sockets, onDisconnected(s)
      PROVE  TypeOK'
  <2>1. out' \in [Endpoints -> Seq(Frames)]
    BY <1>6, Lost DEF onDisconnected, Endpoints
  <2>2. interest' \in SUBSET Entries
    BY <1>6 DEF onDisconnected, RemoveAllSubscriptions
  <2> QED BY <1>6, <2>1, <2>2 DEF onDisconnected, Stages
<1>7. ASSUME NEW s \in Sockets, SocketDestroyed(s)
      PROVE  TypeOK'
  <2>1. out' \in [Endpoints -> Seq(Frames)]
    BY <1>7, Lost DEF SocketDestroyed, Endpoints
  <2> QED BY <1>7, <2>1 DEF SocketDestroyed, Stages
<1>8. CASE onStatsTimer
  BY <1>8 DEF onStatsTimer
<1>9. ASSUME NEW p \in Peers, onConnectionSucceeded(p)
      PROVE  TypeOK'
  <2>1. out' \in [Endpoints -> Seq(Frames)]
    BY <1>9, FramesAreFrames, WriteType DEF onConnectionSucceeded, Endpoints
  <2> QED BY <1>9, <2>1 DEF onConnectionSucceeded, PeerStep, PeerStatuses
<1>10. ASSUME NEW p \in Peers,
              onConnectionFailed(p) \/ RetryTimer(p) \/ onResolutionFailed(p)
       PROVE  TypeOK'
  BY <1>10 DEF onConnectionFailed, RetryTimer, onResolutionFailed,
               PeerStep, PeerStatuses
<1>11. ASSUME NEW p \in Peers, onPeerDisconnected(p)
       PROVE  TypeOK'
  <2>1. out' \in [Endpoints -> Seq(Frames)]
    BY <1>11, Lost DEF onPeerDisconnected, Endpoints
  <2> QED BY <1>11, <2>1 DEF onPeerDisconnected, PeerStep, PeerStatuses
<1>12. ASSUME NEW e \in Endpoints, Delivered(e)
       PROVE  TypeOK'
  BY <1>12 DEF Delivered
<1>13. CASE UNCHANGED vars
  BY <1>13 DEF vars
<1>14. ASSUME NEW s \in Sockets, NEW topic \in Topics, NEW m \in Messages,
              onSocketMessage(s, topic, m)
       PROVE  TypeOK'
  BY <1>5, <1>14 DEF onSocketMessage
<1>15. ASSUME NEW p \in Peers, NEW topic \in Topics, NEW m \in Messages,
              onPeerMessage(p, topic, m)
       PROVE  TypeOK'
  BY <1>5, <1>15 DEF onPeerMessage
<1> QED
  BY <1>1, <1>2, <1>3, <1>4, <1>6, <1>7, <1>8, <1>9, <1>10, <1>11, <1>12,
     <1>13, <1>14, <1>15 DEF Next, SocketStep, PeerConnectionStep

(* The type invariant of the service, for every value of the constants.    *)
THEOREM TypeCorrect == Spec => []TypeOK
BY TypeInit, TypeStep, PTL DEF Spec
-----------------------------------------------------------------------------
(* The sockets that hold subscriptions after each operation.               *)
LEMMA OperationsKeepSockets ==
  ASSUME NEW table, NEW subject, NEW id, NEW s
  PROVE  /\ \A e \in AddSubscription(table, subject, id, s) :
              e \in table \/ e.socket = s
         /\ \A e \in RemoveSubscription(table, subject, s) : e \in table
         /\ \A e \in RemoveAllSubscriptions(table, s) :
              e \in table /\ e.socket # s
BY DEF AddSubscription, RemoveSubscription, RemoveAllSubscriptions, Entry

(***************************************************************************)
(* Writing to some of the endpoints a frame that they may be sent keeps    *)
(* NoRelay.                                                                *)
(***************************************************************************)
LEMMA AppendKeepsNoRelay ==
  ASSUME TypeOK, NoRelay, isMeshPeer' = isMeshPeer,
         \A e \in Endpoints :
           \/ out'[e] = out[e]
           \/ \E frame \in Frames :
                /\ MayBeWritten(e, frame)
                /\ out'[e] = Append(out[e], frame)
  PROVE  NoRelay'
<1> SUFFICES ASSUME NEW e \in Endpoints, NEW i \in DOMAIN out'[e]
             PROVE  MayBeWritten(e, out[e][i])'
  BY DEF NoRelay
<1>1. ASSUME NEW frame, MayBeWritten(e, frame)
      PROVE  MayBeWritten(e, frame)'
  BY <1>1 DEF MayBeWritten
<1>2. \A j \in DOMAIN out[e] : MayBeWritten(e, out[e][j])
  BY DEF NoRelay
<1>3. CASE out'[e] = out[e]
  BY <1>1, <1>2, <1>3 DEF MayBeWritten
<1>4. ASSUME NEW frame \in Frames, MayBeWritten(e, frame),
             out'[e] = Append(out[e], frame)
      PROVE  MayBeWritten(e, out[e][i])'
  <2>1. out[e] \in Seq(Frames)
    BY DEF TypeOK
  <2>2. \/ i \in DOMAIN out[e] /\ out'[e][i] = out[e][i]
        \/ out'[e][i] = frame
    BY <1>4, <2>1
  <2> QED BY <1>1, <1>2, <1>4, <2>2 DEF MayBeWritten
<1> QED BY <1>3, <1>4

(* What is not a message may be written to any endpoint.                   *)
LEMMA ControlFrames ==
  ASSUME NEW e \in Endpoints, NEW subject, NEW id
  PROVE  /\ MayBeWritten(e, Ack)
         /\ MayBeWritten(e, ConnectMeshPeer)
         /\ MayBeWritten(e, SubscribeFrame(subject, id))
         /\ MayBeWritten(e, UnsubscribeFrame(subject, id))
BY DEF MayBeWritten, IsMessage, Ack, ConnectMeshPeer, SubscribeFrame,
       UnsubscribeFrame

(* What relayToMesh writes is never a message.                             *)
LEMMA RelayKeepsNoRelay ==
  ASSUME TypeOK, NoRelay, isMeshPeer' = isMeshPeer,
         NEW frame \in Frames, \A e \in Endpoints : MayBeWritten(e, frame),
         RelayToMesh(frame)
  PROVE  NoRelay'
<1>1. \A e \in Endpoints :
        \/ out'[e] = out[e]
        \/ out'[e] = Append(out[e], frame)
  BY DEF RelayToMesh
<1> QED BY <1>1, AppendKeepsNoRelay

(* Neither is the single write of an ACK or of a CONNECT_MESH_PEER.        *)
LEMMA WriteKeepsNoRelay ==
  ASSUME TypeOK, NoRelay, isMeshPeer' = isMeshPeer,
         NEW frame \in Frames, NEW d \in Endpoints, MayBeWritten(d, frame),
         Write(d, frame)
  PROVE  NoRelay'
<1>1. /\ out'[d] = Append(out[d], frame)
      /\ \A e \in Endpoints \ {d} : out'[e] = out[e]
  BY DEF Write, TypeOK
<1> QED BY <1>1, AppendKeepsNoRelay

(* The fan-out of a message writes what the rules of the mesh allow.       *)
LEMMA ForwardKeepsNoRelay ==
  ASSUME TypeOK, NoRelay, isMeshPeer' = isMeshPeer,
         NEW topic \in Topics, NEW fromPeer \in BOOLEAN,
         NEW m \in IF fromPeer THEN RemoteMessages ELSE LocalMessages,
         Forward(topic, m, fromPeer)
  PROVE  NoRelay'
<1> DEFINE copies(e) ==
      IF e \in Peers THEN {}
      ELSE CopiesTo(interest, topic, e, isMeshPeer[e], fromPeer)
<1>1. ASSUME NEW e \in Endpoints, copies(e) # {}
      PROVE  /\ MessageFrame(topic, m, copies(e)) \in Frames
             /\ MayBeWritten(e, MessageFrame(topic, m, copies(e)))
  <2>1. e \in Sockets /\ e \notin Peers
    BY <1>1 DEF Endpoints
  <2>2. isMeshPeer[e] \in BOOLEAN /\ interest \in SUBSET Entries
    BY <2>1 DEF TypeOK
  <2>3. copies(e) = CopiesTo(interest, topic, e, isMeshPeer[e], fromPeer)
    BY <2>1
  <2>4. /\ copies(e) \subseteq interest
        /\ isMeshPeer[e] => ~fromPeer /\ \E x \in interest : copies(e) = {x}
    BY <1>1, <2>2, <2>3, CopiesOfATable
  <2>5. m \in Messages /\ (isMeshPeer[e] => m \in LocalMessages)
    BY <2>4 DEF Messages
  <2>6. copies(e) \in SUBSET Entries
    BY <2>2, <2>4
  <2> HIDE DEF copies
  <2>7. MessageFrame(topic, m, copies(e)) \in Frames
    BY <2>5, <2>6, FramesAreFrames
  <2>8. /\ MessageFrame(topic, m, copies(e)).msg = m
        /\ MessageFrame(topic, m, copies(e)).copies = copies(e)
    BY DEF MessageFrame
  <2>9. MayBeWritten(e, MessageFrame(topic, m, copies(e)))
    BY <2>1, <2>2, <2>4, <2>5, <2>8 DEF MayBeWritten
  <2> QED BY <2>7, <2>9
<1>2. out' = [e \in Endpoints |->
                IF copies(e) = {} THEN out[e]
                ELSE Append(out[e], MessageFrame(topic, m, copies(e)))]
  BY DEF Forward
<1> HIDE DEF copies
<1>3. \A e \in Endpoints :
        \/ out'[e] = out[e]
        \/ /\ copies(e) # {}
           /\ out'[e] = Append(out[e], MessageFrame(topic, m, copies(e)))
  BY <1>2
<1> QED BY <1>1, <1>3, AppendKeepsNoRelay

(* An endpoint that holds no subscription gets no message.                 *)
LEMMA ForwardToInterestedOnly ==
  ASSUME TypeOK, NEW topic, NEW m, NEW fromPeer \in BOOLEAN,
         Forward(topic, m, fromPeer),
         NEW s \in Sockets, \A e \in interest : e.socket # s
  PROVE  out'[s] = out[s]
<1> DEFINE copies(e) ==
      IF e \in Peers THEN {}
      ELSE CopiesTo(interest, topic, e, isMeshPeer[e], fromPeer)
<1>1. copies(s) = {}
  <2>1. isMeshPeer[s] \in BOOLEAN
    BY DEF TypeOK
  <2>2. CopiesTo(interest, topic, s, isMeshPeer[s], fromPeer) = {}
    BY <2>1, CopiesOfATable
  <2> QED BY <2>2
<1> QED BY <1>1 DEF Forward, Endpoints
-----------------------------------------------------------------------------
(* The inductive invariant holds initially ...                             *)
LEMMA InvInit == Init => IInv
<1> SUFFICES ASSUME Init PROVE IInv
  OBVIOUS
<1>1. TypeOK
  BY TypeInit
<1>2. NoRelay /\ UntouchedBeforeConnect
  BY DEF Init, NoRelay, UntouchedBeforeConnect, Endpoints
<1> QED BY <1>1, <1>2 DEF IInv

(* What Delivered leaves in a queue was one place further back before.     *)
LEMMA TailIndices ==
  ASSUME NEW S, NEW q \in Seq(S), q # << >>, NEW i \in DOMAIN Tail(q)
  PROVE  i + 1 \in DOMAIN q /\ Tail(q)[i] = q[i + 1]
<1>1. Len(q) \in Nat \ {0} /\ DOMAIN q = 1 .. Len(q)
  OBVIOUS
<1>2. Tail(q) \in Seq(S) /\ Len(Tail(q)) = Len(q) - 1
  BY <1>1
<1>3. i \in 1 .. Len(q) - 1
  BY <1>1, <1>2
<1> QED BY <1>1, <1>3

(***************************************************************************)
(* A step that changes neither the sockets' lifecycle nor the table keeps  *)
(* the invariant if it keeps NoRelay and writes to no socket before its    *)
(* CONNECT.                                                                *)
(***************************************************************************)
LEMMA QueueStep ==
  ASSUME IInv, TypeOK', NoRelay',
         UNCHANGED <<stage, isMeshPeer, interest>>,
         \A s \in Sockets : stage[s] = "unregistered" => out'[s] = out[s]
  PROVE  IInv'
BY DEF IInv, UntouchedBeforeConnect

(* A SUBSCRIBE or UNSUBSCRIBE of a socket that can be received.            *)
LEMMA TableStep ==
  ASSUME IInv, TypeOK', NoRelay', NEW s \in Sockets, CanReceive(s),
         UNCHANGED <<stage, isMeshPeer>>,
         \A e \in interest' : e \in interest \/ e.socket = s,
         \A r \in Sockets : out'[r] = out[r]
  PROVE  IInv'
BY DEF IInv, UntouchedBeforeConnect, CanReceive

(* What goes with a connection is no reason to relay a message.            *)
LEMMA LostKeepsNoRelay ==
  ASSUME TypeOK, NoRelay, isMeshPeer' = isMeshPeer,
         NEW e \in Endpoints, LosesUnsent(e)
  PROVE  NoRelay'
<1> SUFFICES ASSUME NEW d \in Endpoints, NEW i \in DOMAIN out'[d]
             PROVE  MayBeWritten(d, out[d][i])'
  BY DEF NoRelay
<1>1. i \in DOMAIN out[d] /\ out'[d][i] = out[d][i]
  BY Lost DEF TypeOK
<1>2. MayBeWritten(d, out[d][i])
  BY <1>1 DEF NoRelay
<1> DEFINE frame == out[d][i]
<1>3. out'[d][i] = frame
  BY <1>1
<1> HIDE DEF frame
<1>4. MayBeWritten(d, frame) => MayBeWritten(d, out[d][i])'
  BY <1>3 DEF MayBeWritten
<1> QED BY <1>2, <1>4 DEF frame

(* A socket that is let go of, or destroyed.                               *)
LEMMA EndOfSocketStep ==
  ASSUME IInv, TypeOK', UNCHANGED isMeshPeer,
         NEW s \in Sockets, s \in Endpoints, LosesUnsent(s),
         stage'[s] # "unregistered",
         \A r \in Sockets \ {s} : stage'[r] = stage[r],
         \A e \in interest' : e \in interest
  PROVE  IInv'
<1>1. TypeOK /\ NoRelay /\ UntouchedBeforeConnect
  BY DEF IInv
<1>2. NoRelay'
  BY <1>1, LostKeepsNoRelay
<1>3. \A r \in Sockets \ {s} : out'[r] = out[r]
  BY <1>1, Lost DEF TypeOK, Endpoints
<1>4. UntouchedBeforeConnect'
  BY <1>1, <1>3 DEF UntouchedBeforeConnect
<1> QED BY <1>2, <1>4 DEF IInv

(* ... and is kept by every step.                                          *)
LEMMA InvStep == IInv /\ [Next]_vars => IInv'
<1> SUFFICES ASSUME IInv, [Next]_vars PROVE IInv'
  OBVIOUS
<1>t. TypeOK /\ TypeOK' /\ NoRelay /\ UntouchedBeforeConnect
  BY TypeStep DEF IInv
<1>s. \A s \in Sockets : s \in Endpoints /\ s \notin Peers
  BY ServiceAssumption DEF Endpoints
<1>1. ASSUME NEW s \in Sockets, NEW meshPeer \in BOOLEAN,
             registerSocket(s, meshPeer)
      PROVE  IInv'
  <2>1. /\ stage[s] = "unregistered" /\ out[s] = << >>
        /\ \A e \in interest : e.socket # s
    BY <1>1, <1>t DEF registerSocket, UntouchedBeforeConnect
  <2>2. \A r \in Sockets \ {s} : /\ stage'[r] = stage[r]
                                /\ isMeshPeer'[r] = isMeshPeer[r]
    BY <1>1, <1>t DEF registerSocket, TypeOK
  <2>3. UNCHANGED <<interest, out>> /\ stage'[s] = "moving"
    BY <1>1, <1>t DEF registerSocket, TypeOK
  <2>4. NoRelay'
    <3> SUFFICES ASSUME NEW e \in Endpoints, NEW i \in DOMAIN out[e]
                 PROVE  MayBeWritten(e, out[e][i])'
      BY <2>3 DEF NoRelay
    <3>1. e # s
      BY <2>1
    <3>2. MayBeWritten(e, out[e][i])
      BY <1>t DEF NoRelay
    <3>3. e \in Peers \/ e \in Sockets \ {s}
      BY <3>1 DEF Endpoints
    <3> QED BY <2>2, <2>3, <3>2, <3>3 DEF MayBeWritten
  <2>5. UntouchedBeforeConnect'
    BY <1>t, <2>2, <2>3 DEF UntouchedBeforeConnect
  <2> QED BY <1>t, <2>4, <2>5 DEF IInv
<1>2. ASSUME NEW s \in Sockets, onMoveToLoopComplete(s)
      PROVE  IInv'
  <2>1. NoRelay'
    BY <1>2, <1>t, <1>s, FramesAreFrames, ControlFrames, WriteKeepsNoRelay
       DEF onMoveToLoopComplete
  <2>2. /\ stage'[s] = "managed" /\ UNCHANGED interest
        /\ \A r \in Sockets \ {s} : stage'[r] = stage[r] /\ out'[r] = out[r]
    BY <1>2, <1>t, <1>s DEF onMoveToLoopComplete, Write, TypeOK
  <2>3. UntouchedBeforeConnect'
    BY <1>t, <2>2 DEF UntouchedBeforeConnect
  <2> QED BY <1>t, <2>1, <2>3 DEF IInv
<1>3. ASSUME NEW s \in Sockets, NEW subject \in SubjectNames,
             NEW id \in SubscriptionIDs, onSubscribe(s, subject, id)
      PROVE  IInv'
  <2>1. NoRelay' /\ \A r \in Sockets : out'[r] = out[r]
    <3>1. CASE RelayToMesh(SubscribeFrame(subject, id))
      <4>1. NoRelay'
        BY <1>3, <3>1, <1>t, FramesAreFrames, ControlFrames, RelayKeepsNoRelay
           DEF onSubscribe
      <4> QED BY <4>1, <3>1, <1>s DEF RelayToMesh
    <3>2. CASE UNCHANGED out
      BY <1>3, <3>2, <1>t DEF onSubscribe, NoRelay, MayBeWritten
    <3> QED BY <1>3, <3>1, <3>2 DEF onSubscribe
  <2>2. \A e \in interest' : e \in interest \/ e.socket = s
    BY <1>3, OperationsKeepSockets DEF onSubscribe
  <2> QED BY <1>3, <1>t, <2>1, <2>2, TableStep DEF onSubscribe
<1>4. ASSUME NEW s \in Sockets, NEW subject \in SubjectNames,
             NEW id \in SubscriptionIDs, onUnsubscribe(s, subject, id)
      PROVE  IInv'
  <2>1. NoRelay' /\ \A r \in Sockets : out'[r] = out[r]
    <3>1. CASE RelayToMesh(UnsubscribeFrame(subject, id))
      <4>1. NoRelay'
        BY <1>4, <3>1, <1>t, FramesAreFrames, ControlFrames, RelayKeepsNoRelay
           DEF onUnsubscribe
      <4> QED BY <4>1, <3>1, <1>s DEF RelayToMesh
    <3>2. CASE UNCHANGED out
      BY <1>4, <3>2, <1>t DEF onUnsubscribe, NoRelay, MayBeWritten
    <3> QED BY <1>4, <3>1, <3>2 DEF onUnsubscribe
  <2>2. \A e \in interest' : e \in interest
    BY <1>4, OperationsKeepSockets DEF onUnsubscribe
  <2> QED BY <1>4, <1>t, <2>1, <2>2, TableStep DEF onUnsubscribe
<1>5. ASSUME NEW topic \in Topics, NEW m \in Messages,
             NEW fromPeer \in BOOLEAN, onMessage(topic, m, fromPeer)
      PROVE  IInv'
  <2>1. NoRelay'
    BY <1>5, <1>t, ForwardKeepsNoRelay DEF onMessage
  <2>2. \A s \in Sockets : stage[s] = "unregistered" => out'[s] = out[s]
    BY <1>5, <1>t, ForwardToInterestedOnly DEF onMessage, UntouchedBeforeConnect
  <2> QED BY <1>5, <1>t, <2>1, <2>2, QueueStep DEF onMessage
<1>6. ASSUME NEW s \in Sockets, onDisconnected(s)
      PROVE  IInv'
  <2>1. /\ UNCHANGED isMeshPeer
        /\ stage'[s] = "released" /\ LosesUnsent(s)
        /\ \A r \in Sockets \ {s} : stage'[r] = stage[r]
    BY <1>6, <1>t DEF onDisconnected, TypeOK
  <2>2. \A e \in interest' : e \in interest
    BY <1>6, OperationsKeepSockets DEF onDisconnected
  <2> QED BY <1>t, <1>s, <2>1, <2>2, EndOfSocketStep
<1>7. ASSUME NEW s \in Sockets, SocketDestroyed(s)
      PROVE  IInv'
  <2>1. /\ UNCHANGED <<isMeshPeer, interest>>
        /\ stage'[s] = "destroyed" /\ LosesUnsent(s)
        /\ \A r \in Sockets \ {s} : stage'[r] = stage[r]
    BY <1>7, <1>t DEF SocketDestroyed, TypeOK
  <2> QED BY <1>t, <1>s, <2>1, EndOfSocketStep
<1>8. CASE onStatsTimer
  BY <1>8, <1>t, QueueStep DEF onStatsTimer, NoRelay, MayBeWritten
<1>9. ASSUME NEW p \in Peers, onConnectionSucceeded(p)
      PROVE  IInv'
  <2>1. Write(p, ConnectMeshPeer) /\ UNCHANGED <<stage, isMeshPeer, interest>>
    BY <1>9 DEF onConnectionSucceeded, PeerStep
  <2>2. NoRelay'
    BY <2>1, <1>t, FramesAreFrames, ControlFrames, WriteKeepsNoRelay
       DEF Endpoints
  <2>3. \A s \in Sockets : out'[s] = out[s]
    BY <2>1, <1>t, <1>s DEF Write, TypeOK
  <2> QED BY <1>t, <2>1, <2>2, <2>3, QueueStep
<1>10. ASSUME NEW p \in Peers,
              onConnectionFailed(p) \/ RetryTimer(p) \/ onResolutionFailed(p)
       PROVE  IInv'
  <2>1. UNCHANGED <<stage, isMeshPeer, interest, out>>
    BY <1>10 DEF onConnectionFailed, RetryTimer, onResolutionFailed, PeerStep
  <2> QED BY <2>1, <1>t, QueueStep DEF NoRelay, MayBeWritten
<1>11. ASSUME NEW p \in Peers, onPeerDisconnected(p)
       PROVE  IInv'
  <2>1. UNCHANGED <<stage, isMeshPeer, interest>> /\ LosesUnsent(p)
    BY <1>11 DEF onPeerDisconnected, PeerStep
  <2>2. NoRelay'
    BY <2>1, <1>t, LostKeepsNoRelay DEF Endpoints
  <2>3. \A s \in Sockets : out'[s] = out[s]
    BY <2>1, <1>t, <1>s, Lost DEF TypeOK, Endpoints
  <2> QED BY <1>t, <2>1, <2>2, <2>3, QueueStep
<1>12. ASSUME NEW e \in Endpoints, Delivered(e)
       PROVE  IInv'
  <2>1. /\ UNCHANGED <<stage, isMeshPeer, interest>>
        /\ out[e] # << >> /\ out' = [out EXCEPT ![e] = Tail(@)]
        /\ e \in Sockets => stage[e] # "unregistered"
    BY <1>12, <1>s DEF Delivered
  <2>2. NoRelay'
    <3> SUFFICES ASSUME NEW d \in Endpoints, NEW i \in DOMAIN out'[d]
                 PROVE  MayBeWritten(d, out[d][i])'
      BY DEF NoRelay
    <3>1. \E j \in DOMAIN out[d] : out'[d][i] = out[d][j]
      <4>1. out[d] \in Seq(Frames)
        BY <1>t DEF TypeOK
      <4>2. CASE d = e
        <5>1. out'[d] = Tail(out[d])
          BY <1>t, <2>1, <4>2 DEF TypeOK
        <5>2. i + 1 \in DOMAIN out[d] /\ out'[d][i] = out[d][i + 1]
          BY <2>1, <4>1, <4>2, <5>1, TailIndices
        <5> QED BY <5>2
      <4>3. CASE d # e
        BY <1>t, <2>1, <4>3 DEF TypeOK
      <4> QED BY <4>2, <4>3
    <3>2. PICK j \in DOMAIN out[d] : out'[d][i] = out[d][j]
      BY <3>1
    <3>3. MayBeWritten(d, out[d][j])
      BY <1>t DEF NoRelay
    <3>4. isMeshPeer' = isMeshPeer
      BY <2>1
    <3>5. MayBeWritten(d, out[d][j]) => MayBeWritten(d, out[d][i])'
      <4> DEFINE frame == out[d][j]
      <4>1. out'[d][i] = frame
        BY <3>2
      <4> HIDE DEF frame
      <4>2. MayBeWritten(d, frame) => MayBeWritten(d, out[d][i])'
        BY <3>4, <4>1 DEF MayBeWritten
      <4> QED BY <4>2 DEF frame
    <3> QED BY <3>3, <3>5
  <2>3. \A s \in Sockets : stage[s] = "unregistered" => out'[s] = out[s]
    BY <1>t, <1>s, <2>1 DEF TypeOK
  <2> QED BY <1>t, <2>1, <2>2, <2>3, QueueStep
<1>13. CASE UNCHANGED vars
  BY <1>13, <1>t, QueueStep DEF vars, NoRelay, MayBeWritten
<1>14. ASSUME NEW s \in Sockets, NEW topic \in Topics, NEW m \in Messages,
              onSocketMessage(s, topic, m)
       PROVE  IInv'
  BY <1>5, <1>14, <1>t DEF onSocketMessage, TypeOK
<1>15. ASSUME NEW p \in Peers, NEW topic \in Topics, NEW m \in Messages,
              onPeerMessage(p, topic, m)
       PROVE  IInv'
  BY <1>5, <1>15 DEF onPeerMessage
<1> QED
  BY <1>1, <1>2, <1>3, <1>4, <1>6, <1>7, <1>8, <1>9, <1>10, <1>11, <1>12,
     <1>13, <1>14, <1>15 DEF Next, SocketStep, PeerConnectionStep

(***************************************************************************)
(* The inductive invariant holds in every state of every service.          *)
(***************************************************************************)
THEOREM Safety == Spec => []IInv
BY InvInit, InvStep, PTL DEF Spec

(* A disconnection removes the entries of the socket whatever it was doing.*)
LEMMA DisconnectedIsNotStale ==
  ASSUME NEW s, onDisconnected(s)
  PROVE  ~Stale(s)'
BY OperationsKeepSockets DEF onDisconnected, Stale

(***************************************************************************)
(* The steps after which a socket that was let go of has an entry.         *)
(***************************************************************************)
LEMMA StaleStep ==
  ASSUME IInv, [Next]_vars, NEW s \in Sockets, Stale(s)'
  PROVE  \/ Stale(s)
         \/ /\ stage[s] = "released"
            /\ \E subject \in SubjectNames, id \in SubscriptionIDs :
                 onSubscribe(s, subject, id)
<1>t. TypeOK /\ UntouchedBeforeConnect
  BY DEF IInv
<1>p. PICK entry \in interest' : entry.socket = s
  BY DEF Stale
<1>n. ~Registered(s)'
  BY DEF Stale
<1>1. CASE stage' = stage /\ interest' \subseteq interest
  BY <1>1, <1>p, <1>n DEF Stale, Registered
<1>2. ASSUME NEW r \in Sockets, NEW subject \in SubjectNames,
             NEW id \in SubscriptionIDs, onSubscribe(r, subject, id)
      PROVE  Stale(s) \/ (r = s /\ stage[s] = "released")
  <2>1. /\ stage' = stage /\ CanReceive(r)
        /\ \A e \in interest' : e \in interest \/ e.socket = r
    BY <1>2, OperationsKeepSockets DEF onSubscribe
  <2>2. ~Registered(s) /\ (r = s => stage[s] = "released")
    BY <2>1, <1>n DEF Registered, CanReceive
  <2>3. entry \in interest \/ s = r
    BY <2>1, <1>p
  <2>4. CASE entry \in interest
    <3>1. Stale(s)
      BY <2>2, <2>4, <1>p DEF Stale
    <3> QED BY <3>1
  <2>5. CASE s = r
    BY <2>2, <2>5
  <2> QED BY <2>3, <2>4, <2>5
<1>3. ASSUME NEW r \in Sockets, NEW subject \in SubjectNames,
             NEW id \in SubscriptionIDs, onUnsubscribe(r, subject, id)
      PROVE  stage' = stage /\ interest' \subseteq interest
  BY <1>3, OperationsKeepSockets DEF onUnsubscribe
<1>4. ASSUME NEW r \in Sockets, NEW meshPeer \in BOOLEAN,
             registerSocket(r, meshPeer)
      PROVE  Stale(s)
  <2>1. s # r /\ stage'[s] = stage[s] /\ interest' = interest
    BY <1>4, <1>n, <1>t DEF registerSocket, Registered, TypeOK
  <2> QED BY <2>1, <1>p, <1>n DEF Stale, Registered
<1>5. ASSUME NEW r \in Sockets, onMoveToLoopComplete(r)
      PROVE  Stale(s)
  <2>1. s # r /\ stage'[s] = stage[s] /\ interest' = interest
    BY <1>5, <1>n, <1>t DEF onMoveToLoopComplete, Registered, TypeOK
  <2> QED BY <2>1, <1>p, <1>n DEF Stale, Registered
<1>6. ASSUME NEW r \in Sockets, onDisconnected(r)
      PROVE  Stale(s)
  <2>1. s # r
    BY <1>6, DisconnectedIsNotStale
  <2>2. stage'[s] = stage[s] /\ entry \in interest
    BY <1>6, <1>p, <1>t, <2>1, OperationsKeepSockets DEF onDisconnected, TypeOK
  <2> QED BY <2>2, <1>p, <1>n DEF Stale, Registered
<1>7. ASSUME NEW r \in Sockets, SocketDestroyed(r)
      PROVE  Stale(s)
  <2>1. /\ interest' = interest
        /\ Registered(s) => Registered(s)'
    BY <1>7, <1>t DEF SocketDestroyed, Registered, TypeOK
  <2> QED BY <2>1, <1>p, <1>n DEF Stale
<1>8. ASSUME NEW topic, NEW m, NEW fromPeer, onMessage(topic, m, fromPeer)
      PROVE  stage' = stage /\ interest' \subseteq interest
  BY <1>8 DEF onMessage
<1>9. ASSUME NEW r \in Sockets, NEW topic \in Topics, NEW m \in Messages,
             onSocketMessage(r, topic, m)
      PROVE  stage' = stage /\ interest' \subseteq interest
  BY <1>8, <1>9 DEF onSocketMessage
<1>10. ASSUME NEW p \in Peers, PeerConnectionStep(p)
       PROVE  stage' = stage /\ interest' \subseteq interest
  <2>1. ASSUME NEW topic \in Topics, NEW m \in Messages,
               onPeerMessage(p, topic, m)
        PROVE  stage' = stage /\ interest' \subseteq interest
    BY <1>8, <2>1 DEF onPeerMessage
  <2> QED BY <1>10, <2>1 DEF PeerConnectionStep, onConnectionSucceeded,
             onConnectionFailed, RetryTimer, onResolutionFailed,
             onPeerDisconnected, PeerStep
<1>11. ASSUME NEW e \in Endpoints, Delivered(e)
       PROVE  stage' = stage /\ interest' \subseteq interest
  BY <1>11 DEF Delivered
<1>12. CASE onStatsTimer
  BY <1>1, <1>12 DEF onStatsTimer
<1>13. CASE UNCHANGED vars
  BY <1>1, <1>13 DEF vars
<1> QED
  BY <1>1, <1>2, <1>3, <1>4, <1>5, <1>6, <1>7, <1>9, <1>10, <1>11, <1>12,
     <1>13 DEF Next, SocketStep

(***************************************************************************)
(* Only a SUBSCRIBE that a socket delivers after its disconnection leaves  *)
(* an entry behind, and the next disconnection removes that too.           *)
(***************************************************************************)
THEOREM StaleInterestIsLateHolds == Spec => StaleInterestIsLate
<1>1. ASSUME IInv, [Next]_vars
      PROVE  \A s \in Sockets : Stale(s)' =>
               \/ Stale(s) /\ ~onDisconnected(s)
               \/ /\ stage[s] = "released"
                  /\ \E subject \in SubjectNames, id \in SubscriptionIDs :
                       onSubscribe(s, subject, id)
  BY <1>1, StaleStep, DisconnectedIsNotStale
<1> QED BY <1>1, Safety, PTL DEF Spec, StaleInterestIsLate

(***************************************************************************)
(* onMessage writes a message to a peer gateway at most once, and only a   *)
(* message of our own clients; relay() never carries a message.            *)
(***************************************************************************)
THEOREM NoRelayHolds == Spec => []NoRelay
<1>1. IInv => NoRelay
  BY DEF IInv
<1> QED BY <1>1, Safety, PTL
=============================================================================
