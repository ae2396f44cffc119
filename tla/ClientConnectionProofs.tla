----------------------- MODULE ClientConnectionProofs -----------------------
(***************************************************************************)
(* Replies get to the requests they answer, the cache of the C++ library   *)
(* is marked when it is stale, and the callback that made a subscription   *)
(* gets every message, in order and once: for any threads, subjects and    *)
(* messages, in both libraries and both ways of dispatching. Every variable*)
(* keeps its type, which says that a subject the client holds has a        *)
(* callback under its ID, and that its reply is what sets an event.        *)
(***************************************************************************)
EXTENDS ClientConnection, TLAPS, SequenceTheorems, NaturalsInduction,
        WellFoundedInduction

Messages == [id : Nat, n : Nat, answers : Nat]

(* No request that is registered has the ID of a message that does not     *)
(* answer it, and none is going to get it.                                 *)
Right(m) ==
  /\ m.id < m_nextSubscriptionID
  /\ \A c \in DOMAIN callbackInfos : IsRequest(c) /\ callbackInfos[c].id = m.id => m.answers = c

RightMessages == {m \in Messages : Right(m)}

Infos ==
  [subject : Subjects \cup {createInbox(c) : c \in Nat}, id : Nat,
   first : BOOLEAN, request : BOOLEAN, held : BOOLEAN]

(* The callbacks: only a request has an inbox, and its ID is its own.      *)
Registry ==
  /\ library \in {"C++", ".NET"}
  /\ m_nextSubscriptionID \in Nat
  /\ callbackInfos \in Seq(Infos) /\ Len(callbackInfos) <= MaxCallbacks
  /\ \A c \in DOMAIN callbackInfos :
       /\ IF IsRequest(c) THEN callbackInfos[c].first /\ callbackInfos[c].subject = createInbox(c)
          ELSE callbackInfos[c].subject \in Subjects
       /\ callbackInfos[c].first => callbackInfos[c].id < m_nextSubscriptionID
  /\ \A b, c \in DOMAIN callbackInfos :
       callbackInfos[b].first /\ callbackInfos[c].first /\ callbackInfos[b].id = callbackInfos[c].id
         => b = c
  /\ \A s \in DOMAIN m_subscriptionsBySubject :
       /\ m_subscriptionsBySubject[s] \in Nat
       /\ \E c \in DOMAIN callbackInfos : callbackInfos[c].subject = s

(* A callback that is listed for an ID was registered for it.              *)
Lists(f) ==
  \A id \in DOMAIN f : \A c \in f[id] : c \in DOMAIN callbackInfos /\ callbackInfos[c].id = id

Tables == Lists(m_subscriptionsByID) /\ Lists(m_onSendMessageCache)

(* Whom the threads work for.                                              *)
Places ==
  {"idle", "subscribing", "unsubscribing", "noting", "requesting", "waiting", "erasing",
   "releasing", "backlog", "waitOne", "getItems", "batch"}

Calls ==
  /\ thread \in [Threads -> [pc : Places, callback : Nat]]
  /\ \A t \in Threads :
       /\ At(t, "subscribing") =>
            thread[t].callback \in DOMAIN callbackInfos /\ callbackInfos[thread[t].callback].first
       /\ At(t, "noting") \/ At(t, "requesting") =>
            thread[t].callback \in DOMAIN callbackInfos /\ IsRequest(thread[t].callback)
  /\ \A r \in requests : r \in DOMAIN callbackInfos /\ IsRequest(r)

(* The gateway gives the ID of a request to its inbox only.                *)
Gateway ==
  \A s \in DOMAIN gatewayIDs :
    /\ gatewayIDs[s] \in Nat /\ gatewayIDs[s] < m_nextSubscriptionID
    /\ \A c \in DOMAIN callbackInfos :
         IsRequest(c) /\ callbackInfos[c].id = gatewayIDs[s] => s = createInbox(c)

(* Every message on its way is right.                                      *)
Flow ==
  /\ fromGateway \in Seq(RightMessages) /\ m_queuedMessages \in Seq(RightMessages)
  /\ m_messageBacklog \in Seq(RightMessages) /\ batch \in Seq(RightMessages)
  /\ DOMAIN handling = Dispatchers
  /\ \A d \in Dispatchers : Handling(d) =>
       /\ handling[d] \in [phase : {"start", "lookup", "call"}, message : RightMessages,
                           callbacks : SUBSET DOMAIN callbackInfos, cached : BOOLEAN]
       /\ \A c \in handling[d].callbacks : callbackInfos[c].id = handling[d].message.id

Replies ==
  /\ received \in [CallbackIDs -> Seq(Messages)]
  /\ \A c \in CallbackIDs :
       /\ c \notin DOMAIN callbackInfos => received[c] = << >>
       /\ c \in DOMAIN callbackInfos /\ IsRequest(c) =>
            \A i \in DOMAIN received[c] : received[c][i].answers = c

RepliesInv == Registry /\ Tables /\ Calls /\ Gateway /\ Flow /\ Replies
-----------------------------------------------------------------------------
Stray == {c \in DOMAIN callbackInfos : ~callbackInfos[c].first}

(* The callbacks that id has, apart from those it should not have.         *)
Fresh(callbacks, id) == callbacks \ Stray = CallbacksOf(id) \ Stray

(* What is in the cache, and what goes into it, is fresh unless the cache  *)
(* is marked as invalid.                                                   *)
Freshness ==
  /\ library = ".NET" => m_onSendMessageCache = << >>
  /\ library = "C++" /\ ~m_onSendMessageCacheInvalidated =>
       /\ \A id \in DOMAIN m_onSendMessageCache : Fresh(m_onSendMessageCache[id], id)
       /\ \A d \in Dispatchers :
            handling[d].phase = "call" /\ ~handling[d].cached =>
              Fresh(handling[d].callbacks, handling[d].message.id)

IInv == RepliesInv /\ Freshness
-----------------------------------------------------------------------------
(* A part of the invariant stays when its variables do.                    *)
LEMMA RightKept ==
  ASSUME UNCHANGED <<m_nextSubscriptionID, callbackInfos>>
  PROVE  RightMessages' = RightMessages
<1>1. \A m : Right(m)' <=> Right(m)
  BY DEF Right, IsRequest
<1> QED BY <1>1 DEF RightMessages

LEMMA RegistryKept ==
  ASSUME Registry, UNCHANGED <<library, subscriptions>>
  PROVE  Registry'
BY DEF Registry, subscriptions, IsRequest

LEMMA TablesKept ==
  ASSUME Tables, UNCHANGED <<subscriptions, m_onSendMessageCache>>
  PROVE  Tables'
BY DEF Tables, Lists, subscriptions

LEMMA CallsKept ==
  ASSUME Calls, UNCHANGED <<callbackInfos, thread, requests>>
  PROVE  Calls'
BY DEF Calls, At, IsRequest

LEMMA GatewayKept ==
  ASSUME Gateway, UNCHANGED <<m_nextSubscriptionID, callbackInfos, gatewayIDs>>
  PROVE  Gateway'
BY DEF Gateway, IsRequest

LEMMA FlowKept ==
  ASSUME Flow, UNCHANGED <<subscriptions, m_queuedMessages, m_messageBacklog, batch,
                           fromGateway, handling>>
  PROVE  Flow'
<1>1. RightMessages' = RightMessages
  BY RightKept DEF subscriptions
<1> QED BY <1>1 DEF Flow, Handling, subscriptions

LEMMA RepliesKept ==
  ASSUME Replies, UNCHANGED <<callbackInfos, received>>
  PROVE  Replies'
BY DEF Replies, IsRequest

(* Where a thread goes.                                                    *)
LEMMA GotoType ==
  ASSUME Calls, NEW t \in Threads, NEW pc \in Places, NEW c \in Nat, Goto(t, pc, c)
  PROVE  /\ thread' \in [Threads -> [pc : Places, callback : Nat]]
         /\ thread'[t].pc = pc /\ thread'[t].callback = c
         /\ \A u \in Threads \ {t} : thread'[u] = thread[u]
BY DEF Calls, Goto

LEMMA CallType ==
  ASSUME Calls, NEW pc \in Places, Call(pc)
  PROVE  /\ thread' \in [Threads -> [pc : Places, callback : Nat]]
         /\ thread'[Dispatcher].pc = pc
         /\ \A u \in Threads \ {Dispatcher} : thread'[u] = thread[u]
BY ClientAssumption DEF Calls, Call

(* A thread that is not on its way to a request or a subscription.         *)
LEMMA CallsElsewhere ==
  ASSUME Calls, NEW t \in Threads, UNCHANGED <<callbackInfos, requests>>,
         thread' \in [Threads -> [pc : Places, callback : Nat]],
         thread'[t].pc \notin {"subscribing", "noting", "requesting"},
         \A u \in Threads \ {t} : thread'[u] = thread[u]
  PROVE  Calls'
BY DEF Calls, At, IsRequest
-----------------------------------------------------------------------------
(* The client's threads: what they do outside of the subscriptions.        *)
LEMMA sendSUBSCRIBEKeeps ==
  ASSUME RepliesInv, NEW t \in Threads, sendSUBSCRIBE(t), library' = library
  PROVE  RepliesInv'
<1> DEFINE c == thread[t].callback
<1>1. /\ At(t, "subscribing") /\ c \in DOMAIN callbackInfos /\ callbackInfos[c].first
      /\ c \in Nat /\ callbackInfos[c] \in Infos
  BY DEF sendSUBSCRIBE, RepliesInv, Registry, Calls
<1>2. UNCHANGED <<subscriptions, m_onSendMessageCache, m_queuedMessages, m_messageBacklog, batch,
                  fromGateway, handling, requests, received>> /\ callbackInfos' = callbackInfos
      /\ m_nextSubscriptionID' = m_nextSubscriptionID
  BY DEF sendSUBSCRIBE, cacheVars, queueVars, callVars, outcome, subscriptions
<1>3. Registry' /\ Tables' /\ Flow' /\ Replies'
  BY <1>2, RegistryKept, TablesKept, FlowKept, RepliesKept DEF RepliesInv
<1>4. Calls'
  <2>1. CASE IsRequest(c)
    <3>1. Goto(t, "noting", c)
      BY <2>1 DEF sendSUBSCRIBE
    <3>2. /\ thread' \in [Threads -> [pc : Places, callback : Nat]]
          /\ thread'[t].pc = "noting" /\ thread'[t].callback = c
          /\ \A u \in Threads \ {t} : thread'[u] = thread[u]
      BY <1>1, <3>1, GotoType DEF RepliesInv, Places
    <3> QED BY <1>1, <1>2, <2>1, <3>2 DEF RepliesInv, Calls, At, IsRequest
  <2>2. CASE ~IsRequest(c)
    <3>1. Goto(t, "idle", 0)
      BY <2>2 DEF sendSUBSCRIBE
    <3> QED BY <1>2, <3>1, GotoType, CallsElsewhere DEF RepliesInv, Places
  <2> QED BY <2>1, <2>2
<1>5. Gateway'
  <2>1. CASE gatewayIDs' = gatewayIDs
    BY <1>2, <2>1, GatewayKept DEF RepliesInv
  <2>2. CASE gatewayIDs' = With(gatewayIDs, callbackInfos[c].subject, callbackInfos[c].id)
    <3>1. callbackInfos[c].id \in Nat /\ callbackInfos[c].id < m_nextSubscriptionID
      BY <1>1 DEF Infos, RepliesInv, Registry
    <3>2. \A d \in DOMAIN callbackInfos :
            IsRequest(d) /\ callbackInfos[d].id = callbackInfos[c].id
              => callbackInfos[c].subject = createInbox(d)
      BY <1>1 DEF RepliesInv, Registry
    <3>3. \A s \in DOMAIN gatewayIDs' :
            gatewayIDs'[s] = IF s = callbackInfos[c].subject THEN callbackInfos[c].id ELSE gatewayIDs[s]
      BY <2>2 DEF With
    <3>4. \A s \in DOMAIN gatewayIDs' : s \in DOMAIN gatewayIDs \/ s = callbackInfos[c].subject
      BY <2>2 DEF With
    <3> QED BY <1>2, <3>1, <3>2, <3>3, <3>4 DEF RepliesInv, Gateway, IsRequest
  <2> QED BY <2>1, <2>2 DEF sendSUBSCRIBE
<1> QED BY <1>3, <1>4, <1>5 DEF RepliesInv

(* The steps that change nothing but where a thread is and what does not   *)
(* matter to the replies.                                                  *)
LEMMA ThreadKeeps ==
  ASSUME RepliesInv, NEW t \in Threads, library' = library,
         \/ sendUNSUBSCRIBE(t) \/ waitForReply(t) \/ RequestTimesOut(t) \/ eraseRequest(t)
         \/ noteRequest(t) \/ sendRequestMessage(t)
  PROVE  RepliesInv'
<1>1. /\ UNCHANGED <<subscriptions, m_onSendMessageCache, m_queuedMessages, m_messageBacklog,
                     batch, fromGateway, handling, gatewayIDs, received>>
      /\ callbackInfos' = callbackInfos /\ m_nextSubscriptionID' = m_nextSubscriptionID
  BY DEF sendUNSUBSCRIBE, waitForReply, RequestTimesOut, eraseRequest, noteRequest,
         sendRequestMessage, cacheVars, queueVars, callVars, outcome, gatewayVars, subscriptions
<1>2. Registry' /\ Tables' /\ Flow' /\ Gateway' /\ Replies'
  BY <1>1, RegistryKept, TablesKept, FlowKept, GatewayKept, RepliesKept DEF RepliesInv
<1>3. Calls /\ thread[t].callback \in Nat
  BY DEF RepliesInv, Calls
<1>4. CASE sendUNSUBSCRIBE(t) \/ waitForReply(t) \/ RequestTimesOut(t) \/ eraseRequest(t)
  <2>1. requests' = requests
    BY <1>4 DEF sendUNSUBSCRIBE, waitForReply, RequestTimesOut, eraseRequest, gatewayVars
  <2>2. \/ Goto(t, "idle", 0) \/ Goto(t, "erasing", thread[t].callback)
        \/ Goto(t, "releasing", thread[t].callback)
    BY <1>4 DEF sendUNSUBSCRIBE, waitForReply, RequestTimesOut, eraseRequest
  <2>3. Calls'
    BY <1>1, <1>3, <2>1, <2>2, GotoType, CallsElsewhere DEF Places
  <2> QED BY <1>2, <2>3 DEF RepliesInv
<1>5. CASE noteRequest(t)
  <2>1. requests' = requests /\ At(t, "noting") /\ Goto(t, "requesting", thread[t].callback)
    BY <1>5 DEF noteRequest, gatewayVars
  <2>2. /\ thread' \in [Threads -> [pc : Places, callback : Nat]]
        /\ thread'[t].pc = "requesting" /\ thread'[t].callback = thread[t].callback
        /\ \A u \in Threads \ {t} : thread'[u] = thread[u]
    BY <1>3, <2>1, GotoType DEF Places
  <2>3. Calls'
    BY <1>1, <1>3, <2>1, <2>2 DEF Calls, At, IsRequest
  <2> QED BY <1>2, <2>3 DEF RepliesInv
<1>6. CASE sendRequestMessage(t)
  <2>1. /\ requests' = requests \cup {thread[t].callback} /\ At(t, "requesting")
        /\ Goto(t, "waiting", thread[t].callback)
    BY <1>6 DEF sendRequestMessage
  <2>2. /\ thread' \in [Threads -> [pc : Places, callback : Nat]]
        /\ thread'[t].pc = "waiting"
        /\ \A u \in Threads \ {t} : thread'[u] = thread[u]
    BY <1>3, <2>1, GotoType DEF Places
  <2>3. Calls'
    BY <1>1, <1>3, <2>1, <2>2 DEF Calls, At, IsRequest
  <2> QED BY <1>2, <2>3 DEF RepliesInv
<1> QED BY <1>4, <1>5, <1>6
-----------------------------------------------------------------------------
(* A subscription that is released: callbacks are held no more, and tables *)
(* lose entries.                                                           *)
LEMMA ReleaseKeeps ==
  ASSUME RepliesInv, NEW t \in Threads, NEW c, releaseSubscription(t, c), library' = library,
         c \in Nat
  PROVE  RepliesInv'
<1> DEFINE Same(d) == /\ callbackInfos'[d].subject = callbackInfos[d].subject
                      /\ callbackInfos'[d].id = callbackInfos[d].id
                      /\ callbackInfos'[d].first = callbackInfos[d].first
                      /\ callbackInfos'[d].request = callbackInfos[d].request
<1>1. callbackInfos \in Seq(Infos) /\ callbackInfos' = [callbackInfos EXCEPT ![c].held = FALSE]
  BY DEF releaseSubscription, RepliesInv, Registry
<1>2. /\ callbackInfos' \in Seq(Infos) /\ DOMAIN callbackInfos' = DOMAIN callbackInfos
      /\ Len(callbackInfos') = Len(callbackInfos)
      /\ \A d \in DOMAIN callbackInfos : Same(d)
  <2>1. CASE c \in DOMAIN callbackInfos
    <3>1. callbackInfos[c] \in Infos
      BY <1>1, <2>1
    <3>2. /\ [callbackInfos[c] EXCEPT !.held = FALSE] \in Infos
          /\ [callbackInfos[c] EXCEPT !.held = FALSE].subject = callbackInfos[c].subject
          /\ [callbackInfos[c] EXCEPT !.held = FALSE].id = callbackInfos[c].id
          /\ [callbackInfos[c] EXCEPT !.held = FALSE].first = callbackInfos[c].first
          /\ [callbackInfos[c] EXCEPT !.held = FALSE].request = callbackInfos[c].request
      BY <3>1 DEF Infos
    <3>3. callbackInfos' = [callbackInfos EXCEPT ![c] = [callbackInfos[c] EXCEPT !.held = FALSE]]
      BY <1>1
    <3> DEFINE x == [callbackInfos[c] EXCEPT !.held = FALSE]
    <3> HIDE DEF x
    <3>4. callbackInfos' = [callbackInfos EXCEPT ![c] = x] /\ x \in Infos
      BY <3>2, <3>3 DEF x
    <3>5. callbackInfos' \in Seq(Infos) /\ DOMAIN callbackInfos' = DOMAIN callbackInfos
          /\ Len(callbackInfos') = Len(callbackInfos)
      <4>1. callbackInfos \in Seq(Infos)
        BY <1>1
      <4>2. callbackInfos' \in Seq(Infos)
        BY <4>1, <2>1, <3>4
      <4>3. DOMAIN callbackInfos' = DOMAIN callbackInfos
        BY <3>4
      <4>4. Len(callbackInfos') = Len(callbackInfos)
        BY <4>1, <4>2, <4>3
      <4> QED BY <4>2, <4>3, <4>4
    <3>6. \A d \in DOMAIN callbackInfos : callbackInfos'[d] = IF d = c THEN x ELSE callbackInfos[d]
      BY <1>1, <3>4
    <3> QED BY <3>2, <3>5, <3>6 DEF x
  <2>2. CASE c \notin DOMAIN callbackInfos
    <3>1. callbackInfos' = callbackInfos
      BY <1>1, <2>2
    <3> QED BY <1>1, <3>1
  <2> QED BY <2>1, <2>2
<1>3. /\ m_nextSubscriptionID' = m_nextSubscriptionID
      /\ UNCHANGED <<m_onSendMessageCache, m_queuedMessages, m_messageBacklog, batch, handling,
                     fromGateway, gatewayIDs, requests, received>>
  BY DEF releaseSubscription, queueVars, callVars, gatewayVars, outcome
<1>4. /\ \A s \in DOMAIN m_subscriptionsBySubject' :
           s \in DOMAIN m_subscriptionsBySubject
             /\ m_subscriptionsBySubject'[s] = m_subscriptionsBySubject[s]
      /\ \A id \in DOMAIN m_subscriptionsByID' :
           id \in DOMAIN m_subscriptionsByID
             /\ m_subscriptionsByID'[id] \subseteq m_subscriptionsByID[id]
  BY DEF releaseSubscription, NoCallbacksLeft, Without
<1> HIDE DEF Same
<1>5. RightMessages' = RightMessages
  <2>1. \A m : Right(m)' <=> Right(m)
    BY <1>2, <1>3 DEF Right, IsRequest, Same
  <2> QED BY <2>1 DEF RightMessages
<1>6. Registry'
  BY <1>2, <1>3, <1>4 DEF RepliesInv, Registry, IsRequest, Same
<1>7. Tables'
  BY <1>2, <1>3, <1>4 DEF RepliesInv, Tables, Lists, Same
<1>8. Calls'
  <2>1. /\ thread' \in [Threads -> [pc : Places, callback : Nat]]
        /\ thread'[t].pc \in {"idle", "unsubscribing"}
        /\ \A u \in Threads \ {t} : thread'[u] = thread[u]
    BY GotoType DEF releaseSubscription, RepliesInv, Places
  <2> QED BY <2>1, <1>2, <1>3 DEF RepliesInv, Calls, At, IsRequest, Same
<1>9. Gateway'
  BY <1>2, <1>3 DEF RepliesInv, Gateway, IsRequest, Same
<1>10. Flow'
  BY <1>2, <1>3, <1>5 DEF RepliesInv, Flow, Handling, Same
<1>11. Replies'
  BY <1>2, <1>3 DEF RepliesInv, Replies, IsRequest, Same
<1> QED BY <1>6, <1>7, <1>8, <1>9, <1>10, <1>11 DEF RepliesInv
-----------------------------------------------------------------------------
(* An inbox is no subject that was subscribed to before.                   *)
LEMMA InboxIsNew ==
  ASSUME Registry, NewCallback \in CallbackIDs
  PROVE  createInbox(NewCallback) \notin DOMAIN m_subscriptionsBySubject
<1> SUFFICES ASSUME NEW c \in DOMAIN callbackInfos,
                    callbackInfos[c].subject = createInbox(NewCallback)
             PROVE  FALSE
  BY DEF Registry
<1>1. c # NewCallback
  BY DEF NewCallback, Registry
<1>2. callbackInfos[c].subject \notin Subjects
  BY InboxAssumption
<1>3. callbackInfos[c].subject = createInbox(c)
  BY <1>2 DEF Registry
<1> QED BY <1>1, <1>3 DEF createInbox

(* A callback is registered, for a new subscription or a further one.      *)
LEMMA RegistrationKeeps ==
  ASSUME RepliesInv, NewCallback \in CallbackIDs, library' = library,
         NEW x \in Infos, callbackInfos' = Append(callbackInfos, x),
         IF x.request THEN x.first /\ x.subject = createInbox(NewCallback) ELSE x.subject \in Subjects,
         IF x.first THEN x.id = m_nextSubscriptionID /\ m_nextSubscriptionID' = m_nextSubscriptionID + 1
         ELSE m_nextSubscriptionID' = m_nextSubscriptionID,
         \/ m_subscriptionsBySubject' = m_subscriptionsBySubject
         \/ m_subscriptionsBySubject' = With(m_subscriptionsBySubject, x.subject, x.id),
         m_subscriptionsByID' = With(m_subscriptionsByID, x.id, CallbacksOf(x.id) \cup {NewCallback}),
         UNCHANGED <<m_onSendMessageCache, m_queuedMessages, m_messageBacklog, batch, handling,
                     fromGateway, gatewayIDs, requests, received>>,
         NEW t \in Threads,
         \/ thread' = thread
         \/ Goto(t, "subscribing", NewCallback) /\ x.first
  PROVE  RepliesInv'
<1> DEFINE n == NewCallback
<1>1. callbackInfos \in Seq(Infos) /\ m_nextSubscriptionID \in Nat
  BY DEF RepliesInv, Registry
<1>2. /\ callbackInfos' \in Seq(Infos) /\ Len(callbackInfos') = n
      /\ DOMAIN callbackInfos' = DOMAIN callbackInfos \cup {n}
      /\ n \notin DOMAIN callbackInfos /\ n \in Nat
      /\ callbackInfos'[n] = x
      /\ \A c \in DOMAIN callbackInfos : callbackInfos'[c] = callbackInfos[c]
  BY <1>1 DEF NewCallback
<1>3. x.id \in Nat /\ m_nextSubscriptionID' \in Nat /\ m_nextSubscriptionID <= m_nextSubscriptionID'
      /\ x.request \in BOOLEAN /\ x.first \in BOOLEAN
  BY <1>1 DEF Infos
<1>4. n \in CallbackIDs /\ n <= MaxCallbacks
  BY DEF CallbackIDs
<1> HIDE DEF n
<1>5. RightMessages \subseteq RightMessages'
  <2>1. ASSUME NEW m \in Messages, Right(m) PROVE Right(m)'
    <3>1. m.id \in Nat /\ m.id < m_nextSubscriptionID
      BY <2>1 DEF Messages, Right
    <3>2. m.id < m_nextSubscriptionID'
      BY <1>1, <1>3, <3>1
    <3>3. x.request => x.id # m.id
      BY <1>1, <1>3, <3>1
    <3> QED BY <1>2, <2>1, <3>2, <3>3 DEF Right, IsRequest
  <2> QED BY <2>1 DEF RightMessages
<1>6. Registry'
  <2>1. \A c \in DOMAIN callbackInfos' :
          /\ IF IsRequest(c)' THEN callbackInfos'[c].first /\ callbackInfos'[c].subject = createInbox(c)
             ELSE callbackInfos'[c].subject \in Subjects
          /\ callbackInfos'[c].first => callbackInfos'[c].id < m_nextSubscriptionID'
    <3>1. ASSUME NEW c \in DOMAIN callbackInfos
          PROVE  /\ IF IsRequest(c) THEN callbackInfos[c].first /\ callbackInfos[c].subject = createInbox(c)
                    ELSE callbackInfos[c].subject \in Subjects
                 /\ callbackInfos[c].first => callbackInfos[c].id < m_nextSubscriptionID'
      <4>1. callbackInfos[c].id \in Nat
        <5>1. callbackInfos[c] \in Infos
          BY <1>1
        <5> QED BY <5>1 DEF Infos
      <4>2. callbackInfos[c].first => callbackInfos[c].id < m_nextSubscriptionID
        BY DEF RepliesInv, Registry
      <4>3. callbackInfos[c].first => callbackInfos[c].id < m_nextSubscriptionID'
        BY <1>1, <1>3, <4>1, <4>2
      <4> QED BY <4>3 DEF RepliesInv, Registry
    <3>2. x.first => x.id < m_nextSubscriptionID'
      BY <1>1
    <3>3. IF x.request THEN x.first /\ x.subject = createInbox(n) ELSE x.subject \in Subjects
      BY DEF n
    <3> QED BY <1>2, <3>1, <3>2, <3>3 DEF IsRequest
  <2>2. \A b, c \in DOMAIN callbackInfos' :
          callbackInfos'[b].first /\ callbackInfos'[c].first /\ callbackInfos'[b].id = callbackInfos'[c].id
            => b = c
    <3>1. \A c \in DOMAIN callbackInfos :
            x.first /\ callbackInfos[c].first => callbackInfos[c].id # x.id
      BY <1>1 DEF RepliesInv, Registry
    <3>2. \A b, c \in DOMAIN callbackInfos :
            callbackInfos[b].first /\ callbackInfos[c].first /\ callbackInfos[b].id = callbackInfos[c].id
              => b = c
      BY DEF RepliesInv, Registry
    <3> QED BY <1>2, <3>1, <3>2
  <2>3. \A s \in DOMAIN m_subscriptionsBySubject' :
          /\ m_subscriptionsBySubject'[s] \in Nat
          /\ \E c \in DOMAIN callbackInfos' : callbackInfos'[c].subject = s
    <3>1. \A s \in DOMAIN m_subscriptionsBySubject' :
            \/ s \in DOMAIN m_subscriptionsBySubject
                 /\ m_subscriptionsBySubject'[s] = m_subscriptionsBySubject[s]
            \/ s = x.subject /\ m_subscriptionsBySubject'[s] = x.id
      BY DEF With
    <3> QED BY <1>2, <1>3, <3>1 DEF RepliesInv, Registry
  <2>4. library' \in {"C++", ".NET"}
    BY DEF RepliesInv, Registry
  <2> QED BY <1>2, <1>3, <1>4, <2>1, <2>2, <2>3, <2>4 DEF Registry
<1>7. Tables'
  <2>1. \A id \in DOMAIN m_subscriptionsByID' : \A c \in m_subscriptionsByID'[id] :
          \/ id \in DOMAIN m_subscriptionsByID /\ c \in m_subscriptionsByID[id]
          \/ c = n /\ id = x.id
    BY DEF With, CallbacksOf, n
  <2>2. Lists(m_subscriptionsByID)'
    <3> SUFFICES ASSUME NEW id \in DOMAIN m_subscriptionsByID', NEW c \in m_subscriptionsByID'[id]
                 PROVE  c \in DOMAIN callbackInfos' /\ callbackInfos'[c].id = id
      BY DEF Lists
    <3>1. CASE c = n /\ id = x.id
      BY <3>1, <1>2
    <3>2. CASE id \in DOMAIN m_subscriptionsByID /\ c \in m_subscriptionsByID[id]
      <4>1. c \in DOMAIN callbackInfos /\ callbackInfos[c].id = id
        BY <3>2 DEF RepliesInv, Tables, Lists
      <4> QED BY <4>1, <1>2
    <3> QED BY <2>1, <3>1, <3>2
  <2>3. Lists(m_onSendMessageCache)'
    BY <1>2 DEF RepliesInv, Tables, Lists
  <2> QED BY <2>2, <2>3 DEF Tables
<1>8. Calls'
  <2>1. CASE thread' = thread
    BY <1>2, <2>1 DEF RepliesInv, Calls, At, IsRequest
  <2>2. CASE Goto(t, "subscribing", NewCallback) /\ x.first
    <3>1. /\ thread' \in [Threads -> [pc : Places, callback : Nat]]
          /\ thread'[t].pc = "subscribing" /\ thread'[t].callback = n
          /\ \A u \in Threads \ {t} : thread'[u] = thread[u]
      BY <1>2, <2>2, GotoType DEF RepliesInv, Places, n
    <3>2. ASSUME NEW u \in Threads
          PROVE  /\ At(u, "subscribing")' =>
                      thread'[u].callback \in DOMAIN callbackInfos' /\ callbackInfos'[thread'[u].callback].first
                 /\ At(u, "noting")' \/ At(u, "requesting")' =>
                      thread'[u].callback \in DOMAIN callbackInfos' /\ IsRequest(thread[u].callback)'
      <4>1. CASE u = t
        BY <1>2, <2>2, <3>1, <4>1 DEF At
      <4>2. CASE u # t
        BY <1>2, <3>1, <4>2 DEF RepliesInv, Calls, At, IsRequest
      <4> QED BY <4>1, <4>2
    <3>3. \A r \in requests' : r \in DOMAIN callbackInfos' /\ IsRequest(r)'
      BY <1>2 DEF RepliesInv, Calls, IsRequest
    <3> QED BY <3>1, <3>2, <3>3 DEF Calls
  <2> QED BY <2>1, <2>2
<1>9. Gateway'
  <2>1. ASSUME NEW s \in DOMAIN gatewayIDs
        PROVE  /\ gatewayIDs[s] \in Nat /\ gatewayIDs[s] < m_nextSubscriptionID'
               /\ x.request => x.id # gatewayIDs[s]
    BY <1>1, <1>3 DEF RepliesInv, Gateway
  <2> QED BY <1>2, <2>1 DEF RepliesInv, Gateway, IsRequest
<1>10. Flow'
  <2>1. \A q : q \in Seq(RightMessages) => q \in Seq(RightMessages')
    BY <1>5
  <2>2. /\ fromGateway' \in Seq(RightMessages') /\ m_queuedMessages' \in Seq(RightMessages')
        /\ m_messageBacklog' \in Seq(RightMessages') /\ batch' \in Seq(RightMessages')
    BY <2>1 DEF RepliesInv, Flow
  <2>3. ASSUME NEW d \in Dispatchers, Handling(d)'
        PROVE  /\ handling'[d] \in [phase : {"start", "lookup", "call"}, message : RightMessages',
                                    callbacks : SUBSET DOMAIN callbackInfos', cached : BOOLEAN]
               /\ \A c \in handling'[d].callbacks : callbackInfos'[c].id = handling'[d].message.id
    <3>1. /\ handling[d] \in [phase : {"start", "lookup", "call"}, message : RightMessages,
                              callbacks : SUBSET DOMAIN callbackInfos, cached : BOOLEAN]
          /\ \A c \in handling[d].callbacks : callbackInfos[c].id = handling[d].message.id
          /\ handling' = handling
      BY <2>3 DEF RepliesInv, Flow, Handling
    <3> QED BY <1>2, <1>5, <3>1
  <2>4. DOMAIN handling' = Dispatchers
    BY DEF RepliesInv, Flow
  <2> QED BY <2>2, <2>3, <2>4 DEF Flow
<1>11. Replies'
  <2>1. received' = received /\ received \in [CallbackIDs -> Seq(Messages)]
    BY DEF RepliesInv, Replies
  <2>2. received[n] = << >>
    BY <1>2, <1>4 DEF RepliesInv, Replies
  <2>3. DOMAIN received[n] = {}
    BY <2>2
  <2>4. \A c \in CallbackIDs :
          /\ c \notin DOMAIN callbackInfos' => received[c] = << >>
          /\ c \in DOMAIN callbackInfos' /\ callbackInfos'[c].request =>
               \A i \in DOMAIN received[c] : received[c][i].answers = c
    BY <1>2, <2>3 DEF RepliesInv, Replies, IsRequest
  <2> QED BY <2>1, <2>4 DEF Replies, IsRequest
<1> QED BY <1>6, <1>7, <1>8, <1>9, <1>10, <1>11 DEF RepliesInv

LEMMA subscribeKeeps ==
  ASSUME RepliesInv, NEW t \in Threads, NEW s \in Subjects, subscribe(t, s), library' = library
  PROVE  RepliesInv'
<1>1. /\ NewCallback \in CallbackIDs /\ NewCallback \in Nat
      /\ UNCHANGED <<m_onSendMessageCache, m_queuedMessages, m_messageBacklog, batch, handling,
                     fromGateway, gatewayIDs, requests, received>>
  BY DEF subscribe, queueVars, callVars, gatewayVars, outcome, CallbackIDs
<1>2. CASE NewSubscription(s, FALSE) /\ Goto(t, "subscribing", NewCallback)
  <2> DEFINE x == [subject |-> s, id |-> m_nextSubscriptionID, first |-> TRUE,
                   request |-> FALSE, held |-> TRUE]
  <2>1. x \in Infos
    BY DEF Infos, RepliesInv, Registry
  <2>2. /\ callbackInfos' = Append(callbackInfos, x)
        /\ m_nextSubscriptionID' = m_nextSubscriptionID + 1
        /\ m_subscriptionsBySubject' = With(m_subscriptionsBySubject, x.subject, x.id)
        /\ m_subscriptionsByID' = With(m_subscriptionsByID, x.id, CallbacksOf(x.id) \cup {NewCallback})
    BY <1>2 DEF NewSubscription, Registered
  <2>3. ~x.request /\ x.first /\ x.id = m_nextSubscriptionID /\ x.subject = s
    OBVIOUS
  <2> HIDE DEF x
  <2> QED BY <1>1, <1>2, <2>1, <2>2, <2>3, RegistrationKeeps
<1>3. CASE FurtherCallback(s, FALSE) /\ UNCHANGED thread
  <2>1. PICK id \in IF library = "C++" THEN UninitialisedIDs ELSE {m_subscriptionsBySubject[s]} :
          /\ m_subscriptionsByID' = With(m_subscriptionsByID, id, CallbacksOf(id) \cup {NewCallback})
          /\ Registered(s, id, FALSE, FALSE)
    BY <1>3 DEF FurtherCallback
  <2>2. id \in Nat
    BY <1>3, <2>1, ClientAssumption DEF FurtherCallback, RepliesInv, Registry
  <2> DEFINE x == [subject |-> s, id |-> id, first |-> FALSE, request |-> FALSE, held |-> TRUE]
  <2>3. x \in Infos /\ ~x.request /\ ~x.first /\ x.subject = s /\ x.id = id
    BY <2>2 DEF Infos
  <2>4. /\ callbackInfos' = Append(callbackInfos, x) /\ m_nextSubscriptionID' = m_nextSubscriptionID
        /\ m_subscriptionsBySubject' = m_subscriptionsBySubject
    BY <1>3, <2>1 DEF FurtherCallback, Registered
  <2> HIDE DEF x
  <2> QED BY <1>1, <1>3, <2>1, <2>3, <2>4, RegistrationKeeps
<1> QED BY <1>2, <1>3 DEF subscribe

LEMMA sendRequestKeeps ==
  ASSUME RepliesInv, NEW t \in Threads, sendRequest(t), library' = library
  PROVE  RepliesInv'
<1> DEFINE inbox == createInbox(NewCallback)
<1>1. /\ NewCallback \in CallbackIDs /\ NewCallback \in Nat
      /\ UNCHANGED <<m_onSendMessageCache, m_queuedMessages, m_messageBacklog, batch, handling,
                     fromGateway, gatewayIDs, requests, received>>
  BY DEF sendRequest, queueVars, callVars, gatewayVars, outcome, CallbackIDs
<1>2. inbox \notin DOMAIN m_subscriptionsBySubject
  BY <1>1, InboxIsNew DEF RepliesInv
<1>3. NewSubscription(inbox, TRUE) /\ Goto(t, "subscribing", NewCallback)
  BY <1>2 DEF sendRequest, FurtherCallback
<1> DEFINE x == [subject |-> inbox, id |-> m_nextSubscriptionID, first |-> TRUE,
                 request |-> TRUE, held |-> TRUE]
<1>4. x \in Infos
  BY <1>1 DEF Infos, RepliesInv, Registry
<1>5. /\ callbackInfos' = Append(callbackInfos, x)
      /\ m_nextSubscriptionID' = m_nextSubscriptionID + 1
      /\ m_subscriptionsBySubject' = With(m_subscriptionsBySubject, x.subject, x.id)
      /\ m_subscriptionsByID' = With(m_subscriptionsByID, x.id, CallbacksOf(x.id) \cup {NewCallback})
  BY <1>3 DEF NewSubscription, Registered
<1>6. x.request /\ x.first /\ x.id = m_nextSubscriptionID /\ x.subject = createInbox(NewCallback)
  OBVIOUS
<1> HIDE DEF x
<1> QED BY <1>1, <1>3, <1>4, <1>5, <1>6, RegistrationKeeps
-----------------------------------------------------------------------------
(* A message that a thread dispatches.                                     *)
Handlings ==
  [phase : {"start", "lookup", "call"}, message : RightMessages,
   callbacks : SUBSET DOMAIN callbackInfos, cached : BOOLEAN]

(* Types of the threads that dispatch.                                     *)
LEMMA HandlingKeeps ==
  ASSUME Flow, NEW d \in Dispatchers,
         UNCHANGED <<m_nextSubscriptionID, callbackInfos>>,
         fromGateway' \in Seq(RightMessages), m_queuedMessages' \in Seq(RightMessages),
         m_messageBacklog' \in Seq(RightMessages), batch' \in Seq(RightMessages),
         NEW h, handling' = [handling EXCEPT ![d] = h],
         \/ h = Nothing
         \/ h \in Handlings /\ \A c \in h.callbacks : callbackInfos[c].id = h.message.id
  PROVE  Flow'
<1>1. RightMessages' = RightMessages
  BY RightKept
<1>2. \A e \in Dispatchers \ {d} : handling'[e] = handling[e]
  BY DEF Flow
<1>3. handling'[d] = h /\ DOMAIN handling' = Dispatchers
  BY DEF Flow
<1> QED BY <1>1, <1>2, <1>3 DEF Flow, Handling, Handlings, Nothing

(* A thread begins to dispatch a message that is on its way.               *)
LEMMA HandleKeeps ==
  ASSUME Flow, NEW d \in Dispatchers,
         UNCHANGED <<m_nextSubscriptionID, callbackInfos>>,
         fromGateway' \in Seq(RightMessages), m_queuedMessages' \in Seq(RightMessages),
         m_messageBacklog' \in Seq(RightMessages), batch' \in Seq(RightMessages),
         NEW m \in RightMessages, Handle(d, m)
  PROVE  Flow'
<1> DEFINE h == [phase |-> "start", message |-> m, callbacks |-> {}, cached |-> FALSE]
<1>1. h \in Handlings /\ h.callbacks = {} /\ handling' = [handling EXCEPT ![d] = h]
  BY DEF Handlings, Handle
<1> HIDE DEF h
<1> QED BY <1>1, HandlingKeeps

(* A thread goes on to the callbacks it has found for its message.         *)
LEMMA ToCallKeeps ==
  ASSUME RepliesInv, NEW d \in Dispatchers, Handling(d),
         UNCHANGED <<subscriptions, m_queuedMessages, m_messageBacklog, batch, fromGateway>>,
         NEW callbacks, NEW cached \in BOOLEAN, ToCall(d, callbacks, cached),
         \A c \in callbacks : c \in DOMAIN callbackInfos /\ callbackInfos[c].id = handling[d].message.id
  PROVE  Flow'
<1> DEFINE h == [handling[d] EXCEPT !.phase = "call", !.callbacks = callbacks, !.cached = cached]
<1>1. handling[d] \in Handlings
  BY DEF RepliesInv, Flow, Handlings
<1>2. h \in Handlings /\ h.callbacks = callbacks /\ h.message = handling[d].message
  BY <1>1 DEF Handlings
<1>3. handling' = [handling EXCEPT ![d] = h]
  BY DEF ToCall
<1> HIDE DEF h
<1> QED BY <1>2, <1>3, HandlingKeeps DEF RepliesInv, Flow, subscriptions

LEMMA DoneKeeps ==
  ASSUME Flow, NEW d \in Dispatchers, Done(d),
         UNCHANGED <<subscriptions, m_queuedMessages, m_messageBacklog, batch, fromGateway>>
  PROVE  Flow'
BY HandlingKeeps DEF Flow, Done, subscriptions

LEMMA LookUpKeeps ==
  ASSUME RepliesInv, NEW d \in Dispatchers, Handling(d), LookUp(d),
         UNCHANGED <<subscriptions, m_queuedMessages, m_messageBacklog, batch, fromGateway>>
  PROVE  Flow'
<1> DEFINE id == handling[d].message.id
<1>1. CASE id \in DOMAIN m_subscriptionsByID
  <2>1. ToCall(d, m_subscriptionsByID[id], FALSE)
    BY <1>1 DEF LookUp
  <2>2. \A c \in m_subscriptionsByID[id] : c \in DOMAIN callbackInfos /\ callbackInfos[c].id = id
    BY <1>1 DEF RepliesInv, Tables, Lists
  <2> QED BY <2>1, <2>2, ToCallKeeps
<1>2. CASE id \notin DOMAIN m_subscriptionsByID
  BY <1>2, DoneKeeps DEF LookUp, RepliesInv
<1> QED BY <1>1, <1>2

(* The callbacks are called: a request gets its own reply.                 *)
LEMMA performSubscriptionCallbacksKeeps ==
  ASSUME RepliesInv, NEW d \in Dispatchers, performSubscriptionCallbacks(d), library' = library,
         UNCHANGED <<subscriptions, m_queuedMessages, m_messageBacklog, batch, thread, gatewayVars>>
  PROVE  RepliesInv'
<1> DEFINE callbacks == handling[d].callbacks
           message   == handling[d].message
<1>1. /\ handling[d] \in Handlings
      /\ \A c \in callbacks : c \in DOMAIN callbackInfos /\ callbackInfos[c].id = message.id
  BY DEF performSubscriptionCallbacks, Handling, RepliesInv, Flow, Handlings
<1>2. message \in RightMessages
  BY <1>1 DEF Handlings
<1>3. /\ received' = [c \in CallbackIDs |-> IF c \in callbacks THEN Append(received[c], message)
                                            ELSE received[c]]
      /\ Done(d)
      /\ m_onSendMessageCache' \in {m_onSendMessageCache, With(m_onSendMessageCache, message.id, callbacks)}
  BY DEF performSubscriptionCallbacks
<1> HIDE DEF callbacks, message
<1>4. UNCHANGED <<callbackInfos, m_nextSubscriptionID, gatewayIDs, requests, fromGateway>>
  BY DEF subscriptions, gatewayVars
<1>5. Registry' /\ Calls' /\ Gateway' /\ Flow'
  BY <1>3, <1>4, RegistryKept, CallsKept, GatewayKept, DoneKeeps DEF RepliesInv
<1>6. Tables'
  <2>1. \A id \in DOMAIN m_onSendMessageCache' : \A c \in m_onSendMessageCache'[id] :
          \/ id \in DOMAIN m_onSendMessageCache /\ c \in m_onSendMessageCache[id]
          \/ id = message.id /\ c \in callbacks
    BY <1>3 DEF With
  <2>2. Lists(m_onSendMessageCache)'
    BY <1>1, <1>4, <2>1 DEF RepliesInv, Tables, Lists
  <2>3. Lists(m_subscriptionsByID)'
    BY DEF RepliesInv, Tables, Lists, subscriptions
  <2> QED BY <2>2, <2>3 DEF Tables
<1>7. Replies'
  <2>1. message \in Messages
    BY <1>2 DEF RightMessages
  <2>2. received' \in [CallbackIDs -> Seq(Messages)]
    BY <1>3, <2>1 DEF RepliesInv, Replies
  <2>3. ASSUME NEW c \in CallbackIDs, c \notin DOMAIN callbackInfos
        PROVE  received'[c] = << >>
    BY <1>1, <1>3, <2>3 DEF RepliesInv, Replies
  <2>4. ASSUME NEW c \in CallbackIDs, c \in DOMAIN callbackInfos, IsRequest(c),
               NEW i \in DOMAIN received'[c]
        PROVE  received'[c][i].answers = c
    <3>1. received[c] \in Seq(Messages) /\ \A j \in DOMAIN received[c] : received[c][j].answers = c
      BY <2>4 DEF RepliesInv, Replies
    <3>2. CASE c \in callbacks
      <4>1. message.answers = c
        BY <1>1, <1>2, <2>4, <3>2 DEF RightMessages, Right
      <4>2. received'[c] = Append(received[c], message)
        BY <1>3, <3>2
      <4> QED BY <2>1, <3>1, <4>1, <4>2
    <3>3. CASE c \notin callbacks
      BY <1>3, <3>1, <3>3
    <3> QED BY <3>2, <3>3
  <2> QED BY <1>4, <2>2, <2>3, <2>4 DEF Replies, IsRequest
<1> QED BY <1>5, <1>6, <1>7 DEF RepliesInv

LEMMA DispatchKeeps ==
  ASSUME RepliesInv, NEW d \in Dispatchers, Dispatch(d), library' = library
  PROVE  RepliesInv'
<1>1. /\ UNCHANGED <<subscriptions, m_queuedMessages, m_messageBacklog, batch, thread, gatewayVars>>
      /\ UNCHANGED <<callbackInfos, m_nextSubscriptionID, gatewayIDs, requests, fromGateway>>
  BY DEF Dispatch, queueVars, callVars, gatewayVars, subscriptions
<1>2. Registry' /\ Calls' /\ Gateway'
  BY <1>1, RegistryKept, CallsKept, GatewayKept DEF RepliesInv
<1>3. CASE processGatewayMessage_NET(d) \/ processGatewayMessage_LookUp(d)
  <2>1. LookUp(d) /\ Handling(d) /\ UNCHANGED <<cacheVars, outcome>>
    BY <1>3 DEF processGatewayMessage_NET, processGatewayMessage_LookUp, Handling
  <2>2. Flow' /\ Tables' /\ Replies'
    BY <1>1, <2>1, LookUpKeeps, TablesKept, RepliesKept DEF RepliesInv, cacheVars, outcome
  <2> QED BY <1>2, <2>2 DEF RepliesInv
<1>4. CASE processGatewayMessage(d)
  <2> DEFINE id    == handling[d].message.id
             cache == IF m_onSendMessageCacheInvalidated THEN << >> ELSE m_onSendMessageCache
             h     == [handling[d] EXCEPT !.phase = "lookup"]
  <2>1. /\ Handling(d) /\ m_onSendMessageCache' = cache /\ received' = received
        /\ IF id \in DOMAIN cache THEN ToCall(d, cache[id], TRUE)
           ELSE handling' = [handling EXCEPT ![d] = h]
    BY <1>4 DEF processGatewayMessage, Handling, outcome
  <2>2. Lists(cache)
    BY DEF RepliesInv, Tables, Lists
  <2> HIDE DEF cache
  <2>3. Flow'
    <3>1. CASE id \in DOMAIN cache
      BY <1>1, <2>1, <2>2, <3>1, ToCallKeeps DEF Lists
    <3>2. CASE id \notin DOMAIN cache
      <4>1. handling[d] \in Handlings /\ \A c \in handling[d].callbacks : callbackInfos[c].id = id
        BY <2>1 DEF RepliesInv, Flow, Handlings
      <4>2. h \in Handlings /\ h.callbacks = handling[d].callbacks /\ h.message = handling[d].message
        BY <4>1 DEF Handlings
      <4>3. handling' = [handling EXCEPT ![d] = h]
        BY <2>1, <3>2
      <4>4. /\ Flow /\ fromGateway' \in Seq(RightMessages) /\ m_queuedMessages' \in Seq(RightMessages)
            /\ m_messageBacklog' \in Seq(RightMessages) /\ batch' \in Seq(RightMessages)
        BY <1>1 DEF RepliesInv, Flow
      <4>5. \A c \in h.callbacks : callbackInfos[c].id = h.message.id
        BY <4>1, <4>2
      <4> HIDE DEF h
      <4> QED BY <1>1, <4>2, <4>3, <4>4, <4>5, HandlingKeeps
    <3> QED BY <3>1, <3>2
  <2>4. Tables'
    BY <1>1, <2>1, <2>2 DEF RepliesInv, Tables, Lists, subscriptions
  <2>5. Replies'
    BY <1>1, <2>1, RepliesKept DEF RepliesInv
  <2> QED BY <1>2, <2>3, <2>4, <2>5 DEF RepliesInv
<1>5. CASE processGatewayMessage_Races(d) \/ performSubscriptionCallbacks_Deleted(d)
  <2>1. UNCHANGED <<m_onSendMessageCache, handling, received>>
    BY <1>5 DEF processGatewayMessage_Races, performSubscriptionCallbacks_Deleted, cacheVars
  <2>2. Flow' /\ Tables' /\ Replies'
    BY <1>1, <2>1, FlowKept, TablesKept, RepliesKept DEF RepliesInv
  <2> QED BY <1>2, <2>2 DEF RepliesInv
<1>6. CASE performSubscriptionCallbacks(d)
  BY <1>1, <1>6, performSubscriptionCallbacksKeeps
<1> QED BY <1>3, <1>4, <1>5, <1>6 DEF Dispatch
-----------------------------------------------------------------------------
(* The mesh thread and the dispatcher move messages from the socket to the *)
(* queue, the batch, the backlog and their own hands.                      *)
LEMMA TransferKeeps ==
  ASSUME RepliesInv, Flow', Calls', library' = library,
         UNCHANGED <<subscriptions, m_onSendMessageCache, gatewayIDs, received>>
  PROVE  RepliesInv'
<1>1. Gateway' /\ Replies'
  BY GatewayKept, RepliesKept DEF RepliesInv, subscriptions
<1> QED BY <1>1, RegistryKept, TablesKept DEF RepliesInv

LEMMA onGatewayMessageKeeps ==
  ASSUME RepliesInv, onGatewayMessage, library' = library
  PROVE  RepliesInv'
<1> DEFINE message == Head(fromGateway)
<1>1. /\ UNCHANGED <<subscriptions, m_onSendMessageCache, gatewayIDs, received, thread, requests,
                     m_messageBacklog, batch>>
      /\ callbackInfos' = callbackInfos /\ m_nextSubscriptionID' = m_nextSubscriptionID
  BY DEF onGatewayMessage, cacheVars, callVars, outcome, subscriptions
<1>2. /\ fromGateway \in Seq(RightMessages) /\ m_queuedMessages \in Seq(RightMessages)
      /\ m_messageBacklog' \in Seq(RightMessages) /\ batch' \in Seq(RightMessages)
  BY <1>1 DEF RepliesInv, Flow
<1>3. message \in RightMessages /\ fromGateway' \in Seq(RightMessages)
  BY <1>2 DEF onGatewayMessage
<1> HIDE DEF message
<1>4. \/ Handle(Mesh, message) /\ UNCHANGED m_queuedMessages
      \/ m_queuedMessages' = Append(m_queuedMessages, message) /\ UNCHANGED handling
  BY DEF onGatewayMessage, queueVars, message
<1>5. Flow'
  <2>1. CASE Handle(Mesh, message) /\ UNCHANGED m_queuedMessages
    <3>1. Flow /\ Mesh \in Dispatchers /\ m_queuedMessages' \in Seq(RightMessages)
      BY <1>2, <2>1 DEF RepliesInv, Dispatchers
    <3> QED BY <1>1, <1>2, <1>3, <2>1, <3>1, HandleKeeps
  <2>2. CASE m_queuedMessages' = Append(m_queuedMessages, message) /\ UNCHANGED handling
    <3>1. m_queuedMessages' \in Seq(RightMessages)
      BY <1>2, <1>3, <2>2
    <3> QED BY <1>1, <1>2, <1>3, <2>2, <3>1, RightKept DEF RepliesInv, Flow, Handling
  <2> QED BY <1>4, <2>1, <2>2
<1>6. Calls'
  BY <1>1, CallsKept DEF RepliesInv
<1> QED BY <1>1, <1>5, <1>6, TransferKeeps

(* The dispatcher begins to dispatch the first of its messages.            *)
LEMMA TakeKeeps ==
  ASSUME RepliesInv, library' = library,
         UNCHANGED <<subscriptions, m_onSendMessageCache, gatewayIDs, received, thread, requests,
                     fromGateway, m_queuedMessages>>,
         \/ /\ m_messageBacklog # << >> /\ Handle(Dispatcher, Head(m_messageBacklog))
            /\ m_messageBacklog' = Tail(m_messageBacklog) /\ batch' = batch
         \/ /\ batch # << >> /\ Handle(Dispatcher, Head(batch))
            /\ batch' = Tail(batch) /\ m_messageBacklog' = m_messageBacklog
  PROVE  RepliesInv'
<1>1. callbackInfos' = callbackInfos /\ m_nextSubscriptionID' = m_nextSubscriptionID
  BY DEF subscriptions
<1>2. /\ Flow /\ Dispatcher \in Dispatchers
      /\ fromGateway' \in Seq(RightMessages) /\ m_queuedMessages' \in Seq(RightMessages)
      /\ m_messageBacklog \in Seq(RightMessages) /\ batch \in Seq(RightMessages)
  BY DEF RepliesInv, Flow, Dispatchers
<1>3. Calls'
  BY <1>1, CallsKept DEF RepliesInv
<1>4. CASE /\ m_messageBacklog # << >> /\ Handle(Dispatcher, Head(m_messageBacklog))
           /\ m_messageBacklog' = Tail(m_messageBacklog) /\ batch' = batch
  <2>1. /\ Head(m_messageBacklog) \in RightMessages /\ m_messageBacklog' \in Seq(RightMessages)
        /\ batch' \in Seq(RightMessages)
    BY <1>2, <1>4
  <2>2. Flow'
    BY <1>1, <1>2, <1>4, <2>1, HandleKeeps
  <2> QED BY <1>3, <2>2, TransferKeeps
<1>5. CASE /\ batch # << >> /\ Handle(Dispatcher, Head(batch))
           /\ batch' = Tail(batch) /\ m_messageBacklog' = m_messageBacklog
  <2>1. /\ Head(batch) \in RightMessages /\ m_messageBacklog' \in Seq(RightMessages)
        /\ batch' \in Seq(RightMessages)
    BY <1>2, <1>5
  <2>2. Flow'
    BY <1>1, <1>2, <1>5, <2>1, HandleKeeps
  <2> QED BY <1>3, <2>2, TransferKeeps
<1> QED BY <1>4, <1>5

(* The dispatcher goes on to another place, and messages with it.          *)
LEMMA CallKeeps ==
  ASSUME RepliesInv, library' = library,
         UNCHANGED <<subscriptions, m_onSendMessageCache, gatewayIDs, received, requests,
                     fromGateway, handling>>,
         NEW pc \in Places \ {"subscribing", "noting", "requesting"}, Call(pc),
         m_queuedMessages' \in Seq(RightMessages), m_messageBacklog' \in Seq(RightMessages),
         batch' \in Seq(RightMessages)
  PROVE  RepliesInv'
<1>1. callbackInfos' = callbackInfos /\ m_nextSubscriptionID' = m_nextSubscriptionID
  BY DEF subscriptions
<1>2. Flow'
  BY <1>1, RightKept DEF RepliesInv, Flow, Handling
<1>3. Calls'
  BY <1>1, ClientAssumption, CallType, CallsElsewhere DEF RepliesInv
<1> QED BY <1>2, <1>3, TransferKeeps

LEMMA DispatcherKeeps ==
  ASSUME RepliesInv, library' = library,
         \/ (\E maxMessages \in Limits : processMessageQueue(maxMessages))
         \/ ProcessBacklog \/ waitOne \/ WaitTimesOut \/ getItems \/ ProcessBatch
  PROVE  RepliesInv'
<1>1. /\ UNCHANGED <<subscriptions, m_onSendMessageCache, gatewayIDs, received, requests, fromGateway>>
  BY DEF processMessageQueue, ProcessBacklog, waitOne, WaitTimesOut, getItems, ProcessBatch,
         cacheVars, gatewayVars, outcome
<1>2. /\ m_queuedMessages \in Seq(RightMessages) /\ m_messageBacklog \in Seq(RightMessages)
      /\ batch \in Seq(RightMessages) /\ << >> \in Seq(RightMessages)
  BY DEF RepliesInv, Flow
<1>3. CASE \E maxMessages \in Limits : processMessageQueue(maxMessages)
  <2>1. Call("backlog") /\ UNCHANGED <<handling, m_queuedMessages, m_messageBacklog, batch>>
    BY <1>3 DEF processMessageQueue, queueVars
  <2> QED BY <1>1, <1>2, <2>1, CallKeeps DEF Places
<1>4. CASE ProcessBacklog
  <2>1. UNCHANGED <<m_queuedMessages, batch>>
    BY <1>4 DEF ProcessBacklog, queueVars
  <2>2. CASE m_messageBacklog # << >> /\ MayProcess
    <3>1. /\ Handle(Dispatcher, Head(m_messageBacklog))
          /\ m_messageBacklog' = Tail(m_messageBacklog) /\ thread' = thread
      BY <1>4, <2>2 DEF ProcessBacklog
    <3> QED BY <1>1, <2>1, <2>2, <3>1, TakeKeeps
  <2>3. CASE ~(m_messageBacklog # << >> /\ MayProcess)
    <3>1. /\ Call("waitOne") \/ Call("idle")
          /\ handling' = handling /\ m_messageBacklog' = m_messageBacklog
      BY <1>4, <2>3 DEF ProcessBacklog
    <3> QED BY <1>1, <1>2, <2>1, <3>1, CallKeeps DEF Places
  <2> QED BY <2>2, <2>3
<1>5. CASE waitOne \/ WaitTimesOut
  <2>1. Call("getItems") /\ UNCHANGED <<handling, m_queuedMessages, m_messageBacklog, batch>>
    BY <1>5 DEF waitOne, WaitTimesOut, queueVars, callVars
  <2> QED BY <1>1, <1>2, <2>1, CallKeeps DEF Places
<1>6. CASE getItems
  <2>1. /\ Call("batch") /\ batch' = m_queuedMessages /\ m_queuedMessages' = << >>
        /\ UNCHANGED <<handling, m_messageBacklog>>
    BY <1>6 DEF getItems
  <2> QED BY <1>1, <1>2, <2>1, CallKeeps DEF Places
<1>7. CASE ProcessBatch
  <2>1. UNCHANGED m_queuedMessages
    BY <1>7 DEF ProcessBatch, queueVars
  <2>2. CASE batch # << >> /\ MayProcess
    <3>1. /\ Handle(Dispatcher, Head(batch))
          /\ batch' = Tail(batch) /\ thread' = thread /\ m_messageBacklog' = m_messageBacklog
      BY <1>7, <2>2 DEF ProcessBatch
    <3> QED BY <1>1, <2>1, <2>2, <3>1, TakeKeeps
  <2>3. CASE ~(batch # << >> /\ MayProcess)
    <3>1. /\ Call("idle") /\ handling' = handling
          /\ m_messageBacklog' = m_messageBacklog \o batch /\ batch' = << >>
      BY <1>7, <2>3 DEF ProcessBatch
    <3>2. m_messageBacklog' \in Seq(RightMessages)
      BY <1>2, <3>1
    <3> QED BY <1>1, <1>2, <2>1, <3>1, <3>2, CallKeeps DEF Places
  <2> QED BY <2>2, <2>3
<1> QED BY <1>3, <1>4, <1>5, <1>6, <1>7

(* Setting the event of the queue changes nothing else.                    *)
LEMMA SetKeeps ==
  ASSUME RepliesInv, library' = library, add_Set \/ \E t \in Threads : wakeUp(t)
  PROVE  RepliesInv'
<1>1. UNCHANGED <<subscriptions, m_onSendMessageCache, gatewayIDs, received, requests, fromGateway,
                  handling, m_queuedMessages, m_messageBacklog, batch, thread>>
      /\ callbackInfos' = callbackInfos
  BY DEF add_Set, wakeUp, cacheVars, gatewayVars, outcome, callVars, subscriptions
<1> QED BY <1>1, FlowKept, CallsKept, TransferKeeps DEF RepliesInv
-----------------------------------------------------------------------------
LEMMA CallbacksAreIDs ==
  ASSUME Registry
  PROVE  DOMAIN callbackInfos \subseteq CallbackIDs
BY ClientAssumption DEF Registry, CallbackIDs

(* The gateway sends right messages: a subject's ID is that of a request   *)
(* only if the subject is the request's inbox, and only its reply is sent  *)
(* there.                                                                  *)
LEMMA DeliverKeeps ==
  ASSUME RepliesInv, library' = library, Len(sent) \in Nat,
         NEW subject, NEW r \in Nat, Deliver(subject, r),
         \A c \in DOMAIN callbackInfos : IsRequest(c) /\ subject = createInbox(c) => r = c,
         UNCHANGED Others, requests' \subseteq requests
  PROVE  RepliesInv'
<1> DEFINE message == [id |-> gatewayIDs[subject], n |-> Len(sent) + 1, answers |-> r]
<1>1. /\ UNCHANGED <<subscriptions, m_onSendMessageCache, gatewayIDs, received, thread,
                     m_queuedMessages, m_messageBacklog, batch, handling>>
      /\ callbackInfos' = callbackInfos /\ m_nextSubscriptionID' = m_nextSubscriptionID
  BY DEF Others, cacheVars, queueVars, callVars, outcome, subscriptions
<1>2. subject \in DOMAIN gatewayIDs /\ fromGateway' = Append(fromGateway, message)
  BY DEF Deliver
<1>3. /\ gatewayIDs[subject] \in Nat /\ gatewayIDs[subject] < m_nextSubscriptionID
      /\ \A c \in DOMAIN callbackInfos :
           IsRequest(c) /\ callbackInfos[c].id = gatewayIDs[subject] => subject = createInbox(c)
  BY <1>2 DEF RepliesInv, Gateway
<1>4. message \in RightMessages
  BY <1>3 DEF RightMessages, Right, Messages
<1> HIDE DEF message
<1>5. fromGateway' \in Seq(RightMessages)
  BY <1>2, <1>4 DEF RepliesInv, Flow
<1>6. Flow'
  BY <1>1, <1>5, RightKept DEF RepliesInv, Flow, Handling
<1>7. Calls'
  BY <1>1 DEF RepliesInv, Calls, At, IsRequest
<1> QED BY <1>1, <1>6, <1>7, TransferKeeps

LEMMA TrafficKeeps ==
  ASSUME RepliesInv, library' = library, Len(sent) \in Nat, Traffic
  PROVE  RepliesInv'
<1>1. ASSUME NEW s \in Subjects, Publish(s) PROVE RepliesInv'
  <2>1. \A c \in DOMAIN callbackInfos : s # createInbox(c)
    BY InboxAssumption, CallbacksAreIDs DEF RepliesInv
  <2>2. Deliver(s, 0) /\ UNCHANGED Others /\ requests' \subseteq requests
    BY <1>1 DEF Publish
  <2> QED BY <2>1, <2>2, DeliverKeeps
<1>2. ASSUME NEW r \in requests, Reply(r) PROVE RepliesInv'
  <2>1. r \in DOMAIN callbackInfos /\ r \in Nat /\ callbackInfos[r].subject = createInbox(r)
    BY DEF RepliesInv, Calls, Registry
  <2>2. \A c \in DOMAIN callbackInfos : callbackInfos[r].subject = createInbox(c) => r = c
    BY <2>1 DEF createInbox
  <2>3. /\ Deliver(callbackInfos[r].subject, r) /\ UNCHANGED Others /\ requests' \subseteq requests
    BY <1>2 DEF Reply
  <2> QED BY <2>1, <2>2, <2>3, DeliverKeeps
<1> QED BY <1>1, <1>2 DEF Traffic
-----------------------------------------------------------------------------
LEMMA RepliesInitially ==
  ASSUME Init
  PROVE  RepliesInv
<1>1. callbackInfos = << >> /\ callbackInfos \in Seq(Infos) /\ Len(callbackInfos) = 0
  BY DEF Init
<1>2. DOMAIN callbackInfos = {} /\ MaxCallbacks \in Nat
  BY <1>1, ClientAssumption
<1>3. /\ DOMAIN m_subscriptionsBySubject = {} /\ DOMAIN m_subscriptionsByID = {}
      /\ DOMAIN m_onSendMessageCache = {} /\ DOMAIN gatewayIDs = {}
  BY DEF Init
<1>4. Registry
  BY <1>1, <1>2, <1>3 DEF Init, Registry
<1>5. Tables /\ Gateway
  BY <1>3 DEF Tables, Lists, Gateway
<1>6. Replies
  BY <1>2 DEF Init, Replies
<1>7. Calls /\ Flow
  BY DEF Init, Calls, Places, At, Idle, Flow, Handling, Nothing
<1> QED BY <1>4, <1>5, <1>6, <1>7 DEF RepliesInv

(* What was sent is a sequence of messages; with it the rest is inductive. *)
Sent == sent \in Seq(Messages)

LEMMA SentKeeps ==
  ASSUME RepliesInv, Sent, [Next]_vars
  PROVE  Sent'
<1>1. CASE sent' = sent
  BY <1>1 DEF Sent
<1>2. ASSUME NEW subject, NEW r \in Nat, Deliver(subject, r)
      PROVE  Sent'
  <2>1. gatewayIDs[subject] \in Nat
    BY <1>2 DEF Deliver, RepliesInv, Gateway
  <2>2. [id |-> gatewayIDs[subject], n |-> Len(sent) + 1, answers |-> r] \in Messages
    BY <2>1 DEF Sent, Messages
  <2> QED BY <1>2, <2>2 DEF Deliver, Sent
<1>3. Traffic => Sent'
  <2>1. \A r \in requests : r \in Nat
    BY DEF RepliesInv, Calls, Registry
  <2>2. \A r \in requests : Reply(r) => Sent'
    BY <1>2, <2>1 DEF Reply
  <2>3. \A s \in Subjects : Publish(s) => Sent'
    BY <1>2 DEF Publish
  <2> QED BY <2>2, <2>3 DEF Traffic
<1>4. UNCHANGED vars => sent' = sent
  BY DEF vars, gatewayVars
<1>5. MeshStep \/ DispatcherStep \/ Process \/ TimesOut => sent' = sent
  BY SMTT(30) DEF MeshStep, DispatcherStep, Process, TimesOut, onGatewayMessage, add_Set, Dispatch,
         ProcessBacklog, waitOne, getItems, ProcessBatch, processMessageQueue, WaitTimesOut,
         RequestTimesOut, gatewayVars
<1>6. \A t \in Threads : Keep(t) \/ ClientCalls(t) => sent' = sent
  BY DEF Keep, ClientCalls, subscribe, Release, sendRequest, wakeUp, sendSUBSCRIBE,
         sendUNSUBSCRIBE,
         noteRequest, sendRequestMessage, waitForReply, eraseRequest, releaseInbox,
         releaseSubscription, gatewayVars
<1> QED BY <1>1, <1>3, <1>4, <1>5, <1>6 DEF Next

LEMMA RepliesInductive ==
  ASSUME RepliesInv, Sent, [Next]_vars
  PROVE  RepliesInv'
<1>1. CASE UNCHANGED vars
  <2>1. UNCHANGED <<subscriptions, m_onSendMessageCache, gatewayIDs, received, requests, fromGateway,
                    handling, m_queuedMessages, m_messageBacklog, batch, thread, library>>
        /\ callbackInfos' = callbackInfos
    BY <1>1
       DEF vars, settings, cacheVars, gatewayVars, outcome, callVars, queueVars,
           subscriptions
  <2> QED BY <2>1, FlowKept, CallsKept, TransferKeeps DEF RepliesInv
<1>2. CASE Next
  <2>1. library' = library
    BY <1>2 DEF Next, MeshStep, DispatcherStep, Process, Keep, Alive, settings
  <2>2. Len(sent) \in Nat
    BY DEF Sent
  <2>3. CASE MeshStep
    BY <2>1, <2>3, onGatewayMessageKeeps, SetKeeps, DispatchKeeps DEF MeshStep, Dispatchers
  <2>4. CASE DispatcherStep \/ Process
    BY <2>1, <2>4, DispatcherKeeps, DispatchKeeps DEF DispatcherStep, Process, Dispatchers
  <2>5. ASSUME NEW t \in Threads, Keep(t) PROVE RepliesInv'
    <3>1. thread[t].callback \in Nat
      BY DEF RepliesInv, Calls
    <3> QED BY <2>1, <2>5, <3>1, sendSUBSCRIBEKeeps, ThreadKeeps, ReleaseKeeps
            DEF Keep, releaseInbox
  <2>6. CASE TimesOut
    BY <2>1, <2>6, DispatcherKeeps, ThreadKeeps DEF TimesOut
  <2>7. CASE Traffic
    BY <2>1, <2>2, <2>7, TrafficKeeps
  <2>8. ASSUME NEW t \in Threads, ClientCalls(t) PROVE RepliesInv'
    <3>1. \A c \in DOMAIN callbackInfos : c \in Nat
      BY DEF RepliesInv, Registry
    <3>2. CASE Release(t)
      BY <2>1, <3>1, <3>2, ReleaseKeeps DEF Release
    <3>3. CASE (\E s \in Subjects : subscribe(t, s)) \/ sendRequest(t) \/ wakeUp(t)
      BY <2>1, <3>3, subscribeKeeps, sendRequestKeeps, SetKeeps
    <3> QED BY <2>8, <3>2, <3>3 DEF ClientCalls
  <2> QED BY <1>2, <2>3, <2>4, <2>5, <2>6, <2>7, <2>8 DEF Next
<1> QED BY <1>1, <1>2

(* What sendRequest returns is the reply to its own request, also when the *)
(* replies to requests that timed out are still on their way.              *)
THEOREM ReplyBelongsToRequest == Spec => []OwnReply
<1>1. Init => RepliesInv /\ Sent
  <2>1. Init => Sent
    BY DEF Init, Sent
  <2> QED BY <2>1, RepliesInitially
<1>2. RepliesInv /\ Sent /\ [Next]_vars => (RepliesInv /\ Sent)'
  BY RepliesInductive, SentKeeps
<1>3. RepliesInv => OwnReply
  BY CallbacksAreIDs DEF RepliesInv, Replies, OwnReply
<1> QED BY <1>1, <1>2, <1>3, PTL DEF Spec
-----------------------------------------------------------------------------
(* What is fresh stays fresh while the callbacks of the IDs stay.          *)
LEMMA FreshKept ==
  ASSUME UNCHANGED <<callbackInfos, m_subscriptionsByID>>, NEW X, NEW id
  PROVE  Fresh(X, id)' <=> Fresh(X, id)
BY DEF Fresh, Stray, CallbacksOf

(* A step that leaves the tables and brings no thread to callbacks.        *)
LEMMA FreshnessKept ==
  ASSUME Freshness,
         UNCHANGED <<library, callbackInfos, m_subscriptionsByID, m_onSendMessageCache,
                     m_onSendMessageCacheInvalidated>>,
         \A d \in Dispatchers : handling'[d] = handling[d] \/ handling'[d].phase # "call"
  PROVE  Freshness'
<1>1. \A X, id : Fresh(X, id)' <=> Fresh(X, id)
  BY FreshKept
<1> QED BY <1>1 DEF Freshness

(* The mark of the cache hides everything until a thread resets it.        *)
LEMMA MarkedIsFresh ==
  ASSUME Freshness, UNCHANGED <<library, m_onSendMessageCache>>,
         library = "C++" => m_onSendMessageCacheInvalidated'
  PROVE  Freshness'
BY DEF Freshness

(* A further callback of the C++ library is one that should not be there.  *)
LEMMA FurtherCallbackIsStray ==
  ASSUME RepliesInv, Freshness, UNCHANGED <<library, cacheVars, handling>>,
         NEW subject, NEW request, FurtherCallback(subject, request)
  PROVE  Freshness'
<1> DEFINE n == NewCallback
<1>1. CASE library # "C++"
  BY <1>1 DEF Freshness, RepliesInv, Registry, cacheVars
<1>2. CASE library = "C++"
  <2>1. PICK id \in Nat :
          /\ m_subscriptionsByID' = With(m_subscriptionsByID, id, CallbacksOf(id) \cup {n})
          /\ Registered(subject, id, FALSE, request)
    BY <1>2, ClientAssumption DEF FurtherCallback
  <2>2. callbackInfos \in Seq(Infos)
    BY DEF RepliesInv, Registry
  <2>3. /\ n \notin DOMAIN callbackInfos /\ DOMAIN callbackInfos' = DOMAIN callbackInfos \cup {n}
        /\ ~callbackInfos'[n].first
        /\ \A c \in DOMAIN callbackInfos : callbackInfos'[c] = callbackInfos[c]
    <3> DEFINE x == [subject |-> subject, id |-> id, first |-> FALSE, request |-> request,
                     held |-> TRUE]
    <3>1. callbackInfos' = Append(callbackInfos, x) /\ ~x.first
      BY <2>1 DEF Registered
    <3> HIDE DEF x
    <3>2. callbackInfos \in Seq(Infos \cup {x}) /\ x \in Infos \cup {x}
      BY <2>2
    <3> QED BY <3>1, <3>2 DEF NewCallback
  <2> HIDE DEF n
  <2>4. Stray' = Stray \cup {n}
    BY <2>3 DEF Stray
  <2>5. \A y : CallbacksOf(y)' \subseteq CallbacksOf(y) \cup {n} /\ CallbacksOf(y) \subseteq CallbacksOf(y)'
    BY <2>1 DEF CallbacksOf, With
  <2>6. \A y : n \notin CallbacksOf(y)
    BY <2>3 DEF CallbacksOf, RepliesInv, Tables, Lists
  <2>7. ASSUME NEW X, n \notin X, NEW y, Fresh(X, y)
        PROVE  Fresh(X, y)'
    BY <2>4, <2>5, <2>6, <2>7 DEF Fresh
  <2>8. \A id1 \in DOMAIN m_onSendMessageCache : n \notin m_onSendMessageCache[id1]
    BY <2>3 DEF RepliesInv, Tables, Lists
  <2>9. \A d \in Dispatchers : handling[d].phase = "call" => n \notin handling[d].callbacks
    BY <2>3 DEF RepliesInv, Flow, Handling
  <2> QED BY <1>2, <2>7, <2>8, <2>9 DEF Freshness, cacheVars
<1> QED BY <1>1, <1>2

(* A thread that looked the callbacks up has what is in the table.         *)
LEMMA LookUpIsFresh ==
  ASSUME RepliesInv, Freshness, NEW d \in Dispatchers, Handling(d), LookUp(d),
         UNCHANGED <<library, subscriptions, cacheVars>>
  PROVE  Freshness'
<1> DEFINE id == handling[d].message.id
<1>1. UNCHANGED <<callbackInfos, m_subscriptionsByID, m_onSendMessageCache,
                  m_onSendMessageCacheInvalidated>>
  BY DEF subscriptions, cacheVars
<1>2. DOMAIN handling = Dispatchers /\ handling[d] \in Handlings
  BY DEF RepliesInv, Flow, Handlings
<1>3. CASE id \in DOMAIN m_subscriptionsByID
  <2> DEFINE h == [handling[d] EXCEPT !.phase = "call", !.callbacks = m_subscriptionsByID[id],
                                      !.cached = FALSE]
  <2>1. handling' = [handling EXCEPT ![d] = h]
    BY <1>3 DEF LookUp, ToCall
  <2>2. h.callbacks = CallbacksOf(id) /\ h.message.id = id
    BY <1>2, <1>3 DEF Handlings, CallbacksOf
  <2> HIDE DEF h
  <2>3. handling'[d] = h /\ \A e \in Dispatchers \ {d} : handling'[e] = handling[e]
    BY <1>2, <2>1
  <2>4. Fresh(h.callbacks, h.message.id)
    BY <2>2 DEF Fresh
  <2>5. \A X, y : Fresh(X, y)' <=> Fresh(X, y)
    BY <1>1, FreshKept
  <2> QED BY <1>1, <2>3, <2>4, <2>5 DEF Freshness
<1>4. CASE id \notin DOMAIN m_subscriptionsByID
  <2>1. handling' = [handling EXCEPT ![d] = Nothing]
    BY <1>4 DEF LookUp, Done
  <2> QED BY <1>1, <1>2, <2>1, FreshnessKept DEF Nothing
<1> QED BY <1>3, <1>4

(* The mark is reset, and the cache cleared, when no other thread has      *)
(* callbacks in its hands.                                                 *)
LEMMA processGatewayMessageIsFresh ==
  ASSUME RepliesInv, Freshness, NEW d \in Dispatchers, processGatewayMessage(d),
         UNCHANGED <<library, subscriptions>>
  PROVE  Freshness'
<1> DEFINE id    == handling[d].message.id
           cache == IF m_onSendMessageCacheInvalidated THEN << >> ELSE m_onSendMessageCache
<1>1. /\ library = "C++" /\ handling[d].phase = "start" /\ ~CacheInUse(d)
      /\ m_onSendMessageCache' = cache
  BY DEF processGatewayMessage
<1>2. DOMAIN handling = Dispatchers /\ handling[d] \in Handlings
  BY <1>1 DEF RepliesInv, Flow, Handlings, Handling
<1>3. /\ handling'[d].phase = "call" => handling'[d].cached
      /\ \A e \in Dispatchers \ {d} : handling'[e] = handling[e]
  <2>1. CASE id \in DOMAIN cache
    <3> DEFINE h == [handling[d] EXCEPT !.phase = "call", !.callbacks = cache[id], !.cached = TRUE]
    <3>1. h.cached
      BY <1>2 DEF Handlings
    <3>2. handling' = [handling EXCEPT ![d] = h]
      BY <2>1 DEF processGatewayMessage, ToCall
    <3> HIDE DEF h
    <3> QED BY <1>2, <3>1, <3>2
  <2>2. CASE id \notin DOMAIN cache
    <3> DEFINE h == [handling[d] EXCEPT !.phase = "lookup"]
    <3>1. h.phase = "lookup"
      BY <1>2 DEF Handlings
    <3>2. handling' = [handling EXCEPT ![d] = h]
      BY <2>2 DEF processGatewayMessage
    <3> HIDE DEF h
    <3> QED BY <1>2, <3>1, <3>2
  <2> QED BY <2>1, <2>2
<1>4. \A e \in Dispatchers \ {d} : handling[e].phase # "call"
  BY <1>1 DEF CacheInUse
<1>5. \A X, y : Fresh(X, y)' <=> Fresh(X, y)
  BY FreshKept DEF subscriptions
<1>6. \A y \in DOMAIN m_onSendMessageCache' : Fresh(m_onSendMessageCache'[y], y)
  <2>1. CASE m_onSendMessageCacheInvalidated
    BY <1>1, <2>1
  <2>2. CASE ~m_onSendMessageCacheInvalidated
    BY <1>1, <2>2 DEF Freshness
  <2> QED BY <2>1, <2>2
<1> QED BY <1>1, <1>3, <1>4, <1>5, <1>6 DEF Freshness

(* What goes to the cache was looked up when the mark was set, or is fresh.*)
LEMMA performSubscriptionCallbacksIsFresh ==
  ASSUME RepliesInv, Freshness, NEW d \in Dispatchers, performSubscriptionCallbacks(d),
         UNCHANGED <<library, subscriptions>>
  PROVE  Freshness'
<1> DEFINE callbacks == handling[d].callbacks
           id        == handling[d].message.id
           kept      == library = "C++" /\ ~handling[d].cached
<1>1. /\ handling[d].phase = "call"
      /\ m_onSendMessageCache' = IF kept THEN With(m_onSendMessageCache, id, callbacks)
                                 ELSE m_onSendMessageCache
      /\ UNCHANGED m_onSendMessageCacheInvalidated
  BY DEF performSubscriptionCallbacks
<1>2. /\ \A e \in Dispatchers : handling'[e] = handling[e] \/ handling'[e] = Nothing
      /\ DOMAIN handling = Dispatchers
  BY DEF performSubscriptionCallbacks, Done, RepliesInv, Flow
<1>3. \A X, y : Fresh(X, y)' <=> Fresh(X, y)
  BY FreshKept DEF subscriptions
<1>4. ASSUME library = "C++", ~m_onSendMessageCacheInvalidated,
             NEW y \in DOMAIN m_onSendMessageCache'
      PROVE  Fresh(m_onSendMessageCache'[y], y)
  <2>1. CASE kept
    <3>1. Fresh(callbacks, id)
      BY <1>1, <1>4, <2>1 DEF Freshness
    <3>2. /\ y \in DOMAIN m_onSendMessageCache \cup {id}
          /\ m_onSendMessageCache'[y] = IF y = id THEN callbacks ELSE m_onSendMessageCache[y]
      BY <1>1, <1>4, <2>1 DEF With
    <3>3. y # id => Fresh(m_onSendMessageCache[y], y)
      BY <1>4, <3>2 DEF Freshness
    <3> QED BY <3>1, <3>2, <3>3
  <2>2. CASE ~kept
    BY <1>1, <1>4, <2>2 DEF Freshness
  <2> QED BY <2>1, <2>2
<1>5. library = ".NET" => m_onSendMessageCache' = << >>
  BY <1>1 DEF Freshness
<1> HIDE DEF callbacks, id, kept
<1> QED BY <1>1, <1>2, <1>3, <1>4, <1>5 DEF Freshness, Nothing

LEMMA DispatchIsFresh ==
  ASSUME RepliesInv, Freshness, NEW d \in Dispatchers, Dispatch(d), UNCHANGED library
  PROVE  Freshness'
<1>1. UNCHANGED subscriptions
  BY DEF Dispatch
<1>2. CASE processGatewayMessage_NET(d) \/ processGatewayMessage_LookUp(d)
  <2>1. LookUp(d) /\ Handling(d) /\ UNCHANGED cacheVars
    BY <1>2 DEF processGatewayMessage_NET, processGatewayMessage_LookUp, Handling
  <2> QED BY <1>1, <2>1, LookUpIsFresh
<1>3. CASE processGatewayMessage_Races(d) \/ performSubscriptionCallbacks_Deleted(d)
  BY <1>1, <1>3, FreshnessKept
     DEF processGatewayMessage_Races, performSubscriptionCallbacks_Deleted, cacheVars, subscriptions
<1>4. CASE processGatewayMessage(d) \/ performSubscriptionCallbacks(d)
  BY <1>1, <1>4, processGatewayMessageIsFresh, performSubscriptionCallbacksIsFresh
<1> QED BY <1>2, <1>3, <1>4 DEF Dispatch

(* A release that changes the tables marks the cache.                      *)
LEMMA ReleaseIsFresh ==
  ASSUME RepliesInv, Freshness, NEW t \in Threads, NEW c, releaseSubscription(t, c),
         UNCHANGED library
  PROVE  Freshness'
<1>1. UNCHANGED <<m_onSendMessageCache, handling>>
  BY DEF releaseSubscription
<1>2. CASE m_onSendMessageCacheInvalidated' = (m_onSendMessageCacheInvalidated \/ library = "C++")
  BY <1>1, <1>2, MarkedIsFresh
<1>3. CASE UNCHANGED <<m_subscriptionsByID, m_onSendMessageCacheInvalidated>>
  <2>1. callbackInfos' = [callbackInfos EXCEPT ![c].held = FALSE] /\ callbackInfos \in Seq(Infos)
    BY DEF releaseSubscription, RepliesInv, Registry
  <2>2. \A b \in DOMAIN callbackInfos : callbackInfos'[b].first = callbackInfos[b].first
    <3> SUFFICES ASSUME NEW b \in DOMAIN callbackInfos
                 PROVE  callbackInfos'[b].first = callbackInfos[b].first
      OBVIOUS
    <3>1. callbackInfos[b] \in Infos
      BY <2>1
    <3>2. [callbackInfos[b] EXCEPT !.held = FALSE].first = callbackInfos[b].first
      BY <3>1 DEF Infos
    <3>3. callbackInfos'[b] = callbackInfos[b] \/ callbackInfos'[b] = [callbackInfos[b] EXCEPT !.held = FALSE]
      BY <2>1
    <3> QED BY <3>2, <3>3
  <2>3. Stray' = Stray
    BY <2>1, <2>2 DEF Stray
  <2>4. \A X, y : Fresh(X, y)' <=> Fresh(X, y)
    BY <1>3, <2>3 DEF Fresh, CallbacksOf
  <2> QED BY <1>1, <1>3, <2>4 DEF Freshness
<1> QED BY <1>2, <1>3 DEF releaseSubscription

LEMMA FreshnessInductive ==
  ASSUME RepliesInv, Freshness, [Next]_vars
  PROVE  Freshness'
<1>1. UNCHANGED library
  BY DEF Next, MeshStep, DispatcherStep, Process, Keep, Alive, vars, settings
<1>2. DOMAIN handling = Dispatchers
  BY DEF RepliesInv, Flow
<1>3. ASSUME UNCHANGED <<subscriptions, cacheVars, handling>>
      PROVE  Freshness'
  BY <1>1, <1>3, FreshnessKept DEF subscriptions, cacheVars
<1>4. CASE UNCHANGED vars
  BY <1>3, <1>4 DEF vars
<1>5. ASSUME UNCHANGED <<subscriptions, cacheVars>>, NEW d \in Dispatchers, NEW m, Handle(d, m)
      PROVE  Freshness'
  BY <1>1, <1>2, <1>5, FreshnessKept DEF Handle, subscriptions, cacheVars
<1>6. CASE MeshStep
  BY <1>1, <1>3, <1>5, <1>6, DispatchIsFresh
     DEF MeshStep, onGatewayMessage, add_Set, Dispatchers
<1>7. CASE DispatcherStep \/ Process
  BY <1>1, <1>3, <1>5, <1>7, DispatchIsFresh
     DEF DispatcherStep, Process, processMessageQueue, ProcessBacklog, waitOne, getItems,
         ProcessBatch, Dispatchers
<1>8. CASE TimesOut \/ Traffic
  BY <1>3, <1>8 DEF TimesOut, Traffic, WaitTimesOut, RequestTimesOut, Publish, Reply, Others
<1>9. ASSUME NEW t \in Threads, Keep(t)
      PROVE  Freshness'
  BY <1>1, <1>3, <1>9, ReleaseIsFresh
     DEF Keep, sendSUBSCRIBE, sendUNSUBSCRIBE, noteRequest, sendRequestMessage, waitForReply,
         eraseRequest, releaseInbox
<1>10. ASSUME NEW t \in Threads, ClientCalls(t)
       PROVE  Freshness'
  <2>1. ASSUME NEW subject, NEW request, NewSubscription(subject, request),
               UNCHANGED m_onSendMessageCache
        PROVE  Freshness'
    BY <1>1, <2>1, MarkedIsFresh DEF NewSubscription
  <2>2. ASSUME NEW subject, NEW request, FurtherCallback(subject, request),
               UNCHANGED <<m_onSendMessageCache, handling>>
        PROVE  Freshness'
    BY <1>1, <2>2, FurtherCallbackIsStray DEF FurtherCallback, cacheVars
  <2>3. CASE Release(t)
    BY <1>1, <2>3, ReleaseIsFresh DEF Release
  <2>4. CASE (\E s \in Subjects : subscribe(t, s)) \/ sendRequest(t)
    BY <2>1, <2>2, <2>4 DEF subscribe, sendRequest
  <2>5. CASE wakeUp(t)
    BY <1>3, <2>5 DEF wakeUp
  <2> QED BY <1>10, <2>3, <2>4, <2>5 DEF ClientCalls
<1> QED BY <1>4, <1>6, <1>7, <1>8, <1>9, <1>10 DEF Next

(* The cache of the C++ library lists the callbacks that a subscription    *)
(* has unless it is marked: a release that overtakes a dispatch is seen by *)
(* the next one.                                                           *)
THEOREM CacheIsFreshOrMarked == Spec => []CacheIsFresh
<1>1. Init => IInv /\ Sent
  <2>1. Init => Sent
    BY DEF Init, Sent
  <2>2. Init => Freshness
    BY DEF Init, Freshness, Nothing
  <2> QED BY <2>1, <2>2, RepliesInitially DEF IInv
<1>2. IInv /\ Sent /\ [Next]_vars => (IInv /\ Sent)'
  BY RepliesInductive, SentKeeps, FreshnessInductive DEF IInv
<1>3. IInv => CacheIsFresh
  <2>1. SUFFICES ASSUME IInv, ~m_onSendMessageCacheInvalidated,
                        NEW id \in DOMAIN m_onSendMessageCache
                 PROVE  library = "C++" /\ Fresh(m_onSendMessageCache[id], id)
    BY DEF CacheIsFresh, Fresh, Stray
  <2>2. library = "C++"
    BY <2>1 DEF IInv, RepliesInv, Registry, Freshness
  <2> QED BY <2>1, <2>2 DEF IInv, Freshness
<1> QED BY <1>1, <1>2, <1>3, PTL DEF Spec
-----------------------------------------------------------------------------
(* The messages of an ID in a sequence of messages.                        *)

(* A set of numbers that has no least element is empty.                    *)
LEMMA LeastNumber ==
  ASSUME NEW X, X \subseteq Nat, X # {}
  PROVE  \E k \in X : \A j \in X : k <= j
<1>1. PICK k \in X : \A j \in X : ~ (<<j, k>> \in OpToRel(<, Nat))
  BY WFMin, NatLessThanWellFounded
<1>2. \A j \in X : ~ (j < k)
  BY <1>1 DEF OpToRel
<1> QED BY <1>2

(* What is picked from the first i messages, given what is from i - 1.     *)
Pick(s, id, f, i) ==
  IF i = 0 THEN << >> ELSE IF s[i].id = id THEN Append(f[i - 1], s[i]) ELSE f[i - 1]

Picked(s, id, n) == CHOOSE f : f = [i \in 0 .. n |-> Pick(s, id, f, i)]

LEMMA ForIDIsPicked ==
  ASSUME NEW s, NEW id
  PROVE  ForID(s, id) = Picked(s, id, Len(s))[Len(s)]
BY DEF ForID, Picked, Pick

LEMMA PickedIsDefined ==
  ASSUME NEW s, NEW id, NEW n \in Nat
  PROVE  /\ DOMAIN Picked(s, id, n) = 0 .. n
         /\ \A i \in 0 .. n : Picked(s, id, n)[i] = Pick(s, id, Picked(s, id, n), i)
<1> DEFINE Works(f, k) == f = [i \in 0 .. k |-> Pick(s, id, f, i)]
           bad == {k \in Nat : ~ \E f : Works(f, k)}
<1>1. bad = {}
  <2> SUFFICES ASSUME bad # {} PROVE FALSE
    OBVIOUS
  <2>1. PICK k \in bad : \A j \in bad : k <= j
    <3> bad \subseteq Nat
      OBVIOUS
    <3> HIDE DEF bad
    <3> QED BY LeastNumber
  <2>2. k \in Nat /\ ~ \E f : Works(f, k)
    OBVIOUS
  <2>3. CASE k = 0
    <3> DEFINE f == [i \in 0 .. 0 |-> << >>]
    <3>1. Works(f, 0)
      BY DEF Pick
    <3> QED BY <2>2, <2>3, <3>1
  <2>4. CASE k # 0
    <3>1. k - 1 \in Nat /\ k - 1 \notin bad
      BY <2>1, <2>2, <2>4
    <3>2. PICK f : Works(f, k - 1)
      BY <3>1
    <3> DEFINE g == [i \in 0 .. k |-> IF i = k THEN Pick(s, id, f, k) ELSE f[i]]
    <3>3. \A i \in 0 .. k : g[i] = Pick(s, id, g, i)
      <4> SUFFICES ASSUME NEW i \in 0 .. k PROVE g[i] = Pick(s, id, g, i)
        OBVIOUS
      <4>1. i # 0 => g[i - 1] = f[i - 1]
        BY <2>2, <2>4
      <4>2. g[i] = Pick(s, id, f, i)
        <5>1. CASE i = k
          BY <5>1
        <5>2. CASE i # k
          <6>1. i \in 0 .. (k - 1)
            BY <2>2, <5>2
          <6>2. f[i] = Pick(s, id, f, i)
            BY <3>2, <6>1
          <6> QED BY <6>2, <5>2
        <5> QED BY <5>1, <5>2
      <4> HIDE DEF g
      <4> QED BY <4>1, <4>2 DEF Pick
    <3>4. Works(g, k)
      <4>1. DOMAIN g = 0 .. k /\ g = [i \in 0 .. k |-> g[i]]
        OBVIOUS
      <4> HIDE DEF g
      <4> QED BY <3>3, <4>1
    <3> QED BY <2>2, <3>4
  <2> QED BY <2>3, <2>4
<1>2. \E f : Works(f, n)
  BY <1>1
<1>3. Works(Picked(s, id, n), n)
  BY <1>2 DEF Picked
<1> QED BY <1>3

(* Only the messages up to i decide what is picked from them.              *)
LEMMA PickedAgree ==
  ASSUME NEW s, NEW t, NEW id, NEW m \in Nat, NEW n \in Nat, NEW k \in Nat, k <= m, k <= n,
         \A i \in 1 .. k : s[i] = t[i]
  PROVE  Picked(s, id, m)[k] = Picked(t, id, n)[k]
<1> DEFINE f == Picked(s, id, m)
           g == Picked(t, id, n)
           bad == {i \in 0 .. k : f[i] # g[i]}
<1>1. /\ \A i \in 0 .. m : f[i] = Pick(s, id, f, i)
      /\ \A i \in 0 .. n : g[i] = Pick(t, id, g, i)
  BY PickedIsDefined
<1> HIDE DEF f, g
<1>2. bad = {}
  <2> SUFFICES ASSUME bad # {} PROVE FALSE
    OBVIOUS
  <2>1. PICK j \in bad : \A i \in bad : j <= i
    <3> bad \subseteq Nat
      OBVIOUS
    <3> HIDE DEF bad
    <3> QED BY LeastNumber
  <2>2. j \in 0 .. k /\ f[j] # g[j]
    OBVIOUS
  <2>3. f[j] = Pick(s, id, f, j) /\ g[j] = Pick(t, id, g, j)
    BY <1>1, <2>2
  <2>4. CASE j = 0
    BY <2>2, <2>3, <2>4 DEF Pick
  <2>5. CASE j # 0
    <3>1. j - 1 \in 0 .. k /\ j - 1 \notin bad
      BY <2>1, <2>2, <2>5
    <3>2. f[j - 1] = g[j - 1] /\ s[j] = t[j]
      BY <2>2, <2>5, <3>1
    <3> QED BY <2>2, <2>3, <2>5, <3>2 DEF Pick
  <2> QED BY <2>4, <2>5
<1> QED BY <1>2 DEF f, g

(* The messages of an ID are messages.                                     *)
LEMMA ForIDType ==
  ASSUME NEW S, NEW s \in Seq(S), NEW id
  PROVE  ForID(s, id) \in Seq(S)
<1> DEFINE n == Len(s)
           f == Picked(s, id, n)
           bad == {i \in 0 .. n : f[i] \notin Seq(S)}
<1>1. n \in Nat /\ \A i \in 0 .. n : f[i] = Pick(s, id, f, i)
  BY PickedIsDefined
<1>2. \A i \in 1 .. n : s[i] \in S
  OBVIOUS
<1> HIDE DEF f, n
<1>3. bad = {}
  <2> SUFFICES ASSUME bad # {} PROVE FALSE
    OBVIOUS
  <2>1. PICK j \in bad : \A i \in bad : j <= i
    <3> bad \subseteq Nat
      BY <1>1
    <3> HIDE DEF bad
    <3> QED BY LeastNumber
  <2>2. j \in 0 .. n /\ f[j] \notin Seq(S) /\ f[j] = Pick(s, id, f, j)
    BY <1>1
  <2>3. CASE j = 0
    BY <2>2, <2>3 DEF Pick
  <2>4. CASE j # 0
    <3>1. j - 1 \in 0 .. n /\ j - 1 \notin bad /\ s[j] \in S
      BY <1>1, <1>2, <2>1, <2>2, <2>4
    <3> QED BY <2>2, <2>4, <3>1 DEF Pick
  <2> QED BY <2>3, <2>4
<1>4. f[n] \in Seq(S)
  BY <1>1, <1>3
<1> QED BY <1>4, ForIDIsPicked DEF f, n

LEMMA ForIDOfNothing ==
  ASSUME NEW id
  PROVE  ForID(<< >>, id) = << >>
<1>1. Picked(<< >>, id, 0)[0] = Pick(<< >>, id, Picked(<< >>, id, 0), 0)
  BY PickedIsDefined
<1>2. ForID(<< >>, id) = Picked(<< >>, id, 0)[0]
  BY ForIDIsPicked
<1> QED BY <1>1, <1>2 DEF Pick

(* One message more.                                                       *)
LEMMA ForIDAppend ==
  ASSUME NEW S, NEW s \in Seq(S), NEW x \in S, NEW id
  PROVE  ForID(Append(s, x), id) = IF x.id = id THEN Append(ForID(s, id), x) ELSE ForID(s, id)
<1> DEFINE t == Append(s, x)
           n == Len(s)
<1>1. /\ n \in Nat /\ Len(t) = n + 1 /\ t[n + 1] = x
      /\ \A i \in 1 .. n : t[i] = s[i]
  OBVIOUS
<1>2. ForID(t, id) = Picked(t, id, Len(t))[Len(t)] /\ ForID(s, id) = Picked(s, id, n)[n]
  BY ForIDIsPicked
<1> HIDE DEF t, n
<1>3. Picked(t, id, n + 1)[n + 1] = Pick(t, id, Picked(t, id, n + 1), n + 1)
  BY <1>1, PickedIsDefined
<1>4. Picked(t, id, n + 1)[n] = Picked(s, id, n)[n]
  BY <1>1, PickedAgree
<1>5. (n + 1) - 1 = n /\ n + 1 # 0
  BY <1>1
<1>6. ForID(t, id) = IF x.id = id THEN Append(ForID(s, id), x) ELSE ForID(s, id)
  BY <1>1, <1>2, <1>3, <1>4, <1>5 DEF Pick
<1> QED BY <1>6 DEF t

LEMMA ConcatGrows ==
  ASSUME NEW S, NEW a \in Seq(S), NEW b \in Seq(S), NEW x \in S, NEW ab \in Seq(S), NEW bx
  PROVE  ab = a \o b /\ bx = Append(b, x) => a \o bx = Append(ab, x)
<1> DEFINE e == <<x>>
<1>1. e \in Seq(S)
  OBVIOUS
<1>2. Append(ab, x) = ab \o e /\ Append(b, x) = b \o e
  BY AppendIsConcat
<1> HIDE DEF e
<1>3. (a \o b) \o e = a \o (b \o e)
  BY <1>1, ConcatAssociative
<1> QED BY <1>2, <1>3

(* The messages of a sequence and of the one behind it.                    *)
LEMMA ForIDConcat ==
  ASSUME NEW S, NEW s \in Seq(S), NEW t \in Seq(S), NEW id
  PROVE  ForID(s \o t, id) = ForID(s, id) \o ForID(t, id)
<1> DEFINE Part(k) == [i \in 1 .. k |-> t[i]]
           bad == {k \in 0 .. Len(t) : ForID(s \o Part(k), id) # ForID(s, id) \o ForID(Part(k), id)}
<1>1. Len(t) \in Nat /\ Part(Len(t)) = t /\ Part(0) = << >>
  OBVIOUS
<1>2. \A k \in 0 .. Len(t) : Part(k) \in Seq(S)
  OBVIOUS
<1>3. \A k \in 1 .. Len(t) : Part(k) = Append(Part(k - 1), t[k]) /\ t[k] \in S
  OBVIOUS
<1> HIDE DEF Part
<1>4. bad = {}
  <2> SUFFICES ASSUME bad # {} PROVE FALSE
    OBVIOUS
  <2>1. PICK k \in bad : \A j \in bad : k <= j
    <3> bad \subseteq Nat
      OBVIOUS
    <3> HIDE DEF bad
    <3> QED BY LeastNumber
  <2>2. k \in 0 .. Len(t) /\ ForID(s \o Part(k), id) # ForID(s, id) \o ForID(Part(k), id)
    OBVIOUS
  <2>3. ForID(s, id) \in Seq(S)
    BY ForIDType
  <2>4. CASE k = 0
    <3>1. s \o << >> = s /\ ForID(s, id) \o << >> = ForID(s, id)
      BY <2>3
    <3> QED BY <1>1, <2>2, <2>4, <3>1, ForIDOfNothing
  <2>5. CASE k # 0
    <3>1. k \in 1 .. Len(t) /\ k - 1 \in 0 .. Len(t)
      BY <1>1, <2>2, <2>5
    <3>2. ForID(s \o Part(k - 1), id) = ForID(s, id) \o ForID(Part(k - 1), id)
      <4>1. k - 1 \notin bad
        <5>1. ~ (k <= k - 1)
          BY <1>1, <2>2
        <5> HIDE DEF bad
        <5> QED BY <2>1, <5>1
      <4> QED BY <3>1, <4>1
    <3>3. Part(k - 1) \in Seq(S) /\ t[k] \in S /\ Part(k) = Append(Part(k - 1), t[k])
      BY <1>2, <1>3, <3>1
    <3>4. ForID(s \o Part(k), id) = ForID(s, id) \o ForID(Part(k), id)
      <4> DEFINE p  == Part(k - 1)
                 q  == Part(k)
                 sp == s \o p
                 sq == s \o q
                 x  == t[k]
      <4>1. p \in Seq(S) /\ x \in S /\ sp \in Seq(S)
        BY <3>3
      <4>2. q = Append(p, x) /\ sp = s \o p /\ sq = s \o q
        BY <3>3
      <4>3. ForID(sp, id) = ForID(s, id) \o ForID(p, id)
        BY <3>2
      <4> HIDE DEF bad, p, q, sp, sq, x
      <4>4. PICK fs \in Seq(S), fp \in Seq(S), fsp \in Seq(S) :
              fs = ForID(s, id) /\ fp = ForID(p, id) /\ fsp = ForID(sp, id)
        BY <4>1, ForIDType
      <4>5. /\ ForID(Append(sp, x), id) = IF x.id = id THEN Append(ForID(sp, id), x) ELSE ForID(sp, id)
            /\ ForID(Append(p, x), id) = IF x.id = id THEN Append(ForID(p, id), x) ELSE ForID(p, id)
        BY SMTT(30), <4>1, ForIDAppend
      <4>6. sq = Append(sp, x)
        BY SMTT(30), <4>1, <4>2, ConcatGrows
      <4>7. fsp = fs \o fp
        BY <4>3, <4>4
      <4>8. fs \o Append(fp, x) = Append(fsp, x)
        BY SMTT(30), <4>1, <4>7, ConcatGrows
      <4>9. ForID(sq, id) = ForID(s, id) \o ForID(q, id)
        BY <4>2, <4>3, <4>4, <4>5, <4>6, <4>8
      <4> QED BY <4>9 DEF q, sq
    <3> QED BY <2>2, <3>4
  <2> QED BY <2>4, <2>5
<1>5. Len(t) \in 0 .. Len(t) /\ Len(t) \notin bad
  BY <1>1, <1>4
<1> QED BY <1>1, <1>5

LEMMA ForIDOfOne ==
  ASSUME NEW S, NEW x \in S, NEW id
  PROVE  ForID(<<x>>, id) = IF x.id = id THEN <<x>> ELSE << >>
<1>1. << >> \in Seq(S) /\ Append(<< >>, x) = <<x>>
  OBVIOUS
<1>2. ForID(Append(<< >>, x), id) = IF x.id = id THEN Append(ForID(<< >>, id), x) ELSE ForID(<< >>, id)
  BY <1>1, ForIDAppend
<1> QED BY <1>1, <1>2, ForIDOfNothing

(* No message has the ID.                                                  *)
LEMMA ForIDOfNone ==
  ASSUME NEW S, NEW s \in Seq(S), NEW id, \A m \in S : m.id # id
  PROVE  ForID(s, id) = << >>
<1> DEFINE n == Len(s)
           f == Picked(s, id, n)
           bad == {i \in 0 .. n : f[i] # << >>}
<1>1. n \in Nat /\ \A i \in 0 .. n : f[i] = Pick(s, id, f, i)
  BY PickedIsDefined
<1>2. \A i \in 1 .. n : s[i].id # id
  OBVIOUS
<1> HIDE DEF f, n
<1>3. bad = {}
  <2> SUFFICES ASSUME bad # {} PROVE FALSE
    OBVIOUS
  <2>1. PICK j \in bad : \A i \in bad : j <= i
    <3> bad \subseteq Nat
      BY <1>1
    <3> HIDE DEF bad
    <3> QED BY LeastNumber
  <2>2. j \in 0 .. n /\ f[j] # << >> /\ f[j] = Pick(s, id, f, j)
    BY <1>1
  <2>3. CASE j = 0
    BY <2>2, <2>3 DEF Pick
  <2>4. CASE j # 0
    <3>1. j - 1 \in 0 .. n /\ j - 1 \notin bad /\ s[j].id # id
      BY <1>1, <1>2, <2>1, <2>2, <2>4
    <3> QED BY <2>2, <2>4, <3>1 DEF Pick
  <2> QED BY <2>3, <2>4
<1>4. f[n] = << >>
  BY <1>1, <1>3
<1> QED BY <1>4, ForIDIsPicked DEF f, n
-----------------------------------------------------------------------------
(* Nothing is missed.                                                      *)

(* The callback that made a subscription and is still wanted.              *)
Kept(c) == callbackInfos[c].first /\ ~Released(c)

(* A subject's ID is that of the callback that subscribed to it; one that  *)
(* is kept is listed for it.                                               *)
Listed ==
  /\ \A s \in DOMAIN m_subscriptionsBySubject :
       \E c \in DOMAIN callbackInfos :
         /\ callbackInfos[c].first /\ callbackInfos[c].subject = s
         /\ callbackInfos[c].id = m_subscriptionsBySubject[s]
  /\ \A c \in DOMAIN callbackInfos : Kept(c) =>
       /\ callbackInfos[c].subject \in DOMAIN m_subscriptionsBySubject
       /\ m_subscriptionsBySubject[callbackInfos[c].subject] = callbackInfos[c].id
       /\ c \in CallbacksOf(callbackInfos[c].id)

(* Who is going to be called includes the callback that is kept.           *)
Called ==
  \A d \in Dispatchers, c \in DOMAIN callbackInfos :
    handling[d].phase = "call" /\ Kept(c) /\ callbackInfos[c].id = handling[d].message.id
      => c \in handling[d].callbacks

(* The ID of a request.                                                    *)
Requested(id) == \E r \in DOMAIN callbackInfos : IsRequest(r) /\ callbackInfos[r].id = id

(* The ways that messages take: in the CALLBACK mode nothing is queued; in *)
(* the QUEUE mode the mesh thread dispatches replies only.  While there is *)
(* a backlog the dispatcher takes nothing from the queue.                  *)
Ways ==
  /\ dispatch \in {"CALLBACK", "QUEUE"}
  /\ dispatch = "CALLBACK" =>
       /\ m_queuedMessages = << >> /\ batch = << >> /\ m_messageBacklog = << >>
       /\ ~Handling(Dispatcher)
       /\ thread[Dispatcher].pc \notin {"backlog", "waitOne", "getItems", "batch"}
  /\ thread[Dispatcher].pc # "batch" => batch = << >>
  /\ thread[Dispatcher].pc \in {"waitOne", "getItems", "batch"} => m_messageBacklog = << >>
  /\ \A id \in m_requestSubscriptionIDs : Requested(id)
  /\ dispatch = "QUEUE" /\ Handling(Mesh) => Requested(handling[Mesh].message.id)

(* The thread has not sent its request yet.                                *)
Early(t) == thread[t].pc \in {"subscribing", "noting", "requesting"}

(* A request is made by one thread and answered once.                      *)
AskedOnce ==
  /\ \A t, u \in Threads :
       Early(t) /\ Early(u) /\ thread[t].callback = thread[u].callback => t = u
  /\ \A t \in Threads : Early(t) => thread[t].callback \notin requests
  /\ \A r \in DOMAIN callbackInfos : IsRequest(r) =>
       /\ Len(ForID(sent, callbackInfos[r].id)) <= 1
       /\ (r \in requests \/ \E t \in Threads : Early(t) /\ thread[t].callback = r)
            => ForID(sent, callbackInfos[r].id) = << >>

Hand(d) == IF Handling(d) THEN << handling[d].message >> ELSE << >>

(* All messages that the client has and that are not dispatched, in order. *)
Whole ==
  Hand(Dispatcher) \o m_messageBacklog \o batch \o m_queuedMessages \o Hand(Mesh) \o fromGateway

Complete ==
  \A c \in DOMAIN callbackInfos : Kept(c) =>
    received[c] \o ForID(Whole, callbackInfos[c].id) = ForID(sent, callbackInfos[c].id)

SentRight == sent \in Seq(RightMessages)
-----------------------------------------------------------------------------
(* What the steps do to the tables.                                        *)
Rest ==
  UNCHANGED <<m_onSendMessageCache, m_requestSubscriptionIDs, queueVars, callVars, handling,
              gatewayVars, outcome>>

Registers(t, s, request) ==
  /\ NewCallback \in CallbackIDs
  /\ At(t, "idle")
  /\ \/ NewSubscription(s, request) /\ Goto(t, "subscribing", NewCallback)
     \/ FurtherCallback(s, request) /\ ~request /\ UNCHANGED thread
  /\ IF request THEN s = createInbox(NewCallback) ELSE s \in Subjects
  /\ Rest

LEMMA KindsOfSteps ==
  ASSUME RepliesInv, [Next]_vars
  PROVE  /\ UNCHANGED settings
         /\ \/ UNCHANGED subscriptions
            \/ \E t \in Threads, request \in BOOLEAN : \E s : Registers(t, s, request)
            \/ \E t \in Threads, c \in Nat :
                 /\ At(t, "idle") \/ At(t, "releasing")
                 /\ releaseSubscription(t, c)
<1>1. UNCHANGED settings
  BY DEF Next, MeshStep, DispatcherStep, Process, Keep, Alive, vars
<1>2. CASE UNCHANGED vars
  BY <1>1, <1>2 DEF vars
<1>3. CASE MeshStep \/ DispatcherStep \/ Process \/ TimesOut \/ Traffic
  BY <1>1, <1>3
     DEF MeshStep, DispatcherStep, Process, TimesOut, Traffic, onGatewayMessage, add_Set, Dispatch,
         ProcessBacklog, waitOne, getItems, ProcessBatch, processMessageQueue, WaitTimesOut,
         RequestTimesOut, Publish, Reply, Others
<1>4. ASSUME NEW t \in Threads, Keep(t)
      PROVE  \/ UNCHANGED subscriptions
             \/ At(t, "releasing") /\ releaseSubscription(t, thread[t].callback)
  BY <1>4
     DEF Keep, sendSUBSCRIBE, sendUNSUBSCRIBE, noteRequest, sendRequestMessage,
         waitForReply,
              eraseRequest, releaseInbox
<1>5. \A t \in Threads : thread[t].callback \in Nat
  BY DEF RepliesInv, Calls
<1>6. ASSUME NEW t \in Threads, ClientCalls(t)
      PROVE  \/ UNCHANGED subscriptions
             \/ \E request \in BOOLEAN : \E s : Registers(t, s, request)
             \/ \E c \in Nat : At(t, "idle") /\ releaseSubscription(t, c)
  <2>1. CASE \E s \in Subjects : subscribe(t, s)
    <3>1. PICK s \in Subjects : subscribe(t, s)
      BY <2>1
    <3> DEFINE request == FALSE
    <3>2. /\ NewCallback \in CallbackIDs /\ At(t, "idle") /\ Rest
          /\ \/ NewSubscription(s, request) /\ Goto(t, "subscribing", NewCallback)
             \/ FurtherCallback(s, request) /\ ~request /\ UNCHANGED thread
      BY <3>1 DEF subscribe, Rest
    <3>3. request \in BOOLEAN /\ ~request
      OBVIOUS
    <3> HIDE DEF request
    <3>4. Registers(t, s, request)
      BY <3>2, <3>3 DEF Registers
    <3> QED BY <3>3, <3>4
  <2>2. CASE sendRequest(t)
    <3>1. ~FurtherCallback(createInbox(NewCallback), TRUE)
      BY <2>2, InboxIsNew DEF sendRequest, FurtherCallback, RepliesInv
    <3> DEFINE inbox   == createInbox(NewCallback)
               request == TRUE
    <3>2. /\ NewCallback \in CallbackIDs /\ At(t, "idle") /\ Rest
          /\ NewSubscription(inbox, request) /\ Goto(t, "subscribing", NewCallback)
      BY <2>2, <3>1 DEF sendRequest, Rest
    <3>3. request \in BOOLEAN /\ request /\ inbox = createInbox(NewCallback)
      OBVIOUS
    <3> HIDE DEF request, inbox
    <3>4. Registers(t, inbox, request)
      BY <3>2, <3>3 DEF Registers
    <3> QED BY <3>3, <3>4
  <2>3. CASE Release(t)
    <3>1. \A c \in DOMAIN callbackInfos : c \in Nat
      BY DEF RepliesInv, Registry
    <3> QED BY <2>3, <3>1 DEF Release
  <2>4. CASE wakeUp(t)
    BY <2>4 DEF wakeUp
  <2> QED BY <1>6, <2>1, <2>2, <2>3, <2>4 DEF ClientCalls
<1> QED BY <1>1, <1>2, <1>3, <1>4, <1>5, <1>6 DEF Next

(* A callback is registered.                                               *)
LEMMA NewInfo ==
  ASSUME RepliesInv, NEW s, NEW id, NEW first, NEW request, Registered(s, id, first, request)
  PROVE  /\ NewCallback \in Nat /\ NewCallback \notin DOMAIN callbackInfos
         /\ DOMAIN callbackInfos' = DOMAIN callbackInfos \cup {NewCallback}
         /\ callbackInfos'[NewCallback].subject = s
         /\ callbackInfos'[NewCallback].id = id
         /\ callbackInfos'[NewCallback].first = first
         /\ callbackInfos'[NewCallback].request = request
         /\ callbackInfos'[NewCallback].held
         /\ \A c \in DOMAIN callbackInfos : callbackInfos'[c] = callbackInfos[c]
<1> DEFINE x == [subject |-> s, id |-> id, first |-> first, request |-> request, held |-> TRUE]
<1>1. callbackInfos' = Append(callbackInfos, x)
  BY DEF Registered
<1>2. x.subject = s /\ x.id = id /\ x.first = first /\ x.request = request /\ x.held
  OBVIOUS
<1> HIDE DEF x
<1>3. callbackInfos \in Seq(Infos \cup {x}) /\ x \in Infos \cup {x}
  BY DEF RepliesInv, Registry
<1> QED BY <1>1, <1>2, <1>3 DEF NewCallback

(* A callback is released.                                                 *)
LEMMA ReleasedInfo ==
  ASSUME RepliesInv, NEW t, NEW c \in Nat, releaseSubscription(t, c)
  PROVE  /\ DOMAIN callbackInfos' = DOMAIN callbackInfos
         /\ m_nextSubscriptionID' = m_nextSubscriptionID
         /\ \A b \in DOMAIN callbackInfos :
              /\ callbackInfos'[b].subject = callbackInfos[b].subject
              /\ callbackInfos'[b].id = callbackInfos[b].id
              /\ callbackInfos'[b].first = callbackInfos[b].first
              /\ callbackInfos'[b].request = callbackInfos[b].request
              /\ callbackInfos'[b].held => callbackInfos[b].held /\ b # c
<1>1. /\ callbackInfos' = [callbackInfos EXCEPT ![c].held = FALSE]
      /\ m_nextSubscriptionID' = m_nextSubscriptionID
  BY DEF releaseSubscription
<1>2. SUFFICES ASSUME NEW b \in DOMAIN callbackInfos
               PROVE  /\ callbackInfos'[b].subject = callbackInfos[b].subject
                      /\ callbackInfos'[b].id = callbackInfos[b].id
                      /\ callbackInfos'[b].first = callbackInfos[b].first
                      /\ callbackInfos'[b].request = callbackInfos[b].request
                      /\ callbackInfos'[b].held => callbackInfos[b].held /\ b # c
  BY <1>1
<1> DEFINE x == callbackInfos[b]
<1>3. x \in Infos
  BY DEF RepliesInv, Registry
<1>4. CASE b = c
  <2>1. callbackInfos'[b] = [x EXCEPT !.held = FALSE]
    BY <1>1, <1>4
  <2> HIDE DEF x
  <2>2. LET y == [x EXCEPT !.held = FALSE] IN
          /\ y.subject = x.subject /\ y.id = x.id /\ y.first = x.first /\ y.request = x.request
          /\ ~y.held
    BY <1>3 DEF Infos
  <2> QED BY <2>1, <2>2 DEF x
<1>5. CASE b # c
  BY <1>1, <1>5
<1> QED BY <1>4, <1>5

(* A right message stays right.                                            *)
LEMMA RightStays ==
  ASSUME RepliesInv, RepliesInv', [Next]_vars
  PROVE  RightMessages \subseteq RightMessages'
<1>1. ASSUME NEW m \in Messages, Right(m)
      PROVE  Right(m)'
  <2>1. m.id \in Nat /\ m.id < m_nextSubscriptionID /\ m_nextSubscriptionID \in Nat
    BY <1>1 DEF Messages, Right, RepliesInv, Registry
  <2>2. CASE UNCHANGED subscriptions
    BY <1>1, <2>2 DEF Right, IsRequest, subscriptions
  <2>3. ASSUME NEW t \in Threads, NEW c \in Nat, releaseSubscription(t, c)
        PROVE  Right(m)'
    BY <1>1, <2>3, ReleasedInfo DEF Right, IsRequest
  <2>4. ASSUME NEW t \in Threads, NEW s, NEW request \in BOOLEAN, Registers(t, s, request)
        PROVE  Right(m)'
    <3>1. CASE NewSubscription(s, request)
      <4>1. /\ m_nextSubscriptionID' = m_nextSubscriptionID + 1
            /\ Registered(s, m_nextSubscriptionID, TRUE, request)
        BY <3>1 DEF NewSubscription
      <4>2. m.id < m_nextSubscriptionID' /\ m.id # m_nextSubscriptionID
        BY <2>1, <4>1
      <4> QED BY <1>1, <4>1, <4>2, NewInfo DEF Right, IsRequest
    <3>2. CASE FurtherCallback(s, request) /\ ~request
      <4>1. PICK id : Registered(s, id, FALSE, request)
        BY <3>2 DEF FurtherCallback
      <4>2. m_nextSubscriptionID' = m_nextSubscriptionID
        BY <3>2 DEF FurtherCallback
      <4>3. /\ DOMAIN callbackInfos' = DOMAIN callbackInfos \cup {NewCallback}
            /\ callbackInfos'[NewCallback].request = request
            /\ \A c \in DOMAIN callbackInfos : callbackInfos'[c] = callbackInfos[c]
        BY <4>1, NewInfo
      <4> QED BY <1>1, <3>2, <4>2, <4>3 DEF Right, IsRequest
    <3> QED BY <2>4, <3>1, <3>2 DEF Registers
  <2> QED BY <2>2, <2>3, <2>4, KindsOfSteps
<1> QED BY <1>1 DEF RightMessages

LEMMA SentRightKeeps ==
  ASSUME RepliesInv, RepliesInv', SentRight, [Next]_vars
  PROVE  SentRight'
<1>1. RightMessages \subseteq RightMessages'
  BY RightStays
<1>2. CASE sent' = sent
  BY <1>1, <1>2 DEF SentRight
<1>3. CASE \E subject, r : Deliver(subject, r)
  <2>1. PICK m : sent' = Append(sent, m) /\ fromGateway' = Append(fromGateway, m)
    BY <1>3 DEF Deliver
  <2>2. m \in RightMessages'
    <3>1. fromGateway \in Seq(RightMessages) /\ fromGateway' \in Seq(RightMessages')
      BY DEF RepliesInv, Flow
    <3>2. fromGateway'[Len(fromGateway) + 1] = m /\ Len(fromGateway') = Len(fromGateway) + 1
          /\ Len(fromGateway) \in Nat
      <4>1. fromGateway \in Seq(RightMessages \cup {m}) /\ m \in RightMessages \cup {m}
        BY <3>1
      <4> QED BY <2>1, <4>1
    <3>3. Len(fromGateway) + 1 \in 1 .. Len(fromGateway')
      BY <3>2
    <3> QED BY <3>1, <3>2, <3>3
  <2>3. sent \in Seq(RightMessages')
    BY <1>1 DEF SentRight
  <2> QED BY <2>1, <2>2, <2>3 DEF SentRight
<1>4. sent' = sent \/ \E subject, r : Deliver(subject, r)
  <2>1. UNCHANGED vars \/ MeshStep \/ DispatcherStep \/ Process \/ TimesOut => sent' = sent
    BY SMTT(30) DEF vars, MeshStep, DispatcherStep, Process, TimesOut, onGatewayMessage, add_Set,
           Dispatch,
           ProcessBacklog, waitOne, getItems, ProcessBatch, processMessageQueue, WaitTimesOut,
           RequestTimesOut, gatewayVars
  <2>2. \A t \in Threads : Keep(t) \/ ClientCalls(t) => sent' = sent
    BY DEF Keep, ClientCalls, subscribe, Release, sendRequest, wakeUp, sendSUBSCRIBE,
           sendUNSUBSCRIBE, noteRequest, sendRequestMessage, waitForReply, eraseRequest,
           releaseInbox, releaseSubscription, gatewayVars
  <2>3. Traffic => \E subject, r : Deliver(subject, r)
    BY DEF Traffic, Publish, Reply
  <2> QED BY <2>1, <2>2, <2>3 DEF Next
<1> QED BY <1>2, <1>3, <1>4
-----------------------------------------------------------------------------
LEMMA ListedKeeps ==
  ASSUME RepliesInv, Listed, [Next]_vars
  PROVE  Listed'
<1>1. CASE UNCHANGED subscriptions
  BY <1>1 DEF Listed, Kept, Released, CallbacksOf, subscriptions
<1>2. ASSUME NEW t \in Threads, NEW s, NEW request \in BOOLEAN, Registers(t, s, request)
      PROVE  Listed'
  <2>0. PICK n : n = NewCallback
    OBVIOUS
  <2>1. CASE NewSubscription(s, request)
    <3>0. PICK id : id = m_nextSubscriptionID
      OBVIOUS
    <3>1. /\ s \notin DOMAIN m_subscriptionsBySubject
          /\ m_subscriptionsBySubject' = With(m_subscriptionsBySubject, s, id)
          /\ m_subscriptionsByID' = With(m_subscriptionsByID, id, CallbacksOf(id) \cup {n})
          /\ Registered(s, id, TRUE, request)
      BY <2>0, <2>1, <3>0 DEF NewSubscription
    <3>2. /\ DOMAIN m_subscriptionsBySubject' = DOMAIN m_subscriptionsBySubject \cup {s}
          /\ m_subscriptionsBySubject'[s] = id
          /\ \A x \in DOMAIN m_subscriptionsBySubject :
               x # s /\ m_subscriptionsBySubject'[x] = m_subscriptionsBySubject[x]
      BY <3>1 DEF With
    <3>3. \A y : CallbacksOf(y) \subseteq CallbacksOf(y)' /\ n \in CallbacksOf(id)'
      BY <3>1 DEF CallbacksOf, With
    <3>4. /\ DOMAIN callbackInfos' = DOMAIN callbackInfos \cup {n}
          /\ callbackInfos'[n].first /\ callbackInfos'[n].subject = s /\ callbackInfos'[n].id = id
          /\ \A c \in DOMAIN callbackInfos : callbackInfos'[c] = callbackInfos[c]
      BY <2>0, <3>1, NewInfo
    <3>5. ASSUME NEW x \in DOMAIN m_subscriptionsBySubject'
          PROVE  \E c \in DOMAIN callbackInfos' :
                   /\ callbackInfos'[c].first /\ callbackInfos'[c].subject = x
                   /\ callbackInfos'[c].id = m_subscriptionsBySubject'[x]
      BY <3>2, <3>4 DEF Listed
    <3>6. ASSUME NEW c \in DOMAIN callbackInfos', Kept(c)'
          PROVE  /\ callbackInfos'[c].subject \in DOMAIN m_subscriptionsBySubject'
                 /\ m_subscriptionsBySubject'[callbackInfos'[c].subject] = callbackInfos'[c].id
                 /\ c \in CallbacksOf(callbackInfos[c].id)'
      <4>1. CASE c = n
        BY <3>2, <3>3, <3>4, <4>1 DEF CallbacksOf
      <4>2. CASE c # n
        BY <3>2, <3>3, <3>4, <3>6, <4>2 DEF Listed, Kept, Released
      <4> QED BY <4>1, <4>2
    <3> QED BY <3>5, <3>6 DEF Listed
  <2>2. CASE FurtherCallback(s, request)
    <3>1. PICK id :
            /\ m_subscriptionsByID' = With(m_subscriptionsByID, id, CallbacksOf(id) \cup {n})
            /\ Registered(s, id, FALSE, request)
            /\ m_subscriptionsBySubject' = m_subscriptionsBySubject
      BY <2>0, <2>2 DEF FurtherCallback
    <3>2. \A y : CallbacksOf(y) \subseteq CallbacksOf(y)'
      BY <3>1 DEF CallbacksOf, With
    <3>3. /\ DOMAIN callbackInfos' = DOMAIN callbackInfos \cup {n}
          /\ ~callbackInfos'[n].first
          /\ \A c \in DOMAIN callbackInfos : callbackInfos'[c] = callbackInfos[c]
      BY <2>0, <3>1, NewInfo
    <3>4. ASSUME NEW x \in DOMAIN m_subscriptionsBySubject'
          PROVE  \E c \in DOMAIN callbackInfos' :
                   /\ callbackInfos'[c].first /\ callbackInfos'[c].subject = x
                   /\ callbackInfos'[c].id = m_subscriptionsBySubject'[x]
      BY <3>1, <3>3 DEF Listed
    <3>5. ASSUME NEW c \in DOMAIN callbackInfos', Kept(c)'
          PROVE  /\ callbackInfos'[c].subject \in DOMAIN m_subscriptionsBySubject'
                 /\ m_subscriptionsBySubject'[callbackInfos'[c].subject] = callbackInfos'[c].id
                 /\ c \in CallbacksOf(callbackInfos[c].id)'
      BY <3>1, <3>2, <3>3, <3>5 DEF Listed, Kept, Released
    <3> QED BY <3>4, <3>5 DEF Listed
  <2> QED BY <1>2, <2>1, <2>2 DEF Registers
<1>3. ASSUME NEW t \in Threads, NEW c \in Nat, releaseSubscription(t, c)
      PROVE  Listed'
  <2> DEFINE s == callbackInfos[c].subject
             Same(b) == /\ callbackInfos'[b].subject = callbackInfos[b].subject
                        /\ callbackInfos'[b].id = callbackInfos[b].id
                        /\ callbackInfos'[b].first = callbackInfos[b].first
                        /\ callbackInfos'[b].held => callbackInfos[b].held /\ b # c
  <2>1. DOMAIN callbackInfos' = DOMAIN callbackInfos /\ \A b \in DOMAIN callbackInfos : Same(b)
    BY <1>3, ReleasedInfo
  <2>2. \A x \in DOMAIN m_subscriptionsBySubject' :
          /\ x \in DOMAIN m_subscriptionsBySubject
          /\ m_subscriptionsBySubject'[x] = m_subscriptionsBySubject[x]
    BY <1>3 DEF releaseSubscription, NoCallbacksLeft, Without
  <2>3. ASSUME NEW b \in DOMAIN callbackInfos, Kept(b)'
        PROVE  /\ callbackInfos[b].subject \in DOMAIN m_subscriptionsBySubject'
               /\ \A i : i = callbackInfos[b].id => b \in CallbacksOf(i)'
    <3>0. PICK i : i = callbackInfos[b].id
      OBVIOUS
    <3>1. /\ b # c /\ callbackInfos[b].first /\ callbackInfos[b].subject \in DOMAIN m_subscriptionsBySubject
          /\ m_subscriptionsBySubject[callbackInfos[b].subject] = i
          /\ b \in CallbacksOf(i)
      BY <2>1, <2>3, <3>0 DEF Listed, Kept, Released
    <3>2. CASE UNCHANGED <<m_subscriptionsBySubject, m_subscriptionsByID>>
      BY <3>0, <3>1, <3>2 DEF CallbacksOf
    <3>3. CASE s \in DOMAIN m_subscriptionsBySubject
      <4> DEFINE id   == m_subscriptionsBySubject[s]
                 left == m_subscriptionsByID[id] \ {c}
      <4>1. \/ left = {} /\ NoCallbacksLeft(s, id)
            \/ /\ left # {} /\ m_subscriptionsByID' = [m_subscriptionsByID EXCEPT ![id] = left]
               /\ UNCHANGED m_subscriptionsBySubject
        BY <1>3, <3>3 DEF releaseSubscription
      <4>2. i = id => b \in left
        BY <3>1 DEF CallbacksOf
      <4>3. i # id => callbackInfos[b].subject # s
        BY <3>1
      <4> HIDE DEF left, id, s
      <4>4. CASE left # {}
        <5>1. m_subscriptionsByID' = [m_subscriptionsByID EXCEPT ![id] = left]
              /\ UNCHANGED m_subscriptionsBySubject
          BY <4>1, <4>4
        <5>2. b \in CallbacksOf(i)'
          BY <3>1, <4>2, <5>1 DEF CallbacksOf
        <5> QED BY <3>0, <3>1, <5>1, <5>2
      <4>5. CASE left = {}
        <5>1. i # id /\ callbackInfos[b].subject # s
          BY <4>2, <4>3, <4>5
        <5>2. NoCallbacksLeft(s, id)
          BY <4>1, <4>5
        <5> QED BY <3>0, <3>1, <5>1, <5>2 DEF NoCallbacksLeft, Without, CallbacksOf
      <4> QED BY <4>4, <4>5
    <3> QED BY <1>3, <3>2, <3>3 DEF releaseSubscription
  <2>4. ASSUME NEW x \in DOMAIN m_subscriptionsBySubject'
        PROVE  \E b \in DOMAIN callbackInfos' :
                 /\ callbackInfos'[b].first /\ callbackInfos'[b].subject = x
                 /\ callbackInfos'[b].id = m_subscriptionsBySubject'[x]
    BY <2>1, <2>2, <2>4 DEF Listed
  <2>5. ASSUME NEW b \in DOMAIN callbackInfos', Kept(b)'
        PROVE  /\ callbackInfos'[b].subject \in DOMAIN m_subscriptionsBySubject'
               /\ m_subscriptionsBySubject'[callbackInfos'[b].subject] = callbackInfos'[b].id
               /\ b \in CallbacksOf(callbackInfos[b].id)'
    <3>1. Kept(b) /\ b \in DOMAIN callbackInfos
      BY <2>1, <2>5 DEF Kept, Released
    <3> HIDE DEF Same
    <3>2. callbackInfos'[b].subject = callbackInfos[b].subject /\ callbackInfos'[b].id = callbackInfos[b].id
      BY <2>1, <3>1 DEF Same
    <3>3. /\ callbackInfos[b].subject \in DOMAIN m_subscriptionsBySubject'
          /\ \A i : i = callbackInfos[b].id => b \in CallbacksOf(i)'
      BY <2>3, <2>5, <3>1
    <3>4. m_subscriptionsBySubject[callbackInfos[b].subject] = callbackInfos[b].id
      BY <3>1 DEF Listed
    <3>5. \A i : i = callbackInfos'[b].id => b \in CallbacksOf(i)'
      BY <3>2, <3>3
    <3>6. b \in CallbacksOf(callbackInfos[b].id)'
      BY <3>5 DEF CallbacksOf
    <3> QED BY <2>2, <3>2, <3>3, <3>4, <3>6
  <2> QED BY <2>4, <2>5 DEF Listed
<1> QED BY <1>1, <1>2, <1>3, KindsOfSteps
-----------------------------------------------------------------------------
(* What a thread has in its hands after a step.                            *)
LEMMA KindsOfHandling ==
  ASSUME RepliesInv, [Next]_vars
  PROVE  \/ UNCHANGED handling
         \/ UNCHANGED subscriptions /\ \E d \in Dispatchers : \E m : Handle(d, m)
         \/ UNCHANGED subscriptions /\ \E d \in Dispatchers : Dispatch(d)
<1>1. CASE UNCHANGED vars
  BY <1>1 DEF vars
<1>2. CASE MeshStep
  BY <1>2 DEF MeshStep, onGatewayMessage, add_Set, Dispatch, Dispatchers
<1>3. CASE DispatcherStep
  BY <1>3
     DEF DispatcherStep, ProcessBacklog, waitOne, getItems, ProcessBatch, Dispatch,
         Dispatchers
<1>4. CASE Process \/ TimesOut \/ Traffic
  BY <1>4
     DEF Process, processMessageQueue, TimesOut, WaitTimesOut, RequestTimesOut, Traffic,
         Publish,
              Reply, Others
<1>5. \A t \in Threads : Keep(t) \/ ClientCalls(t) => UNCHANGED handling
  BY DEF Keep, ClientCalls, subscribe, Release, sendRequest, wakeUp, sendSUBSCRIBE,
         sendUNSUBSCRIBE,
         noteRequest, sendRequestMessage, waitForReply, eraseRequest, releaseInbox,
         releaseSubscription
<1> QED BY <1>1, <1>2, <1>3, <1>4, <1>5 DEF Next

(* A thread that dispatches keeps its message, or is done with it: because *)
(* nobody is subscribed, or because everybody was called.                  *)
LEMMA DispatchOutcome ==
  ASSUME RepliesInv, NEW d \in Dispatchers, Dispatch(d)
  PROVE  /\ Handling(d) /\ \A e \in Dispatchers \ {d} : handling'[e] = handling[e]
         /\ \/ Handling(d)' /\ handling'[d].message = handling[d].message /\ UNCHANGED received
            \/ /\ ~Handling(d)' /\ UNCHANGED received
               /\ handling[d].message.id \notin DOMAIN m_subscriptionsByID
            \/ ~Handling(d)' /\ performSubscriptionCallbacks(d)
<1>1. Handling(d) /\ DOMAIN handling = Dispatchers
  BY DEF Dispatch, processGatewayMessage_NET, processGatewayMessage,
         processGatewayMessage_Races,
         processGatewayMessage_LookUp, performSubscriptionCallbacks,
         performSubscriptionCallbacks_Deleted, Handling, RepliesInv, Flow
<1>2. handling[d] \in Handlings
  BY <1>1 DEF RepliesInv, Flow, Handlings
<1>3. ASSUME NEW callbacks, NEW cached, ToCall(d, callbacks, cached)
      PROVE  /\ Handling(d)' /\ handling'[d].message = handling[d].message
             /\ \A e \in Dispatchers \ {d} : handling'[e] = handling[e]
  <2> DEFINE h == [handling[d] EXCEPT !.phase = "call", !.callbacks = callbacks, !.cached = cached]
  <2>1. h.phase = "call" /\ h.message = handling[d].message
    BY <1>2 DEF Handlings
  <2>2. handling' = [handling EXCEPT ![d] = h]
    BY <1>3 DEF ToCall
  <2> HIDE DEF h
  <2> QED BY <1>1, <2>1, <2>2 DEF Handling
<1>4. ASSUME Done(d)
      PROVE  ~Handling(d)' /\ \A e \in Dispatchers \ {d} : handling'[e] = handling[e]
  BY <1>1, <1>4 DEF Done, Handling, Nothing
<1>5. CASE processGatewayMessage_NET(d) \/ processGatewayMessage_LookUp(d)
  <2>1. LookUp(d) /\ UNCHANGED received
    BY <1>5 DEF processGatewayMessage_NET, processGatewayMessage_LookUp, outcome
  <2> QED BY <1>1, <1>3, <1>4, <2>1 DEF LookUp
<1>6. CASE processGatewayMessage(d)
  <2> DEFINE h == [handling[d] EXCEPT !.phase = "lookup"]
  <2>1. /\ UNCHANGED received
        /\ (\E callbacks : ToCall(d, callbacks, TRUE)) \/ handling' = [handling EXCEPT ![d] = h]
    BY <1>6 DEF processGatewayMessage, outcome
  <2>2. h.phase = "lookup" /\ h.message = handling[d].message
    BY <1>2 DEF Handlings
  <2> HIDE DEF h
  <2>3. CASE handling' = [handling EXCEPT ![d] = h]
    BY <1>1, <2>1, <2>2, <2>3 DEF Handling
  <2> QED BY <1>1, <1>3, <2>1, <2>3
<1>7. CASE processGatewayMessage_Races(d) \/ performSubscriptionCallbacks_Deleted(d)
  BY <1>1, <1>7
     DEF processGatewayMessage_Races, performSubscriptionCallbacks_Deleted, Handling
<1>8. CASE performSubscriptionCallbacks(d)
  BY <1>1, <1>4, <1>8 DEF performSubscriptionCallbacks
<1> QED BY <1>5, <1>6, <1>7, <1>8 DEF Dispatch

LEMMA ToCallIsCalled ==
  ASSUME RepliesInv, Called, UNCHANGED subscriptions, NEW d \in Dispatchers, Handling(d),
         NEW callbacks, NEW cached, ToCall(d, callbacks, cached),
         \A c \in DOMAIN callbackInfos :
           Kept(c) /\ callbackInfos[c].id = handling[d].message.id => c \in callbacks
  PROVE  Called'
<1> DEFINE h == [handling[d] EXCEPT !.phase = "call", !.callbacks = callbacks, !.cached = cached]
<1>1. handling[d] \in Handlings /\ DOMAIN handling = Dispatchers
  BY DEF RepliesInv, Flow, Handlings
<1>2. h.message = handling[d].message /\ h.callbacks = callbacks
  BY <1>1 DEF Handlings
<1>3. handling' = [handling EXCEPT ![d] = h]
  BY DEF ToCall
<1> HIDE DEF h
<1>4. handling'[d] = h /\ \A e \in Dispatchers \ {d} : handling'[e] = handling[e]
  BY <1>1, <1>3
<1> QED BY <1>2, <1>4 DEF Called, Kept, Released, subscriptions

LEMMA NotCallingIsCalled ==
  ASSUME Called, UNCHANGED subscriptions,
         \A d \in Dispatchers : handling'[d] = handling[d] \/ handling'[d].phase # "call"
  PROVE  Called'
BY DEF Called, Kept, Released, subscriptions

LEMMA CalledKeeps ==
  ASSUME RepliesInv, Freshness, Listed, Called, [Next]_vars
  PROVE  Called'
<1>1. DOMAIN handling = Dispatchers
  BY DEF RepliesInv, Flow
<1>2. CASE UNCHANGED subscriptions /\ UNCHANGED handling
  BY <1>2, NotCallingIsCalled
<1>3. CASE UNCHANGED subscriptions /\ \E d \in Dispatchers : \E m : Handle(d, m)
  BY <1>1, <1>3, NotCallingIsCalled DEF Handle
<1>4. ASSUME UNCHANGED subscriptions, NEW d \in Dispatchers, Dispatch(d)
      PROVE  Called'
  <2> DEFINE id == handling[d].message.id
  <2>1. Handling(d) /\ handling[d] \in Handlings
    BY <1>4, DispatchOutcome DEF RepliesInv, Flow, Handlings
  <2>2. CASE processGatewayMessage_NET(d) \/ processGatewayMessage_LookUp(d)
    <3>1. LookUp(d)
      BY <2>2 DEF processGatewayMessage_NET, processGatewayMessage_LookUp
    <3>2. CASE id \in DOMAIN m_subscriptionsByID
      <4>1. ToCall(d, m_subscriptionsByID[id], FALSE)
        BY <3>1, <3>2 DEF LookUp
      <4>2. \A c \in DOMAIN callbackInfos :
              Kept(c) /\ callbackInfos[c].id = id => c \in m_subscriptionsByID[id]
        BY <3>2 DEF Listed, CallbacksOf
      <4> QED BY <1>4, <2>1, <4>1, <4>2, ToCallIsCalled
    <3>3. CASE id \notin DOMAIN m_subscriptionsByID
      BY <1>1, <1>4, <3>1, <3>3, NotCallingIsCalled DEF LookUp, Done, Nothing
    <3> QED BY <3>2, <3>3
  <2>3. CASE processGatewayMessage(d)
    <3> DEFINE cache == IF m_onSendMessageCacheInvalidated THEN << >> ELSE m_onSendMessageCache
    <3>1. CASE id \in DOMAIN cache
      <4>1. ~m_onSendMessageCacheInvalidated
        BY <3>1
      <4>2. /\ library = "C++" /\ id \in DOMAIN m_onSendMessageCache
            /\ ToCall(d, m_onSendMessageCache[id], TRUE)
        BY <2>3, <3>1, <4>1 DEF processGatewayMessage
      <4>3. Fresh(m_onSendMessageCache[id], id)
        BY <4>1, <4>2 DEF Freshness
      <4>4. \A c \in DOMAIN callbackInfos :
              Kept(c) /\ callbackInfos[c].id = id => c \in m_onSendMessageCache[id]
        BY <4>3 DEF Fresh, Stray, Listed, Kept
      <4> QED BY <1>4, <2>1, <4>2, <4>4, ToCallIsCalled
    <3>2. CASE id \notin DOMAIN cache
      <4> DEFINE h == [handling[d] EXCEPT !.phase = "lookup"]
      <4>1. h.phase = "lookup"
        BY <2>1 DEF Handlings
      <4>2. handling' = [handling EXCEPT ![d] = h]
        BY <2>3, <3>2 DEF processGatewayMessage
      <4> HIDE DEF h
      <4> QED BY <1>1, <1>4, <4>1, <4>2, NotCallingIsCalled
    <3> QED BY <3>1, <3>2
  <2>4. CASE processGatewayMessage_Races(d) \/ performSubscriptionCallbacks_Deleted(d)
    BY <1>4, <2>4, NotCallingIsCalled
       DEF processGatewayMessage_Races, performSubscriptionCallbacks_Deleted
  <2>5. CASE performSubscriptionCallbacks(d)
    BY <1>1, <1>4, <2>5, NotCallingIsCalled DEF performSubscriptionCallbacks, Done, Nothing
  <2> QED BY <1>4, <2>2, <2>3, <2>4, <2>5 DEF Dispatch
<1>5. ASSUME UNCHANGED handling, NEW t \in Threads, NEW c \in Nat, releaseSubscription(t, c)
      PROVE  Called'
  BY <1>5, ReleasedInfo DEF Called, Kept, Released
<1>6. ASSUME UNCHANGED handling, NEW t \in Threads, NEW s, NEW request \in BOOLEAN, Registers(t, s, request)
      PROVE  Called'
  <2>1. ASSUME NEW d \in Dispatchers, handling[d].phase = "call"
        PROVE  handling[d].message.id \in Nat /\ handling[d].message.id < m_nextSubscriptionID
    <3>1. handling[d] \in Handlings
      BY <2>1 DEF RepliesInv, Flow, Handlings, Handling
    <3>2. handling[d].message \in RightMessages
      BY <3>1 DEF Handlings
    <3> QED BY <3>2 DEF RightMessages, Right, Messages
  <2>2. /\ DOMAIN callbackInfos' = DOMAIN callbackInfos \cup {NewCallback}
        /\ \A c \in DOMAIN callbackInfos : callbackInfos'[c] = callbackInfos[c]
        /\ callbackInfos'[NewCallback].first => callbackInfos'[NewCallback].id = m_nextSubscriptionID
    <3>1. CASE NewSubscription(s, request)
      BY <3>1, NewInfo DEF NewSubscription
    <3>2. CASE FurtherCallback(s, request)
      BY <3>2, NewInfo DEF FurtherCallback
    <3> QED BY <1>6, <3>1, <3>2 DEF Registers
  <2>3. ASSUME NEW d \in Dispatchers, NEW c \in DOMAIN callbackInfos',
               handling[d].phase = "call", Kept(c)', callbackInfos'[c].id = handling[d].message.id
        PROVE  c \in handling[d].callbacks
    <3>1. CASE c \in DOMAIN callbackInfos
      BY <2>2, <2>3, <3>1 DEF Called, Kept, Released
    <3>2. CASE c = NewCallback
      <4>1. callbackInfos'[c].id = m_nextSubscriptionID
        BY <2>2, <2>3, <3>2 DEF Kept
      <4>2. m_nextSubscriptionID \in Nat
        BY DEF RepliesInv, Registry
      <4>3. handling[d].message.id < m_nextSubscriptionID
        BY <2>1, <2>3
      <4>4. handling[d].message.id # m_nextSubscriptionID
        BY <4>2, <4>3
      <4> QED BY <2>3, <4>1, <4>4
    <3> QED BY <2>2, <2>3, <3>1, <3>2
  <2> QED BY <1>6, <2>3 DEF Called
<1> QED BY <1>2, <1>3, <1>4, <1>5, <1>6, KindsOfSteps, KindsOfHandling
-----------------------------------------------------------------------------
(* The ways that messages take.                                            *)
LEMMA RequestedStays ==
  ASSUME RepliesInv, [Next]_vars, NEW id, Requested(id)
  PROVE  Requested(id)'
<1>1. CASE UNCHANGED subscriptions
  BY <1>1 DEF Requested, IsRequest, subscriptions
<1>2. ASSUME NEW t \in Threads, NEW c \in Nat, releaseSubscription(t, c)
      PROVE  Requested(id)'
  BY <1>2, ReleasedInfo DEF Requested, IsRequest
<1>3. ASSUME NEW t \in Threads, NEW s, NEW request \in BOOLEAN, Registers(t, s, request)
      PROVE  Requested(id)'
  <2>1. \E i, first : Registered(s, i, first, request)
    BY <1>3 DEF Registers, NewSubscription, FurtherCallback
  <2> QED BY <2>1, NewInfo DEF Requested, IsRequest
<1> QED BY <1>1, <1>2, <1>3, KindsOfSteps

Processing == {"backlog", "waitOne", "getItems", "batch"}

(* The dispatcher neither begins nor ends to process messages.             *)
SamePlace ==
  \/ thread'[Dispatcher].pc = thread[Dispatcher].pc
  \/ thread[Dispatcher].pc \notin Processing /\ thread'[Dispatcher].pc \notin Processing

LEMMA GotoSamePlace ==
  ASSUME RepliesInv, NEW t \in Threads, NEW pc \in Places, NEW c \in Nat, Goto(t, pc, c),
         thread[t].pc \notin Processing, pc \notin Processing
  PROVE  SamePlace
<1>1. thread'[t].pc = pc /\ \A u \in Threads \ {t} : thread'[u] = thread[u]
  BY GotoType DEF RepliesInv
<1> QED BY <1>1, ClientAssumption DEF SamePlace

LEMMA WaysKept ==
  ASSUME Ways, SamePlace, UNCHANGED <<dispatch, m_queuedMessages, batch, m_messageBacklog>>,
         \A d \in Dispatchers : handling'[d] = handling[d] \/ (Handling(d) /\ ~Handling(d)')
                                \/ (Handling(d) /\ handling'[d].message = handling[d].message),
         \A id : Requested(id) => Requested(id)',
         \A id \in m_requestSubscriptionIDs' : Requested(id)'
  PROVE  Ways'
<1>1. Mesh \in Dispatchers /\ Dispatcher \in Dispatchers
  BY DEF Dispatchers
<1>2. Handling(Dispatcher)' => Handling(Dispatcher)
  BY <1>1 DEF Handling
<1>3. dispatch' = "QUEUE" /\ Handling(Mesh)' => Requested(handling[Mesh].message.id)'
  <2>1. SUFFICES ASSUME dispatch = "QUEUE", Handling(Mesh)'
                 PROVE  Requested(handling[Mesh].message.id)'
    OBVIOUS
  <2>2. Handling(Mesh) /\ handling'[Mesh].message = handling[Mesh].message
    BY <1>1, <2>1 DEF Handling
  <2>3. \A id : id = handling'[Mesh].message.id => Requested(id)'
    BY <2>1, <2>2 DEF Ways
  <2> QED BY <2>3
<1>4. \A id \in m_requestSubscriptionIDs' : Requested(id)'
  OBVIOUS
<1>5. /\ thread'[Dispatcher].pc # "batch" =>
           \/ thread[Dispatcher].pc # "batch"
           \/ thread'[Dispatcher].pc = thread[Dispatcher].pc
      /\ thread'[Dispatcher].pc \in Processing => thread'[Dispatcher].pc = thread[Dispatcher].pc
  BY DEF SamePlace, Processing
<1> QED BY <1>2, <1>3, <1>4, <1>5 DEF Ways, Processing, SamePlace

(* The steps of the client's threads, and their calls.                     *)
LEMMA ThreadWays ==
  ASSUME RepliesInv, Ways, [Next]_vars, NEW t \in Threads, Keep(t) \/ ClientCalls(t)
  PROVE  Ways'
<1>1. \A id : Requested(id) => Requested(id)'
  BY RequestedStays
<1>2. UNCHANGED dispatch
  BY SMTT(30), KindsOfSteps DEF settings
<1>3. UNCHANGED <<handling, m_queuedMessages, batch, m_messageBacklog>>
  BY ZenonT(60) DEF Keep, ClientCalls, subscribe, Release, sendRequest, wakeUp, sendSUBSCRIBE,
         sendUNSUBSCRIBE,
         noteRequest, sendRequestMessage, waitForReply, eraseRequest, releaseInbox,
         releaseSubscription, queueVars, callVars
<1>4. \A id \in m_requestSubscriptionIDs' : Requested(id)'
  <2>1. CASE m_requestSubscriptionIDs' \subseteq m_requestSubscriptionIDs
    BY <1>1, <2>1 DEF Ways
  <2>2. CASE noteRequest(t)
    <3>1. m_requestSubscriptionIDs' = m_requestSubscriptionIDs \cup {callbackInfos[thread[t].callback].id}
      BY <2>2 DEF noteRequest
    <3>2. Requested(callbackInfos[thread[t].callback].id)
      BY <2>2 DEF noteRequest, RepliesInv, Calls, Requested
    <3>3. \A id \in m_requestSubscriptionIDs' : Requested(id)
      BY <3>1, <3>2 DEF Ways
    <3> QED BY <1>1, <3>3
  <2> QED BY <2>1, <2>2
          DEF Keep, ClientCalls, subscribe, Release, sendRequest, wakeUp, sendSUBSCRIBE, sendUNSUBSCRIBE,
              sendRequestMessage, waitForReply, eraseRequest, releaseInbox, releaseSubscription
<1>5. SamePlace
  <2>1. thread[t].callback \in Nat /\ NewCallback \in Nat
    BY DEF RepliesInv, Calls, Registry, NewCallback
  <2>2. CASE Keep(t)
    <3>1. /\ thread[t].pc \notin Processing
          /\ \E pc \in Places \ Processing, c \in Nat : Goto(t, pc, c)
      <4>1. CASE sendSUBSCRIBE(t) \/ noteRequest(t) \/ sendRequestMessage(t)
        BY <2>1, <4>1
           DEF sendSUBSCRIBE, noteRequest, sendRequestMessage, At, Places, Processing
      <4>2. CASE waitForReply(t) \/ eraseRequest(t) \/ sendUNSUBSCRIBE(t)
        BY SMTT(30), <2>1, <4>2
           DEF waitForReply, eraseRequest, sendUNSUBSCRIBE, At, Places, Processing
      <4>3. CASE releaseInbox(t)
        BY <2>1, <4>3 DEF releaseInbox, releaseSubscription, At, Places, Processing
      <4> QED BY <2>2, <4>1, <4>2, <4>3 DEF Keep
    <3> QED BY <3>1, GotoSamePlace
  <2>3. CASE ClientCalls(t)
    <3>1. thread[t].pc = "idle"
      BY <2>3 DEF ClientCalls, subscribe, Release, sendRequest, wakeUp, At
    <3>2. \/ UNCHANGED thread
          \/ \E pc \in Places \ Processing, c \in Nat : Goto(t, pc, c)
      <4>1. CASE (\E s \in Subjects : subscribe(t, s)) \/ sendRequest(t) \/ wakeUp(t)
        BY <2>1, <4>1 DEF subscribe, sendRequest, wakeUp, Places, Processing
      <4>2. CASE Release(t)
        <5>1. PICK c \in DOMAIN callbackInfos : releaseSubscription(t, c)
          BY <4>2 DEF Release
        <5>2. c \in Nat
          BY DEF RepliesInv, Registry
        <5> QED BY <5>1, <5>2 DEF releaseSubscription, Places, Processing
      <4> QED BY <2>3, <4>1, <4>2 DEF ClientCalls
    <3>3. "idle" \notin Processing
      BY DEF Processing
    <3> QED BY <3>1, <3>2, <3>3, GotoSamePlace DEF SamePlace
  <2> QED BY <2>2, <2>3
<1> QED BY <1>1, <1>2, <1>3, <1>4, <1>5, WaysKept

(* A message that is dispatched has taken its way.                         *)
LEMMA DispatchWays ==
  ASSUME RepliesInv, Ways, [Next]_vars, NEW d \in Dispatchers, Dispatch(d)
  PROVE  Ways'
<1>1. UNCHANGED <<m_requestSubscriptionIDs, m_queuedMessages, batch, m_messageBacklog, thread>>
  BY DEF Dispatch, queueVars, callVars
<1>2. \A id : Requested(id) => Requested(id)'
  BY RequestedStays
<1>3. UNCHANGED dispatch
  BY KindsOfSteps DEF settings
<1>4. \A e \in Dispatchers : handling'[e] = handling[e] \/ (Handling(e) /\ ~Handling(e)')
                             \/ (Handling(e) /\ handling'[e].message = handling[e].message)
  BY DispatchOutcome
<1>5. SamePlace
  BY <1>1 DEF SamePlace
<1>6. \A id \in m_requestSubscriptionIDs' : Requested(id)'
  BY <1>1, <1>2 DEF Ways
<1> QED BY <1>1, <1>2, <1>3, <1>4, <1>5, <1>6, WaysKept

(* What the mesh thread reads is queued or is a reply, in the QUEUE mode.  *)
LEMMA onGatewayMessageWays ==
  ASSUME RepliesInv, Ways, [Next]_vars, onGatewayMessage
  PROVE  Ways'
<1> DEFINE m == Head(fromGateway)
<1>1. UNCHANGED <<m_requestSubscriptionIDs, batch, m_messageBacklog, thread>>
  BY DEF onGatewayMessage, callVars
<1>2. \A id : Requested(id) => Requested(id)'
  BY RequestedStays
<1>3. UNCHANGED dispatch
  BY KindsOfSteps DEF settings
<1>4. \A id \in m_requestSubscriptionIDs' : Requested(id)'
  BY <1>1, <1>2 DEF Ways
<1>5. /\ DOMAIN handling = Dispatchers
      /\ Mesh \in Dispatchers /\ Dispatcher \in Dispatchers /\ Mesh # Dispatcher
  BY ClientAssumption DEF RepliesInv, Flow, Dispatchers
<1>6. CASE m.id \in m_requestSubscriptionIDs \/ dispatch = "CALLBACK"
  <2>1. Handle(Mesh, m) /\ UNCHANGED m_queuedMessages
    BY <1>6 DEF onGatewayMessage, queueVars
  <2>2. handling'[Mesh].message = m /\ handling'[Dispatcher] = handling[Dispatcher]
    BY <1>5, <2>1 DEF Handle
  <2> HIDE DEF m
  <2>3. dispatch = "QUEUE" => Requested(m.id)
    BY <1>6 DEF Ways
  <2>4. dispatch = "QUEUE" => \A id : id = handling'[Mesh].message.id => Requested(id)'
    BY <1>2, <2>2, <2>3
  <2>5. dispatch' = "QUEUE" => Requested(handling[Mesh].message.id)'
    BY <1>3, <2>4
  <2> QED BY <1>1, <1>3, <1>4, <2>1, <2>2, <2>5 DEF Ways, Handling
<1>7. CASE ~(m.id \in m_requestSubscriptionIDs \/ dispatch = "CALLBACK")
  <2>1. UNCHANGED handling
    BY <1>7 DEF onGatewayMessage
  <2>2. dispatch = "QUEUE" => \A id : id = handling'[Mesh].message.id => (Handling(Mesh) => Requested(id)')
    BY <1>2, <2>1 DEF Ways
  <2>3. dispatch' = "QUEUE" /\ Handling(Mesh)' => Requested(handling[Mesh].message.id)'
    BY <1>3, <2>1, <2>2 DEF Handling
  <2> QED BY <1>1, <1>3, <1>4, <1>7, <2>1, <2>3 DEF Ways, Handling
<1> QED BY <1>6, <1>7

(* The dispatcher takes items only when it has no backlog.                 *)
LEMMA DispatcherWays ==
  ASSUME RepliesInv, Ways, [Next]_vars,
         \/ ProcessBacklog \/ waitOne \/ WaitTimesOut \/ getItems \/ ProcessBatch
         \/ \E maxMessages \in Limits : processMessageQueue(maxMessages)
  PROVE  Ways'
<1>1. UNCHANGED m_requestSubscriptionIDs /\ \A id \in m_requestSubscriptionIDs : Requested(id)
  BY DEF ProcessBacklog, waitOne, WaitTimesOut, getItems, ProcessBatch, processMessageQueue,
         Ways
<1>2. \A id : Requested(id) => Requested(id)'
  BY RequestedStays
<1>3. UNCHANGED dispatch /\ dispatch \in {"CALLBACK", "QUEUE"}
  BY KindsOfSteps DEF settings, Ways
<1>4. \A id \in m_requestSubscriptionIDs' : Requested(id)'
  BY <1>1, <1>2
<1>5. /\ DOMAIN handling = Dispatchers
      /\ Mesh \in Dispatchers /\ Dispatcher \in Dispatchers /\ Mesh # Dispatcher
  BY ClientAssumption DEF RepliesInv, Flow, Dispatchers
<1>6. dispatch = "QUEUE"
  BY <1>3
     DEF ProcessBacklog, waitOne, WaitTimesOut, getItems, ProcessBatch, processMessageQueue,
         At, Ways
<1>7. handling'[Mesh] = handling[Mesh]
  <2>1. UNCHANGED handling \/ \E m : Handle(Dispatcher, m)
    BY DEF ProcessBacklog, waitOne, WaitTimesOut, getItems, ProcessBatch,
           processMessageQueue
  <2> QED BY <1>5, <2>1 DEF Handle
<1>8. Handling(Mesh)' => Requested(handling[Mesh].message.id)'
  <2>1. \A id : id = handling'[Mesh].message.id => (Handling(Mesh) => Requested(id)')
    BY <1>2, <1>6, <1>7 DEF Ways
  <2> QED BY <1>7, <2>1 DEF Handling
<1>9. \A pc \in Places : Call(pc) => thread'[Dispatcher].pc = pc
  BY CallType DEF RepliesInv
<1>10. /\ thread'[Dispatcher].pc # "batch" => batch' = << >>
       /\ thread'[Dispatcher].pc \in {"waitOne", "getItems", "batch"} => m_messageBacklog' = << >>
  <2>1. CASE ProcessBacklog
    <3>1. thread[Dispatcher].pc = "backlog" /\ batch' = << >>
      BY <2>1 DEF ProcessBacklog, At, Ways
    <3>2. CASE m_messageBacklog # << >> /\ MayProcess
      BY <2>1, <3>1, <3>2 DEF ProcessBacklog
    <3>3. CASE ~(m_messageBacklog # << >> /\ MayProcess)
      <4>1. Call(IF MayProcess THEN "waitOne" ELSE "idle") /\ m_messageBacklog' = m_messageBacklog
        BY <2>1, <3>3 DEF ProcessBacklog
      <4>2. thread'[Dispatcher].pc = IF MayProcess THEN "waitOne" ELSE "idle"
        BY <1>9, <4>1 DEF Places
      <4> QED BY <3>1, <3>3, <4>1, <4>2
    <3> QED BY <3>2, <3>3
  <2>2. CASE waitOne \/ WaitTimesOut
    <3>1. Call("getItems") /\ thread[Dispatcher].pc = "waitOne" /\ UNCHANGED <<batch, m_messageBacklog>>
      BY <2>2 DEF waitOne, WaitTimesOut, callVars, At
    <3> QED BY <3>1 DEF Ways
  <2>3. CASE getItems
    <3>1. Call("batch") /\ thread[Dispatcher].pc = "getItems" /\ UNCHANGED m_messageBacklog
      BY <2>3 DEF getItems, At
    <3>2. thread'[Dispatcher].pc = "batch"
      BY <1>9, <3>1 DEF Places
    <3> QED BY <3>1, <3>2 DEF Ways
  <2>4. CASE ProcessBatch
    <3>1. thread[Dispatcher].pc = "batch" /\ m_messageBacklog = << >>
      BY <2>4 DEF ProcessBatch, At, Ways
    <3>2. CASE batch # << >> /\ MayProcess
      BY <2>4, <3>1, <3>2 DEF ProcessBatch
    <3>3. CASE ~(batch # << >> /\ MayProcess)
      <4>1. Call("idle") /\ batch' = << >>
        BY <2>4, <3>3 DEF ProcessBatch
      <4>2. thread'[Dispatcher].pc = "idle"
        BY <1>9, <4>1 DEF Places
      <4> QED BY <4>1, <4>2
    <3> QED BY <3>2, <3>3
  <2>5. CASE \E maxMessages \in Limits : processMessageQueue(maxMessages)
    <3>1. Call("backlog") /\ thread[Dispatcher].pc = "idle" /\ UNCHANGED batch
      BY <2>5 DEF processMessageQueue, At
    <3>2. thread'[Dispatcher].pc = "backlog"
      BY <1>9, <3>1 DEF Places
    <3> QED BY <3>1, <3>2 DEF Ways
  <2> QED BY <2>1, <2>2, <2>3, <2>4, <2>5
<1> QED BY <1>3, <1>4, <1>6, <1>8, <1>10 DEF Ways

LEMMA WaysKeeps ==
  ASSUME RepliesInv, Ways, [Next]_vars
  PROVE  Ways'
<1>1. \A id : Requested(id) => Requested(id)'
  BY RequestedStays
<1>2. UNCHANGED dispatch
  BY KindsOfSteps DEF settings
<1>3. ASSUME UNCHANGED <<m_requestSubscriptionIDs, m_queuedMessages, batch, m_messageBacklog, handling>>,
             SamePlace
      PROVE  Ways'
  <2>1. \A id \in m_requestSubscriptionIDs' : Requested(id)'
    BY <1>1, <1>3 DEF Ways
  <2> QED BY <1>1, <1>2, <1>3, <2>1, WaysKept
<1>4. CASE UNCHANGED vars
  BY <1>3, <1>4 DEF vars, SamePlace, queueVars, callVars
<1>5. CASE MeshStep
  <2>1. CASE add_Set
    BY <1>3, <2>1 DEF add_Set, SamePlace, callVars
  <2> QED BY <1>5, <2>1, onGatewayMessageWays, DispatchWays DEF MeshStep, Dispatchers
<1>6. CASE DispatcherStep \/ Process
  BY <1>6, DispatcherWays, DispatchWays DEF DispatcherStep, Process, Dispatchers
<1>7. CASE TimesOut
  <2>1. ASSUME NEW t \in Threads, RequestTimesOut(t) PROVE Ways'
    <3>1. /\ thread[t].pc = "waiting" /\ Goto(t, "erasing", thread[t].callback)
          /\ thread[t].callback \in Nat
      BY <2>1 DEF RequestTimesOut, At, RepliesInv, Calls
    <3>2. SamePlace
      BY <3>1, GotoSamePlace DEF Places, Processing
    <3> QED BY <1>3, <2>1, <3>2 DEF RequestTimesOut, queueVars, callVars
  <2> QED BY <1>7, <2>1, DispatcherWays DEF TimesOut
<1>8. CASE Traffic
  BY <1>3, <1>8 DEF Traffic, Publish, Reply, Others, SamePlace, queueVars, callVars
<1>9. \A t \in Threads : Keep(t) \/ ClientCalls(t) => Ways'
  BY ThreadWays
<1> QED BY <1>4, <1>5, <1>6, <1>7, <1>8, <1>9 DEF Next
-----------------------------------------------------------------------------
(* A request is answered once.                                             *)
LEMMA AskedKept ==
  ASSUME AskedOnce, UNCHANGED sent, requests' \subseteq requests,
         \A t \in Threads : Early(t)' => Early(t) /\ thread'[t].callback = thread[t].callback,
         \A r \in DOMAIN callbackInfos' : callbackInfos'[r].request =>
           /\ r \in DOMAIN callbackInfos /\ callbackInfos[r].request
           /\ callbackInfos'[r].id = callbackInfos[r].id
  PROVE  AskedOnce'
<1>1. ASSUME NEW r \in DOMAIN callbackInfos', IsRequest(r)'
      PROVE  /\ Len(ForID(sent, callbackInfos[r].id))' <= 1
             /\ (r \in requests' \/ \E t \in Threads : Early(t)' /\ thread'[t].callback = r)
                  => ForID(sent, callbackInfos[r].id)' = << >>
  <2>1. /\ r \in DOMAIN callbackInfos /\ IsRequest(r) /\ callbackInfos'[r].id = callbackInfos[r].id
    BY <1>1 DEF IsRequest
  <2>2. ForID(sent, callbackInfos[r].id)' = ForID(sent, callbackInfos[r].id)
    BY <2>1
  <2> QED BY <2>1, <2>2 DEF AskedOnce
<1> QED BY <1>1 DEF AskedOnce

(* No message was sent for an ID that the client has not given yet.        *)
LEMMA NextIDIsNew ==
  ASSUME RepliesInv, SentRight
  PROVE  ForID(sent, m_nextSubscriptionID) = << >>
<1>1. \A m \in RightMessages : m.id # m_nextSubscriptionID
  BY DEF RightMessages, Right, Messages, RepliesInv, Registry
<1> QED BY <1>1, ForIDOfNone DEF SentRight

LEMMA RegistersAsked ==
  ASSUME RepliesInv, SentRight, AskedOnce,
         NEW t \in Threads, NEW s, NEW request \in BOOLEAN, Registers(t, s, request)
  PROVE  AskedOnce'
<1>0. UNCHANGED <<sent, requests>>
  BY DEF Registers, Rest, gatewayVars
<1>1. CASE FurtherCallback(s, request) /\ ~request /\ UNCHANGED thread
  <2>1. \E id : Registered(s, id, FALSE, request)
    BY <1>1 DEF FurtherCallback
  <2>2. /\ DOMAIN callbackInfos' = DOMAIN callbackInfos \cup {NewCallback}
        /\ callbackInfos'[NewCallback].request = request
        /\ \A c \in DOMAIN callbackInfos : callbackInfos'[c] = callbackInfos[c]
    BY <2>1, NewInfo
  <2>3. \A u \in Threads : Early(u)' => Early(u) /\ thread'[u].callback = thread[u].callback
    BY <1>1 DEF Early
  <2>4. \A r \in DOMAIN callbackInfos' : callbackInfos'[r].request =>
           /\ r \in DOMAIN callbackInfos /\ callbackInfos[r].request
           /\ callbackInfos'[r].id = callbackInfos[r].id
    BY <1>1, <2>2
  <2> QED BY <1>0, <2>3, <2>4, AskedKept
<1>2. CASE NewSubscription(s, request) /\ Goto(t, "subscribing", NewCallback)
  <2>0. PICK n, id : n = NewCallback /\ id = m_nextSubscriptionID
    OBVIOUS
  <2>1. Registered(s, id, TRUE, request)
    BY <1>2, <2>0 DEF NewSubscription
  <2>2. /\ n \in Nat /\ n \notin DOMAIN callbackInfos
        /\ DOMAIN callbackInfos' = DOMAIN callbackInfos \cup {n}
        /\ callbackInfos'[n].id = id
        /\ \A c \in DOMAIN callbackInfos : callbackInfos'[c] = callbackInfos[c]
    BY <2>0, <2>1, NewInfo
  <2>3. /\ thread'[t].pc = "subscribing" /\ thread'[t].callback = n
        /\ \A u \in Threads \ {t} : thread'[u] = thread[u]
    BY <1>2, <2>0, <2>2, GotoType DEF RepliesInv, Places
  <2>4. \A u \in Threads : Early(u) => thread[u].callback \in DOMAIN callbackInfos
    BY DEF Early, RepliesInv, Calls, At
  <2>5. \A r \in requests : r \in DOMAIN callbackInfos
    BY DEF RepliesInv, Calls
  <2>6. \A u \in Threads \ {t} : Early(u)' <=> Early(u)
    BY <2>3 DEF Early
  <2>7. \A u, v \in Threads : Early(u)' /\ Early(v)' /\ thread'[u].callback = thread'[v].callback => u = v
    BY <2>2, <2>3, <2>4, <2>6 DEF AskedOnce
  <2>8. \A u \in Threads : Early(u)' => thread'[u].callback \notin requests'
    BY <1>0, <2>2, <2>3, <2>5, <2>6 DEF AskedOnce
  <2>9. ASSUME NEW r \in DOMAIN callbackInfos', IsRequest(r)'
        PROVE  /\ Len(ForID(sent, callbackInfos[r].id))' <= 1
               /\ (r \in requests' \/ \E u \in Threads : Early(u)' /\ thread'[u].callback = r)
                    => ForID(sent, callbackInfos[r].id)' = << >>
    <3>1. CASE r = n
      <4>1. ForID(sent, callbackInfos[r].id)' = ForID(sent, id)
        BY <1>0, <2>2, <3>1
      <4>2. ForID(sent, id) = << >>
        BY <2>0, NextIDIsNew
      <4>3. Len(ForID(sent, callbackInfos[r].id))' = Len(<< >>)
        BY <4>1, <4>2
      <4> QED BY <4>1, <4>2, <4>3
    <3>2. CASE r # n
      <4>1. r \in DOMAIN callbackInfos /\ callbackInfos'[r] = callbackInfos[r] /\ IsRequest(r)
        BY <2>2, <2>9, <3>2 DEF IsRequest
      <4>2. ForID(sent, callbackInfos[r].id)' = ForID(sent, callbackInfos[r].id)
        BY <1>0, <4>1
      <4>3. (\E u \in Threads : Early(u)' /\ thread'[u].callback = r)
              => \E u \in Threads : Early(u) /\ thread[u].callback = r
        BY <2>3, <2>6, <3>2
      <4> QED BY <1>0, <4>1, <4>2, <4>3 DEF AskedOnce
    <3> QED BY <3>1, <3>2
  <2> QED BY <2>7, <2>8, <2>9 DEF AskedOnce
<1> QED BY <1>1, <1>2 DEF Registers

(* A reply goes to the inbox of its request only.                          *)
LEMMA DeliverAsked ==
  ASSUME RepliesInv, SentRight, AskedOnce, UNCHANGED Others, NEW subject, NEW q \in Nat,
         Deliver(subject, q),
         \A r \in DOMAIN callbackInfos : IsRequest(r) /\ subject = createInbox(r) => r = q,
         q \in DOMAIN callbackInfos => q \in requests,
         requests' = requests \ {q}
  PROVE  AskedOnce'
<1> DEFINE m == [id |-> gatewayIDs[subject], n |-> Len(sent) + 1, answers |-> q]
           S == RightMessages \cup {m}
<1>1. sent' = Append(sent, m) /\ m.id = gatewayIDs[subject] /\ subject \in DOMAIN gatewayIDs
  BY DEF Deliver
<1>2. UNCHANGED <<callbackInfos, thread>> /\ callbackInfos' = callbackInfos
  BY DEF Others, subscriptions
<1>3. sent \in Seq(S) /\ m \in S
  BY DEF SentRight
<1> HIDE DEF m, S
<1>4. \A t \in Threads : Early(t)' <=> Early(t)
  BY <1>2 DEF Early
<1>5. ASSUME NEW r \in DOMAIN callbackInfos, IsRequest(r), NEW id, id = callbackInfos[r].id
      PROVE  /\ Len(ForID(sent', id)) <= 1
             /\ (r \in requests' \/ \E t \in Threads : Early(t) /\ thread[t].callback = r)
                  => ForID(sent', id) = << >>
  <2>1. ForID(sent', id) = IF m.id = id THEN Append(ForID(sent, id), m) ELSE ForID(sent, id)
    BY <1>1, <1>3, ForIDAppend
  <2>2. CASE m.id # id
    BY <1>5, <2>1, <2>2 DEF AskedOnce
  <2>3. CASE m.id = id
    <3>1. subject = createInbox(r)
      BY <1>1, <1>5, <2>3 DEF RepliesInv, Gateway
    <3>2. r = q /\ r \in requests
      BY <1>5, <3>1
    <3>3. ForID(sent, id) = << >>
      BY <1>5, <3>2 DEF AskedOnce
    <3>4. Len(Append(<< >>, m)) = 1
      OBVIOUS
    <3>5. Len(ForID(sent', id)) <= 1
      BY <2>1, <2>3, <3>3, <3>4
    <3>6. r \notin requests' /\ ~ \E t \in Threads : Early(t) /\ thread[t].callback = r
      BY <3>2 DEF AskedOnce
    <3> QED BY <3>5, <3>6
  <2> QED BY <2>2, <2>3
<1>6. ASSUME NEW r \in DOMAIN callbackInfos', IsRequest(r)'
      PROVE  /\ Len(ForID(sent, callbackInfos[r].id))' <= 1
             /\ (r \in requests' \/ \E t \in Threads : Early(t)' /\ thread'[t].callback = r)
                  => ForID(sent, callbackInfos[r].id)' = << >>
  <2>1. r \in DOMAIN callbackInfos /\ IsRequest(r)
    BY <1>2, <1>6 DEF IsRequest
  <2> DEFINE id == callbackInfos[r].id
  <2>2. ForID(sent, callbackInfos[r].id)' = ForID(sent', id)
    BY <1>2
  <2> HIDE DEF id
  <2>3. /\ Len(ForID(sent', id)) <= 1
        /\ (r \in requests' \/ \E t \in Threads : Early(t) /\ thread[t].callback = r)
             => ForID(sent', id) = << >>
    BY <1>5, <2>1 DEF id
  <2>4. Len(ForID(sent, callbackInfos[r].id))' = Len(ForID(sent', id))
    BY <2>2
  <2> QED BY <1>2, <1>4, <2>2, <2>3, <2>4
<1> QED BY <1>2, <1>4, <1>6 DEF AskedOnce

LEMMA AskedOnceKeeps ==
  ASSUME RepliesInv, SentRight, AskedOnce, [Next]_vars
  PROVE  AskedOnce'
<1>1. ASSUME UNCHANGED <<sent, requests>>,
             \A t \in Threads : Early(t)' => Early(t) /\ thread'[t].callback = thread[t].callback
      PROVE  AskedOnce'
  <2>1. CASE UNCHANGED subscriptions
    <3>1. \A r \in DOMAIN callbackInfos' : callbackInfos'[r].request =>
           /\ r \in DOMAIN callbackInfos /\ callbackInfos[r].request
           /\ callbackInfos'[r].id = callbackInfos[r].id
      BY <2>1 DEF subscriptions
    <3> QED BY <1>1, <3>1, AskedKept
  <2>2. ASSUME NEW t \in Threads, NEW c \in Nat, releaseSubscription(t, c)
        PROVE  AskedOnce'
    <3>1. \A r \in DOMAIN callbackInfos' : callbackInfos'[r].request =>
           /\ r \in DOMAIN callbackInfos /\ callbackInfos[r].request
           /\ callbackInfos'[r].id = callbackInfos[r].id
      BY <2>2, ReleasedInfo
    <3> QED BY <1>1, <3>1, AskedKept
  <2> QED BY <2>1, <2>2, KindsOfSteps, RegistersAsked
<1>2. ASSUME NEW t \in Threads, NEW pc \in Places, NEW c \in Nat, Goto(t, pc, c),
             pc \notin {"subscribing", "noting", "requesting"} \/ (Early(t) /\ c = thread[t].callback)
      PROVE  \A u \in Threads : Early(u)' => Early(u) /\ thread'[u].callback = thread[u].callback
  BY <1>2, GotoType DEF RepliesInv, Early
<1>3. CASE UNCHANGED vars
  BY <1>1, <1>3 DEF vars, gatewayVars, Early
<1>4. CASE MeshStep
  <2>1. UNCHANGED <<sent, requests, thread>>
    BY <1>4 DEF MeshStep, onGatewayMessage, add_Set, Dispatch, gatewayVars
  <2> QED BY <1>1, <2>1 DEF Early
<1>5. CASE DispatcherStep \/ Process \/ WaitTimesOut
  <2>1. UNCHANGED <<sent, requests>>
    BY <1>5 DEF DispatcherStep, Process, WaitTimesOut, ProcessBacklog, waitOne, getItems,
                ProcessBatch, processMessageQueue, Dispatch, gatewayVars
  <2>2. UNCHANGED thread \/ \E pc \in Places : /\ pc \notin {"subscribing", "noting", "requesting"}
                                               /\ Call(pc)
    BY <1>5 DEF DispatcherStep, Process, WaitTimesOut, ProcessBacklog, waitOne, getItems,
                ProcessBatch, processMessageQueue, Dispatch, Places
  <2>3. \A u \in Threads : Early(u)' => Early(u) /\ thread'[u].callback = thread[u].callback
    BY <2>2, CallType DEF RepliesInv, Early
  <2> QED BY <1>1, <2>1, <2>3
<1>6. ASSUME NEW t \in Threads, RequestTimesOut(t) PROVE AskedOnce'
  <2>1. thread[t].callback \in Nat /\ Goto(t, "erasing", thread[t].callback) /\ UNCHANGED <<sent, requests>>
    BY <1>6 DEF RequestTimesOut, RepliesInv, Calls, gatewayVars
  <2> QED BY <1>1, <1>2, <2>1 DEF Places
<1>7. CASE Traffic
  <2>1. ASSUME NEW s \in Subjects, Publish(s) PROVE AskedOnce'
    <3>1. \A c \in DOMAIN callbackInfos : s # createInbox(c)
      BY InboxAssumption, CallbacksAreIDs DEF RepliesInv
    <3>2. Deliver(s, 0) /\ UNCHANGED Others /\ requests' = requests
      BY <2>1 DEF Publish
    <3>3. 0 \notin DOMAIN callbackInfos
      BY DEF RepliesInv, Registry
    <3>4. requests' = requests \ {0}
      BY <3>2, <3>3 DEF RepliesInv, Calls
    <3> QED BY <3>1, <3>2, <3>3, <3>4, DeliverAsked
  <2>2. ASSUME NEW r \in requests, Reply(r) PROVE AskedOnce'
    <3>1. r \in DOMAIN callbackInfos /\ r \in Nat /\ callbackInfos[r].subject = createInbox(r)
      BY DEF RepliesInv, Calls, Registry
    <3>2. \A c \in DOMAIN callbackInfos : callbackInfos[r].subject = createInbox(c) => c = r
      BY <3>1 DEF createInbox
    <3>3. /\ Deliver(callbackInfos[r].subject, r) /\ UNCHANGED Others /\ requests' = requests \ {r}
      BY <2>2 DEF Reply
    <3> QED BY <3>1, <3>2, <3>3, DeliverAsked
  <2> QED BY <1>7, <2>1, <2>2 DEF Traffic
<1>8. ASSUME NEW t \in Threads, sendRequestMessage(t)
      PROVE  AskedOnce'
  <2>0. PICK c : c = thread[t].callback
    OBVIOUS
  <2>1. /\ c \in Nat /\ thread[t].pc = "requesting" /\ requests' = requests \cup {c}
        /\ Goto(t, "waiting", c) /\ UNCHANGED <<sent, callbackInfos>> /\ callbackInfos' = callbackInfos
    BY <1>8, <2>0 DEF sendRequestMessage, At, RepliesInv, Calls, subscriptions
  <2>2. thread'[t].pc = "waiting" /\ \A u \in Threads \ {t} : thread'[u] = thread[u]
    BY <2>1, GotoType DEF RepliesInv, Places
  <2>3. Early(t) /\ ~Early(t)' /\ \A u \in Threads \ {t} : Early(u)' <=> Early(u)
    BY <2>1, <2>2 DEF Early
  <2>4. \A u, v \in Threads : Early(u)' /\ Early(v)' /\ thread'[u].callback = thread'[v].callback => u = v
    BY <2>2, <2>3 DEF AskedOnce
  <2>5. \A u \in Threads : Early(u)' => thread'[u].callback \notin requests'
    BY <2>0, <2>1, <2>2, <2>3 DEF AskedOnce
  <2>6. ASSUME NEW r \in DOMAIN callbackInfos', IsRequest(r)'
        PROVE  /\ Len(ForID(sent, callbackInfos[r].id))' <= 1
               /\ (r \in requests' \/ \E u \in Threads : Early(u)' /\ thread'[u].callback = r)
                    => ForID(sent, callbackInfos[r].id)' = << >>
    <3>1. r \in DOMAIN callbackInfos /\ IsRequest(r)
      BY <2>1, <2>6 DEF IsRequest
    <3>2. ForID(sent, callbackInfos[r].id)' = ForID(sent, callbackInfos[r].id)
      BY <2>1
    <3>3. (r \in requests' \/ \E u \in Threads : Early(u)' /\ thread'[u].callback = r)
            => r \in requests \/ \E u \in Threads : Early(u) /\ thread[u].callback = r
      BY <2>0, <2>1, <2>2, <2>3
    <3> QED BY <3>1, <3>2, <3>3 DEF AskedOnce
  <2> QED BY <2>4, <2>5, <2>6 DEF AskedOnce
<1>9. ASSUME NEW t \in Threads, Keep(t) \/ ClientCalls(t), ~sendRequestMessage(t)
      PROVE  AskedOnce'
  <2>1. UNCHANGED <<sent, requests>>
    BY <1>9 DEF Keep, ClientCalls, subscribe, Release, sendRequest, wakeUp, sendSUBSCRIBE,
                sendUNSUBSCRIBE, noteRequest, waitForReply, eraseRequest, releaseInbox,
                releaseSubscription, gatewayVars
  <2>2. thread[t].callback \in Nat
    BY DEF RepliesInv, Calls
  <2>3. CASE wakeUp(t)
    BY <1>1, <2>1, <2>3 DEF wakeUp, Early
  <2>4. CASE sendSUBSCRIBE(t) \/ noteRequest(t)
    <3>1. Early(t) /\ \/ Goto(t, "noting", thread[t].callback)
                      \/ Goto(t, "idle", 0)
                      \/ Goto(t, "requesting", thread[t].callback)
      BY <2>4 DEF sendSUBSCRIBE, noteRequest, Early, At
    <3> QED BY <1>1, <1>2, <2>1, <2>2, <3>1 DEF Places
  <2>5. CASE sendUNSUBSCRIBE(t) \/ waitForReply(t) \/ eraseRequest(t)
    <3>1. \/ Goto(t, "idle", 0)
          \/ Goto(t, "erasing", thread[t].callback)
          \/ Goto(t, "releasing", thread[t].callback)
      BY <2>5 DEF sendUNSUBSCRIBE, waitForReply, eraseRequest
    <3> QED BY <1>1, <1>2, <2>1, <2>2, <3>1 DEF Places
  <2>6. CASE releaseInbox(t) \/ Release(t)
    <3>1. \E c \in Nat : releaseSubscription(t, c)
      BY <2>2, <2>6 DEF releaseInbox, Release, RepliesInv, Registry
    <3>2. \E c \in Nat : Goto(t, "idle", 0) \/ Goto(t, "unsubscribing", c)
      BY <3>1 DEF releaseSubscription
    <3> QED BY <1>1, <1>2, <2>1, <3>2 DEF Places
  <2>7. CASE (\E s \in Subjects : subscribe(t, s)) \/ sendRequest(t)
    <3>1. CASE UNCHANGED subscriptions
      <4>1. DOMAIN callbackInfos' # DOMAIN callbackInfos
        <5>1. \E s, id, first, request : Registered(s, id, first, request)
          BY <2>7 DEF subscribe, sendRequest, NewSubscription, FurtherCallback
        <5> QED BY <5>1, NewInfo
      <4> QED BY <3>1, <4>1 DEF subscriptions
    <3>2. ASSUME NEW u \in Threads, NEW c \in Nat, releaseSubscription(u, c)
          PROVE  FALSE
      <4>1. DOMAIN callbackInfos' # DOMAIN callbackInfos
        <5>1. \E s, id, first, request : Registered(s, id, first, request)
          BY <2>7 DEF subscribe, sendRequest, NewSubscription, FurtherCallback
        <5> QED BY <5>1, NewInfo
      <4> QED BY <3>2, <4>1, ReleasedInfo
    <3> QED BY <3>1, <3>2, KindsOfSteps, RegistersAsked
  <2> QED BY SMTT(30), <1>9, <2>3, <2>4, <2>5, <2>6, <2>7 DEF Keep, ClientCalls
<1> QED BY <1>3, <1>4, <1>5, <1>6, <1>7, <1>8, <1>9 DEF Next, TimesOut
-----------------------------------------------------------------------------
(* Messages move on, and stay in their order.                              *)
LEMMA NothingBeside ==
  ASSUME NEW S, NEW a \in Seq(S)
  PROVE  a \o << >> = a /\ << >> \o a = a
OBVIOUS

LEMMA HeadFirst ==
  ASSUME NEW S, NEW a \in Seq(S), a # << >>
  PROVE  /\ Head(a) \in S /\ Tail(a) \in Seq(S)
         /\ << Head(a) >> \in Seq(S) /\ << Head(a) >> \o Tail(a) = a
<1>1. Head(a) \in S /\ Tail(a) \in Seq(S)
  OBVIOUS
<1>2. /\ Len(a) \in Nat /\ Len(a) > 0 /\ Len(Tail(a)) = Len(a) - 1
      /\ \A i \in 1 .. Len(a) - 1 : Tail(a)[i] = a[i + 1]
  OBVIOUS
<1> DEFINE e == << Head(a) >>
           t == Tail(a)
<1>3. e \in Seq(S) /\ Len(e) = 1 /\ e[1] = a[1]
  BY <1>1
<1>4. t \in Seq(S) /\ Len(t) = Len(a) - 1 /\ \A i \in 1 .. Len(a) - 1 : t[i] = a[i + 1]
  BY <1>1, <1>2
<1> HIDE DEF e, t
<1>5. /\ e \o t \in Seq(S) /\ Len(e \o t) = Len(e) + Len(t)
      /\ \A i \in 1 .. Len(e) + Len(t) : (e \o t)[i] = IF i <= Len(e) THEN e[i] ELSE t[i - Len(e)]
  <2>1. e \in Seq(S) /\ t \in Seq(S)
    BY <1>3, <1>4
  <2> QED BY <2>1, ConcatProperties
<1>6. Len(e \o t) = Len(a)
  BY <1>2, <1>3, <1>4, <1>5
<1>7. \A i \in 1 .. Len(a) : (e \o t)[i] = a[i]
  <2> SUFFICES ASSUME NEW i \in 1 .. Len(a) PROVE (e \o t)[i] = a[i]
    OBVIOUS
  <2>1. (e \o t)[i] = IF i <= Len(e) THEN e[i] ELSE t[i - Len(e)]
    BY <1>2, <1>3, <1>4, <1>5
  <2>2. CASE i = 1
    BY <1>3, <2>1, <2>2
  <2>3. CASE i # 1
    <3>1. i - 1 \in 1 .. Len(a) - 1 /\ ~(i <= Len(e)) /\ i - Len(e) = i - 1
      BY <1>2, <1>3, <2>3
    <3>2. t[i - 1] = a[(i - 1) + 1] /\ (i - 1) + 1 = i
      BY <1>4, <3>1
    <3> QED BY <2>1, <3>1, <3>2
  <2> QED BY <2>2, <2>3
<1>8. e \o t = a
  <2>1. e \o t \in Seq(S)
    BY <1>5
  <2> DEFINE et == e \o t
  <2>2. et \in Seq(S) /\ Len(et) = Len(a) /\ \A i \in 1 .. Len(et) : et[i] = a[i]
    BY <1>6, <1>7, <2>1
  <2> HIDE DEF et
  <2>3. et = a
    BY <2>2, SeqEqual
  <2> QED BY <2>3 DEF et
<1> QED BY <1>1, <1>3, <1>8 DEF e, t

(* What the dispatcher has taken from the queue, and all that the mesh     *)
(* thread has put aside.                                                   *)
Taken    == Hand(Dispatcher) \o m_messageBacklog \o batch
PutAside == Taken \o m_queuedMessages

LEMMA WholeType ==
  ASSUME RepliesInv
  PROVE  /\ \A d \in Dispatchers : Hand(d) \in Seq(RightMessages)
         /\ m_messageBacklog \in Seq(RightMessages) /\ batch \in Seq(RightMessages)
         /\ m_queuedMessages \in Seq(RightMessages) /\ fromGateway \in Seq(RightMessages)
         /\ Taken \in Seq(RightMessages) /\ PutAside \in Seq(RightMessages)
         /\ Whole \in Seq(RightMessages)
         /\ Whole = PutAside \o Hand(Mesh) \o fromGateway
         /\ Mesh \in Dispatchers /\ Dispatcher \in Dispatchers /\ Mesh # Dispatcher
<1>1. m_messageBacklog \in Seq(RightMessages) /\ batch \in Seq(RightMessages)
      /\ m_queuedMessages \in Seq(RightMessages) /\ fromGateway \in Seq(RightMessages)
  BY DEF RepliesInv, Flow
<1>2. \A d \in Dispatchers : Hand(d) \in Seq(RightMessages)
  <2> SUFFICES ASSUME NEW d \in Dispatchers PROVE Hand(d) \in Seq(RightMessages)
    OBVIOUS
  <2>1. CASE Handling(d)
    <3>1. handling[d] \in Handlings
      BY <2>1 DEF RepliesInv, Flow, Handlings
    <3>2. handling[d].message \in RightMessages
      BY <3>1 DEF Handlings
    <3> QED BY <2>1, <3>2 DEF Hand
  <2>2. CASE ~Handling(d)
    BY <2>2 DEF Hand
  <2> QED BY <2>1, <2>2
<1>3. Mesh \in Dispatchers /\ Dispatcher \in Dispatchers /\ Mesh # Dispatcher
  BY ClientAssumption DEF Dispatchers
<1>4. Taken \in Seq(RightMessages)
  BY <1>1, <1>2, <1>3 DEF Taken
<1>5. PutAside \in Seq(RightMessages)
  BY <1>1, <1>4 DEF PutAside
<1>6. Whole = PutAside \o Hand(Mesh) \o fromGateway
  BY DEF Whole, PutAside, Taken
<1>7. Whole \in Seq(RightMessages)
  BY <1>1, <1>2, <1>3, <1>5, <1>6
<1> QED BY <1>1, <1>2, <1>3, <1>4, <1>5, <1>6, <1>7

LEMMA HandKept ==
  ASSUME NEW d, handling'[d] = handling[d]
  PROVE  Hand(d)' = Hand(d)
BY DEF Hand, Handling

LEMMA HandTaken ==
  ASSUME DOMAIN handling = Dispatchers, NEW d \in Dispatchers, NEW m, Handle(d, m)
  PROVE  Hand(d)' = << m >> /\ \A e \in Dispatchers \ {d} : Hand(e)' = Hand(e)
<1>1. /\ handling'[d].phase = "start" /\ handling'[d].message = m
      /\ \A e \in Dispatchers \ {d} : handling'[e] = handling[e]
  BY DEF Handle
<1> QED BY <1>1 DEF Hand, Handling

(* What the mesh thread reads is behind all that it read before.           *)
LEMMA onGatewayMessageMoves ==
  ASSUME RepliesInv, onGatewayMessage
  PROVE  Whole' = Whole
<1> DEFINE m == Head(fromGateway)
           S == RightMessages
<1>1. /\ fromGateway # << >> /\ fromGateway' = Tail(fromGateway)
      /\ UNCHANGED <<m_messageBacklog, batch>> /\ Hand(Mesh) = << >>
      /\ DOMAIN handling = Dispatchers
  BY DEF onGatewayMessage, callVars, Hand, RepliesInv, Flow
<1>2. << m >> \in Seq(S) /\ Tail(fromGateway) \in Seq(S) /\ << m >> \o Tail(fromGateway) = fromGateway
  BY <1>1, HeadFirst, WholeType
<1>3. /\ Taken \in Seq(S) /\ PutAside \in Seq(S) /\ m_queuedMessages \in Seq(S) /\ Mesh \in Dispatchers
      /\ Dispatcher \in Dispatchers /\ Mesh # Dispatcher /\ Whole = PutAside \o Hand(Mesh) \o fromGateway
  BY WholeType
<1>4. Whole' = PutAside' \o Hand(Mesh)' \o fromGateway'
  BY DEF Whole, PutAside, Taken
<1>5. CASE Handle(Mesh, m) /\ UNCHANGED m_queuedMessages
  <2>1. Hand(Mesh)' = << m >> /\ Hand(Dispatcher)' = Hand(Dispatcher)
    BY <1>1, <1>3, <1>5, HandTaken
  <2>2. PutAside' = PutAside
    BY <1>1, <1>5, <2>1 DEF PutAside, Taken
  <2> DEFINE e == << m >>
             t == Tail(fromGateway)
  <2>3. e \in Seq(S) /\ t \in Seq(S) /\ e \o t = fromGateway
    BY <1>2
  <2>4. Whole' = (PutAside \o e) \o t
    BY <1>1, <1>4, <2>1, <2>2
  <2>5. Whole = PutAside \o fromGateway
    BY <1>1, <1>3, NothingBeside
  <2>6. PutAside \in Seq(S) /\ e \in Seq(S) /\ t \in Seq(S)
    BY <1>3, <2>3
  <2> HIDE DEF e, t, S, m
  <2>7. (PutAside \o e) \o t = PutAside \o (e \o t)
    BY <2>6, ConcatAssociative
  <2> QED BY <2>3, <2>4, <2>5, <2>7
<1>6. CASE m_queuedMessages' = Append(m_queuedMessages, m) /\ UNCHANGED handling
  <2>1. Hand(Mesh)' = << >> /\ Hand(Dispatcher)' = Hand(Dispatcher)
    BY <1>1, <1>6, HandKept
  <2>2. Taken' = Taken
    BY <1>1, <2>1 DEF Taken
  <2> DEFINE e == << m >>
             t == Tail(fromGateway)
             q == m_queuedMessages
  <2>3. e \in Seq(S) /\ t \in Seq(S) /\ e \o t = fromGateway /\ m \in S
    BY <1>1, <1>2, HeadFirst, WholeType
  <2>4. Append(q, m) = q \o e
    BY <1>3, <2>3, AppendIsConcat
  <2>5. PutAside' = Taken \o (q \o e) /\ PutAside = Taken \o q
    BY <1>6, <2>2, <2>4 DEF PutAside
  <2>6. Whole' = (PutAside' \o << >>) \o t /\ Whole = (PutAside \o << >>) \o fromGateway
    BY <1>1, <1>3, <1>4, <2>1
  <2> HIDE DEF e, t, S, m, q
  <2>7. q \in Seq(S) /\ Taken \in Seq(S) /\ PutAside \in Seq(S) /\ e \in Seq(S) /\ t \in Seq(S)
    BY <1>3, <2>3 DEF q
  <2>8. (Taken \o q) \o e = Taken \o (q \o e)
    <3>1. Taken \in Seq(S) /\ q \in Seq(S) /\ e \in Seq(S)
      BY <2>7
    <3> QED BY <3>1, ConcatAssociative
  <2>9. PutAside' = PutAside \o e
    BY <2>5, <2>8
  <2>10. PutAside \o e \in Seq(S)
    BY <2>7
  <2>11. Whole' = (PutAside \o e) \o t /\ Whole = PutAside \o fromGateway
    BY <2>6, <2>7, <2>9, <2>10, NothingBeside
  <2>12. (PutAside \o e) \o t = PutAside \o (e \o t)
    <3>1. PutAside \in Seq(S) /\ e \in Seq(S) /\ t \in Seq(S)
      BY <2>7
    <3> QED BY <3>1, ConcatAssociative
  <2> QED BY <2>3, <2>11, <2>12
<1>7. \/ Handle(Mesh, m) /\ UNCHANGED m_queuedMessages
      \/ m_queuedMessages' = Append(m_queuedMessages, m) /\ UNCHANGED handling
  BY DEF onGatewayMessage, queueVars
<1> QED BY <1>5, <1>6, <1>7

(* So do the steps of the dispatcher: it takes nothing from the batch      *)
(* while there is a backlog, and nothing from the queue while it has a     *)
(* batch.                                                                  *)
LEMMA DispatcherMoves ==
  ASSUME RepliesInv, Ways, ProcessBacklog \/ getItems \/ ProcessBatch
  PROVE  Whole' = Whole
<1> DEFINE S == RightMessages
<1>1. /\ m_messageBacklog \in Seq(S) /\ batch \in Seq(S) /\ m_queuedMessages \in Seq(S)
      /\ Hand(Dispatcher) \in Seq(S)
      /\ Mesh \in Dispatchers /\ Dispatcher \in Dispatchers /\ Mesh # Dispatcher
      /\ DOMAIN handling = Dispatchers
  BY WholeType DEF RepliesInv, Flow
<1>2. UNCHANGED fromGateway
  BY DEF ProcessBacklog, getItems, ProcessBatch, gatewayVars
<1>3. CASE UNCHANGED handling /\ UNCHANGED <<m_messageBacklog, batch, m_queuedMessages>>
  <2>1. Hand(Dispatcher)' = Hand(Dispatcher) /\ Hand(Mesh)' = Hand(Mesh)
    BY <1>3, HandKept
  <2> QED BY <1>2, <1>3, <2>1 DEF Whole
<1>4. CASE /\ ~Handling(Dispatcher) /\ m_messageBacklog # << >>
           /\ Handle(Dispatcher, Head(m_messageBacklog)) /\ m_messageBacklog' = Tail(m_messageBacklog)
           /\ UNCHANGED <<batch, m_queuedMessages>>
  <2>1. /\ Hand(Dispatcher)' = << Head(m_messageBacklog) >> /\ Hand(Mesh)' = Hand(Mesh)
        /\ Hand(Dispatcher) = << >>
    BY <1>1, <1>4, HandTaken DEF Hand
  <2>2. << Head(m_messageBacklog) >> \o Tail(m_messageBacklog) = m_messageBacklog
    BY <1>1, <1>4, HeadFirst
  <2>3. << >> \o m_messageBacklog = m_messageBacklog
    BY <1>1, NothingBeside
  <2>4. Hand(Dispatcher)' \o m_messageBacklog' = Hand(Dispatcher) \o m_messageBacklog
    BY <1>4, <2>1, <2>2, <2>3
  <2> QED BY <1>2, <1>4, <2>1, <2>4 DEF Whole
<1>5. CASE /\ ~Handling(Dispatcher) /\ m_messageBacklog = << >> /\ batch # << >>
           /\ Handle(Dispatcher, Head(batch)) /\ batch' = Tail(batch)
           /\ UNCHANGED <<m_messageBacklog, m_queuedMessages>>
  <2>1. Hand(Dispatcher)' = << Head(batch) >> /\ Hand(Mesh)' = Hand(Mesh) /\ Hand(Dispatcher) = << >>
    BY <1>1, <1>5, HandTaken DEF Hand
  <2>2. << Head(batch) >> \in Seq(S) /\ << Head(batch) >> \o Tail(batch) = batch
    BY <1>1, <1>5, HeadFirst
  <2>3. << >> \o batch = batch /\ << Head(batch) >> \o << >> = << Head(batch) >> /\ << >> \o << >> = << >>
    BY <1>1, <2>2, NothingBeside
  <2>4. Taken' = Taken
    BY <1>5, <2>1, <2>2, <2>3 DEF Taken
  <2> QED BY <1>2, <1>5, <2>1, <2>4 DEF Whole, Taken
<1>6. CASE /\ UNCHANGED handling /\ m_messageBacklog' = m_messageBacklog \o batch /\ batch' = << >>
           /\ UNCHANGED m_queuedMessages
  <2>1. Hand(Dispatcher)' = Hand(Dispatcher) /\ Hand(Mesh)' = Hand(Mesh)
    BY <1>6, HandKept
  <2> DEFINE h == Hand(Dispatcher)
             b == m_messageBacklog
             c == batch
  <2>2. /\ h \in Seq(S) /\ b \in Seq(S) /\ c \in Seq(S)
        /\ Taken = (h \o b) \o c /\ Taken' = (h \o (b \o c)) \o << >>
    BY <1>1, <1>6, <2>1 DEF Taken
  <2> HIDE DEF h, b, c, S
  <2>3. (h \o b) \o c = h \o (b \o c)
    <3>1. h \in Seq(S) /\ b \in Seq(S) /\ c \in Seq(S)
      BY <2>2
    <3> QED BY <3>1, ConcatAssociative
  <2>4. h \o (b \o c) \in Seq(S)
    BY <2>2
  <2>5. Taken' = Taken
    BY <2>2, <2>3, <2>4, NothingBeside
  <2> QED BY <1>2, <1>6, <2>1, <2>5 DEF Whole, Taken
<1>7. CASE /\ UNCHANGED handling /\ batch = << >> /\ batch' = m_queuedMessages /\ m_queuedMessages' = << >>
           /\ UNCHANGED m_messageBacklog
  <2>1. Hand(Dispatcher)' = Hand(Dispatcher) /\ Hand(Mesh)' = Hand(Mesh)
    BY <1>7, HandKept
  <2> DEFINE h == Hand(Dispatcher) \o m_messageBacklog
             q == m_queuedMessages
  <2>2. h \in Seq(S) /\ q \in Seq(S) /\ PutAside = (h \o << >>) \o q /\ PutAside' = (h \o q) \o << >>
    BY <1>1, <1>7, <2>1 DEF PutAside, Taken
  <2> HIDE DEF h, q, S
  <2>3. h \o q \in Seq(S)
    BY <2>2
  <2>4. PutAside' = PutAside
    BY <2>2, <2>3, NothingBeside
  <2> QED BY <1>2, <2>1, <2>4 DEF Whole, PutAside, Taken
<1>8. CASE ProcessBacklog
  <2>1. UNCHANGED <<batch, m_queuedMessages>> /\ ~Handling(Dispatcher)
    BY <1>8 DEF ProcessBacklog, queueVars
  <2> QED BY <1>3, <1>4, <1>8, <2>1 DEF ProcessBacklog
<1>9. CASE getItems
  BY <1>7, <1>9 DEF getItems, Ways, At
<1>10. CASE ProcessBatch
  <2>1. m_messageBacklog = << >> /\ ~Handling(Dispatcher) /\ UNCHANGED m_queuedMessages
    BY <1>10 DEF ProcessBatch, Ways, At, queueVars
  <2> QED BY <1>5, <1>6, <1>10, <2>1 DEF ProcessBatch
<1> QED BY <1>8, <1>9, <1>10
-----------------------------------------------------------------------------
(* A message that a thread is done with.                                   *)
LEMMA DispatcherDone ==
  ASSUME RepliesInv, UNCHANGED <<m_messageBacklog, batch, m_queuedMessages, fromGateway>>,
         Hand(Mesh)' = Hand(Mesh), Hand(Dispatcher)' = << >>
  PROVE  Whole = Hand(Dispatcher) \o Whole' /\ Whole' \in Seq(RightMessages)
<1> DEFINE S  == RightMessages
           x  == Hand(Dispatcher)
           b1 == m_messageBacklog
           b2 == batch
           b3 == m_queuedMessages
           b4 == Hand(Mesh)
           b5 == fromGateway
           w1 == x \o b1
           w2 == w1 \o b2
           w3 == w2 \o b3
           w4 == w3 \o b4
           w5 == w4 \o b5
           v1 == << >> \o b1
           v2 == v1 \o b2
           v3 == v2 \o b3
           v4 == v3 \o b4
           v5 == v4 \o b5
<1>1. /\ x \in Seq(S) /\ b1 \in Seq(S) /\ b2 \in Seq(S) /\ b3 \in Seq(S) /\ b4 \in Seq(S)
      /\ b5 \in Seq(S)
  BY WholeType
<1>2. Whole = w5 /\ Whole' = v5
  BY DEF Whole
<1>3. w1 = x \o v1 /\ v1 \in Seq(S)
  BY <1>1, NothingBeside
<1>4. w2 = w1 \o b2 /\ v2 = v1 \o b2
  OBVIOUS
<1>5. w3 = w2 \o b3 /\ v3 = v2 \o b3
  OBVIOUS
<1>6. w4 = w3 \o b4 /\ v4 = v3 \o b4
  OBVIOUS
<1>7. w5 = w4 \o b5 /\ v5 = v4 \o b5
  OBVIOUS
<1> HIDE DEF S, x, b1, b2, b3, b4, b5, w1, w2, w3, w4, w5, v1, v2, v3, v4, v5
<1>8. w2 = x \o v2 /\ v2 \in Seq(S)
  <2>1. x \in Seq(S) /\ v1 \in Seq(S) /\ b2 \in Seq(S)
    BY <1>1, <1>3
  <2>2. (x \o v1) \o b2 = x \o (v1 \o b2)
    BY <2>1, ConcatAssociative
  <2>3. v1 \o b2 \in Seq(S)
    BY <2>1
  <2> QED BY <1>3, <1>4, <2>2, <2>3
<1>9. w3 = x \o v3 /\ v3 \in Seq(S)
  <2>1. x \in Seq(S) /\ v2 \in Seq(S) /\ b3 \in Seq(S)
    BY <1>1, <1>8
  <2>2. (x \o v2) \o b3 = x \o (v2 \o b3)
    BY <2>1, ConcatAssociative
  <2>3. v2 \o b3 \in Seq(S)
    BY <2>1
  <2> QED BY <1>8, <1>5, <2>2, <2>3
<1>10. w4 = x \o v4 /\ v4 \in Seq(S)
  <2>1. x \in Seq(S) /\ v3 \in Seq(S) /\ b4 \in Seq(S)
    BY <1>1, <1>9
  <2>2. (x \o v3) \o b4 = x \o (v3 \o b4)
    BY <2>1, ConcatAssociative
  <2>3. v3 \o b4 \in Seq(S)
    BY <2>1
  <2> QED BY <1>9, <1>6, <2>2, <2>3
<1>11. w5 = x \o v5 /\ v5 \in Seq(S)
  <2>1. x \in Seq(S) /\ v4 \in Seq(S) /\ b5 \in Seq(S)
    BY <1>1, <1>10
  <2>2. (x \o v4) \o b5 = x \o (v4 \o b5)
    BY <2>1, ConcatAssociative
  <2>3. v4 \o b5 \in Seq(S)
    BY <2>1
  <2> QED BY <1>10, <1>7, <2>2, <2>3
<1> QED BY <1>2, <1>11 DEF x, S

LEMMA MeshDone ==
  ASSUME RepliesInv, UNCHANGED <<m_messageBacklog, batch, m_queuedMessages, fromGateway>>,
         Hand(Dispatcher)' = Hand(Dispatcher), Hand(Mesh)' = << >>
  PROVE  Whole' = PutAside \o fromGateway
<1>1. PutAside' = PutAside
  BY DEF PutAside, Taken
<1>2. Whole' = (PutAside' \o Hand(Mesh)') \o fromGateway'
  BY DEF Whole, PutAside, Taken
<1>3. PutAside \in Seq(RightMessages)
  BY WholeType
<1>4. PutAside \o << >> = PutAside
  BY <1>3, NothingBeside
<1> QED BY <1>1, <1>2, <1>4

(* A callback that is kept for the ID of a request is the request's.       *)
LEMMA KeptForRequest ==
  ASSUME RepliesInv, NEW c \in DOMAIN callbackInfos, Kept(c), Requested(callbackInfos[c].id)
  PROVE  IsRequest(c)
BY DEF Kept, Requested, RepliesInv, Registry

(* Nothing that the mesh thread has put aside has the ID of a message that *)
(* it dispatches.                                                          *)
LEMMA NothingBefore ==
  ASSUME RepliesInv, Ways, AskedOnce, Complete, Handling(Mesh), NEW c \in DOMAIN callbackInfos,
         Kept(c), callbackInfos[c].id = handling[Mesh].message.id
  PROVE  ForID(PutAside, callbackInfos[c].id) = << >>
<1> DEFINE id == callbackInfos[c].id
           S  == RightMessages
           M  == Messages
<1>1. CASE dispatch = "CALLBACK"
  <2>1. Hand(Dispatcher) = << >> /\ m_messageBacklog = << >> /\ batch = << >> /\ m_queuedMessages = << >>
    BY <1>1 DEF Ways, Hand
  <2>2. << >> \o << >> = << >>
    BY NothingBeside
  <2>3. PutAside = << >>
    BY <2>1, <2>2 DEF PutAside, Taken
  <2> QED BY <2>3, ForIDOfNothing
<1>2. CASE dispatch = "QUEUE"
  <2>1. Requested(id)
    BY <1>2 DEF Ways
  <2>2. IsRequest(c)
    BY <2>1, KeptForRequest
  <2>3. Len(ForID(sent, id)) <= 1 /\ received[c] \o ForID(Whole, id) = ForID(sent, id)
    BY <2>2 DEF AskedOnce, Complete
  <2>4. received[c] \in Seq(M)
    BY CallbacksAreIDs DEF RepliesInv, Replies
  <2>5. PutAside \in Seq(S) /\ Hand(Mesh) \in Seq(S) /\ fromGateway \in Seq(S)
    BY WholeType
  <2>6. PutAside \o Hand(Mesh) \in Seq(S)
    BY <2>5
  <2>7. Whole = (PutAside \o Hand(Mesh)) \o fromGateway
    BY WholeType
  <2> DEFINE bm == PutAside \o Hand(Mesh)
             fb == ForID(PutAside, id)
             fm == ForID(Hand(Mesh), id)
             ff == ForID(fromGateway, id)
  <2>8. ForID(bm, id) = fb \o fm
    <3>1. PutAside \in Seq(S) /\ Hand(Mesh) \in Seq(S)
      BY <2>5
    <3> HIDE DEF id
    <3> QED BY <3>1, ForIDConcat
  <2>9. ForID(Whole, id) = (fb \o fm) \o ff
    <3>1. bm \in Seq(S) /\ fromGateway \in Seq(S)
      BY <2>5, <2>6
    <3> HIDE DEF bm, fb, fm, ff, id
    <3>2. ForID(bm \o fromGateway, id) = ForID(bm, id) \o ForID(fromGateway, id)
      BY <3>1, ForIDConcat
    <3>3. Whole = bm \o fromGateway
      BY <2>7 DEF bm
    <3> QED BY <2>8, <3>2, <3>3 DEF ff
  <2>10. fb \in Seq(S) /\ ff \in Seq(S) /\ fm \in Seq(S)
    BY <2>5, ForIDType
  <2>11. Len(fm) = 1
    <3>1. handling[Mesh].message \in RightMessages
      <4>1. handling[Mesh] \in Handlings
        BY WholeType DEF RepliesInv, Flow, Handlings
      <4> QED BY <4>1 DEF Handlings
    <3>2. Hand(Mesh) = << handling[Mesh].message >>
      BY DEF Hand
    <3>3. fm = << handling[Mesh].message >>
      BY <3>1, <3>2, ForIDOfOne
    <3> QED BY <3>3
  <2> DEFINE r == received[c]
             w == ForID(Whole, id)
  <2>12. Len(r) \in Nat /\ r \in Seq(M)
    BY SMTT(30), <2>4
  <2>13. w = (fb \o fm) \o ff /\ Len(r \o w) <= 1
    BY <2>3, <2>9
  <2>14. S \subseteq M
    BY DEF RightMessages
  <2> HIDE DEF r, w, fb, fm, ff, id, S, M
  <2>15. fb \o fm \in Seq(S) /\ Len(fb \o fm) = Len(fb) + Len(fm) /\ Len(fb) \in Nat
    BY <2>10
  <2>16. /\ (fb \o fm) \o ff \in Seq(S) /\ Len(ff) \in Nat
         /\ Len((fb \o fm) \o ff) = Len(fb) + Len(fm) + Len(ff)
    BY <2>10, <2>15
  <2>17. w \in Seq(M) /\ Len(w) = Len(fb) + 1 + Len(ff)
    BY <2>11, <2>13, <2>14, <2>16
  <2>18. Len(r \o w) = Len(r) + Len(w)
    BY <2>12, <2>17
  <2>19. Len(fb) = 0
    BY <2>12, <2>13, <2>15, <2>16, <2>17, <2>18
  <2>20. fb = << >>
    BY <2>10, <2>19
  <2> QED BY <2>20 DEF fb, id
<1> QED BY <1>1, <1>2 DEF Ways

(* Of an ID's messages the one that is dispatched is the first.            *)
LEMMA FirstIsDone ==
  ASSUME RepliesInv, Ways, AskedOnce, Complete, NEW d \in Dispatchers, Handling(d), ~Handling(d)',
         \A e \in Dispatchers \ {d} : handling'[e] = handling[e],
         UNCHANGED <<m_messageBacklog, batch, m_queuedMessages, fromGateway>>
  PROVE  /\ Whole' \in Seq(RightMessages)
         /\ \A id : id # handling[d].message.id => ForID(Whole', id) = ForID(Whole, id)
         /\ \A c \in DOMAIN callbackInfos : \A id :
              Kept(c) /\ id = callbackInfos[c].id /\ id = handling[d].message.id
                => ForID(Whole, id) = << handling[d].message >> \o ForID(Whole', id)
<1> DEFINE m == handling[d].message
           S == RightMessages
<1>1. m \in S /\ Hand(d) = << m >> /\ Hand(d)' = << >>
  <2>1. handling[d] \in Handlings
    BY DEF RepliesInv, Flow, Handlings
  <2>2. handling[d].message \in RightMessages
    BY <2>1 DEF Handlings
  <2> QED BY <2>2 DEF Hand
<1>2. << m >> \in Seq(S)
  BY <1>1
<1>3. /\ PutAside \in Seq(S) /\ Hand(Mesh) \in Seq(S) /\ fromGateway \in Seq(S)
      /\ PutAside \o Hand(Mesh) \in Seq(S) /\ PutAside \o fromGateway \in Seq(S)
  BY WholeType
<1>4. \A id : ForID(<< m >>, id) = IF m.id = id THEN << m >> ELSE << >>
  BY <1>1, ForIDOfOne
<1>5. CASE d = Dispatcher
  <2>1. Hand(Mesh)' = Hand(Mesh)
    BY <1>5, WholeType, HandKept
  <2>2. Whole = << m >> \o Whole' /\ Whole' \in Seq(S)
    BY <1>1, <1>5, <2>1, DispatcherDone
  <2> DEFINE w == Whole'
             e == << m >>
  <2> HIDE DEF m, S
  <2>3. e \in Seq(S) /\ w \in Seq(S)
    BY <1>2, <2>2
  <2>4. ASSUME NEW id
        PROVE  ForID(Whole, id) = ForID(e, id) \o ForID(w, id) /\ ForID(w, id) \in Seq(S)
    <3>1. Whole = e \o w
      BY <2>2
    <3> HIDE DEF e, w
    <3>2. ForID(e \o w, id) = ForID(e, id) \o ForID(w, id)
      BY <2>3, ForIDConcat
    <3>3. ForID(w, id) \in Seq(S)
      BY <2>3, ForIDType
    <3> QED BY <3>1, <3>2, <3>3
  <2>5. \A id : id # m.id => ForID(w, id) = ForID(Whole, id)
    <3>1. SUFFICES ASSUME NEW id, id # m.id PROVE ForID(w, id) = ForID(Whole, id)
      OBVIOUS
    <3>2. ForID(e, id) = << >>
      BY <1>4, <3>1
    <3>3. << >> \o ForID(w, id) = ForID(w, id)
      BY <2>4, NothingBeside
    <3> QED BY <2>4, <3>2, <3>3
  <2>6. \A id : id = m.id => ForID(Whole, id) = e \o ForID(w, id)
    BY <1>4, <2>4
  <2> QED BY <2>2, <2>5, <2>6 DEF m, S
<1>6. CASE d = Mesh
  <2>1. Hand(Dispatcher)' = Hand(Dispatcher)
    BY <1>6, WholeType, HandKept
  <2>2. Whole' = PutAside \o fromGateway
    BY <1>1, <1>6, <2>1, MeshDone
  <2>3. Whole = (PutAside \o << m >>) \o fromGateway
    BY <1>1, <1>6, WholeType
  <2> DEFINE w  == Whole'
             e  == << m >>
             b  == PutAside
             f  == fromGateway
             be == b \o e
  <2>4. b \in Seq(S) /\ e \in Seq(S) /\ f \in Seq(S) /\ be \in Seq(S) /\ w \in Seq(S)
    BY <1>1, <1>2, <1>3, <1>6, <2>2
  <2>5. w = b \o f /\ Whole = be \o f /\ be = b \o e
    BY <2>2, <2>3
  <2> HIDE DEF m, S
  <2>6. ASSUME NEW id
        PROVE  /\ ForID(Whole, id) = (ForID(b, id) \o ForID(e, id)) \o ForID(f, id)
               /\ ForID(w, id) = ForID(b, id) \o ForID(f, id)
               /\ ForID(b, id) \in Seq(S) /\ ForID(f, id) \in Seq(S) /\ ForID(e, id) \in Seq(S)
    <3> HIDE DEF b, e, f, be, w
    <3>1. ForID(b \o e, id) = ForID(b, id) \o ForID(e, id)
      <4>1. b \in Seq(S) /\ e \in Seq(S)
        BY <2>4
      <4> QED BY <4>1, ForIDConcat
    <3>2. ForID(be \o f, id) = ForID(be, id) \o ForID(f, id)
      <4>1. be \in Seq(S) /\ f \in Seq(S)
        BY <2>4
      <4> QED BY <4>1, ForIDConcat
    <3>3. ForID(b \o f, id) = ForID(b, id) \o ForID(f, id)
      <4>1. b \in Seq(S) /\ f \in Seq(S)
        BY <2>4
      <4> QED BY <4>1, ForIDConcat
    <3>4. ForID(b, id) \in Seq(S) /\ ForID(f, id) \in Seq(S) /\ ForID(e, id) \in Seq(S)
      BY <2>4, ForIDType
    <3> QED BY <2>5, <3>1, <3>2, <3>3, <3>4
  <2>7. \A id : id # m.id => ForID(w, id) = ForID(Whole, id)
    <3>1. SUFFICES ASSUME NEW id, id # m.id PROVE ForID(w, id) = ForID(Whole, id)
      OBVIOUS
    <3>2. ForID(e, id) = << >>
      BY <1>4, <3>1
    <3>3. ForID(b, id) \o << >> = ForID(b, id)
      BY <2>6, NothingBeside
    <3> QED BY <2>6, <3>2, <3>3
  <2>8. ASSUME NEW c \in DOMAIN callbackInfos, NEW id, Kept(c), id = callbackInfos[c].id, id = m.id
        PROVE  ForID(Whole, id) = e \o ForID(w, id)
    <3>1. ForID(b, id) = << >>
      BY <1>6, <2>8, NothingBefore DEF m
    <3>2. ForID(e, id) = e
      BY <1>4, <2>8
    <3>3. << >> \o e = e /\ << >> \o ForID(f, id) = ForID(f, id)
      <4>1. ForID(f, id) \in Seq(S)
        BY <2>6
      <4> QED BY <2>4, <4>1, NothingBeside
    <3> QED BY <2>6, <3>1, <3>2, <3>3
  <2> QED BY <2>4, <2>7, <2>8 DEF m, S
<1> QED BY <1>5, <1>6 DEF Dispatchers
-----------------------------------------------------------------------------
(* What a callback was called with, and what is on its way to it.          *)
LEMMA CompleteKept ==
  ASSUME Complete, UNCHANGED <<received, sent>>, \A id : ForID(Whole', id) = ForID(Whole, id),
         \A c \in DOMAIN callbackInfos' : Kept(c)' =>
           c \in DOMAIN callbackInfos /\ Kept(c) /\ callbackInfos'[c].id = callbackInfos[c].id
  PROVE  Complete'
<1>1. ASSUME NEW c \in DOMAIN callbackInfos', Kept(c)'
      PROVE  (received[c] \o ForID(Whole, callbackInfos[c].id) = ForID(sent, callbackInfos[c].id))'
  <2>1. c \in DOMAIN callbackInfos /\ Kept(c) /\ callbackInfos'[c].id = callbackInfos[c].id
    BY <1>1
  <2>2. received[c] \o ForID(Whole, callbackInfos[c].id) = ForID(sent, callbackInfos[c].id)
    BY <2>1 DEF Complete
  <2>3. ForID(Whole', callbackInfos[c].id) = ForID(Whole, callbackInfos[c].id)
    OBVIOUS
  <2> QED BY <2>1, <2>2, <2>3
<1> QED BY <1>1 DEF Complete

(* Nothing was sent yet for a callback that makes a subscription.          *)
LEMMA RegistersComplete ==
  ASSUME RepliesInv, SentRight, Complete,
         NEW t \in Threads, NEW s, NEW request \in BOOLEAN, Registers(t, s, request)
  PROVE  Complete'
<1>1. UNCHANGED <<sent, received, handling, m_messageBacklog, batch, m_queuedMessages, fromGateway>>
  BY DEF Registers, Rest, gatewayVars, queueVars, callVars, outcome
<1>2. Whole' = Whole
  <2>1. Hand(Dispatcher)' = Hand(Dispatcher) /\ Hand(Mesh)' = Hand(Mesh)
    BY <1>1, HandKept
  <2> QED BY <1>1, <2>1 DEF Whole
<1>3. CASE FurtherCallback(s, request)
  <2>1. \E id : Registered(s, id, FALSE, request)
    BY <1>3 DEF FurtherCallback
  <2>2. /\ DOMAIN callbackInfos' = DOMAIN callbackInfos \cup {NewCallback}
        /\ callbackInfos'[NewCallback].first = FALSE
        /\ \A c \in DOMAIN callbackInfos : callbackInfos'[c] = callbackInfos[c]
    BY <2>1, NewInfo
  <2>3. \A c \in DOMAIN callbackInfos' : Kept(c)' =>
           c \in DOMAIN callbackInfos /\ Kept(c) /\ callbackInfos'[c].id = callbackInfos[c].id
    BY <2>2 DEF Kept, Released
  <2> QED BY <1>1, <1>2, <2>3, CompleteKept
<1>4. CASE NewSubscription(s, request)
  <2>0. PICK n, id : n = NewCallback /\ id = m_nextSubscriptionID
    OBVIOUS
  <2>1. Registered(s, id, TRUE, request)
    BY <1>4, <2>0 DEF NewSubscription
  <2>2. /\ n \notin DOMAIN callbackInfos
        /\ DOMAIN callbackInfos' = DOMAIN callbackInfos \cup {n}
        /\ callbackInfos'[n].id = id
        /\ \A c \in DOMAIN callbackInfos : callbackInfos'[c] = callbackInfos[c]
    BY <2>0, <2>1, NewInfo
  <2>3. received[n] = << >>
    BY <2>0, <2>2 DEF Registers, RepliesInv, Replies
  <2>4. ForID(sent, id) = << >>
    BY <2>0, NextIDIsNew
  <2>5. ForID(Whole, id) = << >>
    <3>1. \A m \in RightMessages : m.id # id
      BY <2>0 DEF RightMessages, Right, Messages, RepliesInv, Registry
    <3>2. Whole \in Seq(RightMessages)
      BY WholeType
    <3> QED BY <3>1, <3>2, ForIDOfNone
  <2>6. << >> \o << >> = << >>
    BY NothingBeside
  <2>7. ASSUME NEW c \in DOMAIN callbackInfos', Kept(c)'
        PROVE  (received[c] \o ForID(Whole, callbackInfos[c].id) = ForID(sent, callbackInfos[c].id))'
    <3>1. CASE c = n
      BY <1>1, <1>2, <2>2, <2>3, <2>4, <2>5, <2>6, <3>1
    <3>2. CASE c # n
      <4>1. c \in DOMAIN callbackInfos /\ callbackInfos'[c] = callbackInfos[c] /\ Kept(c)
        BY <2>2, <2>7, <3>2 DEF Kept, Released
      <4>2. received[c] \o ForID(Whole, callbackInfos[c].id) = ForID(sent, callbackInfos[c].id)
        BY <4>1 DEF Complete
      <4> QED BY <1>1, <1>2, <4>1, <4>2
    <3> QED BY <3>1, <3>2
  <2> QED BY <2>7 DEF Complete
<1> QED BY <1>3, <1>4 DEF Registers

LEMMA ElsewhereComplete ==
  ASSUME RepliesInv, SentRight, Complete, [Next]_vars, UNCHANGED <<received, sent>>, Whole' = Whole
  PROVE  Complete'
<1>1. CASE UNCHANGED subscriptions
  <2>1. \A c \in DOMAIN callbackInfos' : Kept(c)' =>
          c \in DOMAIN callbackInfos /\ Kept(c) /\ callbackInfos'[c].id = callbackInfos[c].id
    BY <1>1 DEF Kept, Released, subscriptions
  <2> QED BY <2>1, CompleteKept
<1>2. ASSUME NEW t \in Threads, NEW b \in Nat, releaseSubscription(t, b)
      PROVE  Complete'
  <2>1. \A c \in DOMAIN callbackInfos' : Kept(c)' =>
          c \in DOMAIN callbackInfos /\ Kept(c) /\ callbackInfos'[c].id = callbackInfos[c].id
    BY <1>2, ReleasedInfo DEF Kept, Released
  <2> QED BY <2>1, CompleteKept
<1> QED BY <1>1, <1>2, KindsOfSteps, RegistersComplete

(* A message that is dispatched goes to the callback that is kept for its  *)
(* ID, and to no other.                                                    *)
LEMMA DispatchComplete ==
  ASSUME RepliesInv, SentRight, Listed, Called, Ways, AskedOnce, Complete, [Next]_vars,
         NEW d \in Dispatchers, Dispatch(d)
  PROVE  Complete'
<1> DEFINE m == handling[d].message
           S == RightMessages
           M == Messages
<1>1. /\ UNCHANGED <<m_messageBacklog, batch, m_queuedMessages, fromGateway, sent, subscriptions>>
      /\ callbackInfos' = callbackInfos
      /\ Handling(d) /\ \A e \in Dispatchers \ {d} : handling'[e] = handling[e]
  BY DispatchOutcome DEF Dispatch, queueVars, callVars, gatewayVars, subscriptions
<1>2. \A c : Kept(c)' <=> Kept(c)
  BY <1>1 DEF Kept, Released
<1>3. CASE Handling(d)' /\ handling'[d].message = m /\ UNCHANGED received
  <2>1. Hand(d)' = Hand(d)
    BY <1>1, <1>3 DEF Hand
  <2>2. \A e \in Dispatchers : Hand(e)' = Hand(e)
    <3> SUFFICES ASSUME NEW e \in Dispatchers PROVE Hand(e)' = Hand(e)
      OBVIOUS
    <3>1. CASE e = d
      BY <2>1, <3>1
    <3>2. CASE e # d
      BY <1>1, <3>2, HandKept
    <3> QED BY <3>1, <3>2
  <2>3. Whole' = Whole
    BY <1>1, <2>2, WholeType DEF Whole
  <2> QED BY <1>1, <1>3, <2>3, ElsewhereComplete
<1>4. ASSUME ~Handling(d)'
      PROVE  /\ Whole' \in Seq(S)
             /\ \A id : id # m.id => ForID(Whole', id) = ForID(Whole, id)
             /\ \A c \in DOMAIN callbackInfos : \A id :
                  Kept(c) /\ id = callbackInfos[c].id /\ id = m.id
                    => ForID(Whole, id) = << m >> \o ForID(Whole', id)
  BY <1>1, <1>4, FirstIsDone
<1>5. CASE ~Handling(d)' /\ UNCHANGED received /\ m.id \notin DOMAIN m_subscriptionsByID
  <2>1. \A c \in DOMAIN callbackInfos : Kept(c) => callbackInfos[c].id # m.id
    BY <1>5 DEF Listed, CallbacksOf
  <2>2. ASSUME NEW c \in DOMAIN callbackInfos', Kept(c)'
        PROVE  (received[c] \o ForID(Whole, callbackInfos[c].id) = ForID(sent, callbackInfos[c].id))'
    <3>1. c \in DOMAIN callbackInfos /\ Kept(c) /\ callbackInfos[c].id # m.id
      BY <1>1, <1>2, <2>1, <2>2
    <3>2. received[c] \o ForID(Whole, callbackInfos[c].id) = ForID(sent, callbackInfos[c].id)
      BY <3>1 DEF Complete
    <3>3. ForID(Whole', callbackInfos[c].id) = ForID(Whole, callbackInfos[c].id)
      BY <1>4, <1>5, <3>1
    <3> QED BY <1>1, <1>5, <3>2, <3>3
  <2> QED BY <2>2 DEF Complete
<1>6. CASE ~Handling(d)' /\ performSubscriptionCallbacks(d)
  <2>1. /\ handling[d].phase = "call"
        /\ received' = [c \in CallbackIDs |->
             IF c \in handling[d].callbacks THEN Append(received[c], m) ELSE received[c]]
    BY <1>6 DEF performSubscriptionCallbacks
  <2>2. \A c \in handling[d].callbacks : callbackInfos[c].id = m.id
    BY <1>1 DEF RepliesInv, Flow
  <2>3. m \in S
    <3>1. handling[d] \in Handlings
      BY <1>1 DEF RepliesInv, Flow, Handlings
    <3> QED BY <3>1 DEF Handlings
  <2>4. S \subseteq M
    BY DEF RightMessages
  <2>5. ASSUME NEW c \in DOMAIN callbackInfos', Kept(c)'
        PROVE  (received[c] \o ForID(Whole, callbackInfos[c].id) = ForID(sent, callbackInfos[c].id))'
    <3>0. PICK id : id = callbackInfos[c].id
      OBVIOUS
    <3>1. c \in DOMAIN callbackInfos /\ Kept(c) /\ c \in CallbackIDs
      BY <1>1, <1>2, <2>5, CallbacksAreIDs DEF RepliesInv
    <3>2. received[c] \o ForID(Whole, id) = ForID(sent, id)
      BY <3>0, <3>1 DEF Complete
    <3>3. received[c] \in Seq(M)
      BY <3>1 DEF RepliesInv, Replies
    <3>4. ForID(Whole', id) \in Seq(S)
      BY <1>4, <1>6, ForIDType
    <3>5. CASE id = m.id
      <4>1. c \in handling[d].callbacks
        BY <2>1, <3>0, <3>1, <3>5 DEF Called
      <4>2. received'[c] = Append(received[c], m)
        BY <2>1, <3>1, <4>1
      <4>3. ForID(Whole, id) = << m >> \o ForID(Whole', id)
        BY <1>4, <1>6, <3>0, <3>1, <3>5
      <4> DEFINE r == received[c]
                 e == << m >>
                 f == ForID(Whole', id)
      <4>4. r \in Seq(M) /\ e \in Seq(M) /\ f \in Seq(M) /\ m \in M
        BY <2>3, <2>4, <3>3, <3>4
      <4>5. r \o (e \o f) = ForID(sent, id) /\ received'[c] = Append(r, m)
        BY <3>2, <4>2, <4>3
      <4>6. Append(r, m) = r \o e
        <5>1. r \in Seq(M) /\ m \in M
          BY <4>4
        <5> HIDE DEF r, m, M
        <5>2. Append(r, m) = r \o << m >>
          BY <5>1, AppendIsConcat
        <5> QED BY <5>2
      <4> HIDE DEF r, e, f, m, M
      <4>7. (r \o e) \o f = r \o (e \o f)
        <5>1. r \in Seq(M) /\ e \in Seq(M) /\ f \in Seq(M)
          BY <4>4
        <5> QED BY SMTT(30), <5>1, ConcatAssociative
      <4>8. received'[c] \o f = ForID(sent, id)
        BY <4>5, <4>6, <4>7
      <4>9. received'[c] \o ForID(Whole', id) = ForID(sent', id)
        BY <1>1, <4>8 DEF f
      <4> QED BY <1>1, <3>0, <4>9
    <3>6. CASE id # m.id
      <4>1. received'[c] = received[c]
        BY <2>1, <2>2, <3>0, <3>1, <3>6
      <4>2. ForID(Whole', id) = ForID(Whole, id)
        BY <1>4, <1>6, <3>6
      <4> QED BY <1>1, <3>0, <3>2, <4>1, <4>2
    <3> QED BY <3>5, <3>6
  <2> QED BY <2>5 DEF Complete
<1> QED BY <1>3, <1>5, <1>6, DispatchOutcome

(* What the gateway sends is behind all that the client has.               *)
LEMMA DeliverComplete ==
  ASSUME RepliesInv, SentRight, Complete, UNCHANGED Others, NEW subject, NEW q,
         Deliver(subject, q)
  PROVE  Complete'
<1> DEFINE m == [id |-> gatewayIDs[subject], n |-> Len(sent) + 1, answers |-> q]
           S == RightMessages \cup {m} \cup Messages
<1>1. sent' = Append(sent, m) /\ fromGateway' = Append(fromGateway, m)
  BY DEF Deliver
<1>2. /\ UNCHANGED <<handling, m_messageBacklog, batch, m_queuedMessages, received>>
      /\ callbackInfos' = callbackInfos
  BY DEF Others, subscriptions, queueVars, callVars, outcome
<1>3. sent \in Seq(S) /\ m \in S
  BY DEF SentRight
<1>4. Whole \in Seq(S) /\ fromGateway \in Seq(S) /\ PutAside \o Hand(Mesh) \in Seq(S)
  <2>1. /\ Whole \in Seq(RightMessages) /\ fromGateway \in Seq(RightMessages)
        /\ PutAside \o Hand(Mesh) \in Seq(RightMessages)
    BY WholeType
  <2>2. RightMessages \subseteq S
    OBVIOUS
  <2> HIDE DEF S
  <2> QED BY <2>1, <2>2
<1>5. \A c \in DOMAIN callbackInfos : received[c] \in Seq(S)
  <2>1. \A c \in DOMAIN callbackInfos : received[c] \in Seq(Messages)
    BY CallbacksAreIDs DEF RepliesInv, Replies
  <2>2. Messages \subseteq S
    OBVIOUS
  <2> HIDE DEF S
  <2> QED BY <2>1, <2>2
<1> HIDE DEF m, S
<1>6. Whole' = Append(Whole, m)
  <2>1. Hand(Dispatcher)' = Hand(Dispatcher) /\ Hand(Mesh)' = Hand(Mesh)
    BY <1>2, HandKept
  <2> DEFINE a == PutAside \o Hand(Mesh)
             f == fromGateway
  <2>2. Whole = a \o f /\ Whole' = a \o Append(f, m)
    BY <1>1, <1>2, <2>1 DEF Whole, PutAside, Taken
  <2>3. a \in Seq(S) /\ f \in Seq(S) /\ m \in S /\ Whole \in Seq(S)
    BY <1>3, <1>4
  <2> DEFINE fm == Append(f, m)
  <2> HIDE DEF a, f
  <2>4. fm = Append(f, m)
    OBVIOUS
  <2> HIDE DEF fm
  <2>5. a \o fm = Append(Whole, m)
    BY <2>2, <2>3, <2>4, ConcatGrows
  <2> QED BY <2>2, <2>4, <2>5
<1>7. ASSUME NEW id
      PROVE  /\ ForID(Append(Whole, m), id) =
                  IF m.id = id THEN Append(ForID(Whole, id), m) ELSE ForID(Whole, id)
             /\ ForID(Append(sent, m), id) =
                  IF m.id = id THEN Append(ForID(sent, id), m) ELSE ForID(sent, id)
             /\ ForID(Whole, id) \in Seq(S) /\ ForID(sent, id) \in Seq(S)
  BY <1>3, <1>4, ForIDAppend, ForIDType
<1>8. ASSUME NEW c \in DOMAIN callbackInfos', Kept(c)'
      PROVE  (received[c] \o ForID(Whole, callbackInfos[c].id) = ForID(sent, callbackInfos[c].id))'
  <2>0. PICK id : id = callbackInfos[c].id
    OBVIOUS
  <2>1. c \in DOMAIN callbackInfos /\ Kept(c)
    BY <1>2, <1>8 DEF Kept, Released
  <2> DEFINE r == received[c]
             w == ForID(Whole, id)
             s == ForID(sent, id)
  <2>2. r \o w = s
    BY <2>0, <2>1 DEF Complete
  <2>3. r \in Seq(S) /\ w \in Seq(S) /\ s \in Seq(S) /\ m \in S
    BY <1>3, <1>5, <1>7, <2>1
  <2>4. r \o Append(w, m) = Append(s, m)
    <3> DEFINE wm == Append(w, m)
    <3> HIDE DEF r, w, s
    <3>1. wm = Append(w, m)
      OBVIOUS
    <3> HIDE DEF wm
    <3>2. r \o wm = Append(s, m)
      BY <2>2, <2>3, <3>1, ConcatGrows
    <3> QED BY <3>1, <3>2
  <2>5. r \o ForID(Append(Whole, m), id) = ForID(Append(sent, m), id)
    BY <1>7, <2>2, <2>4
  <2> QED BY <1>1, <1>2, <1>6, <2>0, <2>5
<1> QED BY <1>8 DEF Complete

LEMMA CompleteKeeps ==
  ASSUME RepliesInv, SentRight, Listed, Called, Ways, AskedOnce, Complete, [Next]_vars
  PROVE  Complete'
<1>1. ASSUME UNCHANGED <<handling, m_messageBacklog, batch, m_queuedMessages, fromGateway, received, sent>>
      PROVE  Complete'
  <2>1. Hand(Dispatcher)' = Hand(Dispatcher) /\ Hand(Mesh)' = Hand(Mesh)
    BY <1>1, HandKept
  <2>2. Whole' = Whole
    BY <1>1, <2>1 DEF Whole
  <2> QED BY <1>1, <2>2, ElsewhereComplete
<1>2. CASE UNCHANGED vars
  BY <1>1, <1>2 DEF vars, queueVars, callVars, gatewayVars, outcome
<1>3. CASE add_Set \/ waitOne \/ TimesOut \/ Process
  BY SMTT(30), <1>1, <1>3 DEF add_Set, waitOne, TimesOut, Process, WaitTimesOut, RequestTimesOut,
                    processMessageQueue, queueVars, callVars, gatewayVars, outcome
<1>4. ASSUME NEW t \in Threads, Keep(t) \/ ClientCalls(t)
      PROVE  Complete'
  BY <1>1, <1>4
     DEF Keep, ClientCalls, subscribe, Release, sendRequest, wakeUp, sendSUBSCRIBE,
         sendUNSUBSCRIBE,
         noteRequest, sendRequestMessage, waitForReply, eraseRequest, releaseInbox,
         releaseSubscription, queueVars, callVars, gatewayVars, outcome
<1>5. CASE onGatewayMessage
  <2>1. UNCHANGED <<received, sent>>
    BY <1>5 DEF onGatewayMessage, outcome
  <2> QED BY <1>5, <2>1, onGatewayMessageMoves, ElsewhereComplete
<1>6. CASE ProcessBacklog \/ getItems \/ ProcessBatch
  <2>1. UNCHANGED <<received, sent>>
    BY <1>6 DEF ProcessBacklog, getItems, ProcessBatch, outcome, gatewayVars
  <2> QED BY <1>6, <2>1, DispatcherMoves, ElsewhereComplete
<1>7. \A d \in Dispatchers : Dispatch(d) => Complete'
  BY DispatchComplete
<1>8. CASE Traffic
  BY <1>8, DeliverComplete DEF Traffic, Publish, Reply
<1> QED BY <1>2, <1>3, <1>4, <1>5, <1>6, <1>7, <1>8
           DEF Next, MeshStep, DispatcherStep, Dispatchers
-----------------------------------------------------------------------------
(* The strengthening that makes NothingIsMissed inductive.                 *)
Progress == SentRight /\ Listed /\ Called /\ Ways /\ AskedOnce /\ Complete

LEMMA ProgressInitially ==
  ASSUME Init
  PROVE  Progress
<1>1. /\ DOMAIN callbackInfos = {} /\ DOMAIN m_subscriptionsBySubject = {}
      /\ \A d \in Dispatchers : handling[d] = Nothing
      /\ \A t \in Threads : thread[t] = Idle
      /\ Dispatcher \in Threads /\ Dispatcher \in Dispatchers /\ Mesh \in Dispatchers
  BY ClientAssumption DEF Init, Dispatchers
<1>2. SentRight
  BY DEF Init, SentRight
<1>3. Listed /\ Called /\ Complete
  BY <1>1 DEF Listed, Called, Complete
<1>4. Ways
  BY <1>1 DEF Init, Ways, Handling, Nothing, Idle
<1>5. AskedOnce
  BY <1>1 DEF AskedOnce, Early, Idle
<1> QED BY <1>2, <1>3, <1>4, <1>5 DEF Progress

(* What is in hand for a callback is what is in hand for its ID.           *)
LEMMA CompleteIsNothingMissed ==
  ASSUME RepliesInv, Called, Complete
  PROVE  NothingIsMissed
<1> SUFFICES ASSUME NEW c \in DOMAIN callbackInfos, callbackInfos[c].first /\ ~Released(c)
             PROVE  received[c] \o OnItsWay(c) = ForID(sent, callbackInfos[c].id)
  BY DEF NothingIsMissed
<1> DEFINE id == callbackInfos[c].id
           S  == RightMessages
<1>1. Kept(c)
  BY DEF Kept
<1>2. received[c] \o ForID(Whole, id) = ForID(sent, id)
  BY <1>1 DEF Complete
<1>3. ASSUME NEW d \in Dispatchers
      PROVE  /\ InHand(d, c) \in Seq(S)
             /\ \A i : i = id => ForID(InHand(d, c), i) = ForID(Hand(d), i)
  <2>1. CASE ~Handling(d) \/ ~(handling[d].phase = "call" /\ c \notin handling[d].callbacks)
    <3>1. InHand(d, c) = Hand(d)
      BY <2>1 DEF InHand, Hand
    <3> QED BY <3>1, WholeType
  <2>2. CASE Handling(d) /\ handling[d].phase = "call" /\ c \notin handling[d].callbacks
    <3>1. InHand(d, c) = << >> /\ Hand(d) = << handling[d].message >>
      BY <2>2 DEF InHand, Hand
    <3>2. handling[d].message.id # id
      BY <1>1, <2>2 DEF Called
    <3>3. handling[d].message \in S
      <4>1. handling[d] \in Handlings
        BY <2>2 DEF RepliesInv, Flow, Handlings
      <4> QED BY <4>1 DEF Handlings
    <3> HIDE DEF id
    <3>4. ForID(<< handling[d].message >>, id) = << >>
      BY <3>2, <3>3, ForIDOfOne
    <3>5. ForID(<< >>, id) = << >>
      BY ForIDOfNothing
    <3> QED BY <3>1, <3>4, <3>5
  <2> QED BY <2>1, <2>2
<1>4. ForID(Whole, id) = OnItsWay(c)
  <2> DEFINE h  == Hand(Dispatcher)
             i  == InHand(Dispatcher, c)
             b1 == m_messageBacklog
             b2 == batch
             b3 == m_queuedMessages
             k  == Hand(Mesh)
             j  == InHand(Mesh, c)
             f  == fromGateway
  <2>1. /\ h \in Seq(S) /\ i \in Seq(S) /\ b1 \in Seq(S) /\ b2 \in Seq(S) /\ b3 \in Seq(S)
        /\ k \in Seq(S) /\ j \in Seq(S) /\ f \in Seq(S)
    BY <1>3, WholeType
  <2>2. ForID(h, id) = ForID(i, id) /\ ForID(k, id) = ForID(j, id)
    BY <1>3, WholeType
  <2>3. Whole = ((((h \o b1) \o b2) \o b3) \o k) \o f
    BY DEF Whole
  <2>4. OnItsWay(c) = ForID(((((i \o b1) \o b2) \o b3) \o j) \o f, id)
    BY DEF OnItsWay
  <2> HIDE DEF h, i, b1, b2, b3, k, j, f, id, S
  <2>5. ASSUME NEW x \in Seq(S), NEW y \in Seq(S), NEW u \in Seq(S), NEW v \in Seq(S),
               ForID(x, id) = ForID(y, id), ForID(u, id) = ForID(v, id)
        PROVE  ForID(x \o u, id) = ForID(y \o v, id) /\ x \o u \in Seq(S) /\ y \o v \in Seq(S)
    <3>1. ForID(x \o u, id) = ForID(x, id) \o ForID(u, id)
      BY SMTT(30), ForIDConcat
    <3>2. ForID(y \o v, id) = ForID(y, id) \o ForID(v, id)
      BY SMTT(30), ForIDConcat
    <3>3. x \o u \in Seq(S) /\ y \o v \in Seq(S)
      OBVIOUS
    <3> QED BY <2>5, <3>1, <3>2, <3>3
  <2> DEFINE h1 == h \o b1
             i1 == i \o b1
             h2 == h1 \o b2
             i2 == i1 \o b2
             h3 == h2 \o b3
             i3 == i2 \o b3
             h4 == h3 \o k
             i4 == i3 \o j
  <2>6. ForID(h1, id) = ForID(i1, id) /\ h1 \in Seq(S) /\ i1 \in Seq(S)
    BY <2>1, <2>2, <2>5
  <2>7. Whole = h4 \o f /\ OnItsWay(c) = ForID(i4 \o f, id)
    BY <2>3, <2>4
  <2> HIDE DEF h1, i1
  <2>8. ForID(h2, id) = ForID(i2, id) /\ h2 \in Seq(S) /\ i2 \in Seq(S)
    BY <2>1, <2>5, <2>6
  <2> HIDE DEF h2, i2
  <2>9. ForID(h3, id) = ForID(i3, id) /\ h3 \in Seq(S) /\ i3 \in Seq(S)
    BY <2>1, <2>5, <2>8
  <2> HIDE DEF h3, i3
  <2>10. ForID(h4, id) = ForID(i4, id) /\ h4 \in Seq(S) /\ i4 \in Seq(S)
    BY <2>1, <2>2, <2>5, <2>9
  <2> HIDE DEF h4, i4
  <2>11. ForID(h4 \o f, id) = ForID(i4 \o f, id)
    BY <2>1, <2>5, <2>10
  <2> QED BY <2>7, <2>11
<1> QED BY <1>2, <1>4

LEMMA ProgressInductive ==
  ASSUME RepliesInv, RepliesInv', Freshness, Progress, [Next]_vars
  PROVE  Progress'
BY SentRightKeeps, ListedKeeps, CalledKeeps, WaysKeeps, AskedOnceKeeps, CompleteKeeps
   DEF Progress

(* The callback that made a subscription has been called with, or is going *)
(* to be called with, each message the gateway sent for it, in the order   *)
(* in which they were sent and once.                                       *)
THEOREM EveryMessageArrives == Spec => []NothingIsMissed
<1>1. Init => IInv /\ Sent /\ Progress
  <2>1. Init => Sent
    BY DEF Init, Sent
  <2>2. Init => Freshness
    BY DEF Init, Freshness, Dispatchers, Nothing
  <2> QED BY <2>1, <2>2, RepliesInitially, ProgressInitially DEF IInv
<1>2. IInv /\ Sent /\ Progress /\ [Next]_vars => (IInv /\ Sent /\ Progress)'
  BY RepliesInductive, SentKeeps, FreshnessInductive, ProgressInductive DEF IInv
<1>3. IInv /\ Progress => NothingIsMissed
  BY CompleteIsNothingMissed DEF IInv, Progress
<1> QED BY <1>1, <1>2, <1>3, PTL DEF Spec
-----------------------------------------------------------------------------
(* The IDs in use: a subscription takes the next one, and there are no     *)
(* more of them than there are callbacks.                                  *)
Numbered ==
  /\ m_nextSubscriptionID \in 1 .. Len(callbackInfos) + 1
  /\ \A c \in DOMAIN callbackInfos : callbackInfos[c].first => callbackInfos[c].id # 0
  /\ \A s \in DOMAIN gatewayIDs : gatewayIDs[s] \in CallbackIDs

(* The subjects of a client have callbacks: no two of them have one ID.    *)
InUse == \A s \in DOMAIN m_subscriptionsBySubject : CallbacksOf(m_subscriptionsBySubject[s]) # {}

(* Every message has an ID that was given out, and answers one request.    *)
Genuine ==
  /\ fromGateway \in Seq(Message) /\ m_queuedMessages \in Seq(Message)
  /\ m_messageBacklog \in Seq(Message) /\ batch \in Seq(Message)
  /\ \A d \in Dispatchers : Handling(d) => handling[d].message \in Message

(* The events, and how far the threads may go.                             *)
Signals ==
  /\ m_autoResetEvent \in BOOLEAN /\ setting \in BOOLEAN /\ undefined \in BOOLEAN
  /\ budget \in {All} \cup Nat
  /\ \A t \in Threads : thread[t].callback \in 0 .. MaxCallbacks

(* The event of a request is set by its reply only.                        *)
SetByReply ==
  \A c \in answered : c \in DOMAIN callbackInfos /\ IsRequest(c) /\ received[c] # << >>
-----------------------------------------------------------------------------
(* An ID that is less than the next is an ID of a callback.                *)
LEMMA NumbersInUse ==
  ASSUME Registry, Numbered, NEW id \in Nat, id # 0, id < m_nextSubscriptionID
  PROVE  id \in CallbackIDs
<1>1. Len(callbackInfos) \in Nat /\ Len(callbackInfos) <= MaxCallbacks /\ MaxCallbacks \in Nat
  BY ClientAssumption DEF Registry
<1> QED BY <1>1 DEF Numbered, CallbackIDs

(* What the gateway is told, it is told by the callback that subscribed.   *)
LEMMA GatewayIsTold ==
  ASSUME RepliesInv, Numbered, [Next]_vars
  PROVE  \A s \in DOMAIN gatewayIDs' : gatewayIDs'[s] \in CallbackIDs
<1>1. CASE UNCHANGED gatewayIDs
  BY <1>1 DEF Numbered
<1>2. ASSUME NEW t \in Threads, sendSUBSCRIBE(t)
      PROVE  \A s \in DOMAIN gatewayIDs' : gatewayIDs'[s] \in CallbackIDs
  <2> DEFINE c == thread[t].callback
  <2>1. c \in DOMAIN callbackInfos /\ callbackInfos[c].first /\ callbackInfos[c] \in Infos
    BY <1>2 DEF sendSUBSCRIBE, RepliesInv, Calls, Registry
  <2>2. callbackInfos[c].id \in Nat /\ callbackInfos[c].id # 0
        /\ callbackInfos[c].id < m_nextSubscriptionID
    BY <2>1 DEF Infos, RepliesInv, Registry, Numbered
  <2>3. callbackInfos[c].id \in CallbackIDs
    BY <2>2, NumbersInUse DEF RepliesInv
  <2>4. \/ gatewayIDs' = gatewayIDs
        \/ gatewayIDs' = With(gatewayIDs, callbackInfos[c].subject, callbackInfos[c].id)
    BY <1>2 DEF sendSUBSCRIBE
  <2> QED BY <2>3, <2>4 DEF With, Numbered
<1>3. UNCHANGED vars => UNCHANGED gatewayIDs
  BY DEF vars, gatewayVars
<1>4. MeshStep \/ DispatcherStep \/ Process \/ TimesOut \/ Traffic => UNCHANGED gatewayIDs
  BY DEF MeshStep, DispatcherStep, Process, TimesOut, Traffic, onGatewayMessage, add_Set, Dispatch,
         ProcessBacklog, waitOne, getItems, ProcessBatch, processMessageQueue, WaitTimesOut,
         RequestTimesOut, Publish, Reply, Others, gatewayVars
<1>5. \A t \in Threads : Keep(t) \/ ClientCalls(t) => UNCHANGED gatewayIDs \/ sendSUBSCRIBE(t)
  BY DEF Keep, ClientCalls, subscribe, Release, sendRequest, wakeUp, sendUNSUBSCRIBE,
         noteRequest, sendRequestMessage, waitForReply, eraseRequest, releaseInbox,
         releaseSubscription, gatewayVars
<1> QED BY <1>1, <1>2, <1>3, <1>4, <1>5 DEF Next

(* A new subscription takes one ID, and one callback.                      *)
LEMMA NumberedKeeps ==
  ASSUME RepliesInv, RepliesInv', Numbered, [Next]_vars
  PROVE  Numbered'
<1>0. callbackInfos \in Seq(Infos) /\ callbackInfos' \in Seq(Infos) /\ m_nextSubscriptionID \in Nat
  BY DEF RepliesInv, Registry
<1>1. CASE UNCHANGED subscriptions
  BY <1>1, GatewayIsTold DEF subscriptions, Numbered
<1>2. ASSUME NEW t \in Threads, NEW c \in Nat, releaseSubscription(t, c)
      PROVE  Numbered'
  <2>1. /\ DOMAIN callbackInfos' = DOMAIN callbackInfos
        /\ m_nextSubscriptionID' = m_nextSubscriptionID
        /\ \A b \in DOMAIN callbackInfos :
             /\ callbackInfos'[b].id = callbackInfos[b].id
             /\ callbackInfos'[b].first = callbackInfos[b].first
    BY <1>2, ReleasedInfo
  <2>2. Len(callbackInfos') = Len(callbackInfos)
    BY <1>0, <2>1
  <2> QED BY <2>1, <2>2, GatewayIsTold DEF Numbered
<1>3. ASSUME NEW t \in Threads, NEW s, NEW request \in BOOLEAN, Registers(t, s, request)
      PROVE  Numbered'
  <2>1. PICK id, first : /\ Registered(s, id, first, request)
                         /\ \/ ~first /\ m_nextSubscriptionID' = m_nextSubscriptionID
                            \/ /\ first /\ id = m_nextSubscriptionID
                               /\ m_nextSubscriptionID' = m_nextSubscriptionID + 1
    <3>1. CASE NewSubscription(s, request)
      BY <3>1 DEF NewSubscription
    <3>2. CASE FurtherCallback(s, request)
      BY <3>2 DEF FurtherCallback
    <3> QED BY <1>3, <3>1, <3>2 DEF Registers
  <2>2. /\ DOMAIN callbackInfos' = DOMAIN callbackInfos \cup {NewCallback}
        /\ callbackInfos'[NewCallback].id = id
        /\ callbackInfos'[NewCallback].first = first
        /\ \A c \in DOMAIN callbackInfos : callbackInfos'[c] = callbackInfos[c]
    BY <2>1, NewInfo
  <2>3. Len(callbackInfos') = Len(callbackInfos) + 1
    BY <1>0, <2>1 DEF Registered
  <2>4. m_nextSubscriptionID' \in 1 .. Len(callbackInfos') + 1
    BY <1>0, <2>1, <2>3 DEF Numbered
  <2>5. m_nextSubscriptionID # 0
    BY DEF Numbered
  <2> QED BY <2>1, <2>2, <2>4, <2>5, GatewayIsTold DEF Numbered
<1> QED BY <1>1, <1>2, <1>3, KindsOfSteps

(* Two subjects never have one ID.                                         *)
LEMMA SubjectsHaveOwnIDs ==
  ASSUME RepliesInv, Listed, NEW s \in DOMAIN m_subscriptionsBySubject,
         NEW r \in DOMAIN m_subscriptionsBySubject,
         m_subscriptionsBySubject[r] = m_subscriptionsBySubject[s]
  PROVE  r = s
<1>1. PICK b \in DOMAIN callbackInfos :
        /\ callbackInfos[b].first /\ callbackInfos[b].subject = s
        /\ callbackInfos[b].id = m_subscriptionsBySubject[s]
  BY DEF Listed
<1>2. PICK c \in DOMAIN callbackInfos :
        /\ callbackInfos[c].first /\ callbackInfos[c].subject = r
        /\ callbackInfos[c].id = m_subscriptionsBySubject[r]
  BY DEF Listed
<1>3. b = c
  BY <1>1, <1>2 DEF RepliesInv, Registry
<1> QED BY <1>1, <1>2, <1>3

(* The last callback of a subject takes the subject along, and no other.   *)
LEMMA InUseKeeps ==
  ASSUME RepliesInv, Listed, InUse, [Next]_vars
  PROVE  InUse'
<1>1. CASE UNCHANGED subscriptions
  BY <1>1 DEF subscriptions, InUse, CallbacksOf
<1>2. ASSUME NEW t \in Threads, NEW s, NEW request \in BOOLEAN, Registers(t, s, request)
      PROVE  InUse'
  <2>1. PICK id : /\ m_subscriptionsByID' =
                       With(m_subscriptionsByID, id, CallbacksOf(id) \cup {NewCallback})
                  /\ \/ UNCHANGED m_subscriptionsBySubject
                     \/ m_subscriptionsBySubject' = With(m_subscriptionsBySubject, s, id)
    <3>1. CASE NewSubscription(s, request)
      BY <3>1 DEF NewSubscription
    <3>2. CASE FurtherCallback(s, request)
      BY <3>2 DEF FurtherCallback
    <3> QED BY <1>2, <3>1, <3>2 DEF Registers
  <2>2. \A i : CallbacksOf(i) \subseteq CallbacksOf(i)' /\ CallbacksOf(id)' # {}
    BY <2>1 DEF CallbacksOf, With
  <2>3. ASSUME NEW r \in DOMAIN m_subscriptionsBySubject'
        PROVE  \/ m_subscriptionsBySubject'[r] = id
               \/ /\ r \in DOMAIN m_subscriptionsBySubject
                  /\ m_subscriptionsBySubject'[r] = m_subscriptionsBySubject[r]
    BY <2>1 DEF With
  <2> QED BY <2>2, <2>3 DEF InUse, CallbacksOf
<1>3. ASSUME NEW t \in Threads, NEW c \in Nat, releaseSubscription(t, c)
      PROVE  InUse'
  <2> DEFINE subject == callbackInfos[c].subject
  <2>1. CASE subject \notin DOMAIN m_subscriptionsBySubject
    <3>1. UNCHANGED <<m_subscriptionsBySubject, m_subscriptionsByID>>
      BY <1>3, <2>1 DEF releaseSubscription
    <3> QED BY <3>1 DEF InUse, CallbacksOf
  <2>2. CASE subject \in DOMAIN m_subscriptionsBySubject
    <3> DEFINE id   == m_subscriptionsBySubject[subject]
               left == m_subscriptionsByID[id] \ {c}
    <3>1. CASE left = {}
      <4>1. /\ m_subscriptionsByID' = Without(m_subscriptionsByID, id)
            /\ m_subscriptionsBySubject' = Without(m_subscriptionsBySubject, subject)
        BY <1>3, <2>2, <3>1 DEF releaseSubscription, NoCallbacksLeft
      <4>2. ASSUME NEW r \in DOMAIN m_subscriptionsBySubject'
            PROVE  CallbacksOf(m_subscriptionsBySubject[r])' # {}
        <5>1. /\ r \in DOMAIN m_subscriptionsBySubject /\ r # subject
              /\ m_subscriptionsBySubject'[r] = m_subscriptionsBySubject[r]
          BY <4>1 DEF Without
        <5>2. m_subscriptionsBySubject[r] # id
          BY <2>2, <5>1, SubjectsHaveOwnIDs
        <5>3. CallbacksOf(m_subscriptionsBySubject[r]) # {}
          BY <5>1 DEF InUse
        <5> HIDE DEF id
        <5> QED BY <4>1, <5>1, <5>2, <5>3 DEF CallbacksOf, Without
      <4> QED BY <4>2 DEF InUse
    <3>2. CASE left # {}
      <4>1. /\ m_subscriptionsByID' = [m_subscriptionsByID EXCEPT ![id] = left]
            /\ UNCHANGED m_subscriptionsBySubject
        BY <1>3, <2>2, <3>2 DEF releaseSubscription
      <4>2. ASSUME NEW r \in DOMAIN m_subscriptionsBySubject
            PROVE  CallbacksOf(m_subscriptionsBySubject[r])' # {}
        <5>1. CallbacksOf(m_subscriptionsBySubject[r]) # {}
          BY DEF InUse
        <5> HIDE DEF id, left
        <5> QED BY <3>2, <4>1, <5>1 DEF CallbacksOf
      <4> QED BY <4>1, <4>2 DEF InUse
    <3> QED BY <3>1, <3>2
  <2> QED BY <2>1, <2>2
<1> QED BY <1>1, <1>2, <1>3, KindsOfSteps
-----------------------------------------------------------------------------
(* A thread takes a message in hand.                                       *)
LEMMA HandsGenuine ==
  ASSUME Flow, NEW d \in Dispatchers, NEW m \in Message, Handle(d, m),
         \A e \in Dispatchers : Handling(e) => handling[e].message \in Message
  PROVE  \A e \in Dispatchers : Handling(e)' => handling'[e].message \in Message
<1> DEFINE h == [phase |-> "start", message |-> m, callbacks |-> {}, cached |-> FALSE]
<1>1. h.message = m /\ handling' = [handling EXCEPT ![d] = h]
  BY DEF Handle
<1> HIDE DEF h
<1>2. handling'[d] = h /\ \A e \in Dispatchers \ {d} : handling'[e] = handling[e]
  BY <1>1 DEF Flow
<1> QED BY <1>1, <1>2 DEF Handling

(* The ends of queues of messages.                                         *)
LEMMA EndsOfQueue ==
  ASSUME NEW S, NEW q \in Seq(S)
  PROVE  /\ q # << >> => Head(q) \in S /\ Tail(q) \in Seq(S)
         /\ \A m \in S : Append(q, m) \in Seq(S)
         /\ \A p \in Seq(S) : p \o q \in Seq(S)
         /\ << >> \in Seq(S)
OBVIOUS

(* What the gateway sends is a message.                                    *)
LEMMA DeliverGenuine ==
  ASSUME Numbered, Sent, Genuine, NEW s, NEW r \in 0 .. MaxCallbacks, Deliver(s, r),
         UNCHANGED <<m_queuedMessages, m_messageBacklog, batch, handling>>
  PROVE  Genuine'
<1> DEFINE m == [id |-> gatewayIDs[s], n |-> Len(sent) + 1, answers |-> r]
<1>1. m \in Message /\ fromGateway' = Append(fromGateway, m)
  BY DEF Deliver, Numbered, Sent, Message
<1> HIDE DEF m
<1>2. fromGateway' \in Seq(Message)
  BY <1>1, EndsOfQueue DEF Genuine
<1> QED BY <1>2 DEF Genuine, Handling

LEMMA GenuineKeeps ==
  ASSUME RepliesInv, Numbered, Sent, Genuine, [Next]_vars
  PROVE  Genuine'
<1>0. /\ Flow /\ Mesh \in Dispatchers /\ Dispatcher \in Dispatchers
      /\ \A e \in Dispatchers : Handling(e) => handling[e].message \in Message
  BY DEF RepliesInv, Genuine, Dispatchers
<1>1. CASE UNCHANGED <<fromGateway, m_queuedMessages, m_messageBacklog, batch, handling>>
  BY <1>1 DEF Genuine, Handling
<1>2. ASSUME NEW d \in Dispatchers, Dispatch(d) PROVE Genuine'
  <2>1. UNCHANGED <<fromGateway, m_queuedMessages, m_messageBacklog, batch>>
    BY <1>2 DEF Dispatch, queueVars, callVars, gatewayVars
  <2>2. /\ \A e \in Dispatchers \ {d} : handling'[e] = handling[e]
        /\ Handling(d)' => Handling(d) /\ handling'[d].message = handling[d].message
    BY <1>2, DispatchOutcome
  <2> QED BY <2>1, <2>2 DEF Genuine, Handling
<1>3. CASE onGatewayMessage
  <2> DEFINE m == Head(fromGateway)
  <2>1. m \in Message /\ fromGateway' \in Seq(Message)
    BY <1>3, EndsOfQueue DEF onGatewayMessage, Genuine
  <2>2. UNCHANGED <<m_messageBacklog, batch>>
    BY <1>3 DEF onGatewayMessage, callVars
  <2>3. CASE Handle(Mesh, m) /\ UNCHANGED m_queuedMessages
    <3> HIDE DEF m
    <3>1. \A e \in Dispatchers : Handling(e)' => handling'[e].message \in Message
      BY <1>0, <2>1, <2>3, HandsGenuine
    <3> QED BY <2>1, <2>2, <2>3, <3>1 DEF Genuine
  <2>4. CASE m_queuedMessages' = Append(m_queuedMessages, m) /\ UNCHANGED handling
    <3>1. m_queuedMessages' \in Seq(Message)
      BY <2>1, <2>4, EndsOfQueue DEF Genuine
    <3> QED BY <2>1, <2>2, <2>4, <3>1 DEF Genuine, Handling
  <2> QED BY <1>3, <2>3, <2>4 DEF onGatewayMessage, queueVars
<1>4. CASE ProcessBacklog
  <2>1. UNCHANGED <<fromGateway, m_queuedMessages, batch>>
    BY <1>4 DEF ProcessBacklog, queueVars, gatewayVars
  <2>2. CASE UNCHANGED <<m_messageBacklog, handling>>
    BY <2>1, <2>2, <1>1
  <2>3. CASE /\ m_messageBacklog # << >> /\ Handle(Dispatcher, Head(m_messageBacklog))
             /\ m_messageBacklog' = Tail(m_messageBacklog)
    <3>1. Head(m_messageBacklog) \in Message /\ m_messageBacklog' \in Seq(Message)
      BY <2>3, EndsOfQueue DEF Genuine
    <3>2. \A e \in Dispatchers : Handling(e)' => handling'[e].message \in Message
      BY <1>0, <2>3, <3>1, HandsGenuine
    <3> QED BY <2>1, <3>1, <3>2 DEF Genuine
  <2> QED BY <1>4, <2>2, <2>3 DEF ProcessBacklog
<1>5. CASE getItems
  <2>1. /\ batch' = m_queuedMessages /\ m_queuedMessages' = << >>
        /\ UNCHANGED <<fromGateway, m_messageBacklog, handling>>
    BY <1>5 DEF getItems, gatewayVars
  <2> QED BY <2>1, EndsOfQueue DEF Genuine, Handling
<1>6. CASE ProcessBatch
  <2>1. UNCHANGED <<fromGateway, m_queuedMessages>>
    BY <1>6 DEF ProcessBatch, queueVars, gatewayVars
  <2>2. CASE /\ m_messageBacklog' = m_messageBacklog \o batch /\ batch' = << >>
             /\ UNCHANGED handling
    <3>1. m_messageBacklog' \in Seq(Message) /\ batch' \in Seq(Message)
      BY <2>2, EndsOfQueue DEF Genuine
    <3> QED BY <2>1, <2>2, <3>1 DEF Genuine, Handling
  <2>3. CASE /\ batch # << >> /\ Handle(Dispatcher, Head(batch)) /\ batch' = Tail(batch)
             /\ UNCHANGED m_messageBacklog
    <3>1. Head(batch) \in Message /\ batch' \in Seq(Message)
      BY <2>3, EndsOfQueue DEF Genuine
    <3>2. \A e \in Dispatchers : Handling(e)' => handling'[e].message \in Message
      BY <1>0, <2>3, <3>1, HandsGenuine
    <3> QED BY <2>1, <2>3, <3>1, <3>2 DEF Genuine
  <2> QED BY <1>6, <2>2, <2>3 DEF ProcessBatch
<1>7. CASE Traffic
  <2>0. MaxCallbacks \in Nat
    BY ClientAssumption
  <2>1. ASSUME NEW s \in Subjects, Publish(s) PROVE Genuine'
    <3>1. Deliver(s, 0) /\ UNCHANGED <<m_queuedMessages, m_messageBacklog, batch, handling>>
      BY <2>1 DEF Publish, Others, queueVars, callVars
    <3> QED BY <2>0, <3>1, DeliverGenuine
  <2>2. ASSUME NEW r \in requests, Reply(r) PROVE Genuine'
    <3>1. /\ Deliver(callbackInfos[r].subject, r)
          /\ UNCHANGED <<m_queuedMessages, m_messageBacklog, batch, handling>>
      BY <2>2 DEF Reply, Others, queueVars, callVars
    <3>2. r \in 0 .. MaxCallbacks
      BY <2>0, CallbacksAreIDs DEF RepliesInv, Calls, CallbackIDs
    <3> QED BY <3>1, <3>2, DeliverGenuine
  <2> QED BY <1>7, <2>1, <2>2 DEF Traffic
<1>8. CASE UNCHANGED vars
  BY <1>1, <1>8 DEF vars, queueVars, callVars, gatewayVars
<1>9. CASE MeshStep \/ DispatcherStep
  <2>1. CASE add_Set \/ waitOne
    BY <1>1, <2>1 DEF add_Set, waitOne, callVars, gatewayVars
  <2> QED BY <1>0, <1>2, <1>3, <1>4, <1>5, <1>6, <1>9, <2>1 DEF MeshStep, DispatcherStep
<1>10. CASE Process \/ TimesOut
  BY <1>1, <1>10 DEF Process, processMessageQueue, TimesOut, WaitTimesOut, RequestTimesOut,
     queueVars, callVars, gatewayVars
<1>11. ASSUME NEW t \in Threads, Keep(t) \/ ClientCalls(t) PROVE Genuine'
  <2>1. UNCHANGED <<fromGateway, m_queuedMessages, m_messageBacklog, batch, handling>>
    BY <1>11 DEF Keep, ClientCalls, subscribe, Release, sendRequest, wakeUp, sendSUBSCRIBE,
       sendUNSUBSCRIBE, noteRequest, sendRequestMessage, waitForReply, eraseRequest, releaseInbox,
       releaseSubscription, queueVars, callVars, gatewayVars
  <2> QED BY SMTT(30), <1>1, <2>1
<1> QED BY <1>7, <1>8, <1>9, <1>10, <1>11 DEF Next
-----------------------------------------------------------------------------
(* A thread goes on for itself or for a callback there is.                 *)
LEMMA GotoRange ==
  ASSUME Calls, NEW t \in Threads, NEW pc, NEW c \in 0 .. MaxCallbacks, Goto(t, pc, c),
         \A u \in Threads : thread[u].callback \in 0 .. MaxCallbacks
  PROVE  \A u \in Threads : thread'[u].callback \in 0 .. MaxCallbacks
BY DEF Calls, Goto

LEMMA CallRange ==
  ASSUME Calls, NEW pc, Call(pc), \A u \in Threads : thread[u].callback \in 0 .. MaxCallbacks
  PROVE  \A u \in Threads : thread'[u].callback \in 0 .. MaxCallbacks
<1>1. \A u \in Threads : thread'[u].callback = thread[u].callback
  BY DEF Calls, Call
<1> QED BY <1>1

LEMMA SignalsKeep ==
  ASSUME RepliesInv, Signals, [Next]_vars
  PROVE  Signals'
<1>0. /\ Calls /\ MaxCallbacks \in Nat /\ 0 \in 0 .. MaxCallbacks
      /\ \A u \in Threads : thread[u].callback \in 0 .. MaxCallbacks
      /\ \A c \in DOMAIN callbackInfos : c \in 0 .. MaxCallbacks
      /\ NewCallback \in CallbackIDs => NewCallback \in 0 .. MaxCallbacks
  BY ClientAssumption, CallbacksAreIDs DEF RepliesInv, Signals, CallbackIDs
<1> DEFINE Placed == \A u \in Threads : thread'[u].callback \in 0 .. MaxCallbacks
<1>1. CASE UNCHANGED <<m_autoResetEvent, setting, undefined, budget, thread>>
  BY <1>1 DEF Signals
<1>2. ASSUME NEW d, Dispatch(d) PROVE Signals'
  <2>1. UNCHANGED <<m_autoResetEvent, setting, budget, thread>>
    BY <1>2 DEF Dispatch, queueVars, callVars
  <2>2. undefined' = undefined \/ undefined' = TRUE
    BY <1>2 DEF Dispatch, processGatewayMessage_NET, processGatewayMessage,
       processGatewayMessage_Races, processGatewayMessage_LookUp, performSubscriptionCallbacks,
       performSubscriptionCallbacks_Deleted, outcome
  <2> QED BY <2>1, <2>2 DEF Signals
<1>3. CASE onGatewayMessage \/ add_Set
  <2>1. UNCHANGED <<undefined, budget, thread>>
    BY <1>3 DEF onGatewayMessage, add_Set, callVars, outcome
  <2>2. m_autoResetEvent' \in BOOLEAN /\ setting' \in BOOLEAN
    BY <1>3 DEF onGatewayMessage, add_Set, queueVars, Signals
  <2> QED BY <2>1, <2>2 DEF Signals
<1>4. CASE ProcessBacklog \/ ProcessBatch
  <2>1. UNCHANGED <<m_autoResetEvent, setting, undefined>>
    BY <1>4 DEF ProcessBacklog, ProcessBatch, queueVars, outcome
  <2>2. \/ MayProcess /\ Processed /\ UNCHANGED thread
        \/ UNCHANGED budget /\ \E pc : Call(pc)
    BY <1>4 DEF ProcessBacklog, ProcessBatch
  <2>3. budget' \in {All} \cup Nat
    BY <2>2 DEF MayProcess, Processed, Signals, All
  <2>4. Placed
    BY <1>0, <2>2, CallRange
  <2> QED BY <2>1, <2>3, <2>4 DEF Signals
<1>5. CASE waitOne \/ getItems \/ WaitTimesOut \/ Process
  <2>1. UNCHANGED <<setting, undefined>> /\ \E pc : Call(pc)
    BY <1>5 DEF waitOne, getItems, WaitTimesOut, Process, processMessageQueue, queueVars, outcome
  <2>2. m_autoResetEvent' \in BOOLEAN
    BY ZenonT(60), <1>5 DEF waitOne, getItems, WaitTimesOut, Process, processMessageQueue, queueVars, Signals
  <2>3. budget' \in {All} \cup Nat
    BY <1>5, ClientAssumption
       DEF waitOne, getItems, WaitTimesOut, Process, processMessageQueue, callVars, Signals
  <2>4. Placed
    BY <1>0, <2>1, CallRange
  <2> QED BY <2>1, <2>2, <2>3, <2>4 DEF Signals
<1>6. ASSUME NEW t \in Threads, Keep(t) \/ RequestTimesOut(t)
      PROVE  Signals'
  <2>1. UNCHANGED <<m_autoResetEvent, setting, undefined, budget>>
    BY <1>6 DEF Keep, RequestTimesOut, sendSUBSCRIBE, sendUNSUBSCRIBE, noteRequest,
       sendRequestMessage, waitForReply, eraseRequest, releaseInbox, releaseSubscription,
       queueVars, callVars, outcome
  <2>2. \E pc : Goto(t, pc, 0) \/ Goto(t, pc, thread[t].callback)
    BY <1>6 DEF Keep, RequestTimesOut, sendSUBSCRIBE, sendUNSUBSCRIBE, noteRequest,
       sendRequestMessage, waitForReply, eraseRequest, releaseInbox, releaseSubscription
  <2>3. Placed
    BY <1>0, <2>2, GotoRange
  <2> QED BY <2>1, <2>3 DEF Signals
<1>7. ASSUME NEW t \in Threads, ClientCalls(t)
      PROVE  Signals'
  <2>1. UNCHANGED <<setting, undefined, budget>> /\ m_autoResetEvent' \in BOOLEAN
    BY <1>7 DEF ClientCalls, subscribe, Release, sendRequest, wakeUp, releaseSubscription,
       queueVars, callVars, outcome, Signals
  <2>2. \/ UNCHANGED thread
        \/ \E pc : Goto(t, pc, 0)
        \/ \E pc : NewCallback \in CallbackIDs /\ Goto(t, pc, NewCallback)
        \/ \E pc, c : c \in DOMAIN callbackInfos /\ Goto(t, pc, c)
    BY <1>7 DEF ClientCalls, subscribe, Release, sendRequest, wakeUp, releaseSubscription
  <2>3. Placed
    BY <1>0, <2>2, GotoRange
  <2> QED BY <2>1, <2>3 DEF Signals
<1>8. CASE Traffic
  BY <1>1, <1>8 DEF Traffic, Publish, Reply, Others, queueVars, callVars, outcome
<1>9. CASE UNCHANGED vars
  BY <1>1, <1>9 DEF vars, queueVars, callVars, outcome
<1> HIDE DEF Placed
<1> QED BY <1>2, <1>3, <1>4, <1>5, <1>6, <1>7, <1>8, <1>9
        DEF Next, MeshStep, DispatcherStep, TimesOut
-----------------------------------------------------------------------------
(* A request stays one.                                                    *)
LEMMA RequestStaysOne ==
  ASSUME RepliesInv, [Next]_vars, NEW c \in DOMAIN callbackInfos, IsRequest(c)
  PROVE  c \in DOMAIN callbackInfos' /\ IsRequest(c)'
<1>1. CASE UNCHANGED subscriptions
  BY <1>1 DEF subscriptions, IsRequest
<1>2. ASSUME NEW t \in Threads, NEW b \in Nat, releaseSubscription(t, b)
      PROVE  c \in DOMAIN callbackInfos' /\ IsRequest(c)'
  BY <1>2, ReleasedInfo DEF IsRequest
<1>3. ASSUME NEW t \in Threads, NEW s, NEW request \in BOOLEAN, Registers(t, s, request)
      PROVE  c \in DOMAIN callbackInfos' /\ IsRequest(c)'
  <2>1. \E id, first : Registered(s, id, first, request)
    BY <1>3 DEF Registers, NewSubscription, FurtherCallback
  <2> QED BY <2>1, NewInfo DEF IsRequest
<1> QED BY <1>1, <1>2, <1>3, KindsOfSteps

(* The event of a request is set when its callback was called.             *)
LEMMA SetByReplyKeeps ==
  ASSUME RepliesInv, SetByReply, [Next]_vars
  PROVE  SetByReply'
<1>1. CASE UNCHANGED received /\ answered' \subseteq answered
  BY <1>1, RequestStaysOne DEF SetByReply
<1>2. ASSUME NEW d \in Dispatchers, performSubscriptionCallbacks(d)
      PROVE  SetByReply'
  <2> DEFINE m == handling[d].message
  <2>1. /\ Handling(d) /\ handling[d].callbacks \subseteq DOMAIN callbackInfos
        /\ DOMAIN callbackInfos \subseteq CallbackIDs
    BY <1>2, CallbacksAreIDs DEF performSubscriptionCallbacks, Handling, RepliesInv, Flow
  <2>2. /\ received' = [c \in CallbackIDs |-> IF c \in handling[d].callbacks
                                              THEN Append(received[c], m) ELSE received[c]]
        /\ answered' = answered \cup {c \in handling[d].callbacks : IsRequest(c)}
    BY <1>2 DEF performSubscriptionCallbacks
  <2>3. ASSUME NEW c \in answered'
        PROVE  c \in DOMAIN callbackInfos' /\ IsRequest(c)' /\ received'[c] # << >>
    <3>1. c \in DOMAIN callbackInfos /\ IsRequest(c)
      BY <2>1, <2>2 DEF SetByReply
    <3>2. c \in DOMAIN callbackInfos' /\ IsRequest(c)'
      BY <3>1, RequestStaysOne
    <3>3. CASE c \in handling[d].callbacks
      <4>1. received'[c] = Append(received[c], m) /\ received[c] \in Seq(Messages)
        BY <2>1, <2>2, <3>1, <3>3 DEF RepliesInv, Replies
      <4>2. m \in Messages
        BY <2>1 DEF RepliesInv, Flow, RightMessages
      <4> HIDE DEF m
      <4> QED BY <3>2, <4>1, <4>2
    <3>4. CASE c \notin handling[d].callbacks
      <4>1. c \in answered /\ received'[c] = received[c]
        BY <2>1, <2>2, <3>1, <3>4
      <4> QED BY <3>2, <4>1 DEF SetByReply
    <3> QED BY <3>3, <3>4
  <2> QED BY <2>3 DEF SetByReply
<1>3. ASSUME NEW d \in Dispatchers, Dispatch(d) PROVE SetByReply'
  <2>1. CASE performSubscriptionCallbacks(d)
    BY <1>2, <2>1
  <2>2. CASE ~performSubscriptionCallbacks(d)
    <3>1. UNCHANGED <<received, answered>>
      BY <1>3, <2>2 DEF Dispatch, processGatewayMessage_NET, processGatewayMessage,
         processGatewayMessage_Races, processGatewayMessage_LookUp,
         performSubscriptionCallbacks_Deleted, outcome
    <3> QED BY <1>1, <3>1
  <2> QED BY <2>1, <2>2
<1>4. CASE MeshStep \/ DispatcherStep
  <2>1. CASE onGatewayMessage \/ add_Set \/ ProcessBacklog \/ waitOne \/ getItems \/ ProcessBatch
    BY <1>1, <2>1 DEF onGatewayMessage, add_Set, ProcessBacklog, waitOne, getItems, ProcessBatch, outcome
  <2> QED BY <1>3, <1>4, <2>1 DEF MeshStep, DispatcherStep, Dispatchers
<1>5. CASE Process \/ TimesOut \/ Traffic \/ UNCHANGED vars
  BY <1>1, <1>5 DEF Process, processMessageQueue, TimesOut, WaitTimesOut, RequestTimesOut,
     Traffic, Publish, Reply, Others, vars, outcome
<1>6. ASSUME NEW t \in Threads, Keep(t) \/ ClientCalls(t) PROVE SetByReply'
  <2>1. UNCHANGED received /\ answered' \subseteq answered
    BY <1>6 DEF Keep, ClientCalls, subscribe, Release, sendRequest, wakeUp, sendSUBSCRIBE,
       sendUNSUBSCRIBE, noteRequest, sendRequestMessage, waitForReply, eraseRequest, releaseInbox,
       releaseSubscription, outcome
  <2> QED BY <1>1, <2>1
<1> QED BY <1>4, <1>5, <1>6 DEF Next

(* The parts of the types that are not needed for the replies.             *)
Kinds == Numbered /\ InUse /\ Genuine /\ Signals /\ SetByReply

LEMMA KindsInitially == Init => Kinds
<1> SUFFICES ASSUME Init PROVE Kinds
  OBVIOUS
<1>1. callbackInfos = << >> /\ Len(callbackInfos) = 0 /\ DOMAIN callbackInfos = {}
  BY DEF Init
<1>2. DOMAIN gatewayIDs = {} /\ DOMAIN m_subscriptionsBySubject = {}
  BY DEF Init
<1>3. Numbered /\ InUse /\ SetByReply
  BY <1>1, <1>2 DEF Init, Numbered, InUse, SetByReply
<1>4. Genuine
  BY EndsOfQueue DEF Init, Genuine, Handling, Nothing, Dispatchers
<1>5. Signals
  <2>1. MaxCallbacks \in Nat
    BY ClientAssumption
  <2>2. \A t \in Threads : thread[t].callback = 0
    BY DEF Init, Idle
  <2>3. /\ m_autoResetEvent \in BOOLEAN /\ setting \in BOOLEAN /\ undefined \in BOOLEAN
        /\ budget \in {All} \cup Nat
    BY DEF Init
  <2> QED BY <2>1, <2>2, <2>3 DEF Signals
<1> QED BY <1>3, <1>4, <1>5 DEF Kinds

(***************************************************************************)
(* Every variable has its type in every reachable state: a subject that    *)
(* the client holds has a callback under its ID, and the event of a        *)
(* request is set by its reply only.                                       *)
(***************************************************************************)
THEOREM TypeCorrect == Spec => []TypeOK
<1> DEFINE Everything == IInv /\ Sent /\ Progress /\ Kinds
<1>1. Init => Everything
  <2>1. Init => Sent
    BY DEF Init, Sent
  <2>2. Init => Freshness
    BY DEF Init, Freshness, Dispatchers, Nothing
  <2> QED BY <2>1, <2>2, RepliesInitially, ProgressInitially, KindsInitially DEF IInv
<1>2. Everything /\ [Next]_vars => Everything'
  <2>1. Everything /\ [Next]_vars => (IInv /\ Sent /\ Progress)'
    BY RepliesInductive, SentKeeps, FreshnessInductive, ProgressInductive DEF IInv
  <2>2. Everything /\ [Next]_vars => Kinds'
    BY <2>1, NumberedKeeps, InUseKeeps, GenuineKeeps, SignalsKeep, SetByReplyKeeps
       DEF Kinds, IInv, Progress
  <2> QED BY <2>1, <2>2
<1>3. Everything => TypeOK
  <2> SUFFICES ASSUME Everything PROVE TypeOK
    OBVIOUS
  <2>0. RepliesInv /\ Listed /\ Ways /\ Kinds /\ DOMAIN callbackInfos \subseteq CallbackIDs
    BY CallbacksAreIDs DEF IInv, Progress, RepliesInv
  <2> HIDE DEF Everything
  <2>1. library \in {"C++", ".NET"} /\ dispatch \in {"CALLBACK", "QUEUE"}
    BY <2>0 DEF RepliesInv, Registry, Ways
  <2>2. m_nextSubscriptionID \in 1 .. MaxCallbacks + 1
    <3>1. Len(callbackInfos) \in Nat /\ Len(callbackInfos) <= MaxCallbacks /\ MaxCallbacks \in Nat
      BY <2>0, ClientAssumption DEF RepliesInv, Registry
    <3> QED BY <2>0, <3>1 DEF Kinds, Numbered
  <2>3. \A s \in DOMAIN m_subscriptionsBySubject :
          CallbacksOf(m_subscriptionsBySubject[s]) \in (SUBSET DOMAIN callbackInfos) \ {{}}
    <3>1. \A id : CallbacksOf(id) \subseteq DOMAIN callbackInfos
      BY <2>0 DEF CallbacksOf, RepliesInv, Tables, Lists
    <3> QED BY <2>0, <3>1 DEF Kinds, InUse
  <2>4. \A id \in DOMAIN m_onSendMessageCache : m_onSendMessageCache[id] \subseteq DOMAIN callbackInfos
    BY <2>0 DEF RepliesInv, Tables, Lists
  <2>5. m_requestSubscriptionIDs \subseteq
          {callbackInfos[c].id : c \in {b \in DOMAIN callbackInfos : IsRequest(b)}}
    BY <2>0 DEF Ways, Requested
  <2>6. \A s \in {m_queuedMessages, m_messageBacklog, batch, fromGateway} : s \in Seq(Message)
    BY <2>0 DEF Kinds, Genuine
  <2>7. \A c \in answered : IsRequest(c) /\ received[c] # << >>
    BY <2>0 DEF Kinds, SetByReply
  <2>8. requests \subseteq DOMAIN callbackInfos
    BY <2>0 DEF RepliesInv, Calls
  <2>9. /\ m_autoResetEvent \in BOOLEAN /\ setting \in BOOLEAN /\ undefined \in BOOLEAN
        /\ budget \in {All} \cup Nat
        /\ \A t \in Threads : thread[t].callback \in 0 .. MaxCallbacks
    BY <2>0 DEF Kinds, Signals
  <2> QED BY <2>1, <2>2, <2>3, <2>4, <2>5, <2>6, <2>7, <2>8, <2>9 DEF TypeOK
<1> QED BY <1>1, <1>2, <1>3, PTL DEF Spec
=============================================================================
