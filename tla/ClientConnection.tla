-------------------------- MODULE ClientConnection --------------------------
(***************************************************************************)
(* What goes on inside a client's Connection after it has been set up: the *)
(* C++ library (ConnectionImpl) and the .NET one (Connection).             *)
(*                                                                         *)
(* The mesh thread (the UV loop's thread, or the RX thread) reads what the *)
(* gateway sends.  The client's own threads subscribe, release, send       *)
(* requests and wait for the replies.  One of them, the Dispatcher, calls  *)
(* processMessageQueue.  A method that holds a mutex from end to end is    *)
(* one step; between two locks a thread can be overtaken by every other.   *)
(*                                                                         *)
(* undefined is set where the C++ code has undefined behaviour (two        *)
(* threads in its cache, a callback that was deleted).  Anything may       *)
(* happen from there: the behaviour ends and nothing is claimed of it.     *)
(* An uninitialised ID is any member of UninitialisedIDs.                  *)
(*                                                                         *)
(* The gateway and whoever answers requests are seen only through the      *)
(* messages they send, at any time after they could: so what the client    *)
(* sends has reached them at once.  A subject keeps the first ID it was    *)
(* given (module SubjectMatchingEngine) and an UNSUBSCRIBE, which names no *)
(* subject, removes nothing (module ServiceManager).                       *)
(***************************************************************************)
EXTENDS Integers, FiniteSets, Sequences, SequencesExt, Functions

CONSTANTS
  Threads,          (* the client's threads                                *)
  Dispatcher,       (* the one that calls processMessageQueue              *)
  Mesh,             (* the thread of the UV loop, or the RX thread         *)
  Subjects,
  UninitialisedIDs, (* what an ID that was never assigned may hold         *)
  Limits,           (* values of maxMessages                               *)
  MaxCallbacks,     (* bound: callbacks registered, those of requests too  *)
  MaxMessages       (* bound: messages published                           *)

All == -1           (* the default of maxMessages *)

ASSUME ClientAssumption ==
  /\ Dispatcher \in Threads
  /\ Mesh \notin Threads
  /\ IsFiniteSet(UninitialisedIDs) /\ UninitialisedIDs \subseteq Nat
  /\ Limits \subseteq (Nat \ {0}) \cup {All}
  /\ MaxCallbacks \in Nat
  /\ MaxMessages \in Nat

VARIABLES
  library,                    (* "C++" or ".NET"                           *)
  dispatch,                   (* MessageDispatch: "CALLBACK" or "QUEUE"    *)
  m_nextSubscriptionID,
  m_subscriptionsBySubject,   (* subject -> ID                             *)
  m_subscriptionsByID,        (* ID -> its callbacks                       *)
  m_onSendMessageCache,       (* C++: a cache of m_subscriptionsByID       *)
  m_onSendMessageCacheInvalidated,
  m_requestSubscriptionIDs,
  m_queuedMessages,           (* what mesh thread queued                   *)
  m_autoResetEvent,           (* the queue's event                         *)
  setting,                    (* .NET: the queue has it, no event yet      *)
  m_messageBacklog,
  batch,                      (* items processMessageQueue has taken       *)
  budget,                     (* messages it may still process, or All     *)
  thread,                     (* where each client thread is               *)
  handling,                   (* the message each dispatching thread has   *)
  callbackInfos,              (* every callback ever registered            *)
  answered,                   (* requests whose event is set               *)
  fromGateway,                (* the socket: what has not been read yet    *)
  gatewayIDs,                 (* the gateway: subject -> ID                *)
  requests,                   (* requests nobody has answered yet          *)
  sent,                       (* the messages the gateway sent             *)
  received,                   (* callback -> messages it was called with   *)
  undefined

settings      == <<library, dispatch>>
subscriptions == <<m_nextSubscriptionID, m_subscriptionsBySubject, m_subscriptionsByID, callbackInfos>>
cacheVars     == <<m_onSendMessageCache, m_onSendMessageCacheInvalidated>>
queueVars     == <<m_queuedMessages, m_autoResetEvent, setting>>
callVars      == <<m_messageBacklog, batch, budget>>
outcome       == <<answered, received, undefined>>
gatewayVars   == <<fromGateway, gatewayIDs, requests, sent>>

vars == <<settings, subscriptions, cacheVars, m_requestSubscriptionIDs, queueVars, callVars,
          thread, handling, gatewayVars, outcome>>

Dispatchers == {Mesh, Dispatcher}
CallbackIDs == 1 .. MaxCallbacks
Nothing     == [phase |-> "none"]
Idle        == [pc |-> "idle", callback |-> 0]

NewCallback   == Len(callbackInfos) + 1
CallbacksOf(id) == IF id \in DOMAIN m_subscriptionsByID THEN m_subscriptionsByID[id] ELSE {}
Released(c)   == ~callbackInfos[c].held
IsRequest(c)  == callbackInfos[c].request
With(f, x, y) == [z \in DOMAIN f \cup {x} |-> IF z = x THEN y ELSE f[z]]
Without(f, x) == [z \in DOMAIN f \ {x} |-> f[z]]

Goto(t, pc, c) == thread' = [thread EXCEPT ![t] = [pc |-> pc, callback |-> c]]
At(t, pc)      == thread[t].pc = pc
-----------------------------------------------------------------------------
Init ==
  /\ library  \in {"C++", ".NET"}
  /\ dispatch \in {"CALLBACK", "QUEUE"}
  /\ m_nextSubscriptionID            = 1
  /\ m_subscriptionsBySubject        = << >>
  /\ m_subscriptionsByID             = << >>
  /\ m_onSendMessageCache            = << >>
  /\ m_onSendMessageCacheInvalidated = FALSE
  /\ m_requestSubscriptionIDs        = {}
  /\ m_queuedMessages                = << >>
  /\ m_autoResetEvent                = FALSE
  /\ setting                         = FALSE
  /\ m_messageBacklog                = << >>
  /\ batch                           = << >>
  /\ budget                          = 0
  /\ thread        = [t \in Threads |-> Idle]
  /\ handling      = [d \in Dispatchers |-> Nothing]
  /\ callbackInfos = << >>
  /\ answered      = {}
  /\ fromGateway   = << >>
  /\ gatewayIDs    = << >>
  /\ requests      = {}
  /\ sent          = << >>
  /\ received      = [c \in CallbackIDs |-> << >>]
  /\ undefined     = FALSE
-----------------------------------------------------------------------------
(* Subscriptions                                                           *)

Registered(subject, id, first, request) ==
  callbackInfos' = Append(callbackInfos,
    [subject |-> subject, id |-> id, first |-> first, request |-> request, held |-> TRUE])

(* The locked part of subscribe for a subject the client does not hold.    *)
NewSubscription(subject, request) ==
  LET id == m_nextSubscriptionID IN
  /\ subject \notin DOMAIN m_subscriptionsBySubject
  /\ m_nextSubscriptionID'     = id + 1
  /\ m_subscriptionsBySubject' = With(m_subscriptionsBySubject, subject, id)
  /\ m_subscriptionsByID'      = With(m_subscriptionsByID, id, CallbacksOf(id) \cup {NewCallback})
  /\ m_onSendMessageCacheInvalidated' = (m_onSendMessageCacheInvalidated \/ library = "C++")
  /\ Registered(subject, id, TRUE, request)

(* And for one it holds: C++ goes on with an ID that was never assigned.   *)
FurtherCallback(subject, request) ==
  /\ subject \in DOMAIN m_subscriptionsBySubject
  /\ \E id \in IF library = "C++" THEN UninitialisedIDs ELSE {m_subscriptionsBySubject[subject]} :
       /\ m_subscriptionsByID' = With(m_subscriptionsByID, id, CallbacksOf(id) \cup {NewCallback})
       /\ Registered(subject, id, FALSE, request)
  /\ UNCHANGED <<m_nextSubscriptionID, m_subscriptionsBySubject, m_onSendMessageCacheInvalidated>>

subscribe(t, subject) ==
  /\ At(t, "idle")
  /\ NewCallback \in CallbackIDs
  /\ \/ NewSubscription(subject, FALSE) /\ Goto(t, "subscribing", NewCallback)
     \/ FurtherCallback(subject, FALSE) /\ UNCHANGED thread
  /\ UNCHANGED <<m_onSendMessageCache, m_requestSubscriptionIDs, queueVars, callVars, handling, gatewayVars, outcome>>

(* The SUBSCRIBE goes out after the lock was released.                     *)
sendSUBSCRIBE(t) ==
  LET c == thread[t].callback IN
  /\ At(t, "subscribing")
  /\ gatewayIDs' = IF callbackInfos[c].subject \in DOMAIN gatewayIDs THEN gatewayIDs
                   ELSE With(gatewayIDs, callbackInfos[c].subject, callbackInfos[c].id)
  /\ IF IsRequest(c) THEN Goto(t, "noting", c) ELSE Goto(t, "idle", 0)
  /\ UNCHANGED <<subscriptions, cacheVars, m_requestSubscriptionIDs, queueVars, callVars, handling,
                 fromGateway, requests, sent, outcome>>

(* NoCallbacksLeft as it would be if the subject's ID were left behind.    *)
NoCallbacksLeft_KeepsSubject(subject, id) ==
  /\ m_subscriptionsByID' = Without(m_subscriptionsByID, id)
  /\ UNCHANGED m_subscriptionsBySubject

NoCallbacksLeft(subject, id) ==
  /\ m_subscriptionsByID'      = Without(m_subscriptionsByID, id)
  /\ m_subscriptionsBySubject' = Without(m_subscriptionsBySubject, subject)

(* Removes callback c, its Subscription being destroyed by thread t.       *)
releaseSubscription(t, c) ==
  LET subject == callbackInfos[c].subject IN
  /\ callbackInfos' = [callbackInfos EXCEPT ![c].held = FALSE]
  /\ \/ /\ subject \notin DOMAIN m_subscriptionsBySubject
        /\ Goto(t, "idle", 0)
        /\ UNCHANGED <<m_subscriptionsBySubject, m_subscriptionsByID, m_onSendMessageCacheInvalidated>>
     \/ /\ subject \in DOMAIN m_subscriptionsBySubject
        /\ LET id   == m_subscriptionsBySubject[subject]
               left == m_subscriptionsByID[id] \ {c}
           IN  IF left = {}
               THEN /\ NoCallbacksLeft(subject, id)
                    /\ IF library = ".NET" THEN Goto(t, "unsubscribing", c) ELSE Goto(t, "idle", 0)
               ELSE /\ m_subscriptionsByID' = [m_subscriptionsByID EXCEPT ![id] = left]
                    /\ Goto(t, "idle", 0)
                    /\ UNCHANGED m_subscriptionsBySubject
        /\ m_onSendMessageCacheInvalidated' = (m_onSendMessageCacheInvalidated \/ library = "C++")
  /\ UNCHANGED <<m_nextSubscriptionID, m_onSendMessageCache, m_requestSubscriptionIDs, queueVars,
                 callVars, handling, gatewayVars, outcome>>

Release(t) ==
  /\ At(t, "idle")
  /\ \E c \in DOMAIN callbackInfos :
       /\ ~IsRequest(c) /\ ~Released(c)
       /\ \A u \in Threads : ~(At(u, "subscribing") /\ thread[u].callback = c)
       /\ releaseSubscription(t, c)

(* .NET only: the C++ library sends no UNSUBSCRIBE while it is connected.  *)
sendUNSUBSCRIBE(t) ==
  /\ At(t, "unsubscribing")
  /\ Goto(t, "idle", 0)
  /\ UNCHANGED <<subscriptions, cacheVars, m_requestSubscriptionIDs, queueVars, callVars, handling,
                 gatewayVars, outcome>>
-----------------------------------------------------------------------------
(* Requests                                                                *)

(* createInbox as it would be if the inbox were not unique.                *)
createInbox_Shared(c) == <<"_INBOX", 0>>

(* A GUID: no other subject is equal to it.                                *)
createInbox(c) == <<"_INBOX", c>>

ASSUME InboxAssumption == \A c \in CallbackIDs : createInbox(c) \notin Subjects

sendRequest(t) ==
  /\ At(t, "idle")
  /\ NewCallback \in CallbackIDs
  /\ LET inbox == createInbox(NewCallback) IN
     \/ NewSubscription(inbox, TRUE) /\ Goto(t, "subscribing", NewCallback)
     \/ FurtherCallback(inbox, TRUE) /\ Goto(t, "noting", NewCallback)
  /\ UNCHANGED <<m_onSendMessageCache, m_requestSubscriptionIDs, queueVars, callVars, handling, gatewayVars, outcome>>

(* noteRequest as it would be if the request's ID were not noted.          *)
noteRequest_Forgets(t) ==
  /\ At(t, "noting")
  /\ Goto(t, "requesting", thread[t].callback)
  /\ UNCHANGED <<subscriptions, cacheVars, m_requestSubscriptionIDs, queueVars, callVars, handling, gatewayVars, outcome>>

noteRequest(t) ==
  /\ At(t, "noting")
  /\ m_requestSubscriptionIDs' = m_requestSubscriptionIDs \cup {callbackInfos[thread[t].callback].id}
  /\ Goto(t, "requesting", thread[t].callback)
  /\ UNCHANGED <<subscriptions, cacheVars, queueVars, callVars, handling, gatewayVars, outcome>>

sendRequestMessage(t) ==
  /\ At(t, "requesting")
  /\ requests' = requests \cup {thread[t].callback}
  /\ Goto(t, "waiting", thread[t].callback)
  /\ UNCHANGED <<subscriptions, cacheVars, m_requestSubscriptionIDs, queueVars, callVars, handling,
                 fromGateway, gatewayIDs, sent, outcome>>

(* waitOne on the request's own event: it was set, or the time is over.    *)
waitForReply(t) ==
  /\ At(t, "waiting")
  /\ thread[t].callback \in answered
  /\ answered' = answered \ {thread[t].callback}
  /\ Goto(t, "erasing", thread[t].callback)
  /\ UNCHANGED <<subscriptions, cacheVars, m_requestSubscriptionIDs, queueVars, callVars, handling, gatewayVars, received, undefined>>

RequestTimesOut(t) ==
  /\ At(t, "waiting")
  /\ Goto(t, "erasing", thread[t].callback)
  /\ UNCHANGED <<subscriptions, cacheVars, m_requestSubscriptionIDs, queueVars, callVars, handling, gatewayVars, outcome>>

eraseRequest(t) ==
  /\ At(t, "erasing")
  /\ m_requestSubscriptionIDs' = m_requestSubscriptionIDs \ {callbackInfos[thread[t].callback].id}
  /\ Goto(t, "releasing", thread[t].callback)
  /\ UNCHANGED <<subscriptions, cacheVars, queueVars, callVars, handling, gatewayVars, outcome>>

releaseInbox(t) == At(t, "releasing") /\ releaseSubscription(t, thread[t].callback)
-----------------------------------------------------------------------------
(* Dispatching a message to the callbacks of its ID                        *)

Handle(d, message) ==
  handling' = [handling EXCEPT ![d] = [phase |-> "start", message |-> message, callbacks |-> {}, cached |-> FALSE]]

Handling(d) == handling[d].phase # "none"

(* d goes on to call the callbacks, which it has from the cache or not.    *)
ToCall(d, callbacks, cached) ==
  handling' = [handling EXCEPT ![d].phase = "call", ![d].callbacks = callbacks, ![d].cached = cached]

Done(d) == handling' = [handling EXCEPT ![d] = Nothing]

(* d copies the callbacks of the message's ID, holding the mutex.          *)
LookUp(d) ==
  LET id == handling[d].message.id IN
  IF id \in DOMAIN m_subscriptionsByID THEN ToCall(d, m_subscriptionsByID[id], FALSE) ELSE Done(d)

processGatewayMessage_NET(d) ==
  /\ library = ".NET"
  /\ handling[d].phase = "start"
  /\ LookUp(d)
  /\ UNCHANGED <<cacheVars, outcome>>

(* Another thread works on the cache, or on callbacks that it has there.   *)
CacheInUse(d) == \E e \in Dispatchers \ {d} : handling[e].phase \in {"lookup", "call"}

(* The exchange of the flag, the clear and the find in the cache.          *)
processGatewayMessage(d) ==
  LET id    == handling[d].message.id
      cache == IF m_onSendMessageCacheInvalidated THEN << >> ELSE m_onSendMessageCache
  IN  /\ library = "C++"
      /\ handling[d].phase = "start"
      /\ ~CacheInUse(d)
      /\ m_onSendMessageCacheInvalidated' = FALSE
      /\ m_onSendMessageCache' = cache
      /\ IF id \in DOMAIN cache
         THEN ToCall(d, cache[id], TRUE)
         ELSE handling' = [handling EXCEPT ![d].phase = "lookup"]
      /\ UNCHANGED outcome

processGatewayMessage_Races(d) ==
  /\ library = "C++"
  /\ handling[d].phase = "start"
  /\ CacheInUse(d)
  /\ undefined' = TRUE
  /\ UNCHANGED <<cacheVars, handling, answered, received>>

(* processGatewayMessage_LookUp as it would be if the flag were reset when *)
(* the callbacks have been looked up.                                      *)
processGatewayMessage_LookUp_Resets(d) ==
  /\ handling[d].phase = "lookup"
  /\ LookUp(d)
  /\ m_onSendMessageCacheInvalidated' = FALSE
  /\ UNCHANGED <<m_onSendMessageCache, outcome>>

processGatewayMessage_LookUp(d) ==
  /\ handling[d].phase = "lookup"
  /\ LookUp(d)
  /\ UNCHANGED <<cacheVars, outcome>>

(* What was looked up goes to the cache, and the callbacks are called; the *)
(* callback of a request sets the request's event.                         *)
performSubscriptionCallbacks(d) ==
  LET callbacks == handling[d].callbacks
      message   == handling[d].message
  IN  /\ handling[d].phase = "call"
      /\ ~(library = "C++" /\ \E c \in callbacks : Released(c))
      /\ received' = [c \in CallbackIDs |->
                        IF c \in callbacks THEN Append(received[c], message) ELSE received[c]]
      /\ answered' = answered \cup {c \in callbacks : IsRequest(c)}
      /\ m_onSendMessageCache' = IF library = "C++" /\ ~handling[d].cached
                                 THEN With(m_onSendMessageCache, message.id, callbacks)
                                 ELSE m_onSendMessageCache
      /\ Done(d)
      /\ UNCHANGED <<m_onSendMessageCacheInvalidated, undefined>>

(* Subscription::~Subscription has deleted one of the callbacks.           *)
performSubscriptionCallbacks_Deleted(d) ==
  /\ library = "C++"
  /\ handling[d].phase = "call"
  /\ \E c \in handling[d].callbacks : Released(c)
  /\ undefined' = TRUE
  /\ UNCHANGED <<cacheVars, handling, answered, received>>

Dispatch(d) ==
  /\ \/ processGatewayMessage_NET(d)
     \/ processGatewayMessage(d)
     \/ processGatewayMessage_Races(d)
     \/ processGatewayMessage_LookUp(d)
     \/ performSubscriptionCallbacks(d)
     \/ performSubscriptionCallbacks_Deleted(d)
  /\ UNCHANGED <<subscriptions, m_requestSubscriptionIDs, queueVars, callVars, thread, gatewayVars>>
-----------------------------------------------------------------------------
(* The mesh thread                                                         *)

(* A reply that a request waits for is dispatched at once; so is every     *)
(* message in the CALLBACK mode.  The others are queued: C++ sets the      *)
(* event under the queue's mutex, .NET after it has released the lock.     *)
onGatewayMessage ==
  LET message == Head(fromGateway) IN
  /\ ~Handling(Mesh) /\ ~setting
  /\ fromGateway # << >>
  /\ fromGateway' = Tail(fromGateway)
  /\ IF message.id \in m_requestSubscriptionIDs \/ dispatch = "CALLBACK"
     THEN Handle(Mesh, message) /\ UNCHANGED queueVars
     ELSE /\ m_queuedMessages' = Append(m_queuedMessages, message)
          /\ IF library = "C++"
             THEN m_autoResetEvent' = TRUE /\ UNCHANGED setting
             ELSE setting' = TRUE /\ UNCHANGED m_autoResetEvent
          /\ UNCHANGED handling
  /\ UNCHANGED <<subscriptions, cacheVars, m_requestSubscriptionIDs, callVars, thread, gatewayIDs, requests, sent, outcome>>

(* add as it would be if the event were set only when the queue is empty.  *)
add_Set_WhenEmpty ==
  /\ setting
  /\ setting' = FALSE
  /\ m_autoResetEvent' = (m_autoResetEvent \/ m_queuedMessages = << >>)
  /\ UNCHANGED <<subscriptions, cacheVars, m_requestSubscriptionIDs, m_queuedMessages, callVars,
                 thread, handling, gatewayVars, outcome>>

add_Set ==
  /\ setting
  /\ setting' = FALSE
  /\ m_autoResetEvent' = TRUE
  /\ UNCHANGED <<subscriptions, cacheVars, m_requestSubscriptionIDs, m_queuedMessages, callVars,
                 thread, handling, gatewayVars, outcome>>
-----------------------------------------------------------------------------
(* processMessageQueue and wakeUp, which a client calls in the QUEUE mode  *)

Call(pc) == thread' = [thread EXCEPT ![Dispatcher].pc = pc]

(* messagesProcessed is below maxMessages.                                 *)
MayProcess == budget # 0

Processed == budget' = IF budget = All THEN All ELSE budget - 1

processMessageQueue(maxMessages) ==
  /\ dispatch = "QUEUE"
  /\ At(Dispatcher, "idle")
  /\ Call("backlog")
  /\ budget' = maxMessages
  /\ UNCHANGED <<subscriptions, cacheVars, m_requestSubscriptionIDs, queueVars, m_messageBacklog,
                 batch, handling, gatewayVars, outcome>>

ProcessBacklog ==
  /\ At(Dispatcher, "backlog")
  /\ ~Handling(Dispatcher)
  /\ IF m_messageBacklog # << >> /\ MayProcess
     THEN /\ Handle(Dispatcher, Head(m_messageBacklog))
          /\ m_messageBacklog' = Tail(m_messageBacklog)
          /\ Processed
          /\ UNCHANGED thread
     ELSE /\ Call(IF MayProcess THEN "waitOne" ELSE "idle")
          /\ UNCHANGED <<handling, m_messageBacklog, budget>>
  /\ UNCHANGED <<subscriptions, cacheVars, m_requestSubscriptionIDs, queueVars, batch, gatewayVars, outcome>>

waitOne ==
  /\ At(Dispatcher, "waitOne")
  /\ m_autoResetEvent
  /\ m_autoResetEvent' = FALSE
  /\ Call("getItems")
  /\ UNCHANGED <<subscriptions, cacheVars, m_requestSubscriptionIDs, m_queuedMessages, setting,
                 callVars, handling, gatewayVars, outcome>>

WaitTimesOut ==
  /\ At(Dispatcher, "waitOne")
  /\ Call("getItems")
  /\ UNCHANGED <<subscriptions, cacheVars, m_requestSubscriptionIDs, queueVars, callVars, handling, gatewayVars, outcome>>

getItems ==
  /\ At(Dispatcher, "getItems")
  /\ batch' = m_queuedMessages
  /\ m_queuedMessages' = << >>
  /\ Call("batch")
  /\ UNCHANGED <<subscriptions, cacheVars, m_requestSubscriptionIDs, m_autoResetEvent, setting,
                 m_messageBacklog, budget, handling, gatewayVars, outcome>>

(* ProcessBatch as it would be if what is beyond maxMessages were put into *)
(* the queue again.                                                        *)
ProcessBatch_Requeues ==
  /\ At(Dispatcher, "batch")
  /\ ~Handling(Dispatcher)
  /\ IF batch # << >> /\ MayProcess
     THEN /\ Handle(Dispatcher, Head(batch))
          /\ batch' = Tail(batch)
          /\ Processed
          /\ UNCHANGED <<thread, m_queuedMessages>>
     ELSE /\ m_queuedMessages' = m_queuedMessages \o batch
          /\ batch' = << >>
          /\ Call("idle")
          /\ UNCHANGED <<handling, budget>>
  /\ UNCHANGED <<subscriptions, cacheVars, m_requestSubscriptionIDs, m_autoResetEvent, setting,
                 m_messageBacklog, gatewayVars, outcome>>

(* The messages beyond maxMessages go to the backlog.                      *)
ProcessBatch ==
  /\ At(Dispatcher, "batch")
  /\ ~Handling(Dispatcher)
  /\ IF batch # << >> /\ MayProcess
     THEN /\ Handle(Dispatcher, Head(batch))
          /\ batch' = Tail(batch)
          /\ Processed
          /\ UNCHANGED <<thread, m_messageBacklog>>
     ELSE /\ m_messageBacklog' = m_messageBacklog \o batch
          /\ batch' = << >>
          /\ Call("idle")
          /\ UNCHANGED <<handling, budget>>
  /\ UNCHANGED <<subscriptions, cacheVars, m_requestSubscriptionIDs, queueVars, gatewayVars, outcome>>

wakeUp(t) ==
  /\ dispatch = "QUEUE"
  /\ At(t, "idle")
  /\ m_autoResetEvent' = TRUE
  /\ UNCHANGED <<subscriptions, cacheVars, m_requestSubscriptionIDs, m_queuedMessages, setting,
                 callVars, thread, handling, gatewayVars, outcome>>
-----------------------------------------------------------------------------
(* The gateway, and whoever answers requests                               *)

(* A message to the subject, which answers the request r or is a message   *)
(* somebody published (r = 0).                                             *)
Deliver(subject, r) ==
  LET message == [id |-> gatewayIDs[subject], n |-> Len(sent) + 1, answers |-> r] IN
  /\ subject \in DOMAIN gatewayIDs
  /\ fromGateway' = Append(fromGateway, message)
  /\ sent' = Append(sent, message)

Others == <<subscriptions, cacheVars, m_requestSubscriptionIDs, queueVars, callVars, thread,
            handling, gatewayIDs, outcome>>

Publish(subject) ==
  /\ Len(SelectSeq(sent, LAMBDA m : m.answers = 0)) < MaxMessages
  /\ Deliver(subject, 0)
  /\ UNCHANGED <<requests, Others>>

Reply(r) ==
  /\ r \in requests
  /\ requests' = requests \ {r}
  /\ Deliver(callbackInfos[r].subject, r)
  /\ UNCHANGED Others
-----------------------------------------------------------------------------
Alive == ~undefined /\ UNCHANGED settings

MeshStep       == Alive /\ (onGatewayMessage \/ add_Set \/ Dispatch(Mesh))
DispatcherStep == Alive /\ (ProcessBacklog \/ waitOne \/ getItems \/ ProcessBatch \/ Dispatch(Dispatcher))
Keep(t)        == Alive /\ (sendSUBSCRIBE(t) \/ sendUNSUBSCRIBE(t) \/ noteRequest(t) \/ sendRequestMessage(t)
                              \/ waitForReply(t) \/ eraseRequest(t) \/ releaseInbox(t))
Process        == Alive /\ \E maxMessages \in Limits : processMessageQueue(maxMessages)

ClientCalls(t) == (\E s \in Subjects : subscribe(t, s)) \/ Release(t) \/ sendRequest(t) \/ wakeUp(t)
TimesOut       == WaitTimesOut \/ \E t \in Threads : RequestTimesOut(t)
Traffic        == (\E s \in Subjects : Publish(s)) \/ \E r \in requests : Reply(r)

Next ==
  \/ MeshStep \/ DispatcherStep \/ Process
  \/ \E t \in Threads : Keep(t)
  \/ Alive /\ (TimesOut \/ Traffic \/ \E t \in Threads : ClientCalls(t))

Spec == Init /\ [][Next]_vars

(* Threads run, and the client calls processMessageQueue again and again.  *)
(* No time has to run out: what must happen may not depend on a timeout.   *)
Fairness ==
  /\ WF_vars(MeshStep) /\ WF_vars(DispatcherStep) /\ WF_vars(Process)
  /\ \A t \in Threads : WF_vars(Keep(t))

FairSpec == Spec /\ Fairness
-----------------------------------------------------------------------------
Message == [id : CallbackIDs, n : Nat, answers : 0 .. MaxCallbacks]

(* The type invariant; an ID the client gives to a subject has a record    *)
(* with a callback, and the event of a request is set by its reply only.   *)
TypeOK ==
  /\ library \in {"C++", ".NET"} /\ dispatch \in {"CALLBACK", "QUEUE"}
  /\ m_nextSubscriptionID \in 1 .. MaxCallbacks + 1
  /\ \A s \in DOMAIN m_subscriptionsBySubject :
       CallbacksOf(m_subscriptionsBySubject[s]) \in (SUBSET DOMAIN callbackInfos) \ {{}}
  /\ \A id \in DOMAIN m_onSendMessageCache : m_onSendMessageCache[id] \subseteq DOMAIN callbackInfos
  /\ m_requestSubscriptionIDs \subseteq {callbackInfos[c].id : c \in {b \in DOMAIN callbackInfos : IsRequest(b)}}
  /\ \A s \in {m_queuedMessages, m_messageBacklog, batch, fromGateway} : s \in Seq(Message)
  /\ m_autoResetEvent \in BOOLEAN /\ setting \in BOOLEAN /\ undefined \in BOOLEAN
  /\ budget \in {All} \cup Nat
  /\ \A t \in Threads : thread[t].callback \in 0 .. MaxCallbacks
  /\ \A c \in answered : IsRequest(c) /\ received[c] # << >>
  /\ requests \subseteq DOMAIN callbackInfos

(* The messages of an ID: SelectSeq, as a recursive function that proofs    *)
(* can unfold.                                                             *)
ForID(messages, id) ==
  LET picked[i \in 0 .. Len(messages)] ==
        IF i = 0 THEN << >>
        ELSE IF messages[i].id = id THEN Append(picked[i - 1], messages[i]) ELSE picked[i - 1]
  IN  picked[Len(messages)]

(* The message that d dispatches, if c is going to be called with it.      *)
InHand(d, c) ==
  IF ~Handling(d) \/ (handling[d].phase = "call" /\ c \notin handling[d].callbacks)
  THEN << >> ELSE << handling[d].message >>

OnItsWay(c) ==
  ForID(InHand(Dispatcher, c) \o m_messageBacklog \o batch \o m_queuedMessages
          \o InHand(Mesh, c) \o fromGateway,
        callbackInfos[c].id)

(* The callback that made a subscription has been called with, or is going *)
(* to be called with, each message the gateway sent for it, in the order   *)
(* in which they were sent and once: through the socket, the queue, the    *)
(* batch, the backlog and any mix of calls with and without maxMessages.   *)
NothingIsMissed ==
  ~undefined =>
    \A c \in DOMAIN callbackInfos :
      callbackInfos[c].first /\ ~Released(c)
        => received[c] \o OnItsWay(c) = ForID(sent, callbackInfos[c].id)

(* An entry of the C++ cache lists the callbacks its subscription has,     *)
(* unless the cache is marked as invalid: a release that overtakes a       *)
(* dispatch between the exchange of the flag and the insertion is seen by  *)
(* the next one.  (Callbacks that went to an uninitialised ID apart.)      *)
CacheIsFresh ==
  LET stray == {c \in DOMAIN callbackInfos : library = "C++" /\ ~callbackInfos[c].first} IN
  ~undefined /\ ~m_onSendMessageCacheInvalidated =>
    \A id \in DOMAIN m_onSendMessageCache :
      m_onSendMessageCache[id] \ stray = CallbacksOf(id) \ stray

(* What sendRequest returns is the reply to its own request: the reply to  *)
(* one that timed out never gets to another.                               *)
OwnReply ==
  \A c \in DOMAIN callbackInfos :
    IsRequest(c) => \A i \in DOMAIN received[c] : received[c][i].answers = c

Queued == m_messageBacklog \o batch \o m_queuedMessages

(* A client that keeps calling processMessageQueue gets to everything that *)
(* is queued though no wait ever times out: no signal is lost between the  *)
(* mesh thread and the dispatcher.  (Unless it waits for a reply for ever.) *)
QueuedIsProcessed ==
  \/ <>undefined
  \/ <>[]At(Dispatcher, "waiting")
  \/ (Queued # << >>) ~> (Queued = << >>)

(* A reply that is on its way ends the wait of its request before any      *)
(* timeout, also when the thread that waits is the only one that could     *)
(* take the reply from the queue.                                          *)
ReplyEndsTheWait ==
  \A t \in Threads :
    (At(t, "waiting") /\ \E i \in DOMAIN fromGateway : fromGateway[i].answers = thread[t].callback)
      ~> (~At(t, "waiting") \/ undefined)
=============================================================================
