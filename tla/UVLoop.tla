------------------------------- MODULE UVLoop -------------------------------
(***************************************************************************)
(* A UVLoop: the thread that runs a libuv loop, the events that other      *)
(* threads (and its own handlers) marshall to it, and its destruction.     *)
(*                                                                         *)
(* m_marshalledEvents is a ThreadsafeConsumableQueue; each of its methods  *)
(* holds its mutex from end to end and is one step here.  Between adding   *)
(* an event and signalling it a thread can be overtaken by every other.    *)
(***************************************************************************)
EXTENDS Naturals, Sequences, FiniteSets

CONSTANTS Threads,      (* threads that marshall events                    *)
          Keys,         (* keys of unique events: m_writeEventKey          *)
          NoKey,        (* of the events of marshallEvent                  *)
          Destructor,   (* the thread that runs ~UVLoop                    *)
          Throwing,     (* threads whose plain events may throw            *)
          MaxRequests   (* bound: events each thread asks for              *)

ASSUME LoopAssumption ==
  /\ NoKey \notin Keys
  /\ Destructor \notin Threads
  /\ Throwing \subseteq Threads
  /\ MaxRequests \in Nat

VARIABLES
  temperature,  (* m_temperature                                           *)
  phase,        (* how far threadEntryPoint has come                       *)
  signalled,    (* the pending signal of the uv_async_t                    *)
  items,        (* the events in m_marshalledEvents                        *)
  uniqueKeys,   (* the keys of the unique ones among them                  *)
  batch,        (* events processMarshalledEvents has taken and not run    *)
  stopping,     (* uv_stop was called                                      *)
  adding,       (* threads between the add and the signal of an event      *)
  asked,        (* how many events each thread has asked for               *)
  destruction,  (* how far ~UVLoop has come                                *)
  owed,         (* requests no event has been started for                  *)
  ran           (* the events that were run, in their order                *)

queueVars == <<items, uniqueKeys>>
loopVars  == <<temperature, phase, stopping, batch, ran>>
vars      == <<loopVars, queueVars, signalled, adding, asked, destruction, owed>>

Event(thread, n, key) == [by |-> thread, n |-> n, key |-> key]
StopEvent             == Event(Destructor, 1, NoKey)
NextEvent(t, key)     == Event(t, asked[t] + 1, key)

(* The event e does what the request r asks for: it is the event of r, or  *)
(* one of the same key, which does all there is to do for its key.         *)
Serves(e, r) == e = r \/ (e.key = r.key /\ r.key # NoKey)

ServedBy(s, r) == \E i \in 1 .. Len(s) : Serves(s[i], r)
-----------------------------------------------------------------------------
Init ==
  /\ temperature \in {"HOT", "COLD"}
  /\ phase       = "starting"
  /\ signalled   = FALSE
  /\ items       = << >>
  /\ uniqueKeys  = {}
  /\ batch       = << >>
  /\ stopping    = FALSE
  /\ adding      = {}
  /\ asked       = [t \in Threads |-> 0]
  /\ destruction = "none"
  /\ owed        = {}
  /\ ran         = << >>

(* ThreadsafeConsumableQueue: add, addUnique and getItems.  The first is a *)
(* variant that registers a key for every event.                           *)
add_TakesKey(e) ==
  /\ items' = Append(items, e)
  /\ uniqueKeys' = uniqueKeys \cup {e.key}

add(e) ==
  /\ items' = Append(items, e)
  /\ UNCHANGED uniqueKeys

addUnique(e) ==
  /\ items' = Append(items, e)
  /\ uniqueKeys' = uniqueKeys \cup {e.key}

(* Variants: one that leaves the keys of the unique events, and one that   *)
(* returns a copy and leaves the events.                                   *)
getItems_KeepsKeys ==
  /\ batch' = items
  /\ items' = << >>
  /\ UNCHANGED uniqueKeys

getItems_KeepsItems ==
  /\ batch' = items
  /\ uniqueKeys' = {}
  /\ UNCHANGED items

getItems ==
  /\ batch' = items
  /\ items' = << >>
  /\ uniqueKeys' = {}

(* uv_async_send: before uv_async_init it fails, after the end of the loop *)
(* nobody listens.  The first is a variant for which the loop must run.    *)
uv_async_send_OnlyRunning ==
  signalled' = (signalled \/ phase = "running")

uv_async_send ==
  signalled' = (signalled \/ phase \in {"listening", "running"})
-----------------------------------------------------------------------------
(* A thread that calls marshallEvent or marshallUniqueEvent holds a        *)
(* pointer to the loop, so ~UVLoop has not begun.                          *)
Ask(t, key) ==
  /\ destruction = "none"
  /\ t \notin adding
  /\ asked[t] < MaxRequests
  /\ asked' = [asked EXCEPT ![t] = @ + 1]
  /\ owed' = owed \cup {NextEvent(t, key)}
  /\ UNCHANGED <<loopVars, signalled, destruction>>

marshallEvent(t) ==
  /\ Ask(t, NoKey)
  /\ add(NextEvent(t, NoKey))
  /\ adding' = adding \cup {t}

marshallUniqueEvent(t, key) ==
  /\ Ask(t, key)
  /\ IF key \in uniqueKeys
     THEN UNCHANGED <<queueVars, adding>>
     ELSE /\ addUnique(NextEvent(t, key))
          /\ adding' = adding \cup {t}

(* m_marshalledEventsSignal is tested and sent.                            *)
Signal(t) ==
  /\ t \in adding
  /\ uv_async_send
  /\ adding' = adding \ {t}
  /\ UNCHANGED <<loopVars, queueVars, asked, destruction, owed>>
-----------------------------------------------------------------------------
(* threadEntryPoint.                                                       *)

LoopStep(from, to) ==
  /\ phase = from
  /\ phase' = to
  /\ UNCHANGED <<temperature, stopping, batch, ran, queueVars, adding, asked,
                 destruction, owed>>

uv_async_init ==
  /\ LoopStep("starting", "listening")
  /\ UNCHANGED signalled

(* Variant: the loop starts without signalling what was marshalled before. *)
StartRunning_NoSignal ==
  /\ LoopStep("listening", "running")
  /\ UNCHANGED signalled

StartRunning ==
  /\ LoopStep("listening", "running")
  /\ uv_async_send

(* The signal is taken back before the callback runs.                      *)
processMarshalledEvents ==
  /\ phase = "running"
  /\ signalled
  /\ batch = << >>
  /\ signalled' = FALSE
  /\ getItems
  /\ UNCHANGED <<temperature, phase, stopping, adding, asked, destruction,
                 owed, ran>>

RunEvent ==
  /\ batch # << >>
  /\ ran' = Append(ran, Head(batch))
  /\ batch' = Tail(batch)
  /\ owed' = {r \in owed : ~Serves(Head(batch), r)}
  /\ stopping' = (stopping \/ Head(batch) = StopEvent)
  /\ UNCHANGED <<temperature, phase, signalled, queueVars, adding, asked,
                 destruction>>

(* An exception leaves the loop over the events: the others that were      *)
(* taken with it are never run.                                            *)
EventThrows ==
  /\ batch # << >>
  /\ Head(batch).by \in Throwing /\ Head(batch).key = NoKey
  /\ ran' = Append(ran, Head(batch))
  /\ batch' = << >>
  /\ owed' = {r \in owed : ServedBy(items, r)}
  /\ UNCHANGED <<temperature, phase, signalled, stopping, queueVars, adding,
                 asked, destruction>>

(* A cold loop ends when uv_stop was called, a hot one when m_stopLoop is  *)
(* set: both between two calls of processMarshalledEvents.                 *)
EndLoop ==
  /\ batch = << >>
  /\ \/ temperature = "COLD" /\ stopping
     \/ temperature = "HOT" /\ destruction # "none"
  /\ LoopStep("running", "ended")
  /\ UNCHANGED signalled
-----------------------------------------------------------------------------
(* ~UVLoop, on a thread other than the loop's, when the last pointer to    *)
(* the loop goes.  The events that may throw are the initialize() of       *)
(* services, whose loops outlive them.                                     *)

DestructorStep(from, to) ==
  /\ destruction = from
  /\ destruction' = to
  /\ UNCHANGED <<loopVars, adding, asked, owed>>

setStopLoop ==
  /\ adding = {}
  /\ \A e \in {items[i] : i \in 1 .. Len(items)}
              \cup {batch[i] : i \in 1 .. Len(batch)} : e.by \notin Throwing
  /\ DestructorStep("none", "stopLoop")
  /\ UNCHANGED <<queueVars, signalled>>

marshallStop ==
  /\ DestructorStep("stopLoop", "added")
  /\ add(StopEvent)
  /\ UNCHANGED signalled

(* Variant: the stop event is queued and the loop is not woken for it.     *)
signalStop_NotSent ==
  /\ DestructorStep("added", "joining")
  /\ UNCHANGED <<queueVars, signalled>>

signalStop ==
  /\ DestructorStep("added", "joining")
  /\ uv_async_send
  /\ UNCHANGED queueVars

uv_thread_join ==
  /\ phase = "ended"
  /\ DestructorStep("joining", "joined")
  /\ UNCHANGED <<queueVars, signalled>>

Destroyed == destruction = "joined" /\ UNCHANGED vars
-----------------------------------------------------------------------------
ThreadStep(t) ==
  marshallEvent(t) \/ (\E key \in Keys : marshallUniqueEvent(t, key)) \/ Signal(t)

LoopThreadStep ==
  \/ uv_async_init \/ StartRunning
  \/ processMarshalledEvents \/ RunEvent \/ EventThrows
  \/ EndLoop

DestructorThreadStep ==
  setStopLoop \/ marshallStop \/ signalStop \/ uv_thread_join

Next ==
  \/ \E t \in Threads : ThreadStep(t)
  \/ LoopThreadStep
  \/ DestructorThreadStep
  \/ Destroyed

Spec == Init /\ [][Next]_vars

(* No thread stops between two statements; none is made to ask for an      *)
(* event, or to destroy the loop.                                          *)
Fairness ==
  /\ \A t \in Threads : WF_vars(Signal(t))
  /\ WF_vars(LoopThreadStep)
  /\ WF_vars(destruction # "none" /\ DestructorThreadStep)

FairSpec == Spec /\ Fairness
-----------------------------------------------------------------------------
Events == [by : Threads \cup {Destructor}, n : Nat, key : Keys \cup {NoKey}]

(***************************************************************************)
(* Every variable has its type.                                            *)
(***************************************************************************)
TypeOK ==
  /\ temperature \in {"HOT", "COLD"}
  /\ phase \in {"starting", "listening", "running", "ended"}
  /\ signalled \in BOOLEAN
  /\ items \in Seq(Events)
  /\ uniqueKeys \in SUBSET Keys
  /\ batch \in Seq(Events)
  /\ stopping \in BOOLEAN
  /\ adding \in SUBSET Threads
  /\ asked \in [Threads -> Nat]
  /\ destruction \in {"none", "stopLoop", "added", "joining", "joined"}
  /\ owed \in SUBSET Events
  /\ ran \in Seq(Events)

(***************************************************************************)
(* A thread is told that its event is there already only when an event of  *)
(* that key has yet to be started after it asked: what it wants done (a    *)
(* write it has just queued, Socket::write) is never forgotten because an  *)
(* event that has run already, or is running, has the same key.            *)
(***************************************************************************)
NoRequestIsForgotten ==
  \A r \in owed : ServedBy(items, r) \/ ServedBy(batch, r)

(***************************************************************************)
(* There is always somebody to wake the loop for what is in the queue:     *)
(* the pending signal, a thread that is about to send it, or the signal    *)
(* the loop sends itself before it runs (comments of marshallEvent and     *)
(* threadEntryPoint).                                                      *)
(***************************************************************************)
NoLostWakeUp ==
  items # << >> =>
    \/ signalled
    \/ adding # {}
    \/ phase \in {"starting", "listening", "ended"}
    \/ destruction = "added"

(***************************************************************************)
(* Events of one thread run in the order it marshalled them, and none of   *)
(* them twice, through the queue and the batches.                          *)
(***************************************************************************)
InOrder(s) ==
  \A i, j \in 1 .. Len(s) : i < j /\ s[i].by = s[j].by => s[i].n < s[j].n

EventsRunInOrder == InOrder(ran \o batch \o items)

(***************************************************************************)
(* What a thread asks for is done, unless an exception takes it away or    *)
(* the loop is destroyed first.                                            *)
(***************************************************************************)
Requests == [by : Threads, n : 1 .. MaxRequests, key : Keys \cup {NoKey}]

EveryRequestIsServed ==
  \A r \in Requests : r \in owed ~> r \notin owed \/ destruction # "none"

(* ~UVLoop returns ("We wait for the thread to end", UVLoop.cpp).          *)
DestructorReturns ==
  destruction = "stopLoop" ~> destruction = "joined"
=============================================================================
