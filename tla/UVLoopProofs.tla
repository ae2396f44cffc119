---------------------------- MODULE UVLoopProofs ----------------------------
(***************************************************************************)
(* The safety of a UVLoop, for any threads, keys and number of events.     *)
(***************************************************************************)
EXTENDS UVLoop, TLAPS

(***************************************************************************)
(* The key of a unique event is registered only while an event of that key *)
(* is in the queue (ThreadsafeConsumableQueue::m_uniqueKeys).              *)
(***************************************************************************)
KeysAreQueued ==
  \A key \in uniqueKeys : \E i \in 1 .. Len(items) : items[i].key = key

(***************************************************************************)
(* An event carries a number its thread has reached, and the stop event    *)
(* exists only once the destructor has marshalled it.                      *)
(***************************************************************************)
Issued(e) ==
  IF e.by = Destructor
  THEN destruction \in {"added", "joining", "joined"}
  ELSE e.n <= asked[e.by]

EventsAreIssued ==
  /\ \A i \in 1 .. Len(ran)   : Issued(ran[i])
  /\ \A i \in 1 .. Len(batch) : Issued(batch[i])
  /\ \A i \in 1 .. Len(items) : Issued(items[i])

(* The events of a thread in s were marshalled before those in t.          *)
Before(s, t) ==
  \A i \in 1 .. Len(s), j \in 1 .. Len(t) : s[i].by = t[j].by => s[i].n < t[j].n

(***************************************************************************)
(* EventsRunInOrder, taken apart into its three sequences: events that     *)
(* were run, that were taken from the queue, and that are in it.           *)
(***************************************************************************)
OrderAtEachStage ==
  /\ InOrder(ran) /\ InOrder(batch) /\ InOrder(items)
  /\ Before(ran, batch) /\ Before(ran, items) /\ Before(batch, items)

IInv ==
  /\ TypeOK
  /\ KeysAreQueued
  /\ NoRequestIsForgotten
  /\ NoLostWakeUp
  /\ EventsAreIssued
  /\ OrderAtEachStage
-----------------------------------------------------------------------------
(* What Append, Head and Tail do to a sequence of events.                  *)
LEMMA AppendAnEvent ==
  ASSUME NEW s \in Seq(Events), NEW e \in Events
  PROVE  /\ Append(s, e) \in Seq(Events)
         /\ Len(Append(s, e)) = Len(s) + 1
         /\ Append(s, e)[Len(s) + 1] = e
         /\ \A i \in 1 .. Len(s) : Append(s, e)[i] = s[i]
OBVIOUS

LEMMA HeadAndTail ==
  ASSUME NEW s \in Seq(Events), s # << >>
  PROVE  /\ Head(s) \in Events
         /\ Len(s) \in Nat \ {0}
         /\ Head(s) = s[1]
         /\ Tail(s) \in Seq(Events)
         /\ Len(Tail(s)) = Len(s) - 1
         /\ \A i \in 1 .. Len(Tail(s)) : Tail(s)[i] = s[i + 1]
OBVIOUS

(* An event that joins a queue serves what the queue served, and whatever  *)
(* it serves itself.                                                       *)
LEMMA AppendServes ==
  ASSUME NEW s \in Seq(Events), NEW e \in Events, NEW r,
         ServedBy(s, r) \/ Serves(e, r)
  PROVE  ServedBy(Append(s, e), r)
<1>1. CASE ServedBy(s, r)
  <2>1. PICK i \in 1 .. Len(s) : Serves(s[i], r)
    BY <1>1 DEF ServedBy
  <2>2. i \in 1 .. Len(Append(s, e)) /\ Append(s, e)[i] = s[i]
    BY AppendAnEvent
  <2> QED BY <2>1, <2>2 DEF ServedBy
<1>2. CASE Serves(e, r)
  <2>1. Len(s) + 1 \in 1 .. Len(Append(s, e)) /\ Append(s, e)[Len(s) + 1] = e
    BY AppendAnEvent
  <2> QED BY <1>2, <2>1 DEF ServedBy
<1> QED BY <1>1, <1>2

(* What is served by a sequence and not by its head is served by the tail. *)
LEMMA TailServes ==
  ASSUME NEW s \in Seq(Events), s # << >>, NEW r,
         ServedBy(s, r), ~Serves(Head(s), r)
  PROVE  ServedBy(Tail(s), r)
<1>1. PICK i \in 1 .. Len(s) : Serves(s[i], r)
  BY DEF ServedBy
<1>2. i # 1
  BY <1>1, HeadAndTail
<1>3. /\ i - 1 \in 1 .. Len(Tail(s))
      /\ Tail(s)[i - 1] = s[(i - 1) + 1]
  BY <1>2, HeadAndTail
<1>4. (i - 1) + 1 = i
  OBVIOUS
<1> QED BY <1>1, <1>3, <1>4 DEF ServedBy

(* Order in two sequences is order in their concatenation.                 *)
LEMMA OrderOfConcatenation ==
  ASSUME NEW s \in Seq(Events), NEW t \in Seq(Events)
  PROVE  InOrder(s \o t) <=> InOrder(s) /\ InOrder(t) /\ Before(s, t)
<1>1. /\ s \o t \in Seq(Events)
      /\ Len(s \o t) = Len(s) + Len(t)
      /\ \A i \in 1 .. Len(s) : (s \o t)[i] = s[i]
      /\ \A j \in 1 .. Len(t) : (s \o t)[Len(s) + j] = t[j]
  OBVIOUS
<1>2. Len(s) \in Nat /\ Len(t) \in Nat
  OBVIOUS
<1>3. ASSUME InOrder(s \o t) PROVE InOrder(s)
  BY <1>1, <1>2, <1>3 DEF InOrder
<1>4. ASSUME InOrder(s \o t) PROVE InOrder(t)
  <2>1. SUFFICES ASSUME NEW i \in 1 .. Len(t), NEW j \in 1 .. Len(t),
                        i < j, t[i].by = t[j].by
                 PROVE  t[i].n < t[j].n
    BY DEF InOrder
  <2>2. /\ Len(s) + i \in 1 .. Len(s \o t)
        /\ Len(s) + j \in 1 .. Len(s \o t)
        /\ Len(s) + i < Len(s) + j
    BY <1>1, <1>2, <2>1
  <2> QED BY <1>1, <1>4, <2>1, <2>2 DEF InOrder
<1>5. ASSUME InOrder(s \o t) PROVE Before(s, t)
  <2>1. SUFFICES ASSUME NEW i \in 1 .. Len(s), NEW j \in 1 .. Len(t),
                        s[i].by = t[j].by
                 PROVE  s[i].n < t[j].n
    BY DEF Before
  <2>2. /\ i \in 1 .. Len(s \o t)
        /\ Len(s) + j \in 1 .. Len(s \o t)
        /\ i < Len(s) + j
    BY <1>1, <1>2
  <2> QED BY <1>1, <1>5, <2>1, <2>2 DEF InOrder
<1>6. ASSUME InOrder(s), InOrder(t), Before(s, t) PROVE InOrder(s \o t)
  <2>1. SUFFICES ASSUME NEW i \in 1 .. Len(s \o t), NEW j \in 1 .. Len(s \o t),
                        i < j, (s \o t)[i].by = (s \o t)[j].by
                 PROVE  (s \o t)[i].n < (s \o t)[j].n
    BY DEF InOrder
  <2>2. CASE j <= Len(s)
    BY <1>1, <1>2, <1>6, <2>1, <2>2 DEF InOrder
  <2>3. CASE i <= Len(s) /\ j > Len(s)
    <3>1. i \in 1 .. Len(s) /\ j - Len(s) \in 1 .. Len(t)
      BY <1>1, <1>2, <2>3
    <3>2. (s \o t)[i] = s[i] /\ (s \o t)[j] = t[j - Len(s)]
      <4>1. (s \o t)[Len(s) + (j - Len(s))] = t[j - Len(s)]
        BY <1>1, <3>1
      <4>2. Len(s) + (j - Len(s)) = j
        BY <1>2
      <4> QED BY <1>1, <3>1, <4>1, <4>2
    <3> QED BY <1>6, <2>1, <3>1, <3>2 DEF Before
  <2>4. CASE i > Len(s)
    <3>1. /\ i - Len(s) \in 1 .. Len(t) /\ j - Len(s) \in 1 .. Len(t)
          /\ i - Len(s) < j - Len(s)
      BY <1>1, <1>2, <2>1, <2>4
    <3>2. (s \o t)[i] = t[i - Len(s)] /\ (s \o t)[j] = t[j - Len(s)]
      <4>1. /\ (s \o t)[Len(s) + (i - Len(s))] = t[i - Len(s)]
            /\ (s \o t)[Len(s) + (j - Len(s))] = t[j - Len(s)]
        BY <1>1, <3>1
      <4>2. Len(s) + (j - Len(s)) = j /\ Len(s) + (i - Len(s)) = i
        BY <1>2
      <4> QED BY <4>1, <4>2
    <3> QED BY <1>6, <2>1, <3>1, <3>2 DEF InOrder
  <2> QED BY <1>1, <1>2, <2>2, <2>3, <2>4
<1> QED BY <1>3, <1>4, <1>5, <1>6

(* An event later than those of its thread in s is in order behind them.   *)
Later(e, s) == \A i \in 1 .. Len(s) : s[i].by = e.by => s[i].n < e.n

LEMMA AppendInOrder ==
  ASSUME NEW s \in Seq(Events), NEW e \in Events, InOrder(s), Later(e, s)
  PROVE  InOrder(Append(s, e))
<1> SUFFICES ASSUME NEW i \in 1 .. Len(Append(s, e)), NEW j \in 1 .. Len(Append(s, e)),
                    i < j, Append(s, e)[i].by = Append(s, e)[j].by
             PROVE  Append(s, e)[i].n < Append(s, e)[j].n
  BY DEF InOrder
<1>1. i \in 1 .. Len(s) /\ Append(s, e)[i] = s[i]
  BY AppendAnEvent
<1>2. CASE j \in 1 .. Len(s)
  BY <1>1, <1>2, AppendAnEvent DEF InOrder
<1>3. CASE j = Len(s) + 1
  BY <1>1, <1>3, AppendAnEvent DEF Later
<1> QED BY <1>2, <1>3, AppendAnEvent

LEMMA AppendBefore ==
  ASSUME NEW s \in Seq(Events), NEW t \in Seq(Events), NEW e \in Events,
         Before(s, t), Later(e, s)
  PROVE  Before(s, Append(t, e))
<1> SUFFICES ASSUME NEW i \in 1 .. Len(s), NEW j \in 1 .. Len(Append(t, e)),
                    s[i].by = Append(t, e)[j].by
             PROVE  s[i].n < Append(t, e)[j].n
  BY DEF Before
<1>1. CASE j \in 1 .. Len(t)
  BY <1>1, AppendAnEvent DEF Before
<1>2. CASE j = Len(t) + 1
  BY <1>2, AppendAnEvent DEF Later
<1> QED BY <1>1, <1>2, AppendAnEvent

(* The tail and the head of a sequence in order, and an event that moves   *)
(* from the head of one sequence to the end of the one before it.          *)
LEMMA HeadIsBeforeTail ==
  ASSUME NEW s \in Seq(Events), s # << >>, InOrder(s)
  PROVE  /\ InOrder(Tail(s))
         /\ \A j \in 1 .. Len(Tail(s)) :
              Head(s).by = Tail(s)[j].by => Head(s).n < Tail(s)[j].n
<1>1. InOrder(Tail(s))
  <2> SUFFICES ASSUME NEW i \in 1 .. Len(Tail(s)), NEW j \in 1 .. Len(Tail(s)),
                      i < j, Tail(s)[i].by = Tail(s)[j].by
               PROVE  Tail(s)[i].n < Tail(s)[j].n
    BY DEF InOrder
  <2>1. i + 1 \in 1 .. Len(s) /\ j + 1 \in 1 .. Len(s) /\ i + 1 < j + 1
    BY HeadAndTail
  <2> QED BY <2>1, HeadAndTail DEF InOrder
<1>2. ASSUME NEW j \in 1 .. Len(Tail(s)), Head(s).by = Tail(s)[j].by
      PROVE  Head(s).n < Tail(s)[j].n
  <2>1. 1 \in 1 .. Len(s) /\ j + 1 \in 1 .. Len(s) /\ 1 < j + 1
    BY HeadAndTail
  <2> QED BY <1>2, <2>1, HeadAndTail DEF InOrder
<1> QED BY <1>1, <1>2

LEMMA TailBefore ==
  ASSUME NEW s \in Seq(Events), NEW t \in Seq(Events), t # << >>
  PROVE  /\ Before(t, s) => Before(Tail(t), s)
         /\ Before(s, t) => Before(s, Tail(t)) /\ Later(Head(t), s)
<1>1. \A i \in 1 .. Len(Tail(t)) : i + 1 \in 1 .. Len(t) /\ Tail(t)[i] = t[i + 1]
  BY HeadAndTail
<1>2. Before(t, s) => Before(Tail(t), s)
  BY <1>1 DEF Before
<1>3. Before(s, t) => Before(s, Tail(t))
  BY <1>1 DEF Before
<1>4. Before(s, t) => Later(Head(t), s)
  BY HeadAndTail DEF Before, Later
<1> QED BY <1>2, <1>3, <1>4
-----------------------------------------------------------------------------
LEMMA EventTypes ==
  /\ StopEvent \in Events
  /\ TypeOK => \A t \in Threads, key \in Keys \cup {NoKey} : NextEvent(t, key) \in Events
BY DEF StopEvent, NextEvent, Event, Events, TypeOK

LEMMA TypeStep == TypeOK /\ [Next]_vars => TypeOK'
<1> SUFFICES ASSUME TypeOK, [Next]_vars PROVE TypeOK'
  OBVIOUS
<1> USE DEF TypeOK
<1>1. ASSUME NEW t \in Threads, marshallEvent(t) PROVE TypeOK'
  <2>1. NextEvent(t, NoKey) \in Events
    BY EventTypes
  <2>2. items' \in Seq(Events) /\ uniqueKeys' = uniqueKeys
    BY <1>1, <2>1, AppendAnEvent DEF marshallEvent, add
  <2> QED BY <1>1, <2>1, <2>2 DEF marshallEvent, Ask, loopVars
<1>2. ASSUME NEW t \in Threads, NEW key \in Keys, marshallUniqueEvent(t, key)
      PROVE  TypeOK'
  <2>1. NextEvent(t, key) \in Events /\ NextEvent(t, key).key = key
    BY EventTypes DEF NextEvent, Event
  <2>2. items' \in Seq(Events) /\ uniqueKeys' \in SUBSET Keys /\ adding' \in SUBSET Threads
    <3>1. CASE key \in uniqueKeys
      BY <1>2, <3>1 DEF marshallUniqueEvent, queueVars
    <3>2. CASE key \notin uniqueKeys
      BY <1>2, <2>1, <3>2, AppendAnEvent DEF marshallUniqueEvent, addUnique
    <3> QED BY <3>1, <3>2
  <2> QED BY <1>2, <2>1, <2>2 DEF marshallUniqueEvent, Ask, loopVars
<1>3. ASSUME NEW t \in Threads, Signal(t) PROVE TypeOK'
  BY <1>3 DEF Signal, uv_async_send, loopVars, queueVars
<1>4. CASE uv_async_init \/ StartRunning \/ EndLoop
  BY <1>4 DEF uv_async_init, StartRunning, EndLoop, LoopStep, uv_async_send, queueVars
<1>5. CASE processMarshalledEvents
  BY <1>5 DEF processMarshalledEvents, getItems
<1>6. CASE RunEvent
  <2>1. batch' \in Seq(Events) /\ ran' \in Seq(Events)
    BY <1>6, HeadAndTail, AppendAnEvent DEF RunEvent
  <2> QED BY <1>6, <2>1 DEF RunEvent, queueVars
<1>7. CASE EventThrows
  <2>1. batch' \in Seq(Events) /\ ran' \in Seq(Events)
    BY <1>7, HeadAndTail, AppendAnEvent DEF EventThrows
  <2> QED BY <1>7, <2>1 DEF EventThrows, queueVars
<1>8. CASE setStopLoop \/ signalStop \/ uv_thread_join
  BY <1>8 DEF setStopLoop, signalStop, uv_thread_join, DestructorStep, uv_async_send,
              loopVars, queueVars
<1>9. CASE marshallStop
  <2>1. items' \in Seq(Events)
    BY <1>9, EventTypes, AppendAnEvent DEF marshallStop, add
  <2> QED BY <1>9, <2>1 DEF marshallStop, add, DestructorStep, loopVars
<1>10. CASE UNCHANGED vars
  BY <1>10 DEF vars, loopVars, queueVars
<1> QED
  BY <1>1, <1>2, <1>3, <1>4, <1>5, <1>6, <1>7, <1>8, <1>9, <1>10
  DEF Next, ThreadStep, LoopThreadStep, DestructorThreadStep, Destroyed
-----------------------------------------------------------------------------
(***************************************************************************)
(* The wake-up survives every step: what is added is about to be signalled *)
(* by the thread that added it, and the loop signals itself before it      *)
(* starts to take signals.                                                 *)
(***************************************************************************)
LEMMA WakeUpStep == TypeOK /\ NoLostWakeUp /\ [Next]_vars => NoLostWakeUp'
<1> SUFFICES ASSUME TypeOK, NoLostWakeUp, [Next]_vars PROVE NoLostWakeUp'
  OBVIOUS
<1> USE DEF NoLostWakeUp
<1>1. ASSUME NEW t \in Threads, marshallEvent(t) PROVE NoLostWakeUp'
  BY <1>1 DEF marshallEvent
<1>2. ASSUME NEW t \in Threads, NEW key \in Keys, marshallUniqueEvent(t, key)
      PROVE  NoLostWakeUp'
  <2>1. CASE key \in uniqueKeys
    BY <1>2, <2>1 DEF marshallUniqueEvent, Ask, loopVars, queueVars
  <2>2. CASE key \notin uniqueKeys
    BY <1>2, <2>2 DEF marshallUniqueEvent
  <2> QED BY <2>1, <2>2
<1>3. ASSUME NEW t \in Threads, Signal(t) PROVE NoLostWakeUp'
  BY <1>3 DEF Signal, uv_async_send, loopVars, TypeOK
<1>4. CASE uv_async_init \/ StartRunning \/ EndLoop
  BY <1>4 DEF uv_async_init, StartRunning, EndLoop, LoopStep, uv_async_send
<1>5. CASE processMarshalledEvents
  BY <1>5 DEF processMarshalledEvents, getItems
<1>6. CASE RunEvent \/ EventThrows
  BY <1>6 DEF RunEvent, EventThrows, queueVars
<1>7. CASE setStopLoop \/ uv_thread_join
  BY <1>7 DEF setStopLoop, uv_thread_join, DestructorStep, loopVars, queueVars
<1>8. CASE marshallStop
  BY <1>8 DEF marshallStop, DestructorStep
<1>9. CASE signalStop
  BY <1>9 DEF signalStop, DestructorStep, uv_async_send, loopVars, TypeOK
<1>10. CASE UNCHANGED vars
  BY <1>10 DEF vars, loopVars, queueVars
<1> QED
  BY <1>1, <1>2, <1>3, <1>4, <1>5, <1>6, <1>7, <1>8, <1>9, <1>10
  DEF Next, ThreadStep, LoopThreadStep, DestructorThreadStep, Destroyed
-----------------------------------------------------------------------------
(***************************************************************************)
(* Requests: a key that is registered stands for an event in the queue,    *)
(* which is run after the thread that found the key there asked.           *)
(***************************************************************************)
RequestInv == KeysAreQueued /\ NoRequestIsForgotten

LEMMA RequestStep == TypeOK /\ RequestInv /\ [Next]_vars => RequestInv'
<1> SUFFICES ASSUME TypeOK, RequestInv, [Next]_vars PROVE RequestInv'
  OBVIOUS
<1> USE DEF RequestInv
<1> items \in Seq(Events) /\ batch \in Seq(Events)
  BY DEF TypeOK
<1>1. ASSUME NEW e \in Events, items' = Append(items, e), UNCHANGED batch,
             uniqueKeys' \subseteq uniqueKeys \cup {e.key},
             owed' \subseteq owed \cup {e},
             uniqueKeys' = uniqueKeys \/ e.key \in uniqueKeys'
      PROVE  RequestInv'
  <2>1. KeysAreQueued'
    <3> SUFFICES ASSUME NEW key \in uniqueKeys'
                 PROVE  \E i \in 1 .. Len(items') : items'[i].key = key
      BY DEF KeysAreQueued
    <3>1. CASE key \in uniqueKeys
      <4>1. PICK i \in 1 .. Len(items) : items[i].key = key
        BY <3>1 DEF KeysAreQueued
      <4> QED BY <1>1, <4>1, AppendAnEvent
    <3>2. CASE key = e.key
      BY <1>1, <3>2, AppendAnEvent
    <3> QED BY <1>1, <3>1, <3>2
  <2>2. NoRequestIsForgotten'
    <3> SUFFICES ASSUME NEW r \in owed'
                 PROVE  ServedBy(items', r) \/ ServedBy(batch', r)
      BY DEF NoRequestIsForgotten, ServedBy, Serves
    <3>1. CASE r \in owed /\ ServedBy(batch, r)
      BY <1>1, <3>1
    <3>2. CASE r \in owed /\ ServedBy(items, r)
      BY <1>1, <3>2, AppendServes
    <3>3. CASE r = e
      <4>1. Serves(e, r)
        BY <3>3 DEF Serves
      <4> QED BY <1>1, <4>1, AppendServes
    <3> QED BY <1>1, <3>1, <3>2, <3>3 DEF NoRequestIsForgotten
  <2> QED BY <2>1, <2>2
<1>2. ASSUME UNCHANGED <<queueVars, batch, owed>> PROVE RequestInv'
  BY <1>2 DEF queueVars, KeysAreQueued, NoRequestIsForgotten, ServedBy
<1>3. ASSUME NEW t \in Threads, marshallEvent(t) PROVE RequestInv'
  <2>1. NextEvent(t, NoKey) \in Events
    BY EventTypes
  <2> QED BY <1>1, <1>3, <2>1 DEF marshallEvent, add, Ask, loopVars
<1>4. ASSUME NEW t \in Threads, NEW key \in Keys, marshallUniqueEvent(t, key)
      PROVE  RequestInv'
  <2>1. NextEvent(t, key) \in Events /\ NextEvent(t, key).key = key
    BY EventTypes DEF NextEvent, Event
  <2>2. UNCHANGED batch /\ owed' = owed \cup {NextEvent(t, key)}
    BY <1>4 DEF marshallUniqueEvent, Ask, loopVars
  <2>3. CASE key \in uniqueKeys
    <3>1. UNCHANGED queueVars
      BY <1>4, <2>3 DEF marshallUniqueEvent, queueVars
    <3>2. PICK i \in 1 .. Len(items) : items[i].key = key
      BY <2>3 DEF KeysAreQueued
    <3>3. ServedBy(items, NextEvent(t, key))
      BY <2>1, <3>2, LoopAssumption DEF ServedBy, Serves
    <3> QED
      BY <2>2, <3>1, <3>3 DEF queueVars, KeysAreQueued, NoRequestIsForgotten, ServedBy
  <2>4. CASE key \notin uniqueKeys
    BY <1>1, <1>4, <2>1, <2>2, <2>4 DEF marshallUniqueEvent, addUnique
  <2> QED BY <2>3, <2>4
<1>5. ASSUME NEW t \in Threads, Signal(t) PROVE RequestInv'
  BY <1>2, <1>5 DEF Signal, loopVars
<1>6. CASE uv_async_init \/ StartRunning \/ EndLoop
  BY <1>2, <1>6 DEF uv_async_init, StartRunning, EndLoop, LoopStep
<1>7. CASE processMarshalledEvents
  <2>1. KeysAreQueued'
    BY <1>7 DEF processMarshalledEvents, getItems, KeysAreQueued
  <2>2. batch = << >> /\ batch' = items /\ UNCHANGED owed
    BY <1>7 DEF processMarshalledEvents, getItems
  <2>3. \A r : ~ServedBy(batch, r)
    BY <2>2 DEF ServedBy
  <2>4. NoRequestIsForgotten'
    BY <2>2, <2>3 DEF NoRequestIsForgotten, ServedBy
  <2> QED BY <2>1, <2>4
<1>8. CASE RunEvent
  <2>1. KeysAreQueued' /\ UNCHANGED items
    BY <1>8 DEF RunEvent, queueVars, KeysAreQueued
  <2>2. /\ batch # << >> /\ batch' = Tail(batch)
        /\ owed' = {r \in owed : ~Serves(Head(batch), r)}
    BY <1>8 DEF RunEvent
  <2>3. ASSUME NEW r \in owed' PROVE ServedBy(items', r) \/ ServedBy(batch', r)
    <3>1. r \in owed /\ ~Serves(Head(batch), r)
      BY <2>2
    <3>2. CASE ServedBy(items, r)
      BY <2>1, <3>2
    <3>3. CASE ServedBy(batch, r)
      BY <2>2, <3>1, <3>3, TailServes
    <3> QED BY <3>1, <3>2, <3>3 DEF NoRequestIsForgotten
  <2>4. NoRequestIsForgotten'
    BY <2>3 DEF NoRequestIsForgotten, ServedBy
  <2> QED BY <2>1, <2>4
<1>9. CASE EventThrows
  BY <1>9 DEF EventThrows, queueVars, KeysAreQueued, NoRequestIsForgotten, ServedBy
<1>10. CASE setStopLoop \/ signalStop \/ uv_thread_join
  BY <1>2, <1>10 DEF setStopLoop, signalStop, uv_thread_join, DestructorStep, loopVars
<1>11. CASE marshallStop
  BY <1>1, <1>11, EventTypes DEF marshallStop, add, DestructorStep, loopVars
<1>12. CASE UNCHANGED vars
  BY <1>2, <1>12 DEF vars, loopVars
<1> QED
  BY <1>3, <1>4, <1>5, <1>6, <1>7, <1>8, <1>9, <1>10, <1>11, <1>12
  DEF Next, ThreadStep, LoopThreadStep, DestructorThreadStep, Destroyed
-----------------------------------------------------------------------------
(***************************************************************************)
(* Order: a new event has a number beyond all those its thread has used.   *)
(***************************************************************************)
OrderInv == EventsAreIssued /\ OrderAtEachStage

LEMMA OrderStep == TypeOK /\ OrderInv /\ [Next]_vars => OrderInv'
<1> SUFFICES ASSUME TypeOK, OrderInv, [Next]_vars PROVE OrderInv'
  OBVIOUS
<1> USE DEF OrderInv
<1> items \in Seq(Events) /\ batch \in Seq(Events) /\ ran \in Seq(Events)
  BY DEF TypeOK
<1>1. ASSUME NEW e \in Events, items' = Append(items, e), UNCHANGED <<ran, batch>>,
             Issued(e)',
             \A d \in Events : Issued(d) => Issued(d)' /\ (d.by = e.by => d.n < e.n)
      PROVE  OrderInv'
  <2>1. /\ \A i \in 1 .. Len(ran) : ran[i] \in Events
        /\ \A i \in 1 .. Len(batch) : batch[i] \in Events
        /\ \A i \in 1 .. Len(items) : items[i] \in Events
    OBVIOUS
  <2>2. Later(e, ran) /\ Later(e, batch) /\ Later(e, items)
    BY <1>1, <2>1 DEF Later, EventsAreIssued
  <2>3. OrderAtEachStage'
    <3>1. InOrder(items')
      BY <1>1, <2>2, AppendInOrder DEF OrderAtEachStage
    <3>2. Before(ran, items') /\ Before(batch, items')
      BY <1>1, <2>2, AppendBefore DEF OrderAtEachStage
    <3> QED BY <1>1, <3>1, <3>2 DEF OrderAtEachStage, InOrder, Before
  <2>4. /\ \A i \in 1 .. Len(ran) : Issued(ran[i])'
        /\ \A i \in 1 .. Len(batch) : Issued(batch[i])'
    BY <1>1, <2>1 DEF EventsAreIssued, Issued
  <2>5. \A i \in 1 .. Len(items') : Issued(items[i])'
    <3> SUFFICES ASSUME NEW i \in 1 .. Len(items') PROVE Issued(items[i])'
      OBVIOUS
    <3>1. CASE i \in 1 .. Len(items)
      <4>1. items'[i] = items[i] /\ items[i] \in Events /\ Issued(items[i])
        BY <1>1, <3>1, AppendAnEvent DEF EventsAreIssued
      <4> QED BY <1>1, <4>1 DEF Issued
    <3>2. CASE i = Len(items) + 1
      BY <1>1, <3>2, AppendAnEvent DEF Issued
    <3> QED BY <1>1, <3>1, <3>2, AppendAnEvent
  <2> QED BY <1>1, <2>3, <2>4, <2>5 DEF EventsAreIssued, Issued
<1>2. ASSUME UNCHANGED <<items, batch, ran, asked>>,
             destruction \in {"added", "joining", "joined"} =>
               destruction' \in {"added", "joining", "joined"}
      PROVE  OrderInv'
  BY <1>2 DEF EventsAreIssued, Issued, OrderAtEachStage, InOrder, Before
<1>3. ASSUME NEW t \in Threads, NEW key \in Keys \cup {NoKey},
             Ask(t, key), items' = Append(items, NextEvent(t, key))
      PROVE  OrderInv'
  <2>1. PICK e \in Events : e = NextEvent(t, key)
    BY EventTypes
  <2>2. /\ e.by = t /\ e.n = asked[t] + 1 /\ t # Destructor
        /\ asked' = [asked EXCEPT ![t] = @ + 1] /\ UNCHANGED <<ran, batch, destruction>>
    BY <1>3, <2>1, LoopAssumption DEF NextEvent, Event, Ask, loopVars
  <2>3. asked \in [Threads -> Nat]
    BY DEF TypeOK
  <2>4. Issued(e)'
    BY <2>2, <2>3 DEF Issued
  <2>5. ASSUME NEW d \in Events, Issued(d)
        PROVE  Issued(d)' /\ (d.by = e.by => d.n < e.n)
    <3>1. d.n \in Nat /\ d.by \in Threads \cup {Destructor}
      BY DEF Events
    <3>2. CASE d.by = Destructor
      BY <2>2, <2>5, <3>2 DEF Issued
    <3>3. CASE d.by = t
      BY <2>2, <2>3, <2>5, <3>1, <3>3 DEF Issued
    <3>4. CASE d.by \in Threads \ {t}
      BY <2>2, <2>3, <2>5, <3>4, LoopAssumption DEF Issued
    <3> QED BY <3>1, <3>2, <3>3, <3>4
  <2>6. items' = Append(items, e)
    BY <1>3, <2>1
  <2> QED BY <1>1, <2>2, <2>4, <2>5, <2>6
<1>4. ASSUME NEW t \in Threads, marshallEvent(t) PROVE OrderInv'
  BY <1>3, <1>4 DEF marshallEvent, add
<1>5. ASSUME NEW t \in Threads, NEW key \in Keys, marshallUniqueEvent(t, key)
      PROVE  OrderInv'
  <2>1. CASE key \in uniqueKeys
    <3>1. /\ UNCHANGED <<items, batch, ran, destruction>>
          /\ asked' = [asked EXCEPT ![t] = @ + 1]
      BY <1>5, <2>1 DEF marshallUniqueEvent, Ask, loopVars, queueVars
    <3>2. OrderAtEachStage'
      BY <3>1 DEF OrderAtEachStage, InOrder, Before
    <3>3. ASSUME NEW d \in Events, Issued(d) PROVE Issued(d)'
      <4>1. asked \in [Threads -> Nat] /\ d.n \in Nat /\ d.by \in Threads \cup {Destructor}
        BY DEF Events, TypeOK
      <4>2. CASE d.by = Destructor
        BY <3>1, <3>3, <4>2 DEF Issued
      <4>3. CASE d.by \in Threads
        BY <3>1, <3>3, <4>1, <4>3, LoopAssumption DEF Issued
      <4> QED BY <4>1, <4>2, <4>3
    <3>4. EventsAreIssued'
      <4>1. /\ \A i \in 1 .. Len(ran) : ran[i] \in Events
            /\ \A i \in 1 .. Len(batch) : batch[i] \in Events
            /\ \A i \in 1 .. Len(items) : items[i] \in Events
        OBVIOUS
      <4> QED BY <3>1, <3>3, <4>1 DEF EventsAreIssued, Issued
    <3> QED BY <3>2, <3>4
  <2>2. CASE key \notin uniqueKeys
    BY <1>3, <1>5, <2>2 DEF marshallUniqueEvent, addUnique
  <2> QED BY <2>1, <2>2
<1>6. ASSUME NEW t \in Threads, Signal(t) PROVE OrderInv'
  BY <1>2, <1>6 DEF Signal, loopVars, queueVars
<1>7. CASE uv_async_init \/ StartRunning \/ EndLoop
  BY <1>2, <1>7 DEF uv_async_init, StartRunning, EndLoop, LoopStep, queueVars
<1>8. CASE processMarshalledEvents
  BY <1>8 DEF processMarshalledEvents, getItems, EventsAreIssued, Issued,
              OrderAtEachStage, InOrder, Before
<1>9. CASE setStopLoop \/ signalStop \/ uv_thread_join
  BY <1>2, <1>9 DEF setStopLoop, signalStop, uv_thread_join, DestructorStep, loopVars,
                    queueVars
<1>10. CASE marshallStop
  <2>1. /\ items' = Append(items, StopEvent) /\ UNCHANGED <<ran, batch, asked>>
        /\ destruction = "stopLoop" /\ destruction' = "added"
    BY <1>10 DEF marshallStop, add, DestructorStep, loopVars
  <2>2. StopEvent.by = Destructor
    BY DEF StopEvent, Event
  <2> QED BY <1>1, <2>1, <2>2, EventTypes DEF Issued
<1>11. CASE UNCHANGED vars
  BY <1>2, <1>11 DEF vars, loopVars, queueVars
<1>12. ASSUME batch # << >>, ran' = Append(ran, Head(batch)),
              batch' \in {Tail(batch), << >>}, UNCHANGED <<items, asked, destruction>>
       PROVE  OrderInv'
  <2>1. PICK e \in Events : e = Head(batch)
    BY <1>12, HeadAndTail
  <2>2. /\ Later(e, ran) /\ Before(ran, Tail(batch)) /\ Before(Tail(batch), items)
        /\ InOrder(Tail(batch))
        /\ \A j \in 1 .. Len(Tail(batch)) :
              e.by = Tail(batch)[j].by => e.n < Tail(batch)[j].n
    BY <1>12, <2>1, TailBefore, HeadIsBeforeTail DEF OrderAtEachStage
  <2>3. \A j \in 1 .. Len(items) : e.by = items[j].by => e.n < items[j].n
    <3>1. 1 \in 1 .. Len(batch) /\ e = batch[1] /\ Before(batch, items)
      BY <1>12, <2>1, HeadAndTail DEF OrderAtEachStage
    <3> QED BY <3>1 DEF Before
  <2>4. InOrder(ran')
    BY <1>12, <2>1, <2>2, AppendInOrder DEF OrderAtEachStage
  <2>5. Before(ran', Tail(batch)) /\ Before(ran', items)
    <3>1. ASSUME NEW s, Before(ran, s),
                 \A j \in 1 .. Len(s) : e.by = s[j].by => e.n < s[j].n
          PROVE  Before(Append(ran, e), s)
      <4> SUFFICES ASSUME NEW i \in 1 .. Len(Append(ran, e)), NEW j \in 1 .. Len(s),
                          Append(ran, e)[i].by = s[j].by
                   PROVE  Append(ran, e)[i].n < s[j].n
        BY DEF Before
      <4>1. CASE i \in 1 .. Len(ran)
        BY <3>1, <4>1, AppendAnEvent DEF Before
      <4>2. CASE i = Len(ran) + 1
        BY <3>1, <4>2, AppendAnEvent
      <4> QED BY <4>1, <4>2, AppendAnEvent
    <3>2. Before(Append(ran, e), Tail(batch))
      BY <2>2, <3>1
    <3>3. Before(Append(ran, e), items)
      BY <2>3, <3>1 DEF OrderAtEachStage
    <3> QED BY <1>12, <2>1, <3>2, <3>3
  <2>6. OrderAtEachStage'
    <3>1. /\ InOrder(batch') /\ Before(ran', batch') /\ Before(batch', items)
      <4>1. CASE batch' = Tail(batch)
        BY <2>2, <2>5, <4>1
      <4>2. CASE batch' = << >>
        BY <4>2 DEF InOrder, Before
      <4> QED BY <1>12, <4>1, <4>2
    <3>2. items' = items /\ InOrder(items)
      BY <1>12 DEF OrderAtEachStage
    <3> QED BY <2>4, <2>5, <3>1, <3>2 DEF OrderAtEachStage, InOrder, Before
  <2>7. EventsAreIssued'
    <3>1. \A i \in 1 .. Len(ran') : Issued(ran'[i])
      BY <1>12, <2>1, HeadAndTail, AppendAnEvent DEF EventsAreIssued
    <3>2. \A i \in 1 .. Len(batch') : Issued(batch'[i])
      <4>1. CASE batch' = Tail(batch)
        <5>1. \A i \in 1 .. Len(Tail(batch)) : i + 1 \in 1 .. Len(batch)
                                              /\ Tail(batch)[i] = batch[i + 1]
          BY <1>12, HeadAndTail
        <5> QED BY <4>1, <5>1 DEF EventsAreIssued
      <4>2. CASE batch' = << >>
        BY <4>2
      <4> QED BY <1>12, <4>1, <4>2
    <3> QED BY <1>12, <3>1, <3>2 DEF EventsAreIssued, Issued
  <2> QED BY <2>6, <2>7
<1>13. CASE RunEvent
  BY <1>12, <1>13 DEF RunEvent, queueVars
<1>14. CASE EventThrows
  BY <1>12, <1>14 DEF EventThrows, queueVars
<1> QED
  BY <1>4, <1>5, <1>6, <1>7, <1>8, <1>9, <1>10, <1>11, <1>13, <1>14
  DEF Next, ThreadStep, LoopThreadStep, DestructorThreadStep, Destroyed
-----------------------------------------------------------------------------
LEMMA InitIInv == Init => IInv
<1> SUFFICES ASSUME Init PROVE IInv
  OBVIOUS
<1> USE DEF Init
<1>1. TypeOK
  <2>1. << >> \in Seq(Events)
    OBVIOUS
  <2>2. [t \in Threads |-> 0] \in [Threads -> Nat]
    OBVIOUS
  <2> QED BY <2>1, <2>2 DEF TypeOK
<1>2. KeysAreQueued /\ NoRequestIsForgotten /\ NoLostWakeUp
  BY DEF KeysAreQueued, NoRequestIsForgotten, NoLostWakeUp, ServedBy
<1>3. EventsAreIssued /\ OrderAtEachStage
  BY DEF EventsAreIssued, OrderAtEachStage, InOrder, Before
<1> QED BY <1>1, <1>2, <1>3 DEF IInv

(***************************************************************************)
(* The inductive invariant holds in every state of a loop (UVLoop.cpp,     *)
(* ThreadsafeConsumableQueue.h).                                           *)
(***************************************************************************)
THEOREM Safety == Spec => []IInv
<1>1. Init => IInv
  BY InitIInv
<1>2. IInv /\ [Next]_vars => IInv'
  BY TypeStep, WakeUpStep, RequestStep, OrderStep DEF IInv, RequestInv, OrderInv
<1> QED BY <1>1, <1>2, PTL DEF Spec

(***************************************************************************)
(* Every variable of a loop has its type in every state.                   *)
(***************************************************************************)
THEOREM TypeCorrect == Spec => []TypeOK
<1>1. IInv => TypeOK
  BY DEF IInv
<1> QED BY <1>1, Safety, PTL

(***************************************************************************)
(* No request is forgotten because its key is registered                   *)
(* (marshallUniqueEvent, Socket::write).                                   *)
(***************************************************************************)
THEOREM NoRequestIsForgottenHolds == Spec => []NoRequestIsForgotten
<1>1. IInv => NoRequestIsForgotten
  BY DEF IInv
<1> QED BY <1>1, Safety, PTL

(***************************************************************************)
(* The queue of a loop never waits for a signal nobody will send           *)
(* (marshallEvent, threadEntryPoint).                                      *)
(***************************************************************************)
THEOREM NoLostWakeUpHolds == Spec => []NoLostWakeUp
<1>1. IInv => NoLostWakeUp
  BY DEF IInv
<1> QED BY <1>1, Safety, PTL

(***************************************************************************)
(* Events of one thread run in its order and once, whatever exceptions     *)
(* skip (processMarshalledEvents).                                         *)
(***************************************************************************)
THEOREM EventsRunInOrderHolds == Spec => []EventsRunInOrder
<1>1. IInv => EventsRunInOrder
  <2> SUFFICES ASSUME IInv PROVE EventsRunInOrder
    OBVIOUS
  <2>1. /\ ran \in Seq(Events) /\ batch \in Seq(Events) /\ items \in Seq(Events)
        /\ OrderAtEachStage
    BY DEF IInv, TypeOK
  <2>2. ran \o batch \in Seq(Events) /\ InOrder(ran \o batch)
    BY <2>1, OrderOfConcatenation DEF OrderAtEachStage
  <2>3. Before(ran \o batch, items)
    <3> SUFFICES ASSUME NEW i \in 1 .. Len(ran \o batch), NEW j \in 1 .. Len(items),
                        (ran \o batch)[i].by = items[j].by
                 PROVE  (ran \o batch)[i].n < items[j].n
      BY DEF Before
    <3>1. CASE i <= Len(ran)
      BY <2>1, <3>1 DEF OrderAtEachStage, Before
    <3>2. CASE i > Len(ran)
      <4>1. i - Len(ran) \in 1 .. Len(batch) /\ (ran \o batch)[i] = batch[i - Len(ran)]
        BY <2>1, <3>2
      <4> QED BY <2>1, <4>1 DEF OrderAtEachStage, Before
    <3> QED BY <2>1, <3>1, <3>2
  <2> QED BY <2>1, <2>2, <2>3, OrderOfConcatenation DEF OrderAtEachStage, EventsRunInOrder
<1> QED BY <1>1, Safety, PTL
=============================================================================
