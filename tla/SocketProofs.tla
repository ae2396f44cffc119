---------------------------- MODULE SocketProofs ----------------------------
(***************************************************************************)
(* What a Socket writes is sent once, in order and whole; what it reads is *)
(* what was sent; and a socket that moves from one UV loop to another is   *)
(* never in the hands of both loops at once, and moveToLoop's callbacks    *)
(* find it alive: for any set of writers, any sizes of messages and of     *)
(* buffers, and any number of messages, reads and writes.                  *)
(*                                                                         *)
(* The properties are not inductive.  That no handler runs on the loop the *)
(* socket has left follows from how the move is ordered: reading stops and *)
(* the connection is taken before the handle is closed, the handle is      *)
(* closed before the socket is registered with the new loop, and until     *)
(* then nobody but the client has had the socket to write to it.  IInv     *)
(* says so stage by stage.                                                 *)
(*                                                                         *)
(* The bytes rest on IInv: only a loop that runs a handler has requests,   *)
(* so there is one queue of them at a time (Buffered), and a chunk is      *)
(* parsed on the loop of the socket before the next is read (Parsing).     *)
(* That coalescing, splitting and patching keep the bytes, and that the    *)
(* reader finds the sizes among them, are lemmas about Framing.  Its folds *)
(* and FlattenSeq are CHOOSEn functions: that they exist is shown first.   *)
(***************************************************************************)
EXTENDS Socket, SequenceTheorems, WellFoundedInduction, FiniteSetTheorems, TLAPS

(* What is left to do of a callback: those that start a connection, and    *)
(* the others.                                                             *)
Connecting == {<<"take", "send", "read">>, <<"send", "read">>, <<"read">>}
Handlers   ==
  Connecting \cup {<< >>, <<"take", "send">>, <<"send">>, <<"parse">>, <<"acknowledge">>}

(* The variables that the argument needs, with their values.               *)
Types ==
  /\ kind \in {"accepted", "outgoing"}
  /\ stage \in {"created", "resolving", "connecting", "failed", "stuck", "connected",
                "closing", "registering", "moved", "unmoved"}
  /\ loop \in Loops /\ handle \in {loop, Nowhere}
  /\ reading \in BOOLEAN /\ connected \in BOOLEAN /\ destroyed \in BOOLEAN
  /\ wroteEarly \in BOOLEAN /\ saidGoodbye \in BOOLEAN
  /\ callback \in {"gateway", "service", "user"}
  /\ owners \subseteq {"gateway", "service", "user"}
  /\ task \in [Loops -> Handlers]
  /\ requests = [l \in Loops |-> requests[l]]
  /\ writeEvents \subseteq Loops
  /\ inFlight \in Nat

(* moveToLoop has begun and the socket still belongs to its old loop.      *)
Leaving == stage = "closing" \/ (stage = "registering" /\ loop = "old")

(* Only an accepted socket moves; who it reports to tells how far it is,   *)
(* and the gateway is told only before the move.                           *)
Sides ==
  /\ stage \in {"closing", "registering", "moved", "unmoved"} => kind = "accepted"
  /\ stage \in {"resolving", "connecting", "failed"} => kind = "outgoing"
  /\ kind = "outgoing" => loop = "old" /\ callback = "user"
  /\ loop = "new" => stage \in {"registering", "moved", "stuck"}
  /\ stage = "moved" => loop = "new"
  /\ callback = "gateway" =>
       kind = "accepted" /\ loop = "old" /\ stage \in {"created", "stuck", "connected"}
  /\ Leaving => callback = "service"
  /\ reading => handle # Nowhere

(* Which callback may be at work at which stage, and on which loop.        *)
Handling ==
  /\ \A l \in Loops : task[l] \in Connecting =>
       /\ ~destroyed /\ handle = loop
       /\ \/ l = "old" /\ loop = "old" /\ stage \in {"created", "connecting"}
          \/ l = "new" /\ loop = "new" /\ stage = "registering"
  /\ stage = "connecting" /\ ~destroyed => handle = loop
  /\ \A l \in Loops : task[l] = <<"acknowledge">> => loop = "new"
  /\ stage = "registering" /\ loop = "new" => task["new"] \in Connecting
  /\ stage = "registering" /\ loop = "old" => Idle("old") /\ handle = Nowhere
  /\ stage = "closing" => task["old"] \in {<< >>, <<"parse">>}
  /\ Leaving => ~reading /\ ~connected

(* The loop the socket is not on has nothing to do for it, unless a write  *)
(* event went to the old loop before the move was over (wroteEarly).       *)
Separation ==
  /\ loop = "old" => Idle("new") /\ "new" \notin writeEvents
  /\ loop = "new" /\ ~wroteEarly => Idle("old") /\ "old" \notin writeEvents

(* Nothing is written to an accepted socket before its service manager has *)
(* it: so the move never leaves a request or a write behind.               *)
Unwritten ==
  kind = "accepted" /\ loop = "old" /\ stage # "unmoved" =>
    /\ inFlight = 0 /\ requests["old"] = << >>
    /\ ~wroteEarly => writeEvents = {}
    /\ ~Leaving => adding = {} /\ "service" \notin owners /\ queue = << >>

(* A socket is destroyed only when nothing holds it, and the service       *)
(* manager holds it while it is moved, unless the client said goodbye.     *)
(* Only its destructor asks for the handle to be closed.                   *)
Lifetime ==
  /\ destroyed => ~Alive /\ ~(kind = "accepted" /\ stage = "created")
  /\ closeEvent # Nowhere => destroyed
  /\ Leaving /\ ~saidGoodbye => "service" \in owners

IInv == Types /\ Sides /\ Handling /\ Separation /\ Unwritten /\ Lifetime
-----------------------------------------------------------------------------
(* A set of numbers that has no least element is empty.                    *)
LEMMA LeastNumber ==
  ASSUME NEW X, X \subseteq Nat, X # {}
  PROVE  \E k \in X : \A j \in X : k <= j
<1>1. PICK k \in X : \A j \in X : ~ (<<j, k>> \in OpToRel(<, Nat))
  BY WFMin, NatLessThanWellFounded
<1>2. \A j \in X : ~ (j < k)
  BY <1>1 DEF OpToRel
<1> QED BY <1>2

(* A fold over a finite set is defined, whatever order it takes.           *)
Folds(g, D, V, base, next, St) ==
  /\ g \in [SUBSET D -> V]
  /\ \A s \in SUBSET D : g[s] = IF s = {} THEN base ELSE St[<<next[s], g[s \ {next[s]}]>>]

LEMMA FoldIsDefined ==
  ASSUME NEW D, IsFiniteSet(D), NEW V, NEW base \in V,
         NEW next, \A s \in SUBSET D : s # {} => next[s] \in s,
         NEW St \in [D \X V -> V]
  PROVE  \E g : Folds(g, D, V, base, next, St)
<1> DEFINE Small(k) == {s \in SUBSET D : Cardinality(s) <= k}
           Rule(g, s) == IF s = {} THEN base ELSE St[<<next[s], g[s \ {next[s]}]>>]
           Works(g, k) == g \in [Small(k) -> V] /\ \A s \in Small(k) : g[s] = Rule(g, s)
           bad == {k \in Nat : ~ \E g : Works(g, k)}
<1>1. \A s \in SUBSET D : IsFiniteSet(s) /\ Cardinality(s) \in Nat
  BY FS_Subset, FS_CardinalityType
<1>2. bad = {}
  <2> SUFFICES ASSUME bad # {} PROVE FALSE
    OBVIOUS
  <2>1. PICK k \in bad : \A j \in bad : k <= j
    <3> bad \subseteq Nat
      OBVIOUS
    <3> HIDE DEF bad
    <3> QED BY LeastNumber
  <2>2. k \in Nat /\ ~ \E g : Works(g, k)
    OBVIOUS
  <2>3. CASE k = 0
    <3> DEFINE g == [s \in Small(0) |-> base]
    <3>1. Small(0) \subseteq {{}}
      BY <1>1, FS_EmptySet
    <3>2. Works(g, 0)
      BY <3>1
    <3> QED BY <2>2, <2>3, <3>2
  <2>4. CASE k # 0
    <3>1. k - 1 \in Nat /\ k - 1 \notin bad
      <4>1. k - 1 \in Nat /\ ~ (k <= k - 1)
        BY <2>2, <2>4
      <4> HIDE DEF bad
      <4> QED BY <2>1, <4>1
    <3>2. PICK f : Works(f, k - 1)
      BY <3>1
    <3> DEFINE g == [s \in Small(k) |-> Rule(f, s)]
    <3>3. \A s \in Small(k) : s # {} => s \ {next[s]} \in Small(k - 1) /\ s \ {next[s]} \in Small(k)
      <4> SUFFICES ASSUME NEW s \in Small(k), s # {}
                   PROVE  s \ {next[s]} \in Small(k - 1) /\ s \ {next[s]} \in Small(k)
        OBVIOUS
      <4>1. Cardinality(s \ {next[s]}) = Cardinality(s) - 1
        BY <1>1, FS_RemoveElement
      <4> QED BY <1>1, <2>2, <4>1
    <3>4. g \in [Small(k) -> V]
      <4> SUFFICES ASSUME NEW s \in Small(k) PROVE Rule(f, s) \in V
        OBVIOUS
      <4>1. CASE s = {}
        BY <4>1
      <4>2. CASE s # {}
        <5>1. next[s] \in D /\ f[s \ {next[s]}] \in V
          BY <3>2, <3>3, <4>2
        <5> QED BY <4>2, <5>1
      <4> QED BY <4>1, <4>2
    <3>5. \A s \in Small(k) : g[s] = Rule(g, s)
      <4> SUFFICES ASSUME NEW s \in Small(k), s # {} PROVE f[s \ {next[s]}] = g[s \ {next[s]}]
        OBVIOUS
      <4> DEFINE t == s \ {next[s]}
      <4>1. t \in Small(k - 1) /\ t \in Small(k)
        BY <3>3
      <4>2. f[t] = Rule(f, t)
        BY <3>2, <4>1
      <4>3. g[t] = Rule(f, t)
        BY <4>1
      <4> QED BY <4>2, <4>3
    <3> QED BY <2>2, <3>4, <3>5
  <2> QED BY <2>3, <2>4
<1>3. Cardinality(D) \in Nat /\ \A s \in SUBSET D : Cardinality(s) <= Cardinality(D)
  BY FS_Subset, FS_CardinalityType
<1>4. PICK g : Works(g, Cardinality(D))
  BY <1>2, <1>3
<1>5. Small(Cardinality(D)) = SUBSET D
  BY <1>3
<1> QED BY <1>4, <1>5 DEF Folds

(* So is recursion over the numbers up to n.                               *)
Recurs(f, n, V, base, St) ==
  /\ f \in [0 .. n -> V] /\ f[0] = base
  /\ \A i \in 1 .. n : f[i] = St[<<i, f[i - 1]>>]

LEMMA RecursionIsDefined ==
  ASSUME NEW n \in Nat, NEW V, NEW base \in V, NEW St \in [(1 .. n) \X V -> V]
  PROVE  \E f : Recurs(f, n, V, base, St)
<1> DEFINE Rule(f, i) == IF i = 0 THEN base ELSE St[<<i, f[i - 1]>>]
           Works(f, k) == f \in [0 .. k -> V] /\ \A i \in 0 .. k : f[i] = Rule(f, i)
           bad == {k \in 0 .. n : ~ \E f : Works(f, k)}
<1>1. bad = {}
  <2> SUFFICES ASSUME bad # {} PROVE FALSE
    OBVIOUS
  <2>1. PICK k \in bad : \A j \in bad : k <= j
    <3> bad \subseteq Nat
      OBVIOUS
    <3> HIDE DEF bad
    <3> QED BY LeastNumber
  <2>2. k \in 0 .. n /\ ~ \E f : Works(f, k)
    OBVIOUS
  <2>3. CASE k = 0
    <3>1. Works([i \in 0 .. 0 |-> base], 0)
      OBVIOUS
    <3> QED BY <2>2, <2>3, <3>1
  <2>4. CASE k # 0
    <3>1. k - 1 \in 0 .. n /\ k - 1 \notin bad
      BY <2>1, <2>2, <2>4
    <3>2. PICK f : Works(f, k - 1)
      BY <3>1
    <3> DEFINE g == [i \in 0 .. k |-> IF i = k THEN Rule(f, k) ELSE f[i]]
    <3>3. f[k - 1] \in V /\ Rule(f, k) \in V
      BY <2>2, <2>4, <3>2
    <3>4. g \in [0 .. k -> V]
      BY <3>2, <3>3
    <3>5. \A i \in 0 .. k : g[i] = Rule(g, i)
      <4> SUFFICES ASSUME NEW i \in 0 .. k PROVE g[i] = Rule(g, i)
        OBVIOUS
      <4>1. i # 0 => g[i - 1] = f[i - 1]
        BY <2>2, <2>4
      <4>2. g[i] = Rule(f, i)
        <5>1. CASE i = k
          BY <5>1
        <5>2. CASE i # k
          <6>1. i \in 0 .. (k - 1)
            BY <2>2, <5>2
          <6> QED BY <3>2, <6>1, <5>2
        <5> QED BY <5>1, <5>2
      <4> HIDE DEF g
      <4> QED BY <4>1, <4>2
    <3> QED BY <2>2, <3>4, <3>5
  <2> QED BY <2>3, <2>4
<1>2. PICK f : Works(f, n)
  BY <1>1
<1>3. f[0] = base /\ \A i \in 1 .. n : f[i] = St[<<i, f[i - 1]>>]
  <2>1. 0 \in 0 .. n /\ \A i \in 1 .. n : i \in 0 .. n /\ i # 0
    OBVIOUS
  <2> QED BY <1>2, <2>1
<1> QED BY <1>2, <1>3 DEF Recurs
-----------------------------------------------------------------------------
LEMMA Associates ==
  ASSUME NEW S
  PROVE  \A s \in Seq(S), t \in Seq(S), u \in Seq(S) : (s \o t) \o u = s \o (t \o u)
<1> TAKE s \in Seq(S), t \in Seq(S), u \in Seq(S)
<1> QED BY ConcatAssociative

(* Flattening a sequence step by step: what is flattened of its first i    *)
(* sequences.                                                              *)
Flattens(f, ss, S) ==
  /\ f \in [0 .. Len(ss) -> Seq(S)] /\ f[0] = << >>
  /\ \A i \in 1 .. Len(ss) : f[i] = f[i - 1] \o ss[i]

LEMMA FlattensAgree ==
  ASSUME NEW S, NEW ss \in Seq(Seq(S)), NEW tt \in Seq(Seq(S)), NEW f, NEW g,
         Flattens(f, ss, S), Flattens(g, tt, S),
         NEW n \in Nat, n <= Len(ss), n <= Len(tt), \A i \in 1 .. n : ss[i] = tt[i]
  PROVE  f[n] = g[n]
<1> DEFINE bad == {i \in 0 .. n : f[i] # g[i]}
<1>1. bad = {}
  <2> SUFFICES ASSUME bad # {} PROVE FALSE
    OBVIOUS
  <2>1. PICK k \in bad : \A j \in bad : k <= j
    <3> bad \subseteq Nat
      OBVIOUS
    <3> HIDE DEF bad
    <3> QED BY LeastNumber
  <2>2. k \in 0 .. n /\ f[k] # g[k]
    OBVIOUS
  <2>3. k # 0
    BY <2>2 DEF Flattens
  <2>4. k - 1 \in 0 .. n /\ k \in 1 .. n /\ ~ (k <= k - 1)
    BY <2>2, <2>3
  <2>5. f[k - 1] = g[k - 1]
    BY <2>1, <2>4
  <2>6. k \in 1 .. Len(ss) /\ k \in 1 .. Len(tt) /\ ss[k] = tt[k]
    BY <2>4
  <2>7. f[k] = f[k - 1] \o ss[k] /\ g[k] = g[k - 1] \o tt[k]
    BY <2>6 DEF Flattens
  <2> QED BY <2>2, <2>5, <2>6, <2>7
<1>2. n \in 0 .. n /\ n \notin bad
  BY <1>1
<1> QED BY <1>2

LEMMA FlattenSeqFlattens ==
  ASSUME NEW S, NEW ss \in Seq(Seq(S))
  PROVE  \E f : Flattens(f, ss, S) /\ FlattenSeq(ss) = f[Len(ss)]
<1> DEFINE n == Len(ss)
           Rule(h) == [i \in 1 .. n |-> IF i = 1 THEN ss[i] ELSE h[i - 1] \o ss[i]]
           flatten == CHOOSE h : h = Rule(h)
<1>1. n \in Nat /\ \A i \in 1 .. n : ss[i] \in Seq(S)
  OBVIOUS
<1>2. PICK f : Flattens(f, ss, S)
  <2> DEFINE St == [p \in (1 .. n) \X Seq(S) |-> p[2] \o ss[p[1]]]
  <2>1. St \in [(1 .. n) \X Seq(S) -> Seq(S)] /\ << >> \in Seq(S)
    BY <1>1
  <2>2. PICK f : Recurs(f, n, Seq(S), << >>, St)
    <3> DEFINE V == Seq(S)
    <3>1. n \in Nat /\ << >> \in V /\ St \in [(1 .. n) \X V -> V]
      BY <1>1, <2>1
    <3> HIDE DEF St, n, V
    <3>2. \E f : Recurs(f, n, V, << >>, St)
      BY <3>1, RecursionIsDefined
    <3> QED BY <3>2 DEF V
  <2>3. \A i \in 1 .. n : f[i] = f[i - 1] \o ss[i]
    <3> SUFFICES ASSUME NEW i \in 1 .. n PROVE f[i] = f[i - 1] \o ss[i]
      OBVIOUS
    <3>1. i - 1 \in 0 .. n
      BY <1>1
    <3>2. f[i - 1] \in Seq(S)
      BY <2>2, <3>1 DEF Recurs
    <3>3. f[i] = St[<<i, f[i - 1]>>]
      BY <2>2 DEF Recurs
    <3> QED BY <3>2, <3>3
  <2> QED BY <2>2, <2>3 DEF Flattens, Recurs
<1>3. CASE n = 0
  <2>1. ss = << >>
    BY <1>3
  <2>2. FlattenSeq(ss) = << >> /\ f[n] = << >>
    BY <1>2, <1>3, <2>1 DEF Flattens, FlattenSeq
  <2> QED BY <1>2, <2>2
<1>4. CASE n # 0
  <2>1. FlattenSeq(ss) = flatten[n]
    BY <1>4 DEF FlattenSeq
  <2>2. flatten = Rule(flatten)
    <3> DEFINE h == [i \in 1 .. n |-> f[i]]
    <3>1. \A i \in 1 .. n : h[i] = IF i = 1 THEN ss[i] ELSE h[i - 1] \o ss[i]
      <4> SUFFICES ASSUME NEW i \in 1 .. n
                   PROVE  f[i] = IF i = 1 THEN ss[i] ELSE h[i - 1] \o ss[i]
        OBVIOUS
      <4>1. f[i] = f[i - 1] \o ss[i]
        BY <1>2 DEF Flattens
      <4>2. CASE i = 1
        <5>1. f[i] = << >> \o ss[i] /\ ss[i] \in Seq(S)
          BY <1>1, <1>2, <4>1, <4>2 DEF Flattens
        <5> QED BY <4>2, <5>1
      <4>3. CASE i # 1
        <5>1. i - 1 \in 1 .. n
          BY <1>1, <4>3
        <5> QED BY <4>1, <4>3, <5>1
      <4> QED BY <4>2, <4>3
    <3>2. h = Rule(h)
      BY <3>1
    <3> HIDE DEF h, Rule
    <3> QED BY <3>2
  <2>3. \A i \in 1 .. n : flatten[i] = IF i = 1 THEN ss[i] ELSE flatten[i - 1] \o ss[i]
    <3> HIDE DEF flatten
    <3>1. \A h : h = Rule(h) => \A i \in 1 .. n : h[i] = IF i = 1 THEN ss[i] ELSE h[i - 1] \o ss[i]
      OBVIOUS
    <3> QED BY <2>2, <3>1
  <2> HIDE DEF flatten, Rule
  <2> DEFINE bad == {i \in 1 .. n : flatten[i] # f[i]}
  <2>4. bad = {}
    <3> SUFFICES ASSUME bad # {} PROVE FALSE
      OBVIOUS
    <3>1. PICK k \in bad : \A j \in bad : k <= j
      <4> bad \subseteq Nat
        OBVIOUS
      <4> HIDE DEF bad
      <4> QED BY LeastNumber
    <3>2. k \in 1 .. n /\ flatten[k] # f[k]
      OBVIOUS
    <3>3. f[k] = f[k - 1] \o ss[k]
      BY <1>2, <3>2 DEF Flattens
    <3>4. CASE k = 1
      <4>1. f[k] = << >> \o ss[k] /\ ss[k] \in Seq(S)
        BY SMTT(30), <1>1, <1>2, <3>2, <3>3, <3>4 DEF Flattens
      <4> QED BY <2>3, <3>2, <3>4, <4>1
    <3>5. CASE k # 1
      <4>1. k - 1 \in 1 .. n /\ ~ (k <= k - 1)
        BY <1>1, <3>2, <3>5
      <4>2. flatten[k - 1] = f[k - 1]
        BY <3>1, <4>1
      <4>3. flatten[k] = flatten[k - 1] \o ss[k]
        BY <2>3, <3>2, <3>5
      <4> QED BY <3>2, <3>3, <4>2, <4>3
    <3> QED BY <3>4, <3>5
  <2>5. n \in 1 .. n /\ n \notin bad
    BY <1>1, <1>4, <2>4
  <2> QED BY <1>2, <2>1, <2>5
<1> QED BY <1>3, <1>4

(* What was flattened is a sequence of the elements.                       *)
LEMMA FlattenType ==
  ASSUME NEW S, NEW ss \in Seq(Seq(S))
  PROVE  FlattenSeq(ss) \in Seq(S)
<1>1. PICK f : Flattens(f, ss, S) /\ FlattenSeq(ss) = f[Len(ss)]
  BY FlattenSeqFlattens
<1>2. Len(ss) \in 0 .. Len(ss)
  OBVIOUS
<1> QED BY <1>1, <1>2 DEF Flattens

LEMMA FlattenNothing == FlattenSeq(<< >>) = << >>
BY DEF FlattenSeq

(* One more sequence comes last.                                           *)
LEMMA FlattenAppend ==
  ASSUME NEW S, NEW ss \in Seq(Seq(S)), NEW s \in Seq(S)
  PROVE  FlattenSeq(Append(ss, s)) = FlattenSeq(ss) \o s
<1> DEFINE tt == Append(ss, s)
<1>1. /\ tt \in Seq(Seq(S)) /\ Len(tt) = Len(ss) + 1 /\ Len(ss) \in Nat
      /\ tt[Len(ss) + 1] = s /\ \A i \in 1 .. Len(ss) : tt[i] = ss[i]
  OBVIOUS
<1> HIDE DEF tt
<1>2. PICK f : Flattens(f, ss, S) /\ FlattenSeq(ss) = f[Len(ss)]
  BY FlattenSeqFlattens
<1>3. PICK g : Flattens(g, tt, S) /\ FlattenSeq(tt) = g[Len(tt)]
  BY <1>1, FlattenSeqFlattens
<1>4. g[Len(ss)] = f[Len(ss)]
  <2> DEFINE n == Len(ss)
  <2>1. n \in Nat /\ n <= Len(ss) /\ n <= Len(tt) /\ \A i \in 1 .. n : ss[i] = tt[i]
    BY <1>1
  <2>2. Flattens(f, ss, S) /\ Flattens(g, tt, S) /\ tt \in Seq(Seq(S))
    BY <1>1, <1>2, <1>3
  <2> HIDE DEF n
  <2>3. f[n] = g[n]
    BY <2>1, <2>2, FlattensAgree
  <2> QED BY <2>3 DEF n
<1>5. Len(tt) \in 1 .. Len(tt) /\ Len(tt) - 1 = Len(ss)
  BY <1>1
<1>6. g[Len(tt)] = g[Len(ss)] \o s
  BY <1>1, <1>3, <1>5 DEF Flattens
<1> QED BY <1>2, <1>3, <1>4, <1>6 DEF tt

(* The first sequence comes first.                                         *)
LEMMA FlattenHead ==
  ASSUME NEW S, NEW ss \in Seq(Seq(S)), ss # << >>
  PROVE  FlattenSeq(ss) = Head(ss) \o FlattenSeq(Tail(ss))
<1> DEFINE a  == ss[1]
           tt == Tail(ss)
           n  == Len(tt)
<1>1. /\ Head(ss) = a /\ a \in Seq(S) /\ tt \in Seq(Seq(S)) /\ Len(ss) = n + 1 /\ n \in Nat
      /\ \A i \in 1 .. n : tt[i] = ss[i + 1] /\ tt[i] \in Seq(S)
  BY HeadTailProperties
<1> HIDE DEF a, tt, n
<1>2. PICK f : Flattens(f, ss, S) /\ FlattenSeq(ss) = f[n + 1]
  BY <1>1, FlattenSeqFlattens
<1>3. PICK g : Flattens(g, tt, S) /\ FlattenSeq(tt) = g[n]
  BY <1>1, FlattenSeqFlattens DEF n
<1>4. \A i \in 1 .. n + 1 : f[i] = f[i - 1] \o ss[i]
  BY <1>1, <1>2 DEF Flattens
<1>5. g \in [0 .. n -> Seq(S)] /\ g[0] = << >> /\ \A i \in 1 .. n : g[i] = g[i - 1] \o tt[i]
  BY <1>3 DEF Flattens, n
<1>6. f[1] = a
  <2>1. 1 \in 1 .. n + 1 /\ f[0] = << >>
    BY <1>1, <1>2 DEF Flattens
  <2>2. f[1] = f[1 - 1] \o ss[1]
    BY <1>4, <2>1
  <2> QED BY <1>1, <2>1, <2>2 DEF a
<1>0. \A x \in Seq(S), y \in Seq(S) : (a \o x) \o y = a \o (x \o y)
  BY SMTT(30), <1>1, Associates
<1> DEFINE bad == {i \in 0 .. n : f[i + 1] # a \o g[i]}
<1>7. bad = {}
  <2> SUFFICES ASSUME bad # {} PROVE FALSE
    OBVIOUS
  <2>1. PICK k \in bad : \A j \in bad : k <= j
    <3> bad \subseteq Nat
      OBVIOUS
    <3> HIDE DEF bad
    <3> QED BY LeastNumber
  <2>2. k \in 0 .. n /\ f[k + 1] # a \o g[k]
    OBVIOUS
  <2>3. CASE k = 0
    <3>1. f[k + 1] = a /\ g[k] = << >>
      BY <1>5, <1>6, <2>3
    <3> QED BY <1>1, <2>2, <3>1
  <2>4. CASE k # 0
    <3>1. k - 1 \in 0 .. n /\ k \in 1 .. n /\ ~ (k <= k - 1) /\ (k - 1) + 1 = k /\ k + 1 \in 1 .. n + 1
          /\ (k + 1) - 1 = k /\ k + 1 - 1 = k
      BY <1>1, <2>2, <2>4
    <3>2. f[k] = a \o g[k - 1]
      BY <2>1, <3>1
    <3>3. f[k + 1] = f[k] \o tt[k] /\ g[k] = g[k - 1] \o tt[k]
      <4>1. f[k + 1] = f[k + 1 - 1] \o ss[k + 1]
        BY <1>4, <3>1
      <4>2. ss[k + 1] = tt[k]
        BY <1>1, <3>1
      <4> QED BY <1>5, <3>1, <4>1, <4>2
    <3>4. a \in Seq(S) /\ g[k - 1] \in Seq(S) /\ tt[k] \in Seq(S)
      BY <1>1, <1>5, <3>1
    <3>5. (a \o g[k - 1]) \o tt[k] = a \o (g[k - 1] \o tt[k])
      BY <3>4, <1>0
    <3> QED BY <2>2, <3>2, <3>3, <3>5
  <2> QED BY <2>3, <2>4
<1>8. n \in 0 .. n
  BY <1>1
<1>9. f[n + 1] = a \o g[n]
  BY <1>7, <1>8
<1> QED BY <1>1, <1>2, <1>3, <1>9 DEF tt
-----------------------------------------------------------------------------
(* The numbers that FoldLeft and FoldRight take one after the other.       *)
LEMMA MaxIsThere ==
  ASSUME NEW n \in Nat, NEW s, s \subseteq 1 .. n, s # {}
  PROVE  Max(s) \in s /\ \A y \in s : y <= Max(s)
<1> DEFINE X == {n - y : y \in s}
<1>0. \A y \in s : y \in 1 .. n
  OBVIOUS
<1>1. X \subseteq Nat /\ X # {}
  <2>1. \A y \in s : n - y \in Nat
    BY <1>0
  <2> QED BY <2>1
<1>2. PICK k \in X : \A j \in X : k <= j
  <2> HIDE DEF X
  <2> QED BY <1>1, LeastNumber
<1>3. PICK x \in s : k = n - x
  OBVIOUS
<1>4. \A y \in s : x >= y
  <2> SUFFICES ASSUME NEW y \in s PROVE x >= y
    OBVIOUS
  <2>1. n - x <= n - y
    BY <1>2, <1>3
  <2> QED BY <1>0, <2>1
<1>5. Max(s) \in s /\ \A y \in s : Max(s) >= y
  BY <1>4 DEF Max
<1> QED BY <1>5

LEMMA MinIsThere ==
  ASSUME NEW s, s \subseteq Nat, s # {}
  PROVE  Min(s) \in s /\ \A y \in s : Min(s) <= y
<1>1. \E k \in s : \A j \in s : k <= j
  BY LeastNumber
<1> QED BY <1>1 DEF Min

(* What getWriteRequests has made of the first i buffers.                  *)
LEMMA FoldOfBuffers ==
  ASSUME NEW V, NoRequests \in V, NEW T, \A r \in V, b \in T : AddBuffer(r, b) \in V,
         NEW bufs \in Seq(T)
  PROVE  \E f : /\ f[0] = NoRequests
                /\ \A i \in 1 .. Len(bufs) : f[i] = AddBuffer(f[i - 1], bufs[i])
                /\ f[Len(bufs)] = FoldLeft(AddBuffer, NoRequests, bufs)
<1> DEFINE D == DOMAIN bufs
           n == Len(bufs)
           next == [s \in SUBSET D |-> IF s = {} THEN 0 ELSE Max(s)]
           St == [p \in D \X V |-> AddBuffer(p[2], bufs[p[1]])]
           Body(h) == [s \in SUBSET D |-> IF s = {} THEN NoRequests
                        ELSE LET x == Max(s) IN AddBuffer(h[s \ {x}], bufs[x])]
           it == CHOOSE h : h = Body(h)
<1>1. n \in Nat /\ D = 1 .. n /\ \A i \in 1 .. n : bufs[i] \in T
  OBVIOUS
<1>2. FoldLeft(AddBuffer, NoRequests, bufs) = it[D]
  BY DEF FoldLeft, MapThenFoldSet
<1>3. IsFiniteSet(D)
  BY <1>1, FS_Interval
<1>4. \A s \in SUBSET D : s # {} => next[s] = Max(s) /\ Max(s) \in s
  BY <1>1, MaxIsThere
<1>5. St \in [D \X V -> V] /\ \A x \in D, r \in V : St[<<x, r>>] = AddBuffer(r, bufs[x])
  BY <1>1
<1> HIDE DEF next, St
<1>6. PICK g : Folds(g, D, V, NoRequests, next, St)
  <2>1. \A s \in SUBSET D : s # {} => next[s] \in s
    BY <1>4
  <2> HIDE DEF D, Body, it
  <2> QED BY <1>3, <1>5, <2>1, FoldIsDefined
<1>7. \E h : h = Body(h)
  <2>1. \A s \in SUBSET D : g[s] = IF s = {} THEN NoRequests ELSE AddBuffer(g[s \ {Max(s)}], bufs[Max(s)])
    <3> SUFFICES ASSUME NEW s \in SUBSET D, s # {}
                 PROVE  g[s] = AddBuffer(g[s \ {Max(s)}], bufs[Max(s)])
      BY <1>6 DEF Folds
    <3>1. g[s] = St[<<next[s], g[s \ {next[s]}]>>] /\ g[s \ {Max(s)}] \in V
      BY <1>6 DEF Folds
    <3>2. next[s] = Max(s) /\ Max(s) \in D
      BY <1>4
    <3> HIDE DEF D
    <3> QED BY <1>5, <3>1, <3>2
  <2>2. g = [s \in SUBSET D |-> g[s]]
    BY <1>6 DEF Folds
  <2>3. g = Body(g)
    BY <2>1, <2>2
  <2> HIDE DEF Body
  <2> QED BY <2>3
<1>8. it = Body(it)
  <2> HIDE DEF Body
  <2> QED BY <1>7
<1>9. \A s \in SUBSET D : it[s] = IF s = {} THEN NoRequests ELSE AddBuffer(it[s \ {Max(s)}], bufs[Max(s)])
  <2> HIDE DEF it
  <2>1. \A h : h = Body(h) => \A s \in SUBSET D : h[s] = IF s = {} THEN NoRequests ELSE AddBuffer(h[s \ {Max(s)}], bufs[Max(s)])
    OBVIOUS
  <2> QED BY <1>8, <2>1
<1> HIDE DEF it, Body
<1> DEFINE f == [i \in 0 .. n |-> it[1 .. i]]
<1>10. f[0] = NoRequests
  <2>1. 1 .. 0 = {} /\ 0 \in 0 .. n
    BY <1>1
  <2> QED BY <1>9, <2>1
<1>11. \A i \in 1 .. n : f[i] = AddBuffer(f[i - 1], bufs[i])
  <2> SUFFICES ASSUME NEW i \in 1 .. n PROVE f[i] = AddBuffer(f[i - 1], bufs[i])
    OBVIOUS
  <2>1. Max(1 .. i) = i
    <3>1. 1 .. i \subseteq 1 .. n /\ i \in 1 .. i /\ 1 .. i # {}
      BY <1>1
    <3>2. Max(1 .. i) \in 1 .. i /\ i <= Max(1 .. i)
      BY <1>1, <3>1, MaxIsThere
    <3> QED BY <3>2
  <2>2. (1 .. i) \ {i} = 1 .. (i - 1) /\ 1 .. i # {} /\ 1 .. i \in SUBSET D /\ i - 1 \in 0 .. n /\ i \in 0 .. n
    <3>1. \A x : x \in (1 .. i) \ {i} <=> x \in 1 .. (i - 1)
      OBVIOUS
    <3>2. i \in 1 .. i /\ \A x \in 1 .. i : x \in 1 .. n
      BY <1>1
    <3>3. (1 .. i) \ {i} = 1 .. (i - 1)
      BY <3>1
    <3>4. 1 .. i # {}
      BY <3>2
    <3>5. 1 .. i \in SUBSET D
      BY <1>1, <3>2
    <3>6. i - 1 \in 0 .. n /\ i \in 0 .. n
      BY <1>1
    <3> QED BY <3>3, <3>4, <3>5, <3>6
  <2> HIDE DEF D
  <2>3. it[1 .. i] = AddBuffer(it[(1 .. i) \ {i}], bufs[i])
    BY <1>9, <2>1, <2>2
  <2> QED BY <2>2, <2>3
<1>12. f[n] = it[D]
  <2>1. n \in 0 .. n
    BY <1>1
  <2> QED BY <1>1, <2>1
<1> QED BY <1>2, <1>10, <1>11, <1>12
-----------------------------------------------------------------------------
(* What coalescing keeps: bytes, in their order.  The buffers that         *)
(* getWriteRequests does not pass over, the requests it is making, and the *)
(* bytes that are in them.                                                 *)
Data         == Seq(Nat)
WriteBuffers == {b \in [data : Data, override : Nat] : Len(b.data) >= SIZE_PLUS_SUBSCRIPTION_ID}
SendRequests ==
  {r \in [made : Seq(Data), small : Data] : Len(r.small) < SMALL_MESSAGE_SEND_BUFFER_SIZE}
BytesOf(r)   == FlattenSeq(r.made) \o r.small

(* Bytes, joined and cut.                                                  *)
LEMMA JoinedData ==
  /\ << >> \in Data /\ Len(<< >>) = 0
  /\ \A s \in Data : Len(s) \in Nat /\ s \o << >> = s /\ << >> \o s = s
  /\ \A s \in Data, t \in Data : s \o t \in Data /\ Len(s \o t) = Len(s) + Len(t)
  /\ \A s \in Data, t \in Data, u \in Data : (s \o t) \o u = s \o (t \o u)
<1>1. << >> \in Data /\ Len(<< >>) = 0
  BY DEF Data
<1>2. \A s \in Data : Len(s) \in Nat /\ s \o << >> = s /\ << >> \o s = s
  BY DEF Data
<1>3. \A s \in Data, t \in Data : s \o t \in Data /\ Len(s \o t) = Len(s) + Len(t)
  BY DEF Data
<1>4. \A s \in Data, t \in Data, u \in Data : (s \o t) \o u = s \o (t \o u)
  <2> TAKE s \in Data, t \in Data, u \in Data
  <2>1. s \in Seq(Nat) /\ t \in Seq(Nat) /\ u \in Seq(Nat)
    BY DEF Data
  <2> HIDE DEF Data
  <2> QED BY <2>1, ConcatAssociative, SMTT(60)
<1> QED BY <1>1, <1>2, <1>3, <1>4

LEMMA CutData ==
  ASSUME NEW s \in Data, NEW n \in Nat, n <= Len(s)
  PROVE  /\ SubSeq(s, 1, n) \in Data /\ Len(SubSeq(s, 1, n)) = n
         /\ SubSeq(s, n + 1, Len(s)) \in Data /\ Len(SubSeq(s, n + 1, Len(s))) = Len(s) - n
         /\ SubSeq(s, 1, n) \o SubSeq(s, n + 1, Len(s)) = s
         /\ \A i \in 1 .. n : SubSeq(s, 1, n)[i] = s[i]
         /\ \A i \in 1 .. Len(s) - n : SubSeq(s, n + 1, Len(s))[i] = s[n + i]
<1>1. Len(s) \in Nat /\ \A i \in 1 .. Len(s) : s[i] \in Nat
  BY DEF Data
<1>2. /\ SubSeq(s, 1, n) \in Data /\ Len(SubSeq(s, 1, n)) = n
      /\ \A i \in 1 .. n : SubSeq(s, 1, n)[i] = s[i]
  <2>1. \A i \in 1 .. n : s[i] \in Nat
    BY <1>1
  <2> QED BY <2>1, SubSeqProperties DEF Data
<1>3. SubSeq(s, n + 1, Len(s)) \in Data /\ Len(SubSeq(s, n + 1, Len(s))) = Len(s) - n
  <2>1. \A i \in n + 1 .. Len(s) : s[i] \in Nat
    BY <1>1
  <2> QED BY <1>1, <2>1, SubSeqProperties DEF Data
<1>4. \A i \in 1 .. Len(s) - n : SubSeq(s, n + 1, Len(s))[i] = s[n + i]
  BY <1>1 DEF Data
<1>5. SubSeq(s, 1, n) \o SubSeq(s, n + 1, Len(s)) = s
  <2>1. 1 \in 1 .. Len(s) + 1 /\ n \in 1 - 1 .. Len(s) /\ Len(s) \in n .. Len(s)
    BY <1>1
  <2>2. SubSeq(s, 1, Len(s)) = s
    BY SubSeqFull DEF Data
  <2> QED BY <2>1, <2>2, ConcatAdjacentSubSeq DEF Data
<1> QED BY <1>2, <1>3, <1>4, <1>5

LEMMA NoRequestsYet == NoRequests \in SendRequests /\ BytesOf(NoRequests) = << >>
<1>1. << >> \in Seq(Data) /\ << >> \in Data /\ Len(<< >>) = 0
  BY JoinedData
<1>2. 0 < SMALL_MESSAGE_SEND_BUFFER_SIZE
  BY FramingAssumption
<1>3. NoRequests.made = << >> /\ NoRequests.small = << >>
  BY DEF NoRequests
<1>4. NoRequests \in SendRequests
  BY <1>1, <1>2 DEF NoRequests, SendRequests
<1>5. << >> \o << >> = << >>
  OBVIOUS
<1>6. BytesOf(NoRequests) = << >>
  BY <1>3, <1>5, FlattenNothing DEF BytesOf
<1> QED BY <1>4, <1>6

LEMMA RequestParts ==
  ASSUME NEW r \in SendRequests
  PROVE  /\ r.made \in Seq(Data) /\ r.small \in Data /\ Len(r.small) \in Nat
         /\ Len(r.small) < SMALL_MESSAGE_SEND_BUFFER_SIZE
         /\ FlattenSeq(r.made) \in Data /\ BytesOf(r) \in Data
<1>1. r.made \in Seq(Data) /\ r.small \in Data /\ Len(r.small) < SMALL_MESSAGE_SEND_BUFFER_SIZE
  BY DEF SendRequests
<1>2. FlattenSeq(r.made) \in Data
  BY <1>1, FlattenType DEF Data
<1>3. Len(r.small) \in Nat
  BY <1>1 DEF Data
<1>4. FlattenSeq(r.made) \o r.small \in Data
  BY <1>1, <1>2, ConcatProperties DEF Data
<1> QED BY <1>1, <1>2, <1>3, <1>4 DEF BytesOf

(* A request that is made of bytes of the one being filled, and the rest.  *)
LEMMA RequestMade ==
  ASSUME NEW made \in Seq(Data), NEW x \in Data, NEW y \in Data
  PROVE  FlattenSeq(Append(made, x)) \o y = FlattenSeq(made) \o (x \o y)
<1>1. FlattenSeq(Append(made, x)) = FlattenSeq(made) \o x /\ FlattenSeq(made) \in Data
  BY FlattenAppend, FlattenType DEF Data
<1>2. (FlattenSeq(made) \o x) \o y = FlattenSeq(made) \o (x \o y)
  BY <1>1, JoinedData
<1> QED BY <1>1, <1>2

LEMMA FlushedKeeps ==
  ASSUME NEW r \in SendRequests
  PROVE  /\ Flushed(r) \in SendRequests /\ Flushed(r).small = << >>
         /\ BytesOf(Flushed(r)) = BytesOf(r)
<1>1. CASE r.small = << >>
  BY <1>1 DEF Flushed
<1>2. CASE r.small # << >>
  <2>1. Flushed(r) = [made |-> Append(r.made, r.small), small |-> << >>]
    BY <1>2 DEF Flushed
  <2>2. /\ r.made \in Seq(Data) /\ r.small \in Data /\ FlattenSeq(r.made) \in Data
        /\ << >> \in Data /\ Len(<< >>) < SMALL_MESSAGE_SEND_BUFFER_SIZE
    BY RequestParts, FramingAssumption DEF Data
  <2>3. Append(r.made, r.small) \in Seq(Data)
    BY <2>2
  <2>4. Flushed(r) \in SendRequests
    BY <2>1, <2>2, <2>3 DEF SendRequests
  <2>5. r.small \o << >> = r.small
    BY <2>2 DEF Data
  <2>6. BytesOf(Flushed(r)) = FlattenSeq(Append(r.made, r.small)) \o << >>
    BY <2>1 DEF BytesOf
  <2>7. BytesOf(Flushed(r)) = FlattenSeq(r.made) \o (r.small \o << >>)
    BY <2>2, <2>6, RequestMade
  <2>8. Flushed(r).small = << >>
    BY <2>1
  <2> QED BY <2>4, <2>5, <2>7, <2>8 DEF BytesOf
<1> QED BY <1>1, <1>2

LEMMA FilledAppends ==
  ASSUME NEW r \in SendRequests, NEW piece \in Data, NEW rest \in Data,
         Len(piece) + Len(rest) <= SMALL_MESSAGE_SEND_BUFFER_SIZE
  PROVE  /\ Filled(r, piece, rest) \in SendRequests
         /\ BytesOf(Filled(r, piece, rest)) = BytesOf(r) \o (piece \o rest)
<1> DEFINE small == r.small \o piece \o rest
           size  == SMALL_MESSAGE_SEND_BUFFER_SIZE
           parts == piece \o rest
<1>1. /\ r.made \in Seq(Data) /\ r.small \in Data /\ FlattenSeq(r.made) \in Data
      /\ Len(r.small) \in Nat /\ Len(r.small) < size /\ size \in Nat
  BY RequestParts, FramingAssumption
<1>2. small = r.small \o parts /\ parts \in Data /\ small \in Data
  BY <1>1, JoinedData
<1>3. Len(small) = Len(r.small) + (Len(piece) + Len(rest)) /\ Len(piece) \in Nat /\ Len(rest) \in Nat
  BY <1>1, <1>2, JoinedData
<1>4. FlattenSeq(r.made) \o small = BytesOf(r) \o parts
  <2>1. (FlattenSeq(r.made) \o r.small) \o parts = FlattenSeq(r.made) \o (r.small \o parts)
    BY ZenonT(60), <1>1, <1>2, JoinedData
  <2> QED BY <1>2, <2>1 DEF BytesOf
<1>5. Filled(r, piece, rest) =
        IF Len(small) < size THEN [r EXCEPT !.small = small]
        ELSE [made  |-> Append(r.made, SubSeq(small, 1, size)),
              small |-> SubSeq(small, size + 1, Len(small))]
  BY DEF Filled
<1> HIDE DEF small, parts
<1>6. CASE Len(small) < size
  <2>1. Filled(r, piece, rest) = [made |-> r.made, small |-> small]
    BY <1>5, <1>6 DEF SendRequests
  <2>2. [made |-> r.made, small |-> small] \in SendRequests
    BY <1>1, <1>2, <1>6 DEF SendRequests
  <2>3. BytesOf([made |-> r.made, small |-> small]) = FlattenSeq(r.made) \o small
    BY DEF BytesOf
  <2> QED BY <1>4, <2>1, <2>2, <2>3 DEF parts
<1>7. CASE ~ (Len(small) < size)
  <2> DEFINE x == SubSeq(small, 1, size)
             y == SubSeq(small, size + 1, Len(small))
  <2>1. Len(small) \in Nat /\ size <= Len(small) /\ size \in Nat
    BY SMTT(30), <1>1, <1>2, <1>7, JoinedData
  <2>2. x \in Data /\ y \in Data /\ Len(y) = Len(small) - size /\ x \o y = small
    <3> HIDE DEF size
    <3> QED BY <1>2, <2>1, CutData
  <2>4. Filled(r, piece, rest) = [made |-> Append(r.made, x), small |-> y]
    BY <1>5, <1>7
  <2> HIDE DEF x, y
  <2>5. Len(y) < size
    <3> DEFINE a == Len(r.small)
               b == Len(piece)
               c == Len(rest)
    <3>1. a \in Nat /\ b \in Nat /\ c \in Nat /\ a < size /\ b + c <= size
      BY <1>1, <1>3
    <3>2. Len(y) = (a + (b + c)) - size
      BY <1>3, <2>2
    <3> HIDE DEF a, b, c
    <3> QED BY <2>1, <3>1, <3>2
  <2>6. Append(r.made, x) \in Seq(Data)
    BY <1>1, <2>2
  <2>7. [made |-> Append(r.made, x), small |-> y] \in SendRequests
    BY <2>2, <2>5, <2>6 DEF SendRequests
  <2>8. BytesOf([made |-> Append(r.made, x), small |-> y]) = FlattenSeq(Append(r.made, x)) \o y
    BY DEF BytesOf
  <2>9. FlattenSeq(Append(r.made, x)) \o y = FlattenSeq(r.made) \o small
    BY <1>1, <2>2, RequestMade
  <2> QED BY <1>4, <2>4, <2>7, <2>8, <2>9 DEF parts
<1> QED BY <1>6, <1>7

(* The patch changes a message the same way whether its end was cut off or *)
(* not.                                                                    *)
LEMMA PatchedPiece ==
  ASSUME NEW data \in Data, NEW id \in Nat, NEW n \in Nat,
         SIZE_PLUS_SUBSCRIPTION_ID <= n, n <= Len(data)
  PROVE  /\ Patched(SubSeq(data, 1, n), id) \in Data /\ Patched(data, id) \in Data
         /\ Len(Patched(SubSeq(data, 1, n), id)) = n
         /\ SubSeq(data, n + 1, Len(data)) \in Data
         /\ Len(SubSeq(data, n + 1, Len(data))) = Len(data) - n
         /\ Len(Patched(data, id)) = Len(data)
         /\ Patched(SubSeq(data, 1, n), id) \o SubSeq(data, n + 1, Len(data)) = Patched(data, id)
<1> DEFINE piece == SubSeq(data, 1, n)
           rest  == SubSeq(data, n + 1, Len(data))
           m     == Len(data)
           Item(s, i) ==
             IF id # 0 /\ i \in SIZE_SIZE + 1 .. SIZE_PLUS_SUBSCRIPTION_ID THEN id ELSE s[i]
<1>1. m \in Nat /\ \A i \in 1 .. m : data[i] \in Nat
  BY DEF Data
<1>2. piece \in Data /\ Len(piece) = n /\ \A i \in 1 .. n : piece[i] = data[i]
  BY CutData
<1>3. rest \in Data /\ Len(rest) = m - n /\ \A i \in 1 .. m - n : rest[i] = data[n + i]
  BY CutData
<1>4. \A s, k : k \in Nat /\ (\A i \in 1 .. k : s[i] \in Nat) /\ Len(s) = k =>
        Patched(s, id) \in Data /\ Len(Patched(s, id)) = k /\ \A i \in 1 .. k : Patched(s, id)[i] = Item(s, i)
  <2> SUFFICES ASSUME NEW s, NEW k \in Nat, \A i \in 1 .. k : s[i] \in Nat, Len(s) = k
               PROVE  Patched(s, id) \in Data /\ Len(Patched(s, id)) = k
                      /\ \A i \in 1 .. k : Patched(s, id)[i] = Item(s, i)
    OBVIOUS
  <2>1. Patched(s, id) = [i \in 1 .. k |-> Item(s, i)]
    BY DEF Patched
  <2>2. \A i \in 1 .. k : Item(s, i) \in Nat
    OBVIOUS
  <2> HIDE DEF Item
  <2> QED BY <2>1, <2>2 DEF Data
<1>5. /\ Patched(piece, id) \in Data /\ Len(Patched(piece, id)) = n
      /\ \A i \in 1 .. n : Patched(piece, id)[i] = Item(piece, i)
  <2>1. \A i \in 1 .. n : piece[i] \in Nat
    BY <1>1, <1>2
  <2> HIDE DEF piece, Item
  <2> QED BY <1>2, <1>4, <2>1
<1>6. /\ Patched(data, id) \in Data /\ Len(Patched(data, id)) = m
      /\ \A i \in 1 .. m : Patched(data, id)[i] = Item(data, i)
  BY <1>1, <1>4
<1> DEFINE a == Patched(piece, id)
           b == Patched(data, id)
<1>7. /\ a \o rest \in Data /\ Len(a \o rest) = m
      /\ \A i \in 1 .. m : (a \o rest)[i] = IF i <= n THEN a[i] ELSE rest[i - n]
  <2>1. /\ a \o rest \in Data /\ Len(a \o rest) = Len(a) + Len(rest)
        /\ \A i \in 1 .. Len(a) + Len(rest) : (a \o rest)[i] = IF i <= Len(a) THEN a[i] ELSE rest[i - Len(a)]
    <3> HIDE DEF a, b, rest, piece
    <3> QED BY <1>3, <1>5, ConcatProperties DEF Data, a
  <2> HIDE DEF a, b, rest, piece
  <2>2. Len(a) + Len(rest) = m
    BY <1>1, <1>3, <1>5 DEF a
  <2> QED BY <1>5, <2>1, <2>2 DEF a
<1>8. \A i \in 1 .. m : (a \o rest)[i] = b[i]
  <2> SUFFICES ASSUME NEW i \in 1 .. m PROVE (a \o rest)[i] = b[i]
    OBVIOUS
  <2> HIDE DEF a, b, rest, piece
  <2>1. CASE i <= n
    <3>1. i \in 1 .. n
      BY <1>1, <2>1
    <3>2. (a \o rest)[i] = Item(piece, i) /\ b[i] = Item(data, i) /\ piece[i] = data[i]
      BY <1>2, <1>5, <1>6, <1>7, <2>1, <3>1 DEF a, b
    <3> QED BY <3>2
  <2>2. CASE ~ (i <= n)
    <3>1. i - n \in 1 .. m - n /\ n + (i - n) = i /\ i \notin SIZE_SIZE + 1 .. SIZE_PLUS_SUBSCRIPTION_ID
      BY <1>1, <2>2, FramingAssumption DEF SIZE_PLUS_SUBSCRIPTION_ID
    <3>2. (a \o rest)[i] = data[i]
      BY <1>3, <1>7, <2>2, <3>1
    <3>3. b[i] = data[i]
      BY <1>6, <3>1 DEF b
    <3> QED BY <3>2, <3>3
  <2> QED BY <2>1, <2>2
<1>9. a \o rest = b
  <2> HIDE DEF a, b, rest, piece
  <2> QED BY <1>6, <1>7, <1>8, SeqEqual DEF Data, b
<1> QED BY <1>3, <1>5, <1>6, <1>9

LEMMA MinOfTwo ==
  ASSUME NEW a \in Nat, NEW b \in Nat
  PROVE  Min({a, b}) \in Nat /\ Min({a, b}) <= a /\ Min({a, b}) <= b /\ Min({a, b}) \in {a, b}
<1>1. {a, b} \subseteq Nat /\ {a, b} # {} /\ a \in {a, b} /\ b \in {a, b}
  OBVIOUS
<1>2. Min({a, b}) \in {a, b} /\ \A y \in {a, b} : Min({a, b}) <= y
  BY <1>1, MinIsThere
<1> QED BY <1>1, <1>2

(* A message of its own request.                                           *)
LEMMA LargeAppends ==
  ASSUME NEW r \in SendRequests, NEW x \in Data
  PROVE  /\ [Flushed(r) EXCEPT !.made = Append(@, x)] \in SendRequests
         /\ BytesOf([Flushed(r) EXCEPT !.made = Append(@, x)]) = BytesOf(r) \o x
<1> DEFINE q == Flushed(r)
<1>1. q \in SendRequests /\ q.small = << >> /\ BytesOf(q) = BytesOf(r)
  BY FlushedKeeps
<1> HIDE DEF q
<1>2. [q EXCEPT !.made = Append(@, x)] = [made |-> Append(q.made, x), small |-> << >>]
  <2>1. q = [made |-> q.made, small |-> << >>]
    BY <1>1 DEF SendRequests
  <2> QED BY <2>1
<1>3. q.made \in Seq(Data) /\ FlattenSeq(q.made) \in Data /\ << >> \in Data
  BY <1>1, RequestParts, JoinedData
<1>4. [made |-> Append(q.made, x), small |-> << >>] \in SendRequests
  <2>1. Append(q.made, x) \in Seq(Data) /\ Len(<< >>) < SMALL_MESSAGE_SEND_BUFFER_SIZE
    BY <1>3, FramingAssumption
  <2> QED BY <1>3, <2>1 DEF SendRequests
<1>5. BytesOf([made |-> Append(q.made, x), small |-> << >>]) = FlattenSeq(Append(q.made, x)) \o << >>
  BY DEF BytesOf
<1>6. FlattenSeq(Append(q.made, x)) \o << >> = FlattenSeq(q.made) \o (x \o << >>)
  BY <1>3, RequestMade
<1>7. x \o << >> = x /\ BytesOf(q) = FlattenSeq(q.made)
  BY <1>1, <1>3, JoinedData DEF BytesOf
<1> QED BY <1>1, <1>2, <1>4, <1>5, <1>6, <1>7 DEF q

(* A buffer adds its bytes, patched, whatever room there is.               *)
LEMMA AddBufferAppends ==
  ASSUME NEW r \in SendRequests, NEW b \in WriteBuffers
  PROVE  /\ AddBuffer(r, b) \in SendRequests
         /\ BytesOf(AddBuffer(r, b)) = BytesOf(r) \o Patched(b.data, b.override)
         /\ Patched(b.data, b.override) \in Data
<1>1. /\ b.data \in Data /\ b.override \in Nat /\ Len(b.data) \in Nat
      /\ Len(b.data) >= SIZE_PLUS_SUBSCRIPTION_ID /\ SIZE_PLUS_SUBSCRIPTION_ID \in Nat
  BY JoinedData, FramingAssumption DEF WriteBuffers, SIZE_PLUS_SUBSCRIPTION_ID
<1>2. Patched(b.data, b.override) \in Data
  <2> DEFINE data == b.data
             id == b.override
             n == Len(data)
  <2>1. data \in Data /\ id \in Nat /\ n \in Nat /\ SIZE_PLUS_SUBSCRIPTION_ID <= n /\ n <= Len(data)
    BY <1>1
  <2> HIDE DEF data, id, n
  <2>2. Patched(data, id) \in Data
    BY <2>1, PatchedPiece
  <2> QED BY <2>2 DEF data, id
<1>3. CASE Len(b.data) <= SMALL_MESSAGE_SEND_BUFFER_SIZE
  <2> DEFINE start == IF Room(r) < SIZE_PLUS_SUBSCRIPTION_ID THEN Flushed(r) ELSE r
             n     == Min({Len(b.data), Room(start)})
             piece == Patched(SubSeq(b.data, 1, n), b.override)
             rest  == SubSeq(b.data, n + 1, Len(b.data))
  <2>1. AddBuffer(r, b) = Filled(start, piece, rest)
    BY <1>1, <1>3, FramingAssumption DEF AddBuffer, AddSmall
  <2>2. /\ start \in SendRequests /\ BytesOf(start) = BytesOf(r)
        /\ Room(start) \in Nat /\ SIZE_PLUS_SUBSCRIPTION_ID <= Room(start)
    <3>1. CASE Room(r) < SIZE_PLUS_SUBSCRIPTION_ID
      <4>1. Room(Flushed(r)) = SMALL_MESSAGE_SEND_BUFFER_SIZE
        BY FlushedKeeps, FramingAssumption DEF Room
      <4> QED BY <3>1, <4>1, FlushedKeeps, FramingAssumption DEF SIZE_PLUS_SUBSCRIPTION_ID
    <3>2. CASE ~ (Room(r) < SIZE_PLUS_SUBSCRIPTION_ID)
      <4>1. Room(r) \in Nat
        BY RequestParts, FramingAssumption DEF Room
      <4> QED BY <1>1, <3>2, <4>1
    <3> QED BY <3>1, <3>2
  <2>3. n \in Nat /\ n <= Len(b.data) /\ SIZE_PLUS_SUBSCRIPTION_ID <= n
    <3> HIDE DEF start
    <3> QED BY <1>1, <2>2, MinOfTwo
  <2> HIDE DEF start, n
  <2>4. /\ piece \in Data /\ Len(piece) = n /\ rest \in Data /\ Len(rest) = Len(b.data) - n
        /\ piece \o rest = Patched(b.data, b.override)
    BY ZenonT(60), <1>1, <2>3, PatchedPiece
  <2> HIDE DEF piece, rest
  <2>5. Len(piece) + Len(rest) <= SMALL_MESSAGE_SEND_BUFFER_SIZE
    BY <1>1, <1>3, <2>3, <2>4
  <2>6. /\ Filled(start, piece, rest) \in SendRequests
        /\ BytesOf(Filled(start, piece, rest)) = BytesOf(start) \o (piece \o rest)
    BY <2>2, <2>4, <2>5, FilledAppends
  <2> QED BY <1>2, <2>1, <2>2, <2>4, <2>6
<1>4. CASE ~ (Len(b.data) <= SMALL_MESSAGE_SEND_BUFFER_SIZE)
  <2>1. AddBuffer(r, b) = [Flushed(r) EXCEPT !.made = Append(@, Patched(b.data, b.override))]
    BY <1>1, <1>4, FramingAssumption DEF AddBuffer, AddLarge
  <2> QED BY <1>2, <2>1, LargeAppends
<1> QED BY <1>3, <1>4

(* However they are coalesced, split and patched, the send requests hold   *)
(* the bytes of all messages, each with its ID, in the order of the queue. *)
LEMMA WriteRequestsKeepBytes ==
  ASSUME NEW bufs \in Seq(WriteBuffers)
  PROVE  /\ getWriteRequests(bufs) \in Seq(Data)
         /\ [i \in 1 .. Len(bufs) |-> Patched(bufs[i].data, bufs[i].override)] \in Seq(Data)
         /\ FlattenSeq(getWriteRequests(bufs)) =
              FlattenSeq([i \in 1 .. Len(bufs) |-> Patched(bufs[i].data, bufs[i].override)])
<1> DEFINE n == Len(bufs)
           P == [i \in 1 .. n |-> Patched(bufs[i].data, bufs[i].override)]
<1>1. n \in Nat /\ \A i \in 1 .. n : bufs[i] \in WriteBuffers
  OBVIOUS
<1>2. \A i \in 1 .. n : Patched(bufs[i].data, bufs[i].override) \in Data
  BY <1>1, AddBufferAppends, NoRequestsYet
<1>3. P \in Seq(Data) /\ Len(P) = n /\ \A i \in 1 .. n : P[i] = Patched(bufs[i].data, bufs[i].override)
  BY <1>1, <1>2
<1>4. PICK f : /\ f[0] = NoRequests
               /\ \A i \in 1 .. n : f[i] = AddBuffer(f[i - 1], bufs[i])
               /\ f[n] = FoldLeft(AddBuffer, NoRequests, bufs)
  <2>1. \A r \in SendRequests, b \in WriteBuffers : AddBuffer(r, b) \in SendRequests
    BY AddBufferAppends
  <2> QED BY <2>1, NoRequestsYet, FoldOfBuffers
<1> HIDE DEF P
<1>5. PICK h : Flattens(h, P, Nat) /\ FlattenSeq(P) = h[n]
  BY <1>3, FlattenSeqFlattens DEF Data
<1>6. h[0] = << >> /\ \A i \in 1 .. n : h[i] = h[i - 1] \o P[i]
  BY <1>3, <1>5 DEF Flattens
<1> DEFINE bad == {i \in 0 .. n : ~ (f[i] \in SendRequests /\ BytesOf(f[i]) = h[i])}
<1>7. bad = {}
  <2> SUFFICES ASSUME bad # {} PROVE FALSE
    OBVIOUS
  <2>1. PICK k \in bad : \A j \in bad : k <= j
    <3> bad \subseteq Nat
      BY <1>1
    <3> HIDE DEF bad
    <3> QED BY LeastNumber
  <2>2. k \in 0 .. n /\ ~ (f[k] \in SendRequests /\ BytesOf(f[k]) = h[k])
    OBVIOUS
  <2>3. CASE k = 0
    BY <1>4, <1>6, <2>2, <2>3, NoRequestsYet
  <2>4. CASE k # 0
    <3>1. k - 1 \in 0 .. n /\ k \in 1 .. n /\ ~ (k <= k - 1)
      BY <1>1, <2>2, <2>4
    <3>2. f[k - 1] \in SendRequests /\ BytesOf(f[k - 1]) = h[k - 1]
      BY <2>1, <3>1
    <3>3. f[k] = AddBuffer(f[k - 1], bufs[k]) /\ h[k] = h[k - 1] \o P[k] /\ bufs[k] \in WriteBuffers
      BY <1>1, <1>4, <1>6, <3>1
    <3>4. f[k] \in SendRequests /\ BytesOf(f[k]) = BytesOf(f[k - 1]) \o Patched(bufs[k].data, bufs[k].override)
      BY <3>2, <3>3, AddBufferAppends
    <3> QED BY <1>3, <2>2, <3>1, <3>2, <3>3, <3>4
  <2> QED BY <2>3, <2>4
<1>8. n \in 0 .. n
  BY <1>1
<1>9. f[n] \in SendRequests /\ BytesOf(f[n]) = FlattenSeq(P)
  BY <1>5, <1>7, <1>8
<1>10. getWriteRequests(bufs) = Flushed(f[n]).made
  BY <1>4 DEF getWriteRequests
<1>11. Flushed(f[n]) \in SendRequests /\ Flushed(f[n]).small = << >> /\ BytesOf(Flushed(f[n])) = FlattenSeq(P)
  BY <1>9, FlushedKeeps
<1>12. Flushed(f[n]).made \in Seq(Data) /\ FlattenSeq(Flushed(f[n]).made) \in Data
  BY <1>11, RequestParts
<1>13. FlattenSeq(Flushed(f[n]).made) = FlattenSeq(P)
  BY <1>11, <1>12, JoinedData DEF BytesOf
<1> QED BY <1>3, <1>10, <1>12, <1>13 DEF P
-----------------------------------------------------------------------------
(* The size of a message, byte by byte.                                    *)
LEMMA DivideByByte ==
  ASSUME NEW x \in Nat
  PROVE  /\ x \div ByteValues \in Nat /\ x % ByteValues \in Nat
         /\ (x % ByteValues) + ByteValues * (x \div ByteValues) = x
<1> DEFINE b == ByteValues
<1>1. b \in Nat /\ b > 0
  BY FramingAssumption
<1> HIDE DEF b
<1>2. x \div b \in Nat /\ x % b \in Nat /\ x = b * (x \div b) + (x % b)
  BY <1>1
<1>3. (x % b) + b * (x \div b) = x
  BY <1>1, <1>2
<1> QED BY <1>2, <1>3 DEF b

LEMMA RemainingIsDefined ==
  ASSUME NEW n \in Nat
  PROVE  /\ Remaining(n) \in [0 .. SIZE_SIZE -> Nat] /\ Remaining(n)[0] = n
         /\ \A i \in 1 .. SIZE_SIZE : Remaining(n)[i] = Remaining(n)[i - 1] \div ByteValues
<1> DEFINE Rule(h) == [i \in 0 .. SIZE_SIZE |-> IF i = 0 THEN n ELSE h[i - 1] \div ByteValues]
           St == [p \in (1 .. SIZE_SIZE) \X Nat |-> p[2] \div ByteValues]
<1>1. Remaining(n) = CHOOSE h : h = Rule(h)
  BY DEF Remaining
<1>2. SIZE_SIZE \in Nat /\ St \in [(1 .. SIZE_SIZE) \X Nat -> Nat]
  BY DivideByByte, FramingAssumption
<1>3. PICK f : Recurs(f, SIZE_SIZE, Nat, n, St)
  <2> HIDE DEF St
  <2> QED BY <1>2, RecursionIsDefined
<1>4. f \in [0 .. SIZE_SIZE -> Nat] /\ f[0] = n
  BY <1>3 DEF Recurs
<1>5. \A i \in 1 .. SIZE_SIZE : f[i] = f[i - 1] \div ByteValues
  <2> SUFFICES ASSUME NEW i \in 1 .. SIZE_SIZE PROVE f[i] = f[i - 1] \div ByteValues
    OBVIOUS
  <2>0. i - 1 \in 0 .. SIZE_SIZE
    BY <1>2
  <2>1. f[i - 1] \in Nat
    BY <2>0, <1>4
  <2> HIDE DEF St
  <2>2. f[i] = St[<<i, f[i - 1]>>]
    BY <1>3 DEF Recurs
  <2>3. \A x \in Nat : St[<<i, x>>] = x \div ByteValues
    BY DEF St
  <2> QED BY <2>1, <2>2, <2>3
<1>6. f = Rule(f)
  <2>1. f = [i \in 0 .. SIZE_SIZE |-> f[i]]
    BY <1>4
  <2>2. \A i \in 0 .. SIZE_SIZE : f[i] = IF i = 0 THEN n ELSE f[i - 1] \div ByteValues
    <3> SUFFICES ASSUME NEW i \in 0 .. SIZE_SIZE
                 PROVE  f[i] = IF i = 0 THEN n ELSE f[i - 1] \div ByteValues
      OBVIOUS
    <3>1. i # 0 => i \in 1 .. SIZE_SIZE
      BY <1>2
    <3> QED BY <1>4, <1>5, <3>1
  <2> QED BY <2>1, <2>2
<1>7. Remaining(n) = Rule(Remaining(n))
  <2> HIDE DEF Rule
  <2> QED BY <1>1, <1>6
<1>8. \A h : h = Rule(h) => \A i \in 0 .. SIZE_SIZE : h[i] = IF i = 0 THEN n ELSE h[i - 1] \div ByteValues
  OBVIOUS
<1>9. /\ Remaining(n)[0] = n
      /\ \A i \in 1 .. SIZE_SIZE : Remaining(n)[i] = Remaining(n)[i - 1] \div ByteValues
  <2> HIDE DEF Rule
  <2>1. \A i \in 0 .. SIZE_SIZE : Remaining(n)[i] = IF i = 0 THEN n ELSE Remaining(n)[i - 1] \div ByteValues
    BY <1>7, <1>8
  <2>2. 0 \in 0 .. SIZE_SIZE /\ \A i \in 1 .. SIZE_SIZE : i \in 0 .. SIZE_SIZE /\ i # 0
    BY <1>2
  <2> QED BY <2>1, <2>2
<1>10. Remaining(n) \in [0 .. SIZE_SIZE -> Nat]
  <2> DEFINE h == Remaining(n)
             bad == {i \in 0 .. SIZE_SIZE : h[i] \notin Nat}
  <2> HIDE DEF h
  <2>1. bad = {}
    <3> SUFFICES ASSUME bad # {} PROVE FALSE
      OBVIOUS
    <3>1. PICK k \in bad : \A j \in bad : k <= j
      <4> bad \subseteq Nat
        BY <1>2
      <4> HIDE DEF bad
      <4> QED BY LeastNumber
    <3>2. k \in 0 .. SIZE_SIZE /\ h[k] \notin Nat
      OBVIOUS
    <3>3. k # 0
      BY <1>9, <3>2 DEF h
    <3>4. k - 1 \in 0 .. SIZE_SIZE /\ k \in 1 .. SIZE_SIZE /\ ~ (k <= k - 1)
      BY <1>2, <3>2, <3>3
    <3>5. h[k - 1] \in Nat
      BY <3>1, <3>4
    <3> HIDE DEF bad
    <3>6. h[k] = h[k - 1] \div ByteValues
      BY <1>9, <3>4 DEF h
    <3> QED BY <3>2, <3>5, <3>6, DivideByByte
  <2>2. \A i \in 0 .. SIZE_SIZE : h[i] \in Nat
    BY <2>1
  <2>3. h = [i \in 0 .. SIZE_SIZE |-> h[i]]
    <3>1. \A g : g = Rule(g) => g = [i \in 0 .. SIZE_SIZE |-> g[i]]
      OBVIOUS
    <3> HIDE DEF Rule
    <3> QED BY <1>7, <3>1 DEF h
  <2>4. [i \in 0 .. SIZE_SIZE |-> h[i]] \in [0 .. SIZE_SIZE -> Nat]
    BY <2>2
  <2> QED BY <2>3, <2>4 DEF h
<1> QED BY <1>9, <1>10

LEMMA SizeBytesType ==
  ASSUME NEW n \in Nat
  PROVE  /\ SizeBytes(n) \in Data /\ Len(SizeBytes(n)) = SIZE_SIZE
         /\ \A i \in 1 .. SIZE_SIZE : SizeBytes(n)[i] = Remaining(n)[i - 1] % ByteValues
<1>1. \A i \in 1 .. SIZE_SIZE : Remaining(n)[i - 1] % ByteValues \in Nat
  <2> SUFFICES ASSUME NEW i \in 1 .. SIZE_SIZE PROVE Remaining(n)[i - 1] % ByteValues \in Nat
    OBVIOUS
  <2>1. i - 1 \in 0 .. SIZE_SIZE
    BY FramingAssumption
  <2>2. Remaining(n)[i - 1] \in Nat
    BY <2>1, RemainingIsDefined
  <2> QED BY <2>2, DivideByByte
<1> QED BY <1>1, FramingAssumption DEF SizeBytes, Data

(* The receiver reads the size that was written.                           *)
LEMMA SizeReadsBack ==
  ASSUME NEW m, NEW n \in Sizes, SubSeq(m, 1, SIZE_SIZE) = SizeBytes(n)
  PROVE  SizeOf(m) = n
<1> DEFINE s == SizeBytes(n)
           D == DOMAIN s
           next == [t \in SUBSET D |-> IF t = {} THEN 0 ELSE Min(t)]
           St == [p \in D \X Nat |-> s[p[1]] + ByteValues * p[2]]
           Body(h) == [t \in SUBSET D |-> IF t = {} THEN 0
                        ELSE LET x == Min(t) IN s[x] + ByteValues * h[t \ {x}]]
           it == CHOOSE h : h = Body(h)
           Z == SIZE_SIZE
           R == Remaining(n)
<1>1. n \in Nat /\ R[Z] = 0 /\ Z \in Nat /\ ByteValues \in Nat
  BY FramingAssumption DEF Sizes
<1>2. D = 1 .. Z /\ \A i \in 1 .. Z : s[i] \in Nat /\ s[i] = R[i - 1] % ByteValues
  <2>1. /\ s \in Data /\ Len(s) = Z
        /\ \A i \in 1 .. Z : s[i] = R[i - 1] % ByteValues
    BY <1>1, SizeBytesType
  <2> HIDE DEF s, R
  <2>2. DOMAIN s = 1 .. Z /\ \A i \in 1 .. Z : s[i] \in Nat
    BY <2>1 DEF Data
  <2> QED BY <2>1, <2>2
<1>3. SizeOf(m) = it[D]
  BY DEF SizeOf, FoldRight, MapThenFoldSet
<1>4. IsFiniteSet(D)
  BY <1>1, <1>2, FS_Interval
<1>5. \A t \in SUBSET D : t # {} => next[t] = Min(t) /\ Min(t) \in t
  <2> SUFFICES ASSUME NEW t \in SUBSET D, t # {} PROVE Min(t) \in t
    OBVIOUS
  <2>1. t \subseteq Nat
    BY <1>2
  <2> QED BY <2>1, MinIsThere
<1>6. St \in [D \X Nat -> Nat] /\ \A x \in D, r \in Nat : St[<<x, r>>] = s[x] + ByteValues * r
  <2>1. \A x \in D, r \in Nat : s[x] + ByteValues * r \in Nat
    <3> SUFFICES ASSUME NEW x \in D, NEW r \in Nat PROVE s[x] + ByteValues * r \in Nat
      OBVIOUS
    <3>1. ByteValues * r \in Nat
      BY <1>1
    <3> QED BY <1>2, <3>1
  <2> QED BY <2>1
<1> HIDE DEF next, St, s
<1>7. PICK g : Folds(g, D, Nat, 0, next, St)
  <2>1. \A t \in SUBSET D : t # {} => next[t] \in t
    BY <1>5
  <2> HIDE DEF D, Body, it
  <2> QED BY <1>4, <1>6, <2>1, FoldIsDefined
<1>8. \E h : h = Body(h)
  <2>1. \A t \in SUBSET D : g[t] = IF t = {} THEN 0 ELSE s[Min(t)] + ByteValues * g[t \ {Min(t)}]
    <3> SUFFICES ASSUME NEW t \in SUBSET D, t # {}
                 PROVE  g[t] = s[Min(t)] + ByteValues * g[t \ {Min(t)}]
      BY <1>7 DEF Folds
    <3>1. g[t] = St[<<next[t], g[t \ {next[t]}]>>] /\ g[t \ {Min(t)}] \in Nat
      BY <1>7 DEF Folds
    <3>2. next[t] = Min(t) /\ Min(t) \in D
      BY <1>5
    <3> HIDE DEF D
    <3> QED BY <1>6, <3>1, <3>2
  <2>2. g = [t \in SUBSET D |-> g[t]]
    BY <1>7 DEF Folds
  <2>3. g = Body(g)
    BY <2>1, <2>2
  <2> HIDE DEF Body
  <2> QED BY <2>3
<1>9. it = Body(it)
  <2> HIDE DEF Body
  <2> QED BY <1>8
<1>10. \A t \in SUBSET D : it[t] = IF t = {} THEN 0 ELSE s[Min(t)] + ByteValues * it[t \ {Min(t)}]
  <2> HIDE DEF it
  <2>1. \A h : h = Body(h) => \A t \in SUBSET D : h[t] = IF t = {} THEN 0 ELSE s[Min(t)] + ByteValues * h[t \ {Min(t)}]
    OBVIOUS
  <2> QED BY <1>9, <2>1
<1> HIDE DEF it, Body, Z, R, D
<1> DEFINE Bits(j) == (Z - j) + 1 .. Z
           bad == {j \in 0 .. Z : it[Bits(j)] # R[Z - j]}
<1>11. bad = {}
  <2> SUFFICES ASSUME bad # {} PROVE FALSE
    OBVIOUS
  <2>1. PICK k \in bad : \A j \in bad : k <= j
    <3> bad \subseteq Nat
      BY <1>1
    <3> HIDE DEF bad
    <3> QED BY LeastNumber
  <2>2. k \in 0 .. Z /\ it[Bits(k)] # R[Z - k]
    OBVIOUS
  <2>3. CASE k = 0
    <3>1. Bits(k) = {} /\ Z - k = Z
      BY <1>1, <2>3
    <3> QED BY <1>1, <1>10, <2>2, <3>1
  <2>4. CASE k # 0
    <3> DEFINE i == (Z - k) + 1
    <3>1. /\ k - 1 \in 0 .. Z /\ ~ (k <= k - 1) /\ i \in 1 .. Z /\ i - 1 = Z - k /\ Z - (k - 1) = i
          /\ i - 1 \in 0 .. Z
      BY <1>1, <2>2, <2>4
    <3>2. it[Bits(k - 1)] = R[Z - (k - 1)]
      BY <2>1, <3>1
    <3> HIDE DEF bad
    <3>3. Min(Bits(k)) = i /\ Bits(k) # {} /\ Bits(k) \in SUBSET D
      <4>1. i \in Bits(k) /\ \A y \in Bits(k) : y \in 1 .. Z /\ i <= y
        BY <1>1, <3>1
      <4>2. Bits(k) \subseteq Nat /\ Bits(k) # {}
        BY <4>1
      <4>3. Min(Bits(k)) \in Bits(k) /\ Min(Bits(k)) <= i
        BY <4>1, <4>2, MinIsThere
      <4>4. Min(Bits(k)) = i
        BY <3>1, <4>1, <4>3
      <4> QED BY <1>2, <4>1, <4>2, <4>4
    <3>4. Bits(k) \ {i} = Bits(k - 1)
      <4>1. \A y : y \in Bits(k) \ {i} <=> y \in Bits(k - 1)
        BY <1>1, <2>2
      <4> QED BY <4>1
    <3> HIDE DEF Bits, i
    <3>5. it[Bits(k)] = s[i] + ByteValues * it[Bits(k - 1)]
      BY <1>10, <3>3, <3>4
    <3>6. s[i] = R[i - 1] % ByteValues /\ R[i] = R[i - 1] \div ByteValues /\ R[i - 1] \in Nat
      BY <1>1, <1>2, <3>1, RemainingIsDefined DEF R, Z
    <3>7. s[i] + ByteValues * R[i] = R[i - 1]
      BY <3>6, DivideByByte
    <3> QED BY <2>2, <3>1, <3>2, <3>5, <3>7
  <2> QED BY <2>3, <2>4
<1>12. it[Bits(Z)] = R[Z - Z]
  <2>1. Z \in 0 .. Z
    BY <1>1
  <2> QED BY <1>11, <2>1
<1>13. Bits(Z) = D /\ Z - Z = 0 /\ R[0] = n
  <2>1. (Z - Z) + 1 = 1 /\ Z - Z = 0
    BY <1>1
  <2>2. R[0] = n
    BY <1>1, RemainingIsDefined DEF R
  <2> QED BY <1>2, <2>1, <2>2
<1> QED BY <1>3, <1>12, <1>13
-----------------------------------------------------------------------------
(* The .NET library folds its buffers in the same way.                     *)
LEMMA FoldOfBuffers_NET ==
  ASSUME NEW V, NoRequests \in V, NEW T, \A r \in V, b \in T : AddBuffer_NET(r, b) \in V,
         NEW bufs \in Seq(T)
  PROVE  \E f : /\ f[0] = NoRequests
                /\ \A i \in 1 .. Len(bufs) : f[i] = AddBuffer_NET(f[i - 1], bufs[i])
                /\ f[Len(bufs)] = FoldLeft(AddBuffer_NET, NoRequests, bufs)
<1> DEFINE D == DOMAIN bufs
           n == Len(bufs)
           next == [s \in SUBSET D |-> IF s = {} THEN 0 ELSE Max(s)]
           St == [p \in D \X V |-> AddBuffer_NET(p[2], bufs[p[1]])]
           Body(h) == [s \in SUBSET D |-> IF s = {} THEN NoRequests
                        ELSE LET x == Max(s) IN AddBuffer_NET(h[s \ {x}], bufs[x])]
           it == CHOOSE h : h = Body(h)
<1>1. n \in Nat /\ D = 1 .. n /\ \A i \in 1 .. n : bufs[i] \in T
  OBVIOUS
<1>2. FoldLeft(AddBuffer_NET, NoRequests, bufs) = it[D]
  BY DEF FoldLeft, MapThenFoldSet
<1>3. IsFiniteSet(D)
  BY <1>1, FS_Interval
<1>4. \A s \in SUBSET D : s # {} => next[s] = Max(s) /\ Max(s) \in s
  BY <1>1, MaxIsThere
<1>5. St \in [D \X V -> V] /\ \A x \in D, r \in V : St[<<x, r>>] = AddBuffer_NET(r, bufs[x])
  BY <1>1
<1> HIDE DEF next, St
<1>6. PICK g : Folds(g, D, V, NoRequests, next, St)
  <2>1. \A s \in SUBSET D : s # {} => next[s] \in s
    BY <1>4
  <2> HIDE DEF D, Body, it
  <2> QED BY <1>3, <1>5, <2>1, FoldIsDefined
<1>7. \E h : h = Body(h)
  <2>1. \A s \in SUBSET D : g[s] = IF s = {} THEN NoRequests ELSE AddBuffer_NET(g[s \ {Max(s)}], bufs[Max(s)])
    <3> SUFFICES ASSUME NEW s \in SUBSET D, s # {}
                 PROVE  g[s] = AddBuffer_NET(g[s \ {Max(s)}], bufs[Max(s)])
      BY <1>6 DEF Folds
    <3>1. g[s] = St[<<next[s], g[s \ {next[s]}]>>] /\ g[s \ {Max(s)}] \in V
      BY <1>6 DEF Folds
    <3>2. next[s] = Max(s) /\ Max(s) \in D
      BY <1>4
    <3> HIDE DEF D
    <3> QED BY <1>5, <3>1, <3>2
  <2>2. g = [s \in SUBSET D |-> g[s]]
    BY <1>6 DEF Folds
  <2>3. g = Body(g)
    BY <2>1, <2>2
  <2> HIDE DEF Body
  <2> QED BY <2>3
<1>8. it = Body(it)
  <2> HIDE DEF Body
  <2> QED BY <1>7
<1>9. \A s \in SUBSET D : it[s] = IF s = {} THEN NoRequests ELSE AddBuffer_NET(it[s \ {Max(s)}], bufs[Max(s)])
  <2> HIDE DEF it
  <2>1. \A h : h = Body(h) => \A s \in SUBSET D : h[s] = IF s = {} THEN NoRequests ELSE AddBuffer_NET(h[s \ {Max(s)}], bufs[Max(s)])
    OBVIOUS
  <2> QED BY <1>8, <2>1
<1> HIDE DEF it, Body
<1> DEFINE f == [i \in 0 .. n |-> it[1 .. i]]
<1>10. f[0] = NoRequests
  <2>1. 1 .. 0 = {} /\ 0 \in 0 .. n
    BY <1>1
  <2> QED BY <1>9, <2>1
<1>11. \A i \in 1 .. n : f[i] = AddBuffer_NET(f[i - 1], bufs[i])
  <2> SUFFICES ASSUME NEW i \in 1 .. n PROVE f[i] = AddBuffer_NET(f[i - 1], bufs[i])
    OBVIOUS
  <2>1. Max(1 .. i) = i
    <3>1. 1 .. i \subseteq 1 .. n /\ i \in 1 .. i /\ 1 .. i # {}
      BY <1>1
    <3>2. Max(1 .. i) \in 1 .. i /\ i <= Max(1 .. i)
      BY <1>1, <3>1, MaxIsThere
    <3> QED BY <3>2
  <2>2. (1 .. i) \ {i} = 1 .. (i - 1) /\ 1 .. i # {} /\ 1 .. i \in SUBSET D /\ i - 1 \in 0 .. n /\ i \in 0 .. n
    <3>1. \A x : x \in (1 .. i) \ {i} <=> x \in 1 .. (i - 1)
      OBVIOUS
    <3>2. i \in 1 .. i /\ \A x \in 1 .. i : x \in 1 .. n
      BY <1>1
    <3>3. (1 .. i) \ {i} = 1 .. (i - 1)
      BY <3>1
    <3>4. 1 .. i # {}
      BY <3>2
    <3>5. 1 .. i \in SUBSET D
      BY <1>1, <3>2
    <3>6. i - 1 \in 0 .. n /\ i \in 0 .. n
      BY <1>1
    <3> QED BY <3>3, <3>4, <3>5, <3>6
  <2> HIDE DEF D
  <2>3. it[1 .. i] = AddBuffer_NET(it[(1 .. i) \ {i}], bufs[i])
    BY <1>9, <2>1, <2>2
  <2> QED BY <2>2, <2>3
<1>12. f[n] = it[D]
  <2>1. n \in 0 .. n
    BY <1>1
  <2> QED BY <1>1, <2>1
<1> QED BY <1>2, <1>10, <1>11, <1>12

LEMMA AddBuffer_NETAppends ==
  ASSUME NEW r \in SendRequests, NEW d \in Data
  PROVE  /\ AddBuffer_NET(r, d) \in SendRequests
         /\ BytesOf(AddBuffer_NET(r, d)) = BytesOf(r) \o d
<1>1. Len(d) \in Nat /\ Room(r) \in Nat
  BY JoinedData, RequestParts, FramingAssumption DEF Room
<1>2. CASE Len(d) <= SMALL_MESSAGE_SEND_BUFFER_SIZE
  <2> DEFINE n == Min({Len(d), Room(r)})
             piece == SubSeq(d, 1, n)
             rest  == SubSeq(d, n + 1, Len(d))
  <2>1. AddBuffer_NET(r, d) = Filled(r, piece, rest)
    BY <1>2 DEF AddBuffer_NET
  <2>2. n \in Nat /\ n <= Len(d)
    <3>1. {Len(d), Room(r)} \subseteq Nat /\ Len(d) \in {Len(d), Room(r)}
      BY <1>1
    <3>2. n \in {Len(d), Room(r)} /\ n <= Len(d)
      BY <3>1, MinIsThere
    <3> QED BY <1>1, <3>2
  <2> HIDE DEF n
  <2>3. /\ piece \in Data /\ Len(piece) = n /\ rest \in Data /\ Len(rest) = Len(d) - n
        /\ piece \o rest = d
    BY <2>2, CutData
  <2> HIDE DEF piece, rest
  <2>4. Len(piece) + Len(rest) <= SMALL_MESSAGE_SEND_BUFFER_SIZE
    BY <1>1, <1>2, <2>2, <2>3
  <2>5. /\ Filled(r, piece, rest) \in SendRequests
        /\ BytesOf(Filled(r, piece, rest)) = BytesOf(r) \o (piece \o rest)
    BY <2>3, <2>4, FilledAppends
  <2> QED BY <2>1, <2>3, <2>5
<1>3. CASE ~ (Len(d) <= SMALL_MESSAGE_SEND_BUFFER_SIZE)
  BY <1>3, LargeAppends DEF AddBuffer_NET
<1> QED BY <1>2, <1>3

(* Its send requests hold the bytes of all messages, in their order.       *)
LEMMA SendBufferInfosKeepBytes ==
  ASSUME NEW bufs \in Seq(Data)
  PROVE  FlattenSeq(getSendBufferInfos(bufs)) = FlattenSeq(bufs)
<1> DEFINE n == Len(bufs)
<1>1. n \in Nat /\ \A i \in 1 .. n : bufs[i] \in Data
  OBVIOUS
<1>2. PICK f : /\ f[0] = NoRequests
               /\ \A i \in 1 .. n : f[i] = AddBuffer_NET(f[i - 1], bufs[i])
               /\ f[n] = FoldLeft(AddBuffer_NET, NoRequests, bufs)
  <2>1. \A r \in SendRequests, d \in Data : AddBuffer_NET(r, d) \in SendRequests
    BY AddBuffer_NETAppends
  <2> QED BY <2>1, NoRequestsYet, FoldOfBuffers_NET
<1>3. PICK h : Flattens(h, bufs, Nat) /\ FlattenSeq(bufs) = h[n]
  BY FlattenSeqFlattens DEF Data
<1>4. h[0] = << >> /\ \A i \in 1 .. n : h[i] = h[i - 1] \o bufs[i]
  BY <1>3 DEF Flattens
<1> DEFINE bad == {i \in 0 .. n : ~ (f[i] \in SendRequests /\ BytesOf(f[i]) = h[i])}
<1>5. bad = {}
  <2> SUFFICES ASSUME bad # {} PROVE FALSE
    OBVIOUS
  <2>1. PICK k \in bad : \A j \in bad : k <= j
    <3> bad \subseteq Nat
      BY <1>1
    <3> HIDE DEF bad
    <3> QED BY LeastNumber
  <2>2. k \in 0 .. n /\ ~ (f[k] \in SendRequests /\ BytesOf(f[k]) = h[k])
    OBVIOUS
  <2>3. CASE k = 0
    BY <1>2, <1>4, <2>2, <2>3, NoRequestsYet
  <2>4. CASE k # 0
    <3>1. k - 1 \in 0 .. n /\ k \in 1 .. n /\ ~ (k <= k - 1)
      BY <1>1, <2>2, <2>4
    <3>2. f[k - 1] \in SendRequests /\ BytesOf(f[k - 1]) = h[k - 1]
      BY <2>1, <3>1
    <3>3. f[k] = AddBuffer_NET(f[k - 1], bufs[k]) /\ h[k] = h[k - 1] \o bufs[k] /\ bufs[k] \in Data
      BY <1>1, <1>2, <1>4, <3>1
    <3>4. f[k] \in SendRequests /\ BytesOf(f[k]) = BytesOf(f[k - 1]) \o bufs[k]
      BY <3>2, <3>3, AddBuffer_NETAppends
    <3> QED BY <2>2, <3>2, <3>3, <3>4
  <2> QED BY <2>3, <2>4
<1>6. n \in 0 .. n
  BY <1>1
<1>7. f[n] \in SendRequests /\ BytesOf(f[n]) = FlattenSeq(bufs)
  BY <1>3, <1>5, <1>6
<1>8. getSendBufferInfos(bufs) = Flushed(f[n]).made
  BY <1>2 DEF getSendBufferInfos
<1>9. Flushed(f[n]) \in SendRequests /\ Flushed(f[n]).small = << >> /\ BytesOf(Flushed(f[n])) = FlattenSeq(bufs)
  BY <1>7, FlushedKeeps
<1>10. FlattenSeq(Flushed(f[n]).made) \in Data
  BY <1>9, RequestParts
<1>11. FlattenSeq(Flushed(f[n]).made) = FlattenSeq(bufs)
  BY <1>9, <1>10, JoinedData DEF BytesOf
<1> QED BY <1>8, <1>11
-----------------------------------------------------------------------------
(* Nothing is overridden by 0.                                             *)
LEMMA NothingPatched ==
  ASSUME NEW d \in Data
  PROVE  Patched(d, 0) = d
<1>1. Patched(d, 0) = [i \in 1 .. Len(d) |-> d[i]]
  BY DEF Patched
<1> QED BY <1>1 DEF Data

(* The bytes of a message: as many as its size says, which come first.     *)
LEMMA MessageIsData ==
  ASSUME NEW n \in Sizes, NEW id \in Nat, NEW mark \in Nat
  PROVE  /\ MessageBytes(n, id, mark) \in Data /\ Len(MessageBytes(n, id, mark)) = n
         /\ n \in Nat /\ n >= SIZE_PLUS_SUBSCRIPTION_ID
         /\ SubSeq(MessageBytes(n, id, mark), 1, SIZE_SIZE) = SizeBytes(n)
         /\ \A i \in 1 .. n : MessageBytes(n, id, mark)[i] =
              IF i <= SIZE_SIZE THEN SizeBytes(n)[i] ELSE IF i - SIZE_SIZE <= ID_SIZE THEN id ELSE mark
<1> DEFINE s == SizeBytes(n)
           t == [i \in 1 .. n - SIZE_SIZE |-> IF i <= ID_SIZE THEN id ELSE mark]
           Z == SIZE_SIZE
<1>1. n \in Nat /\ Z \in Nat /\ ID_SIZE \in Nat /\ n >= Z + ID_SIZE /\ n - Z \in Nat
  BY FramingAssumption DEF Sizes, SIZE_PLUS_SUBSCRIPTION_ID
<1>2. s \in Data /\ Len(s) = Z
  BY <1>1, SizeBytesType
<1>3. t \in Data /\ Len(t) = n - Z
  BY <1>1 DEF Data
<1>4. MessageBytes(n, id, mark) = s \o t
  BY DEF MessageBytes
<1>5. \A i \in 1 .. n - Z : t[i] = IF i <= ID_SIZE THEN id ELSE mark
  OBVIOUS
<1> HIDE DEF s, t, Z
<1>6. s \o t \in Data /\ Len(s \o t) = n
  <2>1. s \o t \in Data /\ Len(s \o t) = Len(s) + Len(t)
    BY <1>2, <1>3, JoinedData
  <2> QED BY <1>1, <1>2, <1>3, <2>1
<1>7. \A i \in 1 .. n : (s \o t)[i] = IF i <= Z THEN s[i] ELSE t[i - Z]
  BY <1>1, <1>2, <1>3, ConcatProperties DEF Data
<1>8. SubSeq(s \o t, 1, Z) = s
  <2> DEFINE u == SubSeq(s \o t, 1, Z)
  <2>0. Z <= Len(s \o t) /\ \A i \in 1 .. Z : i \in 1 .. n /\ i <= Z
    BY <1>1, <1>6
  <2>1. u \in Data /\ Len(u) = Z /\ \A i \in 1 .. Z : u[i] = (s \o t)[i]
    BY <1>1, <1>6, <2>0, CutData
  <2>2. \A i \in 1 .. Z : u[i] = s[i]
    BY <1>7, <2>0, <2>1
  <2> HIDE DEF u
  <2>3. u = s
    BY <1>2, <2>1, <2>2, SeqEqual DEF Data
  <2> QED BY <2>3 DEF u
<1>9. \A i \in 1 .. n : (s \o t)[i] = IF i <= Z THEN s[i] ELSE IF i - Z <= ID_SIZE THEN id ELSE mark
  <2> SUFFICES ASSUME NEW i \in 1 .. n
               PROVE  (s \o t)[i] = IF i <= Z THEN s[i] ELSE IF i - Z <= ID_SIZE THEN id ELSE mark
    OBVIOUS
  <2>1. i <= Z \/ i - Z \in 1 .. n - Z
    BY <1>1
  <2> QED BY <1>5, <1>7, <2>1
<1>10. n >= SIZE_PLUS_SUBSCRIPTION_ID
  BY <1>1 DEF SIZE_PLUS_SUBSCRIPTION_ID, Z
<1> QED BY <1>1, <1>4, <1>6, <1>8, <1>9, <1>10 DEF s, Z

(* An ID that is overridden is the ID of the message.                      *)
LEMMA PatchedMessage ==
  ASSUME NEW n \in Sizes, NEW id \in Nat, NEW mark \in Nat
  PROVE  Patched(MessageBytes(n, 0, mark), id) = MessageBytes(n, id, mark)
<1> DEFINE m == MessageBytes(n, 0, mark)
           p == MessageBytes(n, id, mark)
           Z == SIZE_SIZE
<1>0. n \in Nat /\ Z \in Nat /\ ID_SIZE \in Nat
  BY FramingAssumption DEF Sizes
<1>1. /\ m \in Data /\ Len(m) = n
      /\ \A i \in 1 .. n : m[i] =
           IF i <= Z THEN SizeBytes(n)[i] ELSE IF i - Z <= ID_SIZE THEN 0 ELSE mark
  BY <1>0, MessageIsData
<1>2. /\ p \in Data /\ Len(p) = n
      /\ \A i \in 1 .. n : p[i] =
           IF i <= Z THEN SizeBytes(n)[i] ELSE IF i - Z <= ID_SIZE THEN id ELSE mark
  BY MessageIsData
<1>3. Patched(m, id) =
        [i \in 1 .. n |-> IF id # 0 /\ i \in Z + 1 .. Z + ID_SIZE THEN id ELSE m[i]]
  BY <1>1 DEF Patched, SIZE_PLUS_SUBSCRIPTION_ID
<1> HIDE DEF m, p, Z
<1>4. \A i \in 1 .. n : (IF id # 0 /\ i \in Z + 1 .. Z + ID_SIZE THEN id ELSE m[i]) = p[i]
  <2> SUFFICES ASSUME NEW i \in 1 .. n
               PROVE  (IF id # 0 /\ i \in Z + 1 .. Z + ID_SIZE THEN id ELSE m[i]) = p[i]
    OBVIOUS
  <2>1. i \in Z + 1 .. Z + ID_SIZE <=> ~ (i <= Z) /\ i - Z <= ID_SIZE
    BY <1>0
  <2> QED BY <1>1, <1>2, <2>1
<1>5. p = [i \in 1 .. n |-> p[i]]
  BY <1>2 DEF Data
<1>6. Patched(m, id) = p
  BY <1>3, <1>4, <1>5
<1> QED BY <1>6 DEF m, p
-----------------------------------------------------------------------------
(* processQueuedWrites with an empty queue makes no write request.         *)
LEMMA NothingToWrite == getWriteRequests(<< >>) = << >>
<1> DEFINE bufs == << >>
<1>1. bufs \in Seq(WriteBuffers) /\ Len(bufs) = 0
  OBVIOUS
<1> HIDE DEF bufs
<1>2. PICK f : f[0] = NoRequests /\ f[Len(bufs)] = FoldLeft(AddBuffer, NoRequests, bufs)
  <2>1. \A r \in SendRequests, b \in WriteBuffers : AddBuffer(r, b) \in SendRequests
    BY AddBufferAppends
  <2> QED BY <1>1, <2>1, NoRequestsYet, FoldOfBuffers
<1> QED BY <1>1, <1>2 DEF bufs, getWriteRequests, Flushed, NoRequests

(* What is left of a callback after its first step.                        *)
LEMMA HandlerSteps ==
  ASSUME NEW h \in Handlers, h # << >>
  PROVE  /\ Tail(h) \in Handlers
         /\ Tail(h) # <<"acknowledge">> /\ Tail(h) # <<"parse">>
         /\ Head(h) \in {"parse", "acknowledge"} => h = <<Head(h)>> /\ Tail(h) = << >>
         /\ Head(h) = "read" => h \in Connecting /\ Tail(h) = << >>
         /\ Head(h) \in {"take", "send"} => (h \in Connecting <=> Tail(h) \in Connecting)
         /\ h = <<"parse">> => Head(h) = "parse"
         /\ h = <<"acknowledge">> => Head(h) = "acknowledge"
<1>1. CASE h = <<"take", "send", "read">>
  <2>1. Head(h) = "take" /\ Tail(h) = <<"send", "read">>
    BY <1>1
  <2> QED BY <1>1, <2>1 DEF Handlers, Connecting
<1>2. CASE h = <<"send", "read">>
  <2>1. Head(h) = "send" /\ Tail(h) = <<"read">>
    BY <1>2
  <2> QED BY <1>2, <2>1 DEF Handlers, Connecting
<1>3. CASE h = <<"read">>
  <2>1. Head(h) = "read" /\ Tail(h) = << >>
    BY <1>3
  <2> QED BY <1>3, <2>1 DEF Handlers, Connecting
<1>4. CASE h = <<"take", "send">>
  <2>1. Head(h) = "take" /\ Tail(h) = <<"send">>
    BY <1>4
  <2> QED BY <1>4, <2>1 DEF Handlers, Connecting
<1>5. CASE h = <<"send">>
  <2>1. Head(h) = "send" /\ Tail(h) = << >>
    BY <1>5
  <2> QED BY <1>5, <2>1 DEF Handlers, Connecting
<1>6. CASE h = <<"parse">>
  <2>1. Head(h) = "parse" /\ Tail(h) = << >>
    BY <1>6
  <2> QED BY <1>6, <2>1 DEF Handlers, Connecting
<1>7. CASE h = <<"acknowledge">>
  <2>1. Head(h) = "acknowledge" /\ Tail(h) = << >>
    BY <1>7
  <2> QED BY <1>7, <2>1 DEF Handlers, Connecting
<1> QED BY <1>1, <1>2, <1>3, <1>4, <1>5, <1>6, <1>7 DEF Handlers, Connecting

(* The callbacks by name, so that no later step compares sequences.        *)
LEMMA KindsOfHandlers ==
  /\ Connecting \subseteq Handlers
  /\ << >> \notin Connecting /\ <<"parse">> \notin Connecting
  /\ <<"acknowledge">> \notin Connecting /\ <<"take", "send">> \notin Connecting
  /\ <<"take", "send", "read">> \in Connecting
  /\ << >> \in Handlers /\ <<"parse">> \in Handlers /\ <<"take", "send">> \in Handlers
  /\ <<"acknowledge">> \in Handlers
  /\ <<"parse">> # << >> /\ <<"acknowledge">> # << >> /\ <<"parse">> # <<"acknowledge">>
  /\ <<"take", "send">> # << >> /\ <<"take", "send">> # <<"acknowledge">>
  /\ <<"take", "send">> # <<"parse">>
BY SMTT(60) DEF Handlers, Connecting
-----------------------------------------------------------------------------
USE DEF handleVars

(* A socket that was made but not connected.                               *)
LEMMA Initially == Init => IInv
<1> SUFFICES ASSUME Init PROVE IInv
  OBVIOUS
<1>1. task = [l \in Loops |-> << >>] /\ requests = [l \in Loops |-> << >>]
  BY DEF Init
<1>2. Types
  BY <1>1, KindsOfHandlers DEF Init, Types, Loops, Nowhere
<1>3. Sides /\ Separation /\ Unwritten
  BY <1>1 DEF Init, Sides, Separation, Unwritten, Leaving, Idle, Loops
<1>4. Handling
  BY <1>1, KindsOfHandlers DEF Init, Handling, Leaving, Idle, Loops
<1>5. Lifetime
  BY DEF Init, Lifetime, Leaving
<1> QED BY <1>2, <1>3, <1>4, <1>5 DEF IInv

(* One lemma for each action, with one step for each part of IInv.         *)

(* A connection is accepted on the gateway's loop.                         *)
LEMMA Step_accept ==
  ASSUME IInv, accept
  PROVE  IInv'
<1>1. Types'
  BY KindsOfHandlers
     DEF accept, createSocket, onSocketConnected, IInv, Types, writeVars, sendVars, readVars
<1>2. Sides'
  BY DEF accept, createSocket, IInv, Types, Sides, Leaving
<1>3. Handling'
  BY DEF accept, createSocket, onSocketConnected, IInv, Types, Sides, Handling, Separation, Lifetime,
         Leaving, Idle, Loops
<1>4. Separation'
  BY DEF accept, createSocket, onSocketConnected, IInv, Types, Sides, Separation, Idle, Loops, writeVars
<1>5. Unwritten'
  BY DEF accept, createSocket, IInv, Unwritten, Leaving, writeVars, sendVars
<1>6. Lifetime'
  BY DEF accept, createSocket, IInv, Lifetime, Leaving
<1> QED BY <1>1, <1>2, <1>3, <1>4, <1>5, <1>6 DEF IInv

(* connect, name resolution and the connection of an outgoing socket.      *)
LEMMA Step_connect ==
  ASSUME IInv, connect
  PROVE  IInv'
<1>1. Types'
  BY DEF connect, IInv, Types, Idle, Loops, Nowhere, ownVars, writeVars, sendVars, readVars
<1>2. Sides'
  BY DEF connect, IInv, Sides, Leaving, Idle, Nowhere, ownVars
<1>3. Handling'
  BY HandlerSteps, KindsOfHandlers
     DEF connect, IInv, Types, Handling, Sides, Leaving, Idle, Loops, Nowhere, ownVars
<1>4. Separation'
  BY DEF connect, IInv, Separation, Idle, writeVars
<1>5. Unwritten'
  BY DEF connect, IInv, Unwritten, Leaving, Idle, ownVars, writeVars, sendVars
<1>6. Lifetime'
  BY DEF connect, IInv, Lifetime, Leaving, Alive, Idle, Loops, ownVars, writeVars, sendVars,
         readVars
<1> QED BY <1>1, <1>2, <1>3, <1>4, <1>5, <1>6 DEF IInv

LEMMA Step_onDNSResolution ==
  ASSUME IInv, onDNSResolution
  PROVE  IInv'
<1>1. Types'
  BY DEF onDNSResolution, connectIP, createSocket, IInv, Types, Alive, Idle, Loops, Nowhere, ownVars, writeVars,
         sendVars, readVars
<1>2. Sides'
  BY DEF onDNSResolution, connectIP, createSocket, IInv, Sides, Leaving, Alive, Idle, Nowhere, ownVars
<1>3. Handling'
  BY DEF onDNSResolution, connectIP, createSocket, IInv, Handling, Leaving, Alive, Idle, Loops, Nowhere, ownVars
<1>4. Separation'
  BY DEF onDNSResolution, connectIP, createSocket, IInv, Separation, Alive, Idle, writeVars
<1>5. Unwritten'
  BY DEF onDNSResolution, connectIP, createSocket, IInv, Unwritten, Leaving, Alive, Idle, ownVars, writeVars,
         sendVars
<1>6. Lifetime'
  BY DEF onDNSResolution, connectIP, createSocket, IInv, Lifetime, Leaving, Alive, Idle, Loops, ownVars, writeVars,
         sendVars, readVars
<1> QED BY <1>1, <1>2, <1>3, <1>4, <1>5, <1>6 DEF IInv

LEMMA Step_onConnectCompleted ==
  ASSUME IInv, onConnectCompleted
  PROVE  IInv'
<1>1. Types'
  BY KindsOfHandlers
     DEF onConnectCompleted, onSocketConnected, IInv, Types, ownVars, writeVars, sendVars,
         readVars
<1>2. Sides'
  BY DEF onConnectCompleted, IInv, Sides, Leaving, ownVars
<1>3. Handling'
  BY KindsOfHandlers
     DEF onConnectCompleted, onSocketConnected, IInv, Types, Sides, Handling, Lifetime,
         Leaving, Idle, ownVars
<1>4. Separation'
  BY DEF onConnectCompleted, onSocketConnected, IInv, Types, Sides, Separation, Idle, Loops,
         writeVars
<1>5. Unwritten'
  BY DEF onConnectCompleted, IInv, Unwritten, Leaving, ownVars, writeVars, sendVars
<1>6. Lifetime'
  BY DEF onConnectCompleted, IInv, Lifetime, Leaving, ownVars
<1> QED BY <1>1, <1>2, <1>3, <1>4, <1>5, <1>6 DEF IInv

(* The last part of onSocketConnected.  On the new loop it ends the move:  *)
(* the acknowledgment is still to come, there and nowhere else.            *)
LEMMA Step_StartReading ==
  ASSUME IInv, NEW l \in Loops, StartReading(l)
  PROVE  IInv'
<1>1. Types'
  <2>1. task' \in [Loops -> Handlers]
    BY HandlerSteps, KindsOfHandlers DEF StartReading, IInv, Types, Runs, Done
  <2> QED BY <2>1 DEF StartReading, IInv, Types, ownVars, writeVars, sendVars, readVars
<1>2. Sides'
  BY HandlerSteps
     DEF StartReading, IInv, Types, Sides, Handling, Leaving, Runs, Nowhere, ownVars
<1>3. Handling'
  <2>1. task[l] \in Connecting /\ Tail(task[l]) = << >>
    BY HandlerSteps DEF StartReading, IInv, Types, Runs
  <2>2. handle = loop /\ ~destroyed
    BY <2>1 DEF IInv, Handling
  <2>3. CASE stage = "registering"
    <3>1. l = "new" /\ loop = "new" /\ stage' = "moved" /\ task' = [task EXCEPT ![l] = <<"acknowledge">>]
      BY <2>1, <2>3 DEF StartReading, IInv, Handling
    <3> QED BY <3>1, KindsOfHandlers DEF StartReading, IInv, Types, Handling, Leaving
  <2>4. CASE stage # "registering"
    <3>1. l = "old" /\ loop = "old" /\ stage' = "connected" /\ task' = [task EXCEPT ![l] = << >>]
      BY <2>1, <2>4 DEF StartReading, IInv, Handling, Done
    <3> QED BY <3>1, KindsOfHandlers DEF IInv, Types, Handling, Leaving
  <2> QED BY <2>3, <2>4
<1>4. Separation'
  BY DEF StartReading, IInv, Types, Separation, Idle, Runs, Done, Loops, writeVars
<1>5. Unwritten'
  BY HandlerSteps
     DEF StartReading, IInv, Types, Handling, Unwritten, Leaving, Runs, ownVars, writeVars,
         sendVars
<1>6. Lifetime'
  BY DEF StartReading, IInv, Lifetime, Leaving, Alive, Runs, ownVars
<1> QED BY <1>1, <1>2, <1>3, <1>4, <1>5, <1>6 DEF IInv

(* write: the queue, then the event, each of them by any writer.           *)
LEMMA Step_AddWrite ==
  ASSUME IInv, NEW w \in Writers, AddWrite(w)
  PROVE  IInv'
<1>1. Types'
  BY DEF AddWrite, QueueWrite, MayWrite, IInv, Types, Loops, Nowhere, connVars, ownVars,
         sendVars, readVars
<1>2. Sides'
  BY DEF AddWrite, QueueWrite, MayWrite, IInv, Sides, Leaving, Nowhere, connVars, ownVars
<1>3. Handling'
  BY DEF AddWrite, QueueWrite, MayWrite, IInv, Handling, Leaving, Idle, Loops, Nowhere,
         connVars, ownVars
<1>4. Separation'
  BY DEF AddWrite, QueueWrite, MayWrite, IInv, Separation, Idle, connVars
<1>5. Unwritten'
  BY DEF AddWrite, QueueWrite, MayWrite, IInv, Unwritten, Leaving, connVars, ownVars,
         sendVars
<1>6. Lifetime'
  BY DEF AddWrite, QueueWrite, MayWrite, IInv, Lifetime, Leaving, Alive, Loops, connVars,
         ownVars, sendVars, readVars
<1> QED BY <1>1, <1>2, <1>3, <1>4, <1>5, <1>6 DEF IInv

LEMMA Step_MarshalWrite ==
  ASSUME IInv, NEW w \in Writers, MarshalWrite(w)
  PROVE  IInv'
<1>1. Types'
  BY DEF MarshalWrite, IInv, Types, Loops, Nowhere, connVars, ownVars, sendVars, readVars
<1>2. Sides'
  BY DEF MarshalWrite, IInv, Sides, Leaving, Nowhere, connVars, ownVars
<1>3. Handling'
  BY DEF MarshalWrite, IInv, Handling, Leaving, Idle, Loops, Nowhere, connVars, ownVars
<1>4. Separation'
  BY DEF MarshalWrite, IInv, Separation, Idle, connVars
<1>5. Unwritten'
  BY DEF MarshalWrite, IInv, Unwritten, Leaving, connVars, ownVars, sendVars
<1>6. Lifetime'
  BY DEF MarshalWrite, IInv, Lifetime, Leaving, Alive, Loops, connVars, ownVars, sendVars,
         readVars
<1> QED BY <1>1, <1>2, <1>3, <1>4, <1>5, <1>6 DEF IInv

(* The service manager's answer is the first thing written after the move. *)
LEMMA Step_acknowledge ==
  ASSUME IInv, acknowledge
  PROVE  IInv'
<1>1. Types'
  BY ZenonT(60), HandlerSteps
     DEF acknowledge, IInv, Types, Runs, Done, connVars, ownVars, sendVars, readVars
<1>2. Sides'
  BY DEF acknowledge, IInv, Sides, Leaving, connVars, ownVars
<1>3. Handling'
  BY HandlerSteps, KindsOfHandlers
     DEF acknowledge, IInv, Types, Handling, Sides, Leaving, Runs, Done, Loops, connVars
<1>4. Separation'
  BY DEF acknowledge, IInv, Separation, Idle, Done, connVars
<1>5. Unwritten'
  BY DEF acknowledge, IInv, Separation, Unwritten, Idle, Runs, connVars
<1>6. Lifetime'
  BY DEF acknowledge, IInv, Lifetime, Leaving, Alive, Runs, Loops, connVars, ownVars,
         readVars
<1> QED BY <1>1, <1>2, <1>3, <1>4, <1>5, <1>6 DEF IInv

(* The write event: take the queue, make the requests, send them.          *)
LEMMA Step_processQueuedWrites ==
  ASSUME IInv, NEW l \in Loops, processQueuedWrites(l)
  PROVE  IInv'
<1>1. Types'
  BY HandlerSteps, KindsOfHandlers
     DEF processQueuedWrites, IInv, Types, Idle, Loops, Nowhere, connVars, ownVars,
         sendVars, readVars
<1>2. Sides'
  BY DEF processQueuedWrites, IInv, Sides, Leaving, Idle, Nowhere, connVars, ownVars
<1>3. Handling'
  BY HandlerSteps, KindsOfHandlers
     DEF processQueuedWrites, IInv, Types, Handling, Sides, Leaving, Idle, Loops, Nowhere,
         connVars, ownVars
<1>4. Separation'
  BY DEF processQueuedWrites, IInv, Separation, Idle, connVars
<1>5. Unwritten'
  BY DEF processQueuedWrites, IInv, Unwritten, Leaving, Idle, connVars, ownVars, sendVars
<1>6. Lifetime'
  BY DEF processQueuedWrites, IInv, Lifetime, Leaving, Alive, Idle, Loops, connVars,
         ownVars, sendVars, readVars
<1> QED BY <1>1, <1>2, <1>3, <1>4, <1>5, <1>6 DEF IInv

LEMMA Step_TakeWrites ==
  ASSUME IInv, NEW l \in Loops, TakeWrites(l)
  PROVE  IInv'
<1>1. Types'
  <2>1. task' \in [Loops -> Handlers]
    BY HandlerSteps DEF TakeWrites, IInv, Types, Runs, Done
  <2>2. requests' = [k \in Loops |-> requests'[k]] /\ inFlight' \in Nat
    BY DEF TakeWrites, IInv, Types
  <2> QED BY <2>1 DEF TakeWrites, IInv, Types, connVars, ownVars, readVars
<1>2. Sides'
  BY DEF TakeWrites, IInv, Sides, Leaving, connVars, ownVars
<1>3. Handling'
  <2>1. /\ Head(task[l]) = "take" /\ task[l] # << >> /\ task \in [Loops -> Handlers]
        /\ task' = [task EXCEPT ![l] = Tail(task[l])]
    BY DEF TakeWrites, Runs, Done, IInv, Types
  <2> DEFINE h == task[l]
             t == Tail(h)
  <2>2. /\ h \in Connecting <=> t \in Connecting
        /\ t # <<"acknowledge">> /\ t # <<"parse">> /\ h # << >> /\ h # <<"parse">>
    BY <2>1, HandlerSteps
  <2>3. task'[l] = t /\ \A k \in Loops \ {l} : task'[k] = task[k]
    BY <2>1
  <2> HIDE DEF h, t
  <2>4. UNCHANGED <<stage, loop, handle, reading, connected, destroyed>>
    BY DEF TakeWrites, connVars, ownVars
  <2>5. \A k \in Loops : /\ task'[k] \in Connecting <=> task[k] \in Connecting
                         /\ task'[k] = <<"acknowledge">> => task[k] = <<"acknowledge">>
    BY <2>2, <2>3 DEF h
  <2>6. l = "old" => stage # "closing" /\ ~(stage = "registering" /\ loop = "old")
    BY <2>2 DEF IInv, Handling, Idle, h
  <2>7. "old" \in Loops /\ "new" \in Loops
    BY DEF Loops
  <2>8. stage = "closing" \/ (stage = "registering" /\ loop = "old") => task'["old"] = task["old"]
    BY <2>3, <2>6, <2>7
  <2> QED BY <2>4, <2>5, <2>7, <2>8 DEF IInv, Handling, Leaving, Idle
<1>4. Separation'
  BY DEF TakeWrites, IInv, Separation, Idle, Done, connVars
<1>5. Unwritten'
  BY NothingToWrite
     DEF TakeWrites, IInv, Handling, Unwritten, Leaving, Idle, Runs, connVars, ownVars
<1>6. Lifetime'
  BY DEF TakeWrites, IInv, Lifetime, Leaving, Alive, Done, connVars, ownVars, readVars
<1> QED BY <1>1, <1>2, <1>3, <1>4, <1>5, <1>6 DEF IInv

LEMMA Step_send ==
  ASSUME IInv, NEW l \in Loops, send(l)
  PROVE  IInv'
<1>1. Types'
  <2>1. task' \in [Loops -> Handlers]
    BY HandlerSteps DEF send, IInv, Types, Runs, Done
  <2>2. requests' = [k \in Loops |-> requests'[k]] /\ inFlight' \in Nat
    BY DEF send, IInv, Types, sendVars
  <2> QED BY <2>1, <2>2 DEF send, IInv, Types, connVars, ownVars, writeVars, readVars
<1>2. Sides'
  BY DEF send, IInv, Sides, Leaving, connVars, ownVars
<1>3. Handling'
  <2>1. CASE requests[l] = << >>
    BY ZenonT(60), HandlerSteps
       DEF send, IInv, Types, Sides, Handling, Leaving, Idle, Runs, Done, Loops, connVars,
           ownVars
  <2>2. CASE requests[l] # << >>
    BY <2>2 DEF send, IInv, Handling, Leaving, Idle, connVars, ownVars
  <2> QED BY <2>1, <2>2
<1>4. Separation'
  BY DEF send, IInv, Types, Separation, Idle, Runs, Done, Loops, connVars, writeVars
<1>5. Unwritten'
  BY DEF send, IInv, Separation, Unwritten, Leaving, Idle, Runs, Loops, connVars, ownVars,
         writeVars, sendVars
<1>6. Lifetime'
  BY DEF send, IInv, Lifetime, Leaving, Alive, Runs, connVars, ownVars, readVars
<1> QED BY <1>1, <1>2, <1>3, <1>4, <1>5, <1>6 DEF IInv

(* A write that failed disconnects the socket and may drop its last owner. *)
LEMMA Step_onWriteCompleted ==
  ASSUME IInv, onWriteCompleted
  PROVE  IInv'
<1>1. Types'
  <2>1. inFlight' \in Nat
    BY DEF onWriteCompleted, IInv, Types
  <2>2. owners' \subseteq {"gateway", "service", "user"} /\ connected' \in BOOLEAN
    BY DEF onWriteCompleted, handleSocketDisconnected, Released, IInv, Types
  <2> QED BY <2>1, <2>2 DEF onWriteCompleted, IInv, Types, connVars, sendVars, readVars
<1>2. Sides'
  BY DEF onWriteCompleted, handleSocketDisconnected, Released, IInv, Sides, Leaving, Idle,
         Loops, Nowhere, connVars
<1>3. Handling'
  BY DEF onWriteCompleted, handleSocketDisconnected, Released, IInv, Handling, Leaving,
         Idle, Loops, Nowhere, connVars
<1>4. Separation'
  BY DEF onWriteCompleted, handleSocketDisconnected, Released, IInv, Separation, Idle,
         Loops, connVars
<1>5. Unwritten'
  BY DEF onWriteCompleted, handleSocketDisconnected, Released, IInv, Unwritten, Leaving,
         Idle, Loops, connVars
<1>6. Lifetime'
  BY HandlerSteps, KindsOfHandlers
     DEF onWriteCompleted, handleSocketDisconnected, Released, IInv, Types, Lifetime, Sides,
         Handling, Unwritten, Leaving, Alive, Idle, Loops, connVars, readVars
<1> QED BY <1>1, <1>2, <1>3, <1>4, <1>5, <1>6 DEF IInv

(* Data, and the end of it.                                                *)
LEMMA Step_onDataReceived ==
  ASSUME IInv, onDataReceived
  PROVE  IInv'
<1>1. Types'
  BY ZenonT(60), HandlerSteps, KindsOfHandlers
     DEF onDataReceived, IInv, Types, Alive, Idle, Loops, Nowhere, connVars, ownVars,
         writeVars, sendVars
<1>2. Sides'
  BY DEF onDataReceived, IInv, Sides, Leaving, Alive, Idle, Nowhere, connVars, ownVars
<1>3. Handling'
  BY HandlerSteps, KindsOfHandlers
     DEF onDataReceived, IInv, Types, Handling, Sides, Leaving, Alive, Idle, Loops, Nowhere,
         connVars, ownVars
<1>4. Separation'
  BY HandlerSteps, KindsOfHandlers
     DEF onDataReceived, IInv, Types, Separation, Sides, Handling, Unwritten, Alive, Idle,
         connVars, writeVars
<1>5. Unwritten'
  BY DEF onDataReceived, IInv, Unwritten, Leaving, Alive, Idle, connVars, ownVars,
         writeVars, sendVars
<1>6. Lifetime'
  BY DEF onDataReceived, IInv, Lifetime, Leaving, Alive, Idle, Loops, connVars, ownVars,
         writeVars, sendVars
<1> QED BY <1>1, <1>2, <1>3, <1>4, <1>5, <1>6 DEF IInv

LEMMA Step_onReadError ==
  ASSUME IInv, onReadError
  PROVE  IInv'
<1>1. Types'
  BY ZenonT(60) DEF onReadError, handleSocketDisconnected, Released, IInv, Types, Alive, Idle, Loops,
         Nowhere, sendVars, readVars
<1>2. Sides'
  BY DEF onReadError, handleSocketDisconnected, Released, IInv, Sides, Leaving, Alive, Idle,
         Nowhere
<1>3. Handling'
  BY DEF onReadError, handleSocketDisconnected, Released, IInv, Handling, Leaving, Alive,
         Idle, Loops, Nowhere
<1>4. Separation'
  BY DEF onReadError, handleSocketDisconnected, Released, IInv, Separation, Alive, Idle
<1>5. Unwritten'
  BY DEF onReadError, handleSocketDisconnected, Released, IInv, Unwritten, Leaving, Alive,
         Idle, sendVars
<1>6. Lifetime'
  BY HandlerSteps, KindsOfHandlers
     DEF onReadError, handleSocketDisconnected, Released, IInv, Types, Lifetime, Handling,
         Leaving, Alive, Idle, Loops, sendVars, readVars
<1> QED BY <1>1, <1>2, <1>3, <1>4, <1>5, <1>6 DEF IInv

(* A message was read.  A CONNECT starts the move, in the middle of a      *)
(* callback of the old loop, which goes on with the rest of the chunk.     *)
LEMMA Step_ReadMessage ==
  ASSUME IInv, NEW l \in Loops, ReadMessage(l)
  PROVE  IInv'
<1>1. Types'
  <2>1. /\ stage' \in {stage, "closing", "unmoved"}
        /\ reading' \in {reading, FALSE} /\ connected' \in {connected, FALSE}
        /\ callback' \in {callback, "service"} /\ owners' \subseteq owners \cup {"gateway", "service"}
        /\ saidGoodbye' \in BOOLEAN
    <3>1. onConnect \/ onDisconnect \/ Ignored
      BY DEF ReadMessage, Dispatched
    <3>2. CASE onConnect
      BY <3>2 DEF onConnect, moveToLoop, IInv, Types
    <3>3. CASE onDisconnect
      BY <3>3 DEF onDisconnect, IInv, Types
    <3>4. CASE Ignored
      BY <3>4 DEF Ignored, IInv, Types
    <3> QED BY <3>1, <3>2, <3>3, <3>4
  <2>2. UNCHANGED <<kind, loop, handle, destroyed, task, writeEvents, wroteEarly, requests, inFlight>>
    BY DEF ReadMessage, writeVars, sendVars
  <2>3. owners' \subseteq {"gateway", "service", "user"}
    BY <2>1 DEF IInv, Types
  <2>4. reading' \in BOOLEAN /\ connected' \in BOOLEAN
    BY <2>1 DEF IInv, Types
  <2>5. requests' = [k \in Loops |-> requests'[k]]
    BY <2>2 DEF IInv, Types
  <2>6. task' \in [Loops -> Handlers] /\ writeEvents' \subseteq Loops /\ handle' \in {loop', Nowhere}
    BY <2>2 DEF IInv, Types
  <2> QED BY <2>1, <2>2, <2>3, <2>4, <2>5, <2>6 DEF IInv, Types
<1>2. Sides'
  BY DEF ReadMessage, Dispatched, onConnect, moveToLoop, onDisconnect, Ignored, IInv, Sides,
         Leaving, Runs, Nowhere
<1>3. Handling'
  <2>1. /\ \/ UNCHANGED <<stage, reading, connected>>
           \/ callback = "gateway" /\ stage' = "closing" /\ ~reading' /\ ~connected'
           \/ callback = "gateway" /\ stage' = "unmoved"
        /\ task[l] = <<"parse">>
        /\ UNCHANGED <<task, loop, handle, destroyed>>
    BY HandlerSteps
       DEF ReadMessage, Dispatched, onConnect, moveToLoop, onDisconnect, Ignored, IInv,
           Types, Runs
  <2> QED BY <2>1, KindsOfHandlers
             DEF IInv, Types, Sides, Handling, Separation, Leaving, Idle, Loops
<1>4. Separation'
  BY DEF ReadMessage, Dispatched, onConnect, moveToLoop, onDisconnect, Ignored, IInv,
         Separation, Idle, Runs, writeVars
<1>5. Unwritten'
  BY DEF ReadMessage, Dispatched, onConnect, moveToLoop, onDisconnect, Ignored, IInv, Types,
         Unwritten, Sides, Handling, Leaving, Runs, writeVars, sendVars
<1>6. Lifetime'
  BY DEF ReadMessage, Dispatched, onConnect, moveToLoop, onDisconnect, Ignored, IInv,
         Lifetime, Leaving, Alive, Runs, Loops, writeVars, sendVars
<1> QED BY <1>1, <1>2, <1>3, <1>4, <1>5, <1>6 DEF IInv

LEMMA Step_EndOfChunk ==
  ASSUME IInv, NEW l \in Loops, EndOfChunk(l)
  PROVE  IInv'
<1>1. Types'
  BY HandlerSteps, KindsOfHandlers
     DEF EndOfChunk, IInv, Types, Runs, Done, Loops, Nowhere, connVars, ownVars, writeVars,
         sendVars, readVars
<1>2. Sides'
  BY DEF EndOfChunk, IInv, Sides, Leaving, Runs, Done, Nowhere, connVars, ownVars
<1>3. Handling'
  BY HandlerSteps, KindsOfHandlers
     DEF EndOfChunk, IInv, Types, Handling, Sides, Leaving, Idle, Runs, Done, Loops,
         Nowhere, connVars, ownVars
<1>4. Separation'
  BY DEF EndOfChunk, IInv, Separation, Idle, Runs, Done, connVars, writeVars
<1>5. Unwritten'
  BY DEF EndOfChunk, IInv, Unwritten, Leaving, Runs, Done, connVars, ownVars, writeVars,
         sendVars
<1>6. Lifetime'
  BY DEF EndOfChunk, IInv, Lifetime, Leaving, Alive, Runs, Done, Loops, connVars, ownVars,
         writeVars, sendVars, readVars
<1> QED BY <1>1, <1>2, <1>3, <1>4, <1>5, <1>6 DEF IInv

(* The two callbacks of the move: the old handle is closed, the socket is  *)
(* registered with the new loop.                                           *)
LEMMA Step_moveToLoop_onSocketClosed ==
  ASSUME IInv, moveToLoop_onSocketClosed
  PROVE  IInv'
<1>1. Types'
  BY DEF moveToLoop_onSocketClosed, IInv, Types, ownVars, writeVars, sendVars, readVars
<1>2. Sides'
  BY DEF moveToLoop_onSocketClosed, IInv, Sides, Handling, Leaving, ownVars
<1>3. Handling'
  BY DEF moveToLoop_onSocketClosed, IInv, Handling, Sides, Leaving, Idle
<1>4. Separation'
  BY DEF moveToLoop_onSocketClosed, IInv, Separation, Idle, writeVars
<1>5. Unwritten'
  BY DEF moveToLoop_onSocketClosed, IInv, Unwritten, Leaving, writeVars, sendVars
<1>6. Lifetime'
  BY DEF moveToLoop_onSocketClosed, IInv, Lifetime, Leaving, Alive, ownVars, readVars
<1> QED BY <1>1, <1>2, <1>3, <1>4, <1>5, <1>6 DEF IInv

LEMMA Step_moveToLoop_registerDuplicatedSocket ==
  ASSUME IInv, moveToLoop_registerDuplicatedSocket
  PROVE  IInv'
<1>1. Types'
  BY KindsOfHandlers
     DEF moveToLoop_registerDuplicatedSocket, SwitchLoop, createSocket, onSocketConnected, IInv, Types,
         Loops, ownVars, writeVars, sendVars, readVars
<1>2. Sides'
  BY DEF moveToLoop_registerDuplicatedSocket, SwitchLoop, createSocket, IInv, Sides, Leaving,
         Loops, Nowhere, ownVars
<1>3. Handling'
  BY KindsOfHandlers
     DEF moveToLoop_registerDuplicatedSocket, SwitchLoop, createSocket, onSocketConnected, IInv, Types,
         Handling, Leaving, Loops, Nowhere, ownVars
<1>4. Separation'
  BY DEF moveToLoop_registerDuplicatedSocket, SwitchLoop, createSocket, onSocketConnected, IInv, Types,
         Sides, Handling, Separation, Unwritten, Idle, Loops, writeVars
<1>5. Unwritten'
  BY DEF moveToLoop_registerDuplicatedSocket, SwitchLoop, createSocket, Unwritten
<1>6. Lifetime'
  BY DEF moveToLoop_registerDuplicatedSocket, SwitchLoop, createSocket, IInv, Lifetime, Leaving,
         ownVars
<1> QED BY <1>1, <1>2, <1>3, <1>4, <1>5, <1>6 DEF IInv

(* Owners let go of the socket, the last one destroys it, its handle is    *)
(* closed on whichever loop it is.                                         *)
LEMMA Step_Release ==
  ASSUME IInv, Release
  PROVE  IInv'
<1>1. Types'
  BY DEF Release, IInv, Types, Loops, Nowhere, connVars, writeVars, sendVars, readVars
<1>2. Sides'
  BY DEF Release, IInv, Sides, Leaving, Nowhere, connVars
<1>3. Handling'
  BY DEF Release, IInv, Handling, Leaving, Idle, Loops, Nowhere, connVars
<1>4. Separation'
  BY DEF Release, IInv, Separation, Idle, connVars, writeVars
<1>5. Unwritten'
  BY DEF Release, IInv, Unwritten, Leaving, connVars, writeVars, sendVars
<1>6. Lifetime'
  BY HandlerSteps, KindsOfHandlers
     DEF Release, IInv, Types, Lifetime, Sides, Handling, Unwritten, Leaving, Alive, Loops,
         connVars, writeVars, sendVars, readVars
<1> QED BY <1>1, <1>2, <1>3, <1>4, <1>5, <1>6 DEF IInv

LEMMA Step_Destroy ==
  ASSUME IInv, Destroy
  PROVE  IInv'
<1>1. Types'
  BY DEF Destroy, IInv, Types, Alive, Loops, Nowhere, connVars, sendVars, readVars
<1>2. Sides'
  BY DEF Destroy, IInv, Sides, Leaving, Alive, Nowhere, connVars
<1>3. Handling'
  BY DEF Destroy, IInv, Handling, Leaving, Alive, Idle, Loops, Nowhere, connVars
<1>4. Separation'
  BY DEF Destroy, IInv, Separation, Alive, Idle, connVars
<1>5. Unwritten'
  BY DEF Destroy, IInv, Unwritten, Leaving, Alive, connVars, sendVars
<1>6. Lifetime'
  BY DEF Destroy, IInv, Lifetime, Leaving, Alive, Loops, connVars, sendVars, readVars
<1> QED BY <1>1, <1>2, <1>3, <1>4, <1>5, <1>6 DEF IInv

LEMMA Step_CloseHandle ==
  ASSUME IInv, CloseHandle
  PROVE  IInv'
<1>1. Types'
  BY DEF CloseHandle, IInv, Types, Idle, Loops, Nowhere, ownVars, writeVars, sendVars,
         readVars
<1>2. Sides'
  BY DEF CloseHandle, IInv, Sides, Leaving, Idle, Loops, Nowhere, ownVars
<1>3. Handling'
  BY DEF CloseHandle, IInv, Handling, Lifetime, Leaving, Idle, Loops, Nowhere, ownVars
<1>4. Separation'
  BY DEF CloseHandle, IInv, Separation, Idle, Loops, Nowhere, writeVars
<1>5. Unwritten'
  BY DEF CloseHandle, IInv, Unwritten, Leaving, Idle, Loops, Nowhere, ownVars, writeVars,
         sendVars
<1>6. Lifetime'
  BY DEF CloseHandle, IInv, Lifetime, Leaving, Alive, Idle, Loops, Nowhere, ownVars,
         writeVars, sendVars, readVars
<1> QED BY <1>1, <1>2, <1>3, <1>4, <1>5, <1>6 DEF IInv

(* The peer goes away.                                                     *)
LEMMA Step_Break ==
  ASSUME IInv, Break
  PROVE  IInv'
<1>1. Types'
  BY DEF Break, IInv, Types, Loops, Nowhere, connVars, ownVars, writeVars, sendVars,
         readVars
<1>2. Sides'
  BY DEF Break, IInv, Sides, Leaving, Nowhere, connVars, ownVars
<1>3. Handling'
  BY DEF Break, IInv, Handling, Leaving, Idle, Loops, Nowhere, connVars, ownVars
<1>4. Separation'
  BY DEF Break, IInv, Separation, Idle, connVars, writeVars
<1>5. Unwritten'
  BY DEF Break, IInv, Unwritten, Leaving, connVars, ownVars, writeVars, sendVars
<1>6. Lifetime'
  BY DEF Break, IInv, Lifetime, Leaving, Alive, Loops, connVars, ownVars, writeVars,
         sendVars, readVars
<1> QED BY <1>1, <1>2, <1>3, <1>4, <1>5, <1>6 DEF IInv
-----------------------------------------------------------------------------
(* Every step is one of those above.                                       *)
LEMMA Inductive == IInv /\ [Next]_vars => IInv'
<1> SUFFICES ASSUME IInv, [Next]_vars PROVE IInv'
  OBVIOUS
<1>1. CASE UNCHANGED vars
  BY <1>1
     DEF vars, connVars, ownVars, writeVars, sendVars, readVars, IInv, Types, Sides,
         Handling, Separation, Unwritten, Lifetime, Leaving, Alive, Idle
<1>2. CASE CallbackStep
  BY <1>2, Step_accept, Step_onDNSResolution, Step_onConnectCompleted, Step_acknowledge,
     Step_onWriteCompleted, Step_onDataReceived, Step_onReadError,
     Step_moveToLoop_onSocketClosed, Step_moveToLoop_registerDuplicatedSocket,
     Step_CloseHandle
     DEF CallbackStep
<1>3. CASE \E l \in Loops : LoopStep(l)
  BY <1>3, Step_StartReading, Step_processQueuedWrites, Step_TakeWrites, Step_send,
     Step_ReadMessage, Step_EndOfChunk
     DEF LoopStep
<1>4. CASE \E w \in Writers : AddWrite(w) \/ MarshalWrite(w)
  BY <1>4, Step_AddWrite, Step_MarshalWrite
<1>5. CASE connect \/ Release \/ Destroy \/ Break
  BY <1>5, Step_connect, Step_Release, Step_Destroy, Step_Break
<1> QED BY <1>1, <1>2, <1>3, <1>4, <1>5 DEF Next

(***************************************************************************)
(* Every reachable state of a socket satisfies the inductive invariant.    *)
(***************************************************************************)
THEOREM Invariance == Spec => []IInv
<1>1. Init => IInv
  BY Initially
<1>2. IInv /\ [Next]_vars => IInv'
  BY Inductive
<1> QED BY <1>1, <1>2, PTL DEF Spec

(***************************************************************************)
(* The handlers of a socket never run on both of its loops at once, for    *)
(* any writers, messages and reads, except when a write event went to the  *)
(* loop the socket was leaving.                                            *)
(***************************************************************************)
THEOREM HandlersNeverOverlap == Spec => []OneLoopAtATime
<1>1. IInv => OneLoopAtATime
  BY DEF IInv, Types, Separation, OneLoopAtATime, Loops
<1> QED BY <1>1, Invariance, PTL

(***************************************************************************)
(* The plain pointer in the event that ends a move points to a socket,     *)
(* unless the client had said DISCONNECT before the move was complete.     *)
(***************************************************************************)
THEOREM MoveFindsTheSocket == Spec => []MovedWhileAlive
<1>1. IInv => MovedWhileAlive
  <2> SUFFICES ASSUME IInv, stage = "registering", destroyed PROVE saidGoodbye
    BY DEF MovedWhileAlive
  <2>1. loop = "old"
    BY DEF IInv, Types, Handling, Loops
  <2>2. "service" \notin owners
    BY DEF IInv, Lifetime, Alive
  <2> QED BY <2>1, <2>2 DEF IInv, Lifetime, Leaving
<1> QED BY <1>1, Invariance, PTL
-----------------------------------------------------------------------------
(* A part that comes first is a prefix, and stays one when more follows.   *)
LEMMA PrefixOfMore ==
  /\ \A s \in Data, t \in Data : IsPrefix(s, s \o t)
  /\ \A s \in Data, t \in Data, u \in Data : IsPrefix(s, t) => IsPrefix(s, t \o u)
<1>1. \A s \in Data, t \in Data : SubSeq(s \o t, 1, Len(s)) = s /\ Len(s) <= Len(s \o t)
  <2> SUFFICES ASSUME NEW s \in Data, NEW t \in Data
               PROVE  SubSeq(s \o t, 1, Len(s)) = s /\ Len(s) <= Len(s \o t)
    OBVIOUS
  <2> DEFINE u == SubSeq(s \o t, 1, Len(s))
  <2>1. s \o t \in Data /\ Len(s \o t) = Len(s) + Len(t) /\ Len(s) \in Nat /\ Len(t) \in Nat
    BY JoinedData
  <2>2. Len(s) <= Len(s \o t)
    BY <2>1
  <2>3. \A i \in 1 .. Len(s) : (s \o t)[i] = s[i]
    BY ConcatProperties DEF Data
  <2>4. u \in Data /\ Len(u) = Len(s) /\ \A i \in 1 .. Len(s) : u[i] = (s \o t)[i]
    BY <2>1, <2>2, CutData
  <2> HIDE DEF u
  <2>5. u = s
    BY <2>3, <2>4, SeqEqual DEF Data
  <2> QED BY <2>2, <2>5 DEF u
<1>2. \A s \in Data, n \in Nat : n <= Len(s) => SubSeq(s, 1, n) \in Data /\ s = SubSeq(s, 1, n) \o SubSeq(s, n + 1, Len(s)) /\ SubSeq(s, n + 1, Len(s)) \in Data
  BY CutData
<1>3. \A s \in Data : SubSeq(s, 1, Len(s)) = s /\ Len(s) \in Nat
  BY SubSeqFull, JoinedData DEF Data
<1>4. \A s \in Data, t \in Data : IsPrefix(s, s \o t)
  BY <1>1, <1>3 DEF IsPrefix
<1>5. \A s \in Data, t \in Data : IsPrefix(s, t) => \E x \in Data : t = s \o x
  <2> SUFFICES ASSUME NEW s \in Data, NEW t \in Data, IsPrefix(s, t)
               PROVE  \E x \in Data : t = s \o x
    OBVIOUS
  <2>1. Len(s) \in Nat /\ Len(s) <= Len(t) /\ SubSeq(t, 1, Len(s)) = s
    BY <1>3 DEF IsPrefix
  <2>2. t = SubSeq(t, 1, Len(s)) \o SubSeq(t, Len(s) + 1, Len(t)) /\ SubSeq(t, Len(s) + 1, Len(t)) \in Data
    BY <1>2, <2>1
  <2> QED BY <2>1, <2>2
<1>6. \A s \in Data, t \in Data, u \in Data : IsPrefix(s, t) => IsPrefix(s, t \o u)
  <2> SUFFICES ASSUME NEW s \in Data, NEW t \in Data, NEW u \in Data, IsPrefix(s, t)
               PROVE  IsPrefix(s, t \o u)
    OBVIOUS
  <2>1. PICK x \in Data : t = s \o x
    BY <1>5
  <2>2. t \o u = s \o (x \o u) /\ x \o u \in Data
    BY <2>1, JoinedData
  <2> QED BY <1>4, <2>2
<1> QED BY <1>4, <1>6

(* What is asked for, message by message, and what is queued.              *)
AskedBytes  == [i \in 1 .. Len(asked) |-> MessageBytes(asked[i].size, asked[i].override, i)]
QueuedBytes == [i \in 1 .. Len(queue) |-> Patched(queue[i].data, queue[i].override)]

(* Bytes are bytes, and only a loop that is sending has requests to send.  *)
Buffered ==
  /\ queue \in Seq(WriteBuffers) /\ requests \in [Loops -> Seq(Data)] /\ wire \in Data
  /\ asked \in Seq([size : Sizes, override : Nat])
  /\ \A l \in Loops : requests[l] # << >> => Runs(l, "send")

LEMMA BufferedTypes ==
  ASSUME Buffered
  PROVE  /\ AskedBytes \in Seq(Data) /\ QueuedBytes \in Seq(Data)
         /\ FlattenSeq(AskedBytes) \in Data /\ FlattenSeq(QueuedBytes) \in Data
         /\ Stream = FlattenSeq(AskedBytes)
         /\ \A l \in Loops : requests[l] \in Seq(Data) /\ FlattenSeq(requests[l]) \in Data
         /\ Waiting = FlattenSeq(requests["old"]) \o FlattenSeq(requests["new"]) \o FlattenSeq(QueuedBytes)
         /\ Waiting \in Data
         /\ wire \in Data
         /\ Len(Waiting) = Len(FlattenSeq(requests["old"])) + Len(FlattenSeq(requests["new"])) + Len(FlattenSeq(QueuedBytes))
<1>1. \A i \in 1 .. Len(asked) : MessageBytes(asked[i].size, asked[i].override, i) \in Data
  <2> SUFFICES ASSUME NEW i \in 1 .. Len(asked)
               PROVE  MessageBytes(asked[i].size, asked[i].override, i) \in Data
    OBVIOUS
  <2>0. asked \in Seq([size : Sizes, override : Nat])
    BY DEF Buffered
  <2> DEFINE T == [size : Sizes, override : Nat]
  <2>1. asked[i] \in T /\ i \in Nat
    <3>1. asked \in Seq(T)
      BY <2>0
    <3> HIDE DEF T
    <3> QED BY <3>1
  <2>2. asked[i].size \in Sizes /\ asked[i].override \in Nat
    BY <2>1
  <2> QED BY <2>1, <2>2, MessageIsData
<1>2. AskedBytes \in Seq(Data)
  BY <1>1 DEF AskedBytes, Buffered
<1>3. QueuedBytes \in Seq(Data)
  BY WriteRequestsKeepBytes DEF QueuedBytes, Buffered
<1>4. FlattenSeq(AskedBytes) \in Data /\ FlattenSeq(QueuedBytes) \in Data
  BY <1>2, <1>3, FlattenType DEF Data
<1>5. \A l \in Loops : requests[l] \in Seq(Data) /\ FlattenSeq(requests[l]) \in Data
  BY FlattenType DEF Data, Buffered
<1>6. Stream = FlattenSeq(AskedBytes) /\ Waiting = FlattenSeq(requests["old"]) \o FlattenSeq(requests["new"]) \o FlattenSeq(QueuedBytes)
  BY DEF Stream, Waiting, AskedBytes, QueuedBytes
<1>7. FlattenSeq(requests["old"]) \in Data /\ FlattenSeq(requests["new"]) \in Data
  BY <1>5 DEF Loops
<1>8. /\ FlattenSeq(requests["old"]) \o FlattenSeq(requests["new"]) \in Data
      /\ Len(FlattenSeq(requests["old"]) \o FlattenSeq(requests["new"])) =
           Len(FlattenSeq(requests["old"])) + Len(FlattenSeq(requests["new"]))
  BY <1>7, JoinedData
<1>9. /\ Waiting \in Data
      /\ Len(Waiting) = Len(FlattenSeq(requests["old"])) + Len(FlattenSeq(requests["new"]))
                          + Len(FlattenSeq(QueuedBytes))
  BY <1>4, <1>6, <1>8, JoinedData
<1> QED BY <1>2, <1>3, <1>4, <1>5, <1>6, <1>9 DEF Buffered

(* A loop that runs a handler has the socket to itself, unless a write     *)
(* event went to the loop it was leaving: what waits is all its own.       *)
LEMMA OneLoopWaits ==
  ASSUME IInv, Buffered, ~wroteEarly, NEW l \in Loops, task[l] # << >>
  PROVE  \A k \in Loops : k # l => requests[k] = << >>
<1>1. \A k \in Loops : k # l => task[k] = << >>
  BY DEF IInv, Types, Separation, Loops, Idle
<1> QED BY <1>1 DEF Buffered, Runs

LEMMA WaitingAlone ==
  ASSUME Buffered, NEW l \in Loops, \A k \in Loops : k # l => requests[k] = << >>
  PROVE  Waiting = FlattenSeq(requests[l]) \o FlattenSeq(QueuedBytes)
<1>1. /\ FlattenSeq(requests["old"]) \in Data /\ FlattenSeq(requests["new"]) \in Data
      /\ Waiting = FlattenSeq(requests["old"]) \o FlattenSeq(requests["new"]) \o FlattenSeq(QueuedBytes)
  BY BufferedTypes DEF Loops
<1>2. CASE l = "old"
  <2>1. FlattenSeq(requests["new"]) = << >>
    BY <1>2, FlattenNothing DEF Loops
  <2> QED BY <1>1, <1>2, <2>1, JoinedData
<1>3. CASE l = "new"
  <2>1. FlattenSeq(requests["old"]) = << >>
    BY <1>3, FlattenNothing DEF Loops
  <2> QED BY <1>1, <1>3, <2>1, JoinedData
<1> QED BY <1>2, <1>3 DEF Loops
-----------------------------------------------------------------------------
(* What a step may do with the bytes to be sent: nothing, queue a message, *)
(* make requests of the queue, send one, or give the queue up.             *)
LetsBe ==
  /\ UNCHANGED <<queue, requests, wire, asked, destroyed>>
  /\ broken => broken'
  /\ wroteEarly => wroteEarly'

Asks ==
  /\ \E draft \in [size : Sizes, override : Nat] : QueueWrite(draft)
  /\ UNCHANGED <<requests, wire, broken, destroyed, wroteEarly>>

Takes(l) ==
  /\ task[l] # << >> /\ requests[l] = << >>
  /\ requests' = [requests EXCEPT ![l] = getWriteRequests(queue)] /\ queue' = << >>
  /\ UNCHANGED <<wire, asked, broken, destroyed, wroteEarly>>

Sends(l) ==
  /\ task[l] # << >> /\ requests[l] # << >>
  /\ wire' = IF broken THEN wire ELSE wire \o Head(requests[l])
  /\ requests' = [requests EXCEPT ![l] = Tail(@)]
  /\ UNCHANGED <<queue, asked, broken, destroyed, wroteEarly>>

GivesUp ==
  /\ queue' = << >>
  /\ broken' \/ destroyed'
  /\ UNCHANGED <<requests, wire, asked, wroteEarly>>

(* Types stay, whatever is done.                                           *)
BufferTypes ==
  /\ queue \in Seq(WriteBuffers) /\ requests \in [Loops -> Seq(Data)] /\ wire \in Data
  /\ asked \in Seq([size : Sizes, override : Nat])

LEMMA AskedMessage ==
  ASSUME Buffered, NEW draft \in [size : Sizes, override : Nat]
  PROVE  LET m == MessageBytes(draft.size, 0, Len(asked) + 1)
             b == [data |-> m, override |-> draft.override]
         IN  /\ b \in WriteBuffers
             /\ Patched(m, draft.override) = MessageBytes(draft.size, draft.override, Len(asked) + 1)
             /\ Patched(m, draft.override) \in Data
<1> DEFINE n == draft.size
           id == draft.override
           k == Len(asked) + 1
           m == MessageBytes(n, 0, k)
<1>0. k \in Nat
  <2>1. asked \in Seq([size : Sizes, override : Nat])
    BY DEF Buffered
  <2> QED BY <2>1
<1>1. n \in Sizes /\ id \in Nat
  OBVIOUS
<1> HIDE DEF n, id, k
<1>2. m \in Data /\ Len(m) = n /\ n >= SIZE_PLUS_SUBSCRIPTION_ID
  BY <1>0, <1>1, MessageIsData
<1>3. Patched(m, id) = MessageBytes(n, id, k) /\ MessageBytes(n, id, k) \in Data
  BY <1>0, <1>1, PatchedMessage, MessageIsData
<1>4. [data |-> m, override |-> id] \in WriteBuffers
  BY <1>1, <1>2 DEF WriteBuffers
<1> QED BY <1>3, <1>4 DEF n, id, k

LEMMA AsksKeeps ==
  ASSUME Buffered, Asks
  PROVE  /\ BufferTypes'
         /\ \E x \in Data : /\ FlattenSeq(AskedBytes') = FlattenSeq(AskedBytes) \o x
                            /\ FlattenSeq(QueuedBytes') = FlattenSeq(QueuedBytes) \o x
<1>1. PICK draft \in [size : Sizes, override : Nat] : QueueWrite(draft)
  BY DEF Asks
<1> DEFINE n == draft.size
           id == draft.override
           k == Len(asked) + 1
           m == MessageBytes(n, 0, k)
           b == [data |-> m, override |-> id]
           x == Patched(m, id)
           T == [size : Sizes, override : Nat]
<1>2. b \in WriteBuffers /\ x = MessageBytes(n, id, k) /\ x \in Data
  BY AskedMessage
<1>3. asked' = Append(asked, draft) /\ queue' = Append(queue, b)
  BY <1>1 DEF QueueWrite
<1>4. asked \in Seq(T) /\ draft \in T /\ queue \in Seq(WriteBuffers)
  BY DEF Buffered
<1>5. b.data = m /\ b.override = id
  OBVIOUS
<1> HIDE DEF T, b, x, m
<1>6. asked' \in Seq(T) /\ queue' \in Seq(WriteBuffers)
  BY <1>2, <1>3, <1>4
<1>7. BufferTypes'
  BY <1>6 DEF Buffered, BufferTypes, Asks, T
<1>8. AskedBytes' = Append(AskedBytes, x)
  <2> DEFINE A == AskedBytes
             B == AskedBytes'
             Bytes(d, i) == MessageBytes(d.size, d.override, i)
  <2>1. /\ Len(asked') = k /\ k \in Nat /\ k = Len(asked) + 1 /\ Len(asked) \in Nat
        /\ asked'[k] = draft /\ \A i \in 1 .. Len(asked) : asked'[i] = asked[i]
    BY <1>3, <1>4
  <2>2. A = [i \in 1 .. Len(asked) |-> Bytes(asked[i], i)] /\ B = [i \in 1 .. k |-> Bytes(asked'[i], i)]
    BY <2>1 DEF AskedBytes
  <2>3. Bytes(asked'[k], k) = x
    BY <1>2, <2>1
  <2>4. A \in Seq(Data)
    BY BufferedTypes
  <2> HIDE DEF A, B, Bytes, k
  <2>5. B = Append(A, x)
    <3>1. \A i \in 1 .. k : B[i] = IF i = k THEN x ELSE A[i]
      BY <2>1, <2>2, <2>3
    <3>2. Append(A, x) = [i \in 1 .. k |-> IF i = k THEN x ELSE A[i]]
      BY <2>1, <2>2, <2>4
    <3>3. B = [i \in 1 .. k |-> B[i]]
      BY <2>2
    <3> QED BY <3>1, <3>2, <3>3
  <2> QED BY <2>5 DEF A, B
<1>9. QueuedBytes' = Append(QueuedBytes, x)
  <2> DEFINE A == QueuedBytes
             B == QueuedBytes'
             Bytes(d) == Patched(d.data, d.override)
             j == Len(queue) + 1
  <2>1. /\ Len(queue') = j /\ j \in Nat /\ j = Len(queue) + 1 /\ Len(queue) \in Nat
        /\ queue'[j] = b /\ \A i \in 1 .. Len(queue) : queue'[i] = queue[i]
    BY <1>2, <1>3, <1>4
  <2>2. A = [i \in 1 .. Len(queue) |-> Bytes(queue[i])] /\ B = [i \in 1 .. j |-> Bytes(queue'[i])]
    BY <2>1 DEF QueuedBytes
  <2>3. Bytes(queue'[j]) = x
    BY <1>5, <2>1 DEF x
  <2>4. A \in Seq(Data)
    BY BufferedTypes
  <2> HIDE DEF A, B, Bytes, j
  <2>5. B = Append(A, x)
    <3>1. \A i \in 1 .. j : B[i] = IF i = j THEN x ELSE A[i]
      BY <2>1, <2>2, <2>3
    <3>2. Append(A, x) = [i \in 1 .. j |-> IF i = j THEN x ELSE A[i]]
      BY <2>1, <2>2, <2>4
    <3>3. B = [i \in 1 .. j |-> B[i]]
      BY <2>2
    <3> QED BY <3>1, <3>2, <3>3
  <2> QED BY <2>5 DEF A, B
<1>10. AskedBytes \in Seq(Data) /\ QueuedBytes \in Seq(Data)
  BY BufferedTypes
<1>11. FlattenSeq(Append(AskedBytes, x)) = FlattenSeq(AskedBytes) \o x
       /\ FlattenSeq(Append(QueuedBytes, x)) = FlattenSeq(QueuedBytes) \o x
  BY <1>2, <1>10, FlattenAppend DEF Data
<1> QED BY <1>2, <1>7, <1>8, <1>9, <1>11

LEMMA TakesKeeps ==
  ASSUME Buffered, NEW l \in Loops, Takes(l)
  PROVE  /\ BufferTypes'
         /\ FlattenSeq(requests'[l]) = FlattenSeq(QueuedBytes) /\ FlattenSeq(requests[l]) = << >>
         /\ FlattenSeq(QueuedBytes') = << >>
         /\ \A k \in Loops : k # l => requests'[k] = requests[k]
<1>1. /\ getWriteRequests(queue) \in Seq(Data)
      /\ FlattenSeq(getWriteRequests(queue)) = FlattenSeq(QueuedBytes)
  BY WriteRequestsKeepBytes DEF Buffered, QueuedBytes
<1>2. /\ requests'[l] = getWriteRequests(queue) /\ requests' \in [Loops -> Seq(Data)]
      /\ \A k \in Loops : k # l => requests'[k] = requests[k]
  BY <1>1 DEF Takes, Buffered
<1>3. queue' \in Seq(WriteBuffers) /\ QueuedBytes' = << >>
  BY DEF Takes, QueuedBytes
<1>4. BufferTypes'
  BY <1>2, <1>3 DEF Takes, Buffered, BufferTypes
<1> QED BY <1>1, <1>2, <1>3, <1>4, FlattenNothing DEF Takes

LEMMA SendsKeeps ==
  ASSUME Buffered, NEW l \in Loops, Sends(l)
  PROVE  /\ BufferTypes'
         /\ Head(requests[l]) \in Data /\ FlattenSeq(requests'[l]) \in Data
         /\ FlattenSeq(requests[l]) = Head(requests[l]) \o FlattenSeq(requests'[l])
         /\ \A k \in Loops : k # l => requests'[k] = requests[k]
<1> DEFINE r == requests[l]
<1>1. r \in Seq(Data) /\ r # << >>
  BY DEF Buffered, Sends
<1>2. /\ requests'[l] = Tail(r) /\ \A k \in Loops : k # l => requests'[k] = requests[k]
      /\ wire' = IF broken THEN wire ELSE wire \o Head(r)
  BY DEF Sends, Buffered
<1> HIDE DEF r
<1>3. Head(r) \in Data /\ Tail(r) \in Seq(Data)
  BY <1>1, HeadTailProperties
<1>4. FlattenSeq(r) = Head(r) \o FlattenSeq(Tail(r)) /\ FlattenSeq(Tail(r)) \in Data
  BY <1>1, <1>3, FlattenHead, FlattenType DEF Data
<1>5. wire' \in Data
  BY <1>2, <1>3, JoinedData DEF Buffered
<1>6. requests' \in [Loops -> Seq(Data)]
  BY <1>3 DEF Sends, Buffered, r
<1>7. BufferTypes'
  BY <1>5, <1>6 DEF Sends, Buffered, BufferTypes
<1> QED BY <1>2, <1>3, <1>4, <1>7 DEF r
-----------------------------------------------------------------------------
(* The same of the next state.                                             *)
Forms ==
  /\ wire \in Data /\ Stream \in Data /\ Waiting \in Data
  /\ Stream = FlattenSeq(AskedBytes) /\ FlattenSeq(QueuedBytes) \in Data
  /\ \A l \in Loops : FlattenSeq(requests[l]) \in Data
  /\ Len(Waiting) = Len(FlattenSeq(requests["old"])) + Len(FlattenSeq(requests["new"]))
                      + Len(FlattenSeq(QueuedBytes))
  /\ \A l \in Loops : (\A k \in Loops : k # l => requests[k] = << >>) =>
       Waiting = FlattenSeq(requests[l]) \o FlattenSeq(QueuedBytes)

LEMMA FormsNow == Buffered => Forms
BY BufferedTypes, WaitingAlone DEF Forms

LEMMA FormsNext == Buffered' => Forms'
BY FormsNow, PTL

(* Nothing waits to be sent on a loop that is idle.                        *)
LEMMA QuietLoops ==
  ASSUME IInv, Buffered, ~wroteEarly
  PROVE  \E l \in Loops : \A k \in Loops : k # l => requests[k] = << >>
<1>1. task["old"] = << >> \/ task["new"] = << >>
  BY DEF IInv, Types, Separation, Loops, Idle
<1> QED BY <1>1 DEF Buffered, Runs, Loops

LEMMA AliveAtWork ==
  ASSUME IInv, NEW l \in Loops, task[l] # << >>
  PROVE  ~destroyed
BY DEF IInv, Lifetime, Alive

LEMMA SentWhenLeft ==
  ASSUME SentOnceAndInOrder, Buffered, Buffered', LetsBe
  PROVE  SentOnceAndInOrder'
<1>1. Stream' = Stream /\ Waiting' = Waiting
  BY DEF LetsBe, Stream, Waiting
<1> QED BY <1>1 DEF LetsBe, SentOnceAndInOrder

LEMMA SentWhenGivenUp ==
  ASSUME SentOnceAndInOrder, Buffered, Buffered', GivesUp
  PROVE  SentOnceAndInOrder'
<1>1. Stream' = Stream
  BY DEF GivesUp, Stream
<1> QED BY <1>1 DEF GivesUp, SentOnceAndInOrder

LEMMA SentWhenAsked ==
  ASSUME IInv, SentOnceAndInOrder, Buffered, Buffered', Asks
  PROVE  SentOnceAndInOrder'
<1>1. Forms /\ Forms'
  BY FormsNow, FormsNext
<1>2. PICK x \in Data : /\ FlattenSeq(AskedBytes') = FlattenSeq(AskedBytes) \o x
                        /\ FlattenSeq(QueuedBytes') = FlattenSeq(QueuedBytes) \o x
  BY AsksKeeps
<1>3. UNCHANGED <<requests, wire, broken, destroyed, wroteEarly>>
  BY DEF Asks
<1>4. Stream' = Stream \o x /\ Stream \in Data /\ wire \in Data
  BY <1>1, <1>2 DEF Forms
<1>5. ~wroteEarly' => IsPrefix(wire', Stream')
  BY <1>3, <1>4, PrefixOfMore DEF SentOnceAndInOrder
<1>6. ASSUME ~broken', ~destroyed'
      PROVE  Len(wire') + Len(Waiting') = Len(Stream')
  <2>1. Len(wire) + Len(Waiting) = Len(Stream)
    BY <1>3, <1>6 DEF SentOnceAndInOrder
  <2> DEFINE p == FlattenSeq(requests["old"])
             q == FlattenSeq(requests["new"])
             r == FlattenSeq(QueuedBytes)
  <2>2. p \in Data /\ q \in Data /\ r \in Data
    BY <1>1 DEF Forms, Loops
  <2>3. Len(Waiting) = Len(p) + Len(q) + Len(r)
    BY <1>1 DEF Forms
  <2>4. Len(Waiting') = Len(p) + Len(q) + Len(r \o x)
    BY <1>1, <1>2, <1>3 DEF Forms
  <2> HIDE DEF p, q, r
  <2>5. Len(r \o x) = Len(r) + Len(x) /\ Len(Stream') = Len(Stream) + Len(x)
    BY <1>2, <1>4, <2>2, JoinedData
  <2>6. Len(p) \in Nat /\ Len(q) \in Nat /\ Len(r) \in Nat /\ Len(x) \in Nat /\ Len(wire) \in Nat /\ Len(Stream) \in Nat
    BY <1>2, <1>4, <2>2, JoinedData
  <2> QED BY SMTT(30), <1>3, <2>1, <2>3, <2>4, <2>5, <2>6
<1>7. ASSUME ~broken', ~destroyed', ~wroteEarly'
      PROVE  wire' \o Waiting' = Stream'
  <2>1. wire \o Waiting = Stream
    BY <1>3, <1>7 DEF SentOnceAndInOrder
  <2>2. PICK l \in Loops : \A k \in Loops : k # l => requests[k] = << >>
    BY <1>3, <1>7, QuietLoops
  <2> DEFINE p == FlattenSeq(requests[l])
             r == FlattenSeq(QueuedBytes)
  <2>3. p \in Data /\ r \in Data /\ Waiting = p \o r
    BY <1>1, <2>2 DEF Forms
  <2>4. Waiting' = p \o (r \o x)
    BY <1>1, <1>2, <1>3, <2>2 DEF Forms
  <2> HIDE DEF p, r
  <2>5. p \o (r \o x) = Waiting \o x /\ Waiting \in Data
    BY <1>2, <2>3, JoinedData
  <2>6. wire \o (Waiting \o x) = (wire \o Waiting) \o x
    BY <1>2, <1>4, <2>5, JoinedData
  <2> QED BY <1>3, <1>4, <2>1, <2>4, <2>5, <2>6
<1> QED BY <1>5, <1>6, <1>7 DEF SentOnceAndInOrder

LEMMA SentWhenTaken ==
  ASSUME IInv, SentOnceAndInOrder, Buffered, Buffered', NEW l \in Loops, Takes(l)
  PROVE  SentOnceAndInOrder'
<1>1. Forms /\ Forms'
  BY FormsNow, FormsNext
<1>2. /\ FlattenSeq(requests'[l]) = FlattenSeq(QueuedBytes) /\ FlattenSeq(requests[l]) = << >>
      /\ FlattenSeq(QueuedBytes') = << >>
      /\ \A k \in Loops : k # l => requests'[k] = requests[k]
  BY TakesKeeps
<1>3. UNCHANGED <<wire, asked, broken, destroyed, wroteEarly>>
  BY DEF Takes
<1>4. Stream' = Stream /\ FlattenSeq(QueuedBytes) \in Data
  BY <1>1, <1>3 DEF Stream, Forms
<1>5. Len(Waiting') = Len(Waiting)
  <2> DEFINE p == FlattenSeq(requests["old"])
             q == FlattenSeq(requests["new"])
             r == FlattenSeq(QueuedBytes)
  <2>1. Len(Waiting) = Len(p) + Len(q) + Len(r)
    BY <1>1 DEF Forms
  <2>2. Len(Waiting') = Len(FlattenSeq(requests'["old"])) + Len(FlattenSeq(requests'["new"])) + Len(<< >>)
    BY <1>1, <1>2 DEF Forms
  <2>3. p \in Data /\ q \in Data /\ r \in Data
    BY <1>1 DEF Forms, Loops
  <2>4. Len(p) \in Nat /\ Len(q) \in Nat /\ Len(r) \in Nat /\ Len(<< >>) = 0
    BY <2>3, JoinedData
  <2>5. CASE l = "old"
    <3>1. p = << >> /\ FlattenSeq(requests'["old"]) = r /\ requests'["new"] = requests["new"]
      BY <1>2, <2>5 DEF Loops
    <3> HIDE DEF r
    <3> QED BY <2>1, <2>2, <2>4, <3>1
  <2>6. CASE l = "new"
    <3>1. q = << >> /\ FlattenSeq(requests'["new"]) = r /\ requests'["old"] = requests["old"]
      BY <1>2, <2>6 DEF Loops
    <3> HIDE DEF r
    <3> QED BY <2>1, <2>2, <2>4, <3>1
  <2> QED BY <2>5, <2>6 DEF Loops
<1>6. ASSUME ~wroteEarly
      PROVE  Waiting' = Waiting
  <2>1. \A k \in Loops : k # l => requests[k] = << >>
    BY <1>6, OneLoopWaits DEF Takes
  <2>2. \A k \in Loops : k # l => requests'[k] = << >>
    BY <1>2, <2>1
  <2>3. Waiting = << >> \o FlattenSeq(QueuedBytes)
    BY <1>1, <1>2, <2>1 DEF Forms
  <2>4. Waiting' = FlattenSeq(QueuedBytes) \o << >>
    BY <1>1, <1>2, <2>2 DEF Forms
  <2> QED BY <1>4, <2>3, <2>4, JoinedData
<1> QED BY <1>3, <1>4, <1>5, <1>6 DEF SentOnceAndInOrder

LEMMA SentWhenSent ==
  ASSUME IInv, SentOnceAndInOrder, Buffered, Buffered', NEW l \in Loops, Sends(l)
  PROVE  SentOnceAndInOrder'
<1>1. Forms /\ Forms'
  BY FormsNow, FormsNext
<1> DEFINE h == Head(requests[l])
           t == FlattenSeq(requests'[l])
           r == FlattenSeq(QueuedBytes)
<1>2. /\ h \in Data /\ t \in Data /\ FlattenSeq(requests[l]) = h \o t
      /\ \A k \in Loops : k # l => requests'[k] = requests[k]
  BY SendsKeeps
<1>3. UNCHANGED <<queue, asked, broken, destroyed, wroteEarly>> /\ wire' = IF broken THEN wire ELSE wire \o h
  BY DEF Sends
<1>4. Stream' = Stream /\ QueuedBytes' = QueuedBytes /\ r \in Data /\ wire \in Data /\ ~destroyed
  BY <1>1, <1>3, AliveAtWork DEF Stream, QueuedBytes, Forms, Sends
<1>5. CASE broken
  BY <1>3, <1>4, <1>5 DEF SentOnceAndInOrder
<1>6. CASE ~broken
  <2>1. wire' = wire \o h
    BY <1>3, <1>6
  <2>2. Len(wire') + Len(Waiting') = Len(Stream')
    <3>1. Len(wire) + Len(Waiting) = Len(Stream)
      BY <1>4, <1>6 DEF SentOnceAndInOrder
    <3> DEFINE p == FlattenSeq(requests["old"])
               q == FlattenSeq(requests["new"])
               pp == FlattenSeq(requests'["old"])
               qq == FlattenSeq(requests'["new"])
    <3>2. Len(Waiting) = Len(p) + Len(q) + Len(r)
      BY <1>1 DEF Forms
    <3>3. Len(Waiting') = Len(pp) + Len(qq) + Len(r)
      BY <1>1, <1>4 DEF Forms
    <3>4. Len(h \o t) = Len(h) + Len(t) /\ Len(wire \o h) = Len(wire) + Len(h)
      BY <1>2, <1>4, JoinedData
    <3>5. p \in Data /\ q \in Data /\ pp \in Data /\ qq \in Data
      BY <1>1 DEF Forms, Loops
    <3>6. /\ Len(h) \in Nat /\ Len(t) \in Nat /\ Len(p) \in Nat /\ Len(q) \in Nat /\ Len(r) \in Nat
          /\ Len(wire) \in Nat
      BY <1>2, <1>4, <3>5, JoinedData
    <3>7. CASE l = "old"
      <4>1. p = h \o t /\ pp = t /\ qq = q
        BY <1>2, <3>7 DEF Loops
      <4> HIDE DEF p, q, pp, qq, h, t, r
      <4> QED BY <1>4, <2>1, <3>1, <3>2, <3>3, <3>4, <3>6, <4>1
    <3>8. CASE l = "new"
      <4>1. q = h \o t /\ qq = t /\ pp = p
        BY <1>2, <3>8 DEF Loops
      <4> HIDE DEF p, q, pp, qq, h, t, r
      <4> QED BY <1>4, <2>1, <3>1, <3>2, <3>3, <3>4, <3>6, <4>1
    <3> QED BY <3>7, <3>8 DEF Loops
  <2>3. ASSUME ~wroteEarly
        PROVE  wire' \o Waiting' = Stream' /\ IsPrefix(wire', Stream')
    <3>1. wire \o Waiting = Stream
      BY <1>4, <1>6, <2>3 DEF SentOnceAndInOrder
    <3>2. \A k \in Loops : k # l => requests[k] = << >>
      BY <2>3, OneLoopWaits DEF Sends
    <3>3. \A k \in Loops : k # l => requests'[k] = << >>
      BY <1>2, <3>2
    <3>4. Waiting = (h \o t) \o r
      BY <1>1, <1>2, <3>2 DEF Forms
    <3>5. Waiting' = t \o r
      BY <1>1, <1>4, <3>3 DEF Forms
    <3> HIDE DEF h, t, r
    <3>6. t \o r \in Data /\ (h \o t) \o r = h \o (t \o r)
      BY <1>2, <1>4, JoinedData
    <3>7. wire \o (h \o (t \o r)) = (wire \o h) \o (t \o r) /\ wire \o h \in Data
      BY ZenonT(60), <1>2, <1>4, <3>6, JoinedData
    <3>8. wire' \o Waiting' = Stream'
      BY <1>4, <2>1, <3>1, <3>4, <3>5, <3>6, <3>7
    <3>9. IsPrefix(wire', wire' \o Waiting')
      BY <2>1, <3>5, <3>6, <3>7, PrefixOfMore
    <3> QED BY <3>8, <3>9
  <2> QED BY <1>3, <2>2, <2>3 DEF SentOnceAndInOrder
<1> QED BY <1>5, <1>6
-----------------------------------------------------------------------------
(* Every step is one of these, and no loop is left with requests that it   *)
(* is not sending.                                                         *)
Quiet == \A l \in Loops : requests[l] # << >> => Runs(l, "send")
Moves == LetsBe \/ Asks \/ (\E l \in Loops : Takes(l) \/ Sends(l)) \/ GivesUp

LEMMA MovesOfCallbacks ==
  ASSUME IInv, Buffered, CallbackStep
  PROVE  Moves /\ Quiet'
<1> USE DEF sendVars, writeVars, ownVars
<1>0. Quiet /\ task \in [Loops -> Handlers] /\ \A l \in Loops : Idle(l) => requests[l] = << >>
  BY DEF Buffered, Quiet, Idle, Runs, IInv, Types
<1>1. ASSUME UNCHANGED <<requests, task>> PROVE Quiet'
  BY <1>0, <1>1 DEF Quiet, Runs
<1>2. ASSUME UNCHANGED requests, NEW l \in Loops, Idle(l), onSocketConnected(l) PROVE Quiet'
  <2>1. requests[l] = << >> /\ \A k \in Loops : k # l => task'[k] = task[k]
    BY <1>0, <1>2 DEF onSocketConnected
  <2> QED BY <1>0, <1>2, <2>1 DEF Quiet, Runs
<1>3. CASE accept
  <2>1. LetsBe
    BY <1>3 DEF accept, LetsBe
  <2>2. /\ UNCHANGED requests /\ Idle("old")
        /\ onSocketConnected("old") \/ UNCHANGED task
    BY <1>3 DEF accept
  <2> QED BY <1>1, <1>2, <2>1, <2>2 DEF Moves, Loops
<1>4. CASE onDNSResolution
  BY <1>1, <1>4 DEF onDNSResolution, LetsBe, Moves
<1>5. CASE onConnectCompleted
  <2>1. LetsBe
    BY <1>5 DEF onConnectCompleted, LetsBe
  <2>2. /\ UNCHANGED requests /\ Idle("old")
        /\ onSocketConnected("old") \/ UNCHANGED task
    BY <1>5 DEF onConnectCompleted
  <2> QED BY <1>1, <1>2, <2>1, <2>2 DEF Moves, Loops
<1>6. CASE acknowledge
  <2>1. [size |-> AckSize, override |-> 0] \in [size : Sizes, override : Nat]
    BY SocketAssumption
  <2>2. Asks
    BY <1>6, <2>1 DEF acknowledge, Asks
  <2>3. requests["new"] = << >>
    BY <1>6 DEF acknowledge, Buffered, Runs, Loops
  <2>4. UNCHANGED requests /\ \A k \in Loops : k # "new" => task'[k] = task[k]
    BY <1>0, <1>6 DEF acknowledge, Done
  <2>5. Quiet'
    BY <1>0, <2>3, <2>4 DEF Quiet, Runs
  <2> QED BY <2>2, <2>5 DEF Moves
<1>7. CASE onWriteCompleted
  <2>1. LetsBe \/ GivesUp
    BY <1>7 DEF onWriteCompleted, handleSocketDisconnected, LetsBe, GivesUp
  <2> QED BY <1>1, <1>7, <2>1 DEF Moves, onWriteCompleted
<1>8. CASE onDataReceived
  <2>1. LetsBe /\ handle \in Loops /\ UNCHANGED requests
    BY <1>8 DEF onDataReceived, LetsBe, IInv, Types, Sides
  <2>2. requests[handle] = << >> /\ \A k \in Loops : k # handle => task'[k] = task[k]
    BY <1>0, <1>8, <2>1 DEF onDataReceived
  <2>3. Quiet'
    BY <1>0, <2>1, <2>2 DEF Quiet, Runs
  <2> QED BY <2>1, <2>3 DEF Moves
<1>9. CASE onReadError
  <2>1. GivesUp
    BY <1>9 DEF onReadError, handleSocketDisconnected, GivesUp
  <2> QED BY <1>1, <1>9, <2>1 DEF Moves, onReadError
<1>10. CASE moveToLoop_onSocketClosed
  BY <1>1, <1>10 DEF moveToLoop_onSocketClosed, LetsBe, Moves
<1>11. CASE moveToLoop_registerDuplicatedSocket
  <2>1. LetsBe
    BY <1>11 DEF moveToLoop_registerDuplicatedSocket, LetsBe
  <2>2. /\ UNCHANGED requests /\ Idle("new")
        /\ onSocketConnected("new") \/ UNCHANGED task
    BY <1>11 DEF moveToLoop_registerDuplicatedSocket
  <2> QED BY <1>1, <1>2, <2>1, <2>2 DEF Moves, Loops
<1>12. CASE CloseHandle
  BY <1>1, <1>12 DEF CloseHandle, LetsBe, Moves
<1> QED BY <1>3, <1>4, <1>5, <1>6, <1>7, <1>8, <1>9, <1>10, <1>11, <1>12 DEF CallbackStep

LEMMA MovesOfLoops ==
  ASSUME IInv, Buffered, NEW l \in Loops, LoopStep(l)
  PROVE  Moves /\ Quiet'
<1> USE DEF sendVars, writeVars, ownVars
<1>0. Quiet /\ task \in [Loops -> Handlers] /\ (~Runs(l, "send") => requests[l] = << >>)
      /\ requests \in [Loops -> Seq(Data)]
  BY DEF Buffered, Quiet, IInv, Types
<1>1. ASSUME UNCHANGED requests, ~Runs(l, "send"), \A k \in Loops : k # l => task'[k] = task[k]
      PROVE  Quiet'
  BY <1>0, <1>1 DEF Quiet, Runs
<1>2. CASE StartReading(l)
  <2>1. ~Runs(l, "send") /\ \A k \in Loops : k # l => task'[k] = task[k]
    BY <1>0, <1>2 DEF StartReading, Runs, Done
  <2>2. LetsBe /\ UNCHANGED requests
    BY <1>2 DEF StartReading, LetsBe
  <2> QED BY <1>1, <2>1, <2>2 DEF Moves
<1>3. CASE processQueuedWrites(l)
  <2>1. ~Runs(l, "send") /\ \A k \in Loops : k # l => task'[k] = task[k]
    BY <1>0, <1>3 DEF processQueuedWrites, Idle, Runs
  <2>2. LetsBe /\ UNCHANGED requests
    BY <1>3 DEF processQueuedWrites, LetsBe
  <2> QED BY <1>1, <2>1, <2>2 DEF Moves
<1>4. CASE TakeWrites(l)
  <2>1. Takes(l)
    BY <1>0, <1>4 DEF TakeWrites, Takes, Runs
  <2>2. Runs(l, "send")'
    <3>1. task[l] \in Handlers /\ task[l] # << >> /\ Head(task[l]) = "take" /\ task'[l] = Tail(task[l])
      BY <1>0, <1>4 DEF TakeWrites, Runs, Done
    <3>2. CASE task[l] = <<"take", "send", "read">>
      <4>1. task'[l] = <<"send", "read">>
        BY <3>1, <3>2
      <4> QED BY <4>1 DEF Runs
    <3>3. CASE task[l] = <<"take", "send">>
      <4>1. task'[l] = <<"send">>
        BY <3>1, <3>3
      <4> QED BY <4>1 DEF Runs
    <3> QED BY <3>1, <3>2, <3>3 DEF Handlers, Connecting
  <2>3. \A k \in Loops : k # l => task'[k] = task[k] /\ requests'[k] = requests[k]
    BY <1>0, <1>4 DEF TakeWrites, Done
  <2>4. Quiet'
    BY <1>0, <2>2, <2>3 DEF Quiet, Runs
  <2> QED BY <2>1, <2>4 DEF Moves
<1>5. CASE send(l)
  <2>1. CASE requests[l] = << >>
    <3>1. LetsBe /\ UNCHANGED requests /\ \A k \in Loops : k # l => task'[k] = task[k]
      BY <1>0, <1>5, <2>1 DEF send, LetsBe, Done
    <3>2. Quiet'
      BY <1>0, <2>1, <3>1 DEF Quiet, Runs
    <3> QED BY <3>1, <3>2 DEF Moves
  <2>2. CASE requests[l] # << >>
    <3>1. Sends(l) /\ UNCHANGED task /\ Runs(l, "send")
      BY <1>5, <2>2 DEF send, Sends, Runs
    <3>2. \A k \in Loops : k # l => requests'[k] = requests[k]
      BY <1>0, <3>1 DEF Sends
    <3>3. Quiet'
      BY <1>0, <3>1, <3>2 DEF Quiet, Runs
    <3> QED BY <3>1, <3>3 DEF Moves
  <2> QED BY <2>1, <2>2
<1>6. CASE ReadMessage(l)
  <2>1. LetsBe /\ UNCHANGED <<requests, task>>
    BY <1>6 DEF ReadMessage, LetsBe
  <2>2. Quiet'
    BY <1>0, <2>1 DEF Quiet, Runs
  <2> QED BY <2>1, <2>2 DEF Moves
<1>7. CASE EndOfChunk(l)
  <2>1. ~Runs(l, "send") /\ \A k \in Loops : k # l => task'[k] = task[k]
    BY <1>0, <1>7 DEF EndOfChunk, Runs, Done
  <2>2. LetsBe /\ UNCHANGED requests
    BY <1>7 DEF EndOfChunk, LetsBe
  <2> QED BY <1>1, <2>1, <2>2 DEF Moves
<1> QED BY <1>2, <1>3, <1>4, <1>5, <1>6, <1>7 DEF LoopStep

LEMMA MovesOfOthers ==
  ASSUME IInv, Buffered,
         \/ UNCHANGED vars
         \/ \E w \in Writers : AddWrite(w) \/ MarshalWrite(w)
         \/ connect \/ Release \/ Destroy \/ Break
  PROVE  Moves /\ Quiet'
<1> USE DEF sendVars, writeVars, ownVars
<1>0. Quiet
  BY DEF Buffered, Quiet
<1>1. ASSUME UNCHANGED <<requests, task>> PROVE Quiet'
  BY <1>0, <1>1 DEF Quiet, Runs
<1>2. CASE UNCHANGED vars
  BY <1>1, <1>2 DEF vars, LetsBe, Moves
<1>3. CASE \E w \in Writers : AddWrite(w)
  <2>1. PICK w \in Writers : AddWrite(w)
    BY <1>3
  <2>2. Asks /\ UNCHANGED <<requests, task>>
    BY <2>1, SocketAssumption DEF AddWrite, Asks
  <2> QED BY <1>1, <2>2 DEF Moves
<1>4. CASE \E w \in Writers : MarshalWrite(w)
  <2>1. PICK w \in Writers : MarshalWrite(w)
    BY <1>4
  <2>2. LetsBe /\ UNCHANGED <<requests, task>>
    BY <2>1 DEF MarshalWrite, LetsBe
  <2> QED BY <1>1, <2>2 DEF Moves
<1>5. CASE connect
  BY <1>1, <1>5 DEF connect, LetsBe, Moves
<1>6. CASE Release
  BY <1>1, <1>6 DEF Release, LetsBe, Moves
<1>7. CASE Destroy
  BY <1>1, <1>7 DEF Destroy, GivesUp, Moves
<1>8. CASE Break
  BY <1>1, <1>8 DEF Break, LetsBe, Moves
<1> QED BY <1>2, <1>3, <1>4, <1>5, <1>6, <1>7, <1>8

LEMMA SentInductive ==
  ASSUME IInv, Buffered, SentOnceAndInOrder, [Next]_vars
  PROVE  Buffered' /\ SentOnceAndInOrder'
<1>1. Moves /\ Quiet'
  BY MovesOfCallbacks, MovesOfLoops, MovesOfOthers DEF Next
<1>2. BufferTypes'
  <2>1. CASE LetsBe
    BY <2>1 DEF LetsBe, Buffered, BufferTypes
  <2>2. CASE Asks
    BY <2>2, AsksKeeps
  <2>3. CASE \E l \in Loops : Takes(l) \/ Sends(l)
    BY <2>3, TakesKeeps, SendsKeeps
  <2>4. CASE GivesUp
    BY <2>4 DEF GivesUp, Buffered, BufferTypes
  <2> QED BY <1>1, <2>1, <2>2, <2>3, <2>4 DEF Moves
<1>3. Buffered'
  BY <1>1, <1>2 DEF Buffered, BufferTypes, Quiet
<1>4. SentOnceAndInOrder'
  BY <1>1, <1>3, SentWhenLeft, SentWhenGivenUp, SentWhenAsked, SentWhenTaken, SentWhenSent
     DEF Moves
<1> QED BY <1>3, <1>4

LEMMA SentInitially == Init => Buffered /\ SentOnceAndInOrder
<1> SUFFICES ASSUME Init PROVE Buffered /\ SentOnceAndInOrder
  OBVIOUS
<1>1. queue = << >> /\ requests = [l \in Loops |-> << >>] /\ wire = << >> /\ asked = << >>
  BY DEF Init
<1>2. << >> \in Data
  BY JoinedData
<1>3. Buffered
  BY <1>1, <1>2 DEF Buffered
<1>4. AskedBytes = << >> /\ QueuedBytes = << >>
  BY <1>1 DEF AskedBytes, QueuedBytes
<1>5. Stream = << >> /\ FlattenSeq(QueuedBytes) = << >> /\ Forms
  BY <1>3, <1>4, BufferedTypes, FlattenNothing, FormsNow
<1>6. Waiting = << >>
  <2>1. "old" \in Loops /\ (\A k \in Loops : k # "old" => requests[k] = << >>) /\ requests["old"] = << >>
    BY <1>1 DEF Loops
  <2>2. Waiting = FlattenSeq(requests["old"]) \o FlattenSeq(QueuedBytes)
    BY <1>5, <2>1 DEF Forms
  <2> QED BY <1>2, <1>5, <2>1, <2>2, FlattenNothing, JoinedData
<1>7. << >> \o << >> = << >> /\ Len(<< >>) = 0
  OBVIOUS
<1>8. IsPrefix(<< >>, << >> \o << >>)
  BY <1>2, PrefixOfMore
<1> QED BY <1>1, <1>3, <1>5, <1>6, <1>7, <1>8 DEF SentOnceAndInOrder

LEMMA SendingHolds == Spec => [](Buffered /\ SentOnceAndInOrder)
<1>1. Init => Buffered /\ SentOnceAndInOrder
  BY SentInitially
<1>2. IInv /\ (Buffered /\ SentOnceAndInOrder) /\ [Next]_vars => (Buffered /\ SentOnceAndInOrder)'
  BY SentInductive
<1> QED BY <1>1, <1>2, Invariance, PTL DEF Spec

(***************************************************************************)
(* Whatever messages are written, in whatever sizes, however they are      *)
(* coalesced, split, queued while the socket connects or moves, and        *)
(* flushed: the bytes sent are those of the messages, in the order of the  *)
(* queue, each message once and with its ID.                               *)
(***************************************************************************)
THEOREM SentOnceAndInOrderHolds == Spec => []SentOnceAndInOrder
BY SendingHolds, PTL
-----------------------------------------------------------------------------
(* What was appended is found behind what was there.                       *)
LEMMA SecondPart ==
  ASSUME NEW s \in Data, NEW t \in Data
  PROVE  \A i \in 1 .. Len(t) : (s \o t)[Len(s) + i] = t[i]
<1> TAKE i \in 1 .. Len(t)
<1>1. /\ Len(s) \in Nat /\ Len(t) \in Nat
      /\ Len(s) + i \in 1 .. Len(s) + Len(t) /\ ~ (Len(s) + i <= Len(s)) /\ (Len(s) + i) - Len(s) = i
  BY JoinedData
<1>2. \A j \in 1 .. Len(s) + Len(t) : (s \o t)[j] = IF j <= Len(s) THEN s[j] ELSE t[j - Len(s)]
  BY ConcatProperties DEF Data
<1> QED BY <1>1, <1>2

(* The bytes read so far and those to come begin with the message that is  *)
(* being read, of which some are there.                                    *)
Starts(x, m) == \A i \in 1 .. Len(x) : x[i] = m[i]

LEMMA Cancels ==
  \A x, y, m, r \in Data :
    x \o y = m \o r /\ Len(x) <= Len(m) =>
      Starts(x, m) /\ (Len(x) = Len(m) => x = m /\ y = r)
<1> TAKE x, y, m, r \in Data
<1> HAVE x \o y = m \o r /\ Len(x) <= Len(m)
<1>1. /\ Len(x) \in Nat /\ Len(y) \in Nat /\ Len(m) \in Nat /\ Len(r) \in Nat
      /\ Len(x \o y) = Len(x) + Len(y) /\ Len(m \o r) = Len(m) + Len(r)
  BY JoinedData
<1>2. /\ \A i \in 1 .. Len(x) : (x \o y)[i] = x[i] /\ (m \o r)[i] = m[i]
      /\ \A i \in 1 .. Len(y) : (x \o y)[Len(x) + i] = y[i]
      /\ \A i \in 1 .. Len(r) : (m \o r)[Len(m) + i] = r[i]
  <2>1. \A i \in 1 .. Len(x) : (x \o y)[i] = x[i]
    BY <1>1, ConcatProperties DEF Data
  <2>2. \A i \in 1 .. Len(m) : (m \o r)[i] = m[i]
    BY <1>1, ConcatProperties DEF Data
  <2>3. \A i \in 1 .. Len(x) : i \in 1 .. Len(m)
    BY <1>1
  <2>4. \A i \in 1 .. Len(y) : (x \o y)[Len(x) + i] = y[i]
    BY SecondPart
  <2>5. \A i \in 1 .. Len(r) : (m \o r)[Len(m) + i] = r[i]
    BY SecondPart
  <2> QED BY <2>1, <2>2, <2>3, <2>4, <2>5
<1>3. \A i \in 1 .. Len(x) : x[i] = m[i]
  BY <1>2
<1>4. ASSUME Len(x) = Len(m) PROVE x = m /\ y = r
  <2>1. x = m
    BY <1>3, <1>4, SeqEqual DEF Data
  <2>2. Len(y) = Len(r)
    BY <1>1, <1>4
  <2>3. \A i \in 1 .. Len(y) : y[i] = r[i]
    BY <1>2, <1>4, <2>2
  <2>4. y = r
    BY <2>2, <2>3, SeqEqual DEF Data
  <2> QED BY <2>1, <2>4
<1> QED BY <1>3, <1>4 DEF Starts

(* A part of a message that has its size in it tells the size.             *)
LEMMA SizeOfPart ==
  ASSUME NEW n \in Sizes, NEW id \in Nat, NEW mark \in Nat, NEW x \in Data,
         SIZE_SIZE <= Len(x), Len(x) <= n,
         Starts(x, MessageBytes(n, id, mark))
  PROVE  SizeOf(x) = n
<1> DEFINE m == MessageBytes(n, id, mark)
           Z == SIZE_SIZE
           u == SubSeq(x, 1, Z)
           v == SubSeq(m, 1, Z)
<1>1. m \in Data /\ Len(m) = n /\ v = SizeBytes(n) /\ n \in Nat
  BY MessageIsData
<1>2. Z \in Nat /\ Z <= Len(x) /\ Z <= Len(m) /\ Len(x) \in Nat
  BY <1>1, FramingAssumption, JoinedData
<1>3. \A i \in 1 .. Len(x) : x[i] = m[i]
  BY DEF Starts
<1> HIDE DEF Z, m
<1>4. u \in Data /\ Len(u) = Z /\ \A i \in 1 .. Z : u[i] = x[i]
  BY <1>2, CutData
<1>5. v \in Data /\ Len(v) = Z /\ \A i \in 1 .. Z : v[i] = m[i]
  BY <1>1, <1>2, CutData
<1> HIDE DEF u, v
<1>6. \A i \in 1 .. Z : u[i] = v[i]
  BY <1>2, <1>3, <1>4, <1>5
<1>7. u = v
  BY <1>4, <1>5, <1>6, SeqEqual DEF Data
<1> QED BY <1>1, <1>7, SizeReadsBack DEF u, Z

(* What the reader takes of a chunk: all it has, or what the message lacks.*)
Begins(n, id, mark, x, y, z, r) ==
  /\ n \in Sizes /\ id \in Nat /\ mark \in Nat
  /\ x \in Data /\ y \in Data /\ z \in Data /\ r \in Data
  /\ x \o (y \o z) = MessageBytes(n, id, mark) \o r /\ Len(x) < n
Taken(n, x, y) == IF n - Len(x) <= Len(y) THEN n - Len(x) ELSE Len(y)

LEMMA SmallerOfTwo ==
  ASSUME NEW a \in Nat, NEW b \in Nat
  PROVE  Min({a, b}) = IF a <= b THEN a ELSE b
<1>1. {a, b} \subseteq Nat /\ {a, b} # {}
  OBVIOUS
<1>2. Min({a, b}) \in {a, b} /\ \A y \in {a, b} : Min({a, b}) <= y
  BY <1>1, MinIsThere
<1> QED BY <1>2

LEMMA ReaderTakes ==
  ASSUME NEW n, NEW id, NEW mark, NEW x, NEW y, NEW z, NEW r,
         Begins(n, id, mark, x, y, z, r)
  PROVE  readNetworkMessage(x, y) = Taken(n, x, y)
<1> SUFFICES ASSUME n \in Sizes, id \in Nat, mark \in Nat,
                    x \in Data, y \in Data, z \in Data, r \in Data,
                    x \o (y \o z) = MessageBytes(n, id, mark) \o r, Len(x) < n
             PROVE  readNetworkMessage(x, y) = Taken(n, x, y)
  BY DEF Begins
<1> DEFINE m == MessageBytes(n, id, mark)
           Z == SIZE_SIZE
           a == readNetworkMessageSize(x, y)
           got == x \o SubSeq(y, 1, a)
<1>1. m \in Data /\ Len(m) = n /\ n \in Nat /\ Z \in Nat /\ Z < n
  BY MessageIsData, FramingAssumption DEF SIZE_PLUS_SUBSCRIPTION_ID
<1>2. Len(x) \in Nat /\ Len(y) \in Nat
  BY JoinedData
<1>3. a = IF Len(x) >= Z THEN 0 ELSE IF Z - Len(x) <= Len(y) THEN Z - Len(x) ELSE Len(y)
  <2>1. CASE Len(x) >= Z
    BY <2>1 DEF readNetworkMessageSize
  <2>2. CASE ~ (Len(x) >= Z)
    <3>1. Z - Len(x) \in Nat
      BY <1>1, <1>2, <2>2
    <3>2. Min({Z - Len(x), Len(y)}) = IF Z - Len(x) <= Len(y) THEN Z - Len(x) ELSE Len(y)
      BY <1>2, <3>1, SmallerOfTwo
    <3> QED BY <2>2, <3>2 DEF readNetworkMessageSize
  <2> QED BY <2>1, <2>2
<1>4. a \in Nat /\ a <= Len(y) /\ Len(x) + a <= n
  BY <1>1, <1>2, <1>3
<1>5. readNetworkMessage(x, y) =
        IF Len(got) < Z THEN a ELSE a + Min({SizeOf(got) - Len(got), Len(y) - a})
  BY DEF readNetworkMessage
<1> HIDE DEF a
<1>6. SubSeq(y, 1, a) \in Data /\ Len(SubSeq(y, 1, a)) = a /\ SubSeq(y, a + 1, Len(y)) \in Data
      /\ SubSeq(y, 1, a) \o SubSeq(y, a + 1, Len(y)) = y
  BY <1>4, CutData
<1>7. got \in Data /\ Len(got) = Len(x) + a
  <2> DEFINE p == SubSeq(y, 1, a)
  <2>1. p \in Data /\ Len(p) = a
    BY <1>6
  <2> HIDE DEF p
  <2>2. x \o p \in Data /\ Len(x \o p) = Len(x) + a
    BY <2>1, JoinedData
  <2> QED BY <2>2 DEF p
<1>8. got \o (SubSeq(y, a + 1, Len(y)) \o z) = m \o r
  <2> DEFINE p == SubSeq(y, 1, a)
             q == SubSeq(y, a + 1, Len(y))
  <2>1. p \in Data /\ q \in Data /\ p \o q = y
    BY <1>6
  <2> HIDE DEF p, q, m
  <2>2. (x \o p) \o (q \o z) = x \o (p \o (q \o z)) /\ p \o (q \o z) = (p \o q) \o z
    <3>1. q \o z \in Data
      BY <2>1, JoinedData
    <3> DEFINE w == q \o z
    <3>4. w \in Data /\ p \in Data
      BY <2>1, <3>1
    <3> HIDE DEF w
    <3>2. (x \o p) \o w = x \o (p \o w)
      BY ZenonT(60), <3>4, JoinedData
    <3>3. (p \o q) \o z = p \o (q \o z)
      BY ZenonT(60), <2>1, JoinedData
    <3> QED BY <3>2, <3>3 DEF w
  <2>3. (x \o p) \o (q \o z) = m \o r
    BY <2>1, <2>2 DEF m
  <2> QED BY <2>3 DEF p, q
<1>9. SubSeq(y, a + 1, Len(y)) \o z \in Data
  BY <1>6, JoinedData
<1> HIDE DEF got, m
<1>10. Starts(got, m)
  <2> DEFINE w == SubSeq(y, a + 1, Len(y)) \o z
  <2>1. Len(got) <= Len(m) /\ w \in Data /\ got \o w = m \o r
    BY <1>1, <1>4, <1>7, <1>8, <1>9
  <2>2. got \in Data /\ m \in Data
    BY <1>1, <1>7
  <2> HIDE DEF w
  <2> QED BY <2>1, <2>2, Cancels
<1>11. CASE Len(got) < Z
  BY <1>1, <1>2, <1>3, <1>5, <1>7, <1>11 DEF Taken
<1>12. CASE ~ (Len(got) < Z)
  <2>1. SizeOf(got) = n
    <3>1. Z <= Len(got) /\ Len(got) <= n
      BY <1>1, <1>2, <1>4, <1>7, <1>12
    <3> QED BY <1>7, <1>10, <3>1, SizeOfPart DEF m
  <2>2. n - Len(got) \in Nat /\ Len(y) - a \in Nat
    BY <1>1, <1>2, <1>4, <1>7
  <2>3. Min({n - Len(got), Len(y) - a}) =
          IF n - Len(got) <= Len(y) - a THEN n - Len(got) ELSE Len(y) - a
    BY <2>2, SmallerOfTwo
  <2>4. readNetworkMessage(x, y) = a + IF n - Len(got) <= Len(y) - a THEN n - Len(got) ELSE Len(y) - a
    BY <1>5, <1>12, <2>1, <2>3
  <2> QED BY <1>1, <1>2, <1>4, <1>7, <2>4 DEF Taken
<1> QED BY <1>11, <1>12

(* It completes the message exactly when all of it has come.               *)
LEMMA ReaderReads ==
  ASSUME NEW n, NEW id, NEW mark, NEW x, NEW y, NEW z, NEW r,
         Begins(n, id, mark, x, y, z, r)
  PROVE  LET k       == readNetworkMessage(x, y)
             message == x \o SubSeq(y, 1, k)
             rest    == SubSeq(y, k + 1, Len(y))
         IN  /\ message \in Data /\ rest \in Data
             /\ message \o (rest \o z) = x \o (y \o z)
             /\ IF hasAllData(message)
                THEN message = MessageBytes(n, id, mark) /\ rest \o z = r
                ELSE Len(message) < n
<1> SUFFICES ASSUME n \in Sizes, id \in Nat, mark \in Nat,
                    x \in Data, y \in Data, z \in Data, r \in Data,
                    x \o (y \o z) = MessageBytes(n, id, mark) \o r, Len(x) < n
             PROVE  LET k       == readNetworkMessage(x, y)
                        message == x \o SubSeq(y, 1, k)
                        rest    == SubSeq(y, k + 1, Len(y))
                    IN  /\ message \in Data /\ rest \in Data
                        /\ message \o (rest \o z) = x \o (y \o z)
                        /\ IF hasAllData(message)
                           THEN message = MessageBytes(n, id, mark) /\ rest \o z = r
                           ELSE Len(message) < n
  BY DEF Begins
<1> DEFINE m == MessageBytes(n, id, mark)
           k == readNetworkMessage(x, y)
           p == SubSeq(y, 1, k)
           q == SubSeq(y, k + 1, Len(y))
<1>1. m \in Data /\ Len(m) = n /\ n \in Nat /\ SIZE_SIZE \in Nat /\ SIZE_SIZE < n
  BY MessageIsData, FramingAssumption DEF SIZE_PLUS_SUBSCRIPTION_ID
<1>2. Len(x) \in Nat /\ Len(y) \in Nat
  BY JoinedData
<1>0. readNetworkMessage(x, y) = Taken(n, x, y)
  BY ReaderTakes
<1>3. k = IF n - Len(x) <= Len(y) THEN n - Len(x) ELSE Len(y)
  BY <1>0 DEF Taken
<1> HIDE DEF k
<1>4. k \in Nat /\ k <= Len(y) /\ Len(x) + k <= n
  BY <1>1, <1>2, <1>3
<1>5. p \in Data /\ Len(p) = k /\ q \in Data /\ p \o q = y
  BY <1>4, CutData
<1>6. x \o (y \o z) = m \o r
  OBVIOUS
<1> HIDE DEF p, q, m
<1> DEFINE w == x \o p
           v == q \o z
<1>7. w \in Data /\ Len(w) = Len(x) + k /\ v \in Data
  BY <1>5, JoinedData
<1>8. w \o v = x \o (y \o z)
  <2>1. p \o v = (p \o q) \o z
    BY ZenonT(60), <1>5, JoinedData
  <2>3. p \in Data /\ v \in Data
    BY <1>5, <1>7
  <2> HIDE DEF v
  <2>2. w \o v = x \o (p \o v)
    BY ZenonT(60), <2>3, JoinedData
  <2> QED BY <1>5, <2>1, <2>2
<1> HIDE DEF w, v
<1>9. Len(w) \in Nat /\ Len(w) <= n /\ Len(w) <= Len(m) /\ w \o v = m \o r
  BY <1>1, <1>2, <1>4, <1>6, <1>7, <1>8
<1>10. Starts(w, m) /\ (Len(w) = Len(m) => w = m /\ v = r)
  <2>1. w \in Data /\ v \in Data /\ m \in Data /\ r \in Data
    BY <1>1, <1>7
  <2>2. w \o v = m \o r /\ Len(w) <= Len(m)
    BY <1>9
  <2> QED BY <2>1, <2>2, Cancels
<1>11. SIZE_SIZE <= Len(w) => SizeOf(w) = n
  BY <1>7, <1>9, <1>10, SizeOfPart DEF m
<1>12. hasAllData(w) <=> Len(w) = n
  BY <1>1, <1>9, <1>11 DEF hasAllData
<1>13. IF hasAllData(w) THEN w = m /\ v = r ELSE Len(w) < n
  <2>1. CASE Len(w) = n
    BY <1>1, <1>10, <1>12, <2>1
  <2>2. CASE Len(w) # n
    <3>1. Len(w) < n
      BY <1>1, <1>9, <2>2
    <3> QED BY <1>12, <2>2, <3>1
  <2> QED BY <2>1, <2>2
<1>14. k = readNetworkMessage(x, y)
  BY DEF k
<1> QED BY <1>5, <1>7, <1>8, <1>13, <1>14 DEF p, q, m, w, v
-----------------------------------------------------------------------------
(* The messages of the other end, and what its library makes of them.      *)
LEMMA InboundMessages ==
  ASSUME NEW in \in Inbound
  PROVE  /\ InboundBuffers(in) \in Seq(Data) /\ Len(InboundBuffers(in)) = Len(in) /\ Len(in) \in Nat
         /\ \A i \in 1 .. Len(in) :
              /\ in[i].size \in Sizes
              /\ InboundBuffers(in)[i] = MessageBytes(in[i].size, 0, i)
              /\ Len(InboundBuffers(in)[i]) = in[i].size
              /\ in[i].size \in Nat /\ in[i].size >= SIZE_PLUS_SUBSCRIPTION_ID
<1> DEFINE T == [action : {"CONNECT", "DISCONNECT", "MESSAGE"}, size : Sizes]
           B == InboundBuffers(in)
           n == Len(in)
<1>1. in \in Seq(T)
  BY SocketAssumption
<1>2. \A i \in 1 .. n : in[i].size \in Sizes
  <2> SUFFICES ASSUME NEW i \in 1 .. n PROVE in[i].size \in Sizes
    OBVIOUS
  <2>1. in[i] \in T
    <3> HIDE DEF T
    <3> QED BY <1>1
  <2> QED BY <2>1
<1>3. n \in Nat
  <2> HIDE DEF T
  <2> QED BY <1>1
<1>4. B = [i \in 1 .. n |-> MessageBytes(in[i].size, 0, i)]
  BY DEF InboundBuffers
<1> HIDE DEF n, T, B
<1>5. \A i \in 1 .. n : /\ MessageBytes(in[i].size, 0, i) \in Data
                        /\ Len(MessageBytes(in[i].size, 0, i)) = in[i].size
                        /\ in[i].size \in Nat /\ in[i].size >= SIZE_PLUS_SUBSCRIPTION_ID
  BY <1>2, MessageIsData
<1>6. B \in Seq(Data) /\ Len(B) = n /\ \A i \in 1 .. n : B[i] = MessageBytes(in[i].size, 0, i)
  BY <1>3, <1>4, <1>5
<1> QED BY <1>2, <1>3, <1>5, <1>6 DEF B, n

LEMMA CoalescedKeeps ==
  ASSUME NEW bufs \in Seq(Data),
         \A i \in 1 .. Len(bufs) : Len(bufs[i]) >= SIZE_PLUS_SUBSCRIPTION_ID,
         NEW x \in Coalesced(bufs)
  PROVE  x = FlattenSeq(bufs)
<1> DEFINE n == Len(bufs)
           W == [i \in 1 .. n |-> [data |-> bufs[i], override |-> 0]]
<1>1. n \in Nat /\ \A i \in 1 .. n : bufs[i] \in Data /\ Len(bufs[i]) >= SIZE_PLUS_SUBSCRIPTION_ID
  OBVIOUS
<1>2. \A i \in 1 .. n : [data |-> bufs[i], override |-> 0] \in WriteBuffers
  BY <1>1 DEF WriteBuffers
<1>3. W \in Seq(WriteBuffers) /\ Len(W) = n
  BY <1>1, <1>2
<1>4. \A i \in 1 .. n : W[i].data = bufs[i] /\ W[i].override = 0
  OBVIOUS
<1> HIDE DEF W
<1>5. FlattenSeq(getWriteRequests(W)) = FlattenSeq([i \in 1 .. n |-> Patched(W[i].data, W[i].override)])
  BY <1>3, WriteRequestsKeepBytes
<1>6. [i \in 1 .. n |-> Patched(W[i].data, W[i].override)] = bufs
  <2>1. \A i \in 1 .. n : Patched(W[i].data, W[i].override) = bufs[i]
    BY <1>1, <1>4, NothingPatched
  <2>2. bufs = [i \in 1 .. n |-> bufs[i]]
    OBVIOUS
  <2> QED BY <2>1, <2>2
<1>7. x \in {FlattenSeq(getWriteRequests(W)), FlattenSeq(getSendBufferInfos(bufs))}
  BY DEF Coalesced, W
<1>8. FlattenSeq(getSendBufferInfos(bufs)) = FlattenSeq(bufs)
  BY SendBufferInfosKeepBytes
<1> QED BY <1>5, <1>6, <1>7, <1>8

(* The next of some messages, and those behind it.                         *)
LEMMA NextMessage ==
  ASSUME NEW msgs \in Seq(Data), NEW k \in Nat, k < Len(msgs)
  PROVE  /\ msgs[k + 1] \in Data
         /\ FlattenSeq(SubSeq(msgs, k + 2, Len(msgs))) \in Data
         /\ FlattenSeq(SubSeq(msgs, k + 1, Len(msgs))) =
              msgs[k + 1] \o FlattenSeq(SubSeq(msgs, k + 2, Len(msgs)))
         /\ Append(SubSeq(msgs, 1, k), msgs[k + 1]) = SubSeq(msgs, 1, k + 1)
<1> DEFINE n == Len(msgs)
           s == SubSeq(msgs, k + 1, n)
           t == SubSeq(msgs, k + 2, n)
<1>1. n \in Nat /\ k + 1 \in 1 .. n /\ n \in k + 1 .. n /\ (k + 1) + 1 = k + 2 /\ k <= n
  OBVIOUS
<1>2. \A i \in 1 .. n : msgs[i] \in Data
  OBVIOUS
<1>3. s \in Seq(Data) /\ t \in Seq(Data) /\ Len(s) = n - k
  <2>1. \A i \in k + 1 .. n : msgs[i] \in Data
    BY <1>1, <1>2
  <2>2. \A i \in k + 2 .. n : msgs[i] \in Data
    BY <1>1, <1>2
  <2> QED BY <1>1, <2>1, <2>2, SubSeqProperties
<1>4. Head(s) = msgs[k + 1] /\ Tail(s) = t
  <2>1. Tail(s) = SubSeq(msgs, (k + 1) + 1, n)
    BY <1>1, HeadTailOfSubSeq
  <2>2. Head(s) = msgs[k + 1]
    BY <1>1, HeadTailOfSubSeq
  <2> QED BY <1>1, <2>1, <2>2
<1> HIDE DEF s, t
<1>5. s # << >>
  <2>1. Len(s) # 0 /\ Len(<< >>) = 0
    BY <1>1, <1>3
  <2> QED BY <2>1
<1>6. FlattenSeq(s) = Head(s) \o FlattenSeq(Tail(s)) /\ FlattenSeq(t) \in Data
  BY <1>3, <1>5, FlattenHead, FlattenType DEF Data
<1>7. Append(SubSeq(msgs, 1, k), msgs[k + 1]) = SubSeq(msgs, 1, k + 1)
  <2> DEFINE p == SubSeq(msgs, 1, k)
             q == SubSeq(msgs, 1, k + 1)
  <2>1. \A i \in 1 .. k + 1 : msgs[i] \in Data
    BY <1>1, <1>2
  <2>2. p \in Seq(Data) /\ Len(p) = k /\ \A i \in 1 .. k : p[i] = msgs[i]
    <3>1. \A i \in 1 .. k : msgs[i] \in Data
      BY <2>1
    <3> QED BY <3>1, SubSeqProperties
  <2>3. q \in Seq(Data) /\ Len(q) = k + 1 /\ \A i \in 1 .. k + 1 : q[i] = msgs[i]
    BY <2>1, SubSeqProperties
  <2> HIDE DEF p, q
  <2>4. msgs[k + 1] \in Data
    BY <1>1, <1>2
  <2>5. \A i \in 1 .. k + 1 : Append(p, msgs[k + 1])[i] = q[i]
    BY <2>2, <2>3, <2>4
  <2>6. Append(p, msgs[k + 1]) \in Seq(Data) /\ Len(Append(p, msgs[k + 1])) = Len(q)
    BY <2>2, <2>3, <2>4
  <2>7. Append(p, msgs[k + 1]) = q
    BY <2>3, <2>5, <2>6, SeqEqual
  <2> QED BY <2>7 DEF p, q
<1> QED BY <1>1, <1>2, <1>4, <1>6, <1>7 DEF s, t
-----------------------------------------------------------------------------
(* What the other end has sent comes in its order: the messages received,  *)
(* the part of the next one, what is left of the chunk, and the rest.      *)
ToCome == SubSeq(InboundBuffers(inbound), Len(received) + 1, Len(InboundBuffers(inbound)))

Reading ==
  /\ inbound \in Inbound /\ received \in Seq(Data)
  /\ current \in Data /\ chunk \in Data /\ unread \in Data
  /\ Len(received) <= Len(inbound)
  /\ received = SubSeq(InboundBuffers(inbound), 1, Len(received))
  /\ current \o (chunk \o unread) = FlattenSeq(ToCome)
  /\ FlattenSeq(received) \o FlattenSeq(ToCome) = FlattenSeq(InboundBuffers(inbound))
  /\ Len(received) < Len(inbound) => Len(current) < inbound[Len(received) + 1].size

(* A chunk is parsed on the loop of the socket.                            *)
Parsing ==
  /\ \A l \in Loops : task[l] = <<"parse">> => l = loop
  /\ chunk # << >> => task[loop] = <<"parse">>

LEMMA ReadingInitially == Init => Reading /\ Parsing
<1> SUFFICES ASSUME Init PROVE Reading /\ Parsing
  OBVIOUS
<1> DEFINE msgs == InboundBuffers(inbound)
<1>1. /\ inbound \in Inbound /\ received = << >> /\ current = << >> /\ chunk = << >>
      /\ unread \in Coalesced(msgs) /\ task = [l \in Loops |-> << >>]
  BY DEF Init
<1>2. /\ msgs \in Seq(Data) /\ Len(msgs) = Len(inbound) /\ Len(inbound) \in Nat
      /\ \A i \in 1 .. Len(msgs) : Len(msgs[i]) >= SIZE_PLUS_SUBSCRIPTION_ID
      /\ \A i \in 1 .. Len(inbound) : inbound[i].size \in Nat /\ inbound[i].size >= SIZE_PLUS_SUBSCRIPTION_ID
  BY <1>1, InboundMessages
<1> HIDE DEF msgs
<1>3. unread = FlattenSeq(msgs) /\ FlattenSeq(msgs) \in Data
  BY <1>1, <1>2, CoalescedKeeps, FlattenType DEF Data
<1>4. SubSeq(msgs, 1, 0) = << >> /\ SubSeq(msgs, 1, Len(msgs)) = msgs
  BY <1>2, SubSeqFull
<1>5. ToCome = msgs
  BY <1>1, <1>2, <1>4 DEF ToCome, msgs
<1>6. << >> \in Data /\ Len(<< >>) = 0 /\ << >> \o (<< >> \o unread) = unread
  BY <1>3, JoinedData
<1>7. FlattenSeq(<< >>) \o FlattenSeq(msgs) = FlattenSeq(msgs)
  BY <1>3, FlattenNothing, JoinedData
<1>8. 0 < Len(inbound) => 0 < inbound[0 + 1].size
  BY <1>2, FramingAssumption DEF SIZE_PLUS_SUBSCRIPTION_ID
<1>9. Len(received) = 0 /\ 0 <= Len(inbound)
  BY <1>1, <1>2
<1>10. Reading
  <2>1. received \in Seq(Data)
    BY <1>1
  <2> QED BY <1>1, <1>3, <1>4, <1>5, <1>6, <1>7, <1>8, <1>9, <2>1 DEF Reading, msgs
<1>11. Parsing
  <2>1. << >> # <<"parse">>
    OBVIOUS
  <2> QED BY <1>1, <2>1 DEF Parsing
<1> QED BY <1>10, <1>11

LEMMA Step_ReadData ==
  ASSUME IInv, Reading, Parsing, onDataReceived
  PROVE  Reading' /\ Parsing'
<1>1. handle = loop /\ loop \in Loops /\ task \in [Loops -> Handlers] /\ task[loop] = << >>
  BY DEF onDataReceived, IInv, Types, Sides, Idle
<1>2. chunk = << >>
  BY <1>1 DEF Parsing, onDataReceived
<1>3. PICK n \in (ReadSizes \cap 1 .. Len(unread)) \cup {Len(unread)} :
        chunk' = SubSeq(unread, 1, n) /\ unread' = SubSeq(unread, n + 1, Len(unread))
  BY DEF onDataReceived
<1>4. UNCHANGED <<current, inbound, received, loop>> /\ task' = [task EXCEPT ![loop] = <<"parse">>]
  BY <1>1 DEF onDataReceived, connVars
<1>5. unread \in Data /\ Len(unread) \in Nat
  BY JoinedData DEF Reading
<1>6. n \in Nat /\ n <= Len(unread)
  BY <1>5
<1>7. chunk' \in Data /\ unread' \in Data /\ chunk' \o unread' = unread
  BY <1>3, <1>5, <1>6, CutData
<1>8. << >> \o unread = unread
  BY <1>5, JoinedData
<1>9. ToCome' = ToCome
  BY <1>4 DEF ToCome
<1>10. Reading'
  BY <1>2, <1>4, <1>7, <1>8, <1>9 DEF Reading
<1>11. Parsing'
  BY <1>1, <1>4 DEF Parsing
<1> QED BY <1>10, <1>11

LEMMA Step_ReadOne ==
  ASSUME IInv, Reading, Parsing, NEW l \in Loops, ReadMessage(l)
  PROVE  Reading' /\ Parsing'
<1> DEFINE msgs    == InboundBuffers(inbound)
           k       == Len(received)
           n       == readNetworkMessage(current, chunk)
           message == current \o SubSeq(chunk, 1, n)
           rest    == SubSeq(chunk, n + 1, Len(chunk))
           r       == FlattenSeq(SubSeq(msgs, k + 2, Len(msgs)))
           size    == inbound[k + 1].size
<1>1. /\ chunk # << >> /\ chunk' = rest
      /\ UNCHANGED <<inbound, unread, loop, task>>
      /\ IF hasAllData(message) THEN received' = Append(received, message) /\ current' = << >>
         ELSE current' = message /\ received' = received
  BY DEF ReadMessage
<1>2. /\ msgs \in Seq(Data) /\ Len(msgs) = Len(inbound) /\ Len(msgs) \in Nat
      /\ \A i \in 1 .. Len(msgs) :
           /\ inbound[i].size \in Sizes /\ msgs[i] = MessageBytes(inbound[i].size, 0, i)
           /\ inbound[i].size \in Nat /\ inbound[i].size >= SIZE_PLUS_SUBSCRIPTION_ID
  BY InboundMessages DEF Reading
<1>3. /\ received \in Seq(Data) /\ k \in Nat /\ k <= Len(msgs)
      /\ received = SubSeq(msgs, 1, k)
      /\ current \in Data /\ chunk \in Data /\ unread \in Data
  BY <1>2 DEF Reading
<1>4. current \o (chunk \o unread) = FlattenSeq(SubSeq(msgs, k + 1, Len(msgs)))
  BY DEF Reading, ToCome
<1>5. FlattenSeq(received) \o FlattenSeq(SubSeq(msgs, k + 1, Len(msgs))) = FlattenSeq(msgs)
  BY DEF Reading, ToCome
<1>6. k < Len(msgs) => Len(current) < size
  BY <1>2 DEF Reading
<1>7. task[loop] = <<"parse">>
  BY <1>1 DEF Parsing
<1> HIDE DEF msgs, k, n, message, rest, r, size
<1>8. k < Len(msgs)
  <2> SUFFICES ASSUME k = Len(msgs) PROVE FALSE
    BY <1>2, <1>3
  <2>1. SubSeq(msgs, k + 1, Len(msgs)) = << >>
    BY <1>2, <1>3, SubSeqEmpty
  <2>2. Len(current \o (chunk \o unread)) = 0
    BY <1>4, <2>1, FlattenNothing, JoinedData
  <2>3. chunk \o unread \in Data /\ Len(chunk \o unread) = Len(chunk) + Len(unread)
    BY <1>3, JoinedData
  <2>4. Len(current \o (chunk \o unread)) = Len(current) + Len(chunk \o unread)
    BY <1>3, <2>3, JoinedData
  <2>5. Len(chunk) # 0
    BY <1>1, <1>3 DEF Data
  <2>6. Len(current) \in Nat /\ Len(chunk) \in Nat /\ Len(unread) \in Nat
    BY <1>3, JoinedData
  <2> QED BY <2>2, <2>3, <2>4, <2>5, <2>6
<1>9. /\ msgs[k + 1] \in Data /\ r \in Data
      /\ FlattenSeq(SubSeq(msgs, k + 1, Len(msgs))) = msgs[k + 1] \o r
      /\ Append(SubSeq(msgs, 1, k), msgs[k + 1]) = SubSeq(msgs, 1, k + 1)
  BY <1>2, <1>3, <1>8, NextMessage DEF r
<1>10. k + 1 \in 1 .. Len(msgs) /\ k + 1 \in Nat
  BY <1>2, <1>3, <1>8
<1>11. size \in Sizes /\ msgs[k + 1] = MessageBytes(size, 0, k + 1)
  BY <1>2, <1>10 DEF size
<1>12. Begins(size, 0, k + 1, current, chunk, unread, r)
  BY <1>3, <1>4, <1>6, <1>8, <1>9, <1>10, <1>11 DEF Begins
<1>13. /\ message \in Data /\ rest \in Data
       /\ message \o (rest \o unread) = current \o (chunk \o unread)
       /\ IF hasAllData(message)
          THEN message = msgs[k + 1] /\ rest \o unread = r
          ELSE Len(message) < size
  <2> DEFINE g   == readNetworkMessage(current, chunk)
             got == current \o SubSeq(chunk, 1, g)
             w   == SubSeq(chunk, g + 1, Len(chunk))
  <2>1. /\ got \in Data /\ w \in Data
        /\ got \o (w \o unread) = current \o (chunk \o unread)
        /\ IF hasAllData(got)
           THEN got = MessageBytes(size, 0, k + 1) /\ w \o unread = r
           ELSE Len(got) < size
    BY <1>12, ReaderReads, Zenon
  <2> QED BY <1>11, <2>1 DEF message, rest, n
<1>14. Parsing'
  BY <1>1, <1>7 DEF Parsing
<1>15. CASE hasAllData(message)
  <2>1. /\ received' = Append(received, message) /\ current' = << >> /\ chunk' = rest
        /\ message = msgs[k + 1] /\ rest \o unread = r
    BY <1>1, <1>13, <1>15
  <2>2. /\ received' \in Seq(Data) /\ Len(received') = k + 1
        /\ received' = SubSeq(msgs, 1, k + 1)
    BY <1>3, <1>9, <1>13, <2>1 DEF k
  <2>3. ToCome' = SubSeq(msgs, k + 2, Len(msgs))
    <3>1. InboundBuffers(inbound)' = msgs
      BY <1>1 DEF msgs
    <3>2. (k + 1) + 1 = k + 2
      BY <1>3
    <3> QED BY <2>2, <3>1, <3>2 DEF ToCome
  <2>4. current' \o (chunk' \o unread') = FlattenSeq(ToCome')
    BY <1>1, <1>9, <2>1, <2>3, JoinedData DEF r
  <2>5. FlattenSeq(received') \o FlattenSeq(ToCome') = FlattenSeq(msgs)
    <3>1. FlattenSeq(received') = FlattenSeq(received) \o message /\ FlattenSeq(received) \in Data
      BY <1>3, <1>13, <2>1, FlattenAppend, FlattenType DEF Data
    <3> DEFINE p == FlattenSeq(received)
    <3>2. p \in Data /\ message \in Data /\ r \in Data
      BY <1>9, <1>13, <3>1
    <3> HIDE DEF p
    <3>3. (p \o message) \o r = p \o (message \o r)
      BY <3>2, JoinedData
    <3> QED BY <1>5, <1>9, <2>1, <2>3, <3>1, <3>3 DEF r, p
  <2>6. k + 1 < Len(msgs) => 0 < inbound[(k + 1) + 1].size
    <3> SUFFICES ASSUME k + 1 < Len(msgs) PROVE 0 < inbound[(k + 1) + 1].size
      OBVIOUS
    <3>1. (k + 1) + 1 \in 1 .. Len(msgs)
      BY <1>2, <1>3
    <3> QED BY <1>2, <3>1, FramingAssumption DEF SIZE_PLUS_SUBSCRIPTION_ID
  <2>7. << >> \in Data /\ Len(<< >>) = 0 /\ k + 1 <= Len(inbound) /\ inbound' \in Inbound
    BY <1>1, <1>2, <1>3, <1>8, JoinedData DEF Reading
  <2>8. InboundBuffers(inbound') = msgs
    BY <1>1 DEF msgs
  <2>9. Reading'
    BY <1>1, <1>2, <1>3, <1>13, <2>1, <2>2, <2>4, <2>5, <2>6, <2>7, <2>8 DEF Reading
  <2> QED BY <1>14, <2>9
<1>16. CASE ~ hasAllData(message)
  <2>1. received' = received /\ current' = message /\ chunk' = rest /\ Len(message) < size
    BY <1>1, <1>13, <1>16
  <2>2. ToCome' = ToCome /\ UNCHANGED <<inbound, unread>>
    BY SMTT(30), <1>1, <2>1 DEF ToCome
  <2>3. current' \o (chunk' \o unread') = FlattenSeq(ToCome)
    BY <1>1, <1>13, <2>1 DEF Reading
  <2>4. Reading'
    BY <1>13, <2>1, <2>2, <2>3 DEF Reading, size, k
  <2> QED BY <1>14, <2>4
<1> QED BY <1>15, <1>16
-----------------------------------------------------------------------------
(* No other step touches what is read, or begins to parse.                 *)
ReadsNothing ==
  /\ UNCHANGED <<current, chunk, inbound, unread, received, loop>>
  /\ \A l \in Loops : task'[l] = <<"parse">> <=> task[l] = <<"parse">>

LEMMA ReadingNothing ==
  ASSUME IInv, Reading, Parsing, ReadsNothing
  PROVE  Reading' /\ Parsing'
<1>1. ToCome' = ToCome
  BY DEF ReadsNothing, ToCome
<1>2. Reading'
  BY <1>1 DEF Reading, ReadsNothing
<1>3. Parsing'
  BY DEF Parsing, ReadsNothing, IInv, Types
<1> QED BY <1>2, <1>3

(* A handler that goes on is not parsing, before or after.                 *)
LEMMA NotParsing ==
  /\ \A h \in Handlers : h # << >> /\ Head(h) # "parse" => h # <<"parse">> /\ Tail(h) # <<"parse">>
  /\ << >> # <<"parse">> /\ <<"read">> # <<"parse">> /\ <<"acknowledge">> # <<"parse">>
  /\ <<"take", "send", "read">> # <<"parse">> /\ <<"take", "send">> # <<"parse">>
  /\ {"take", "send", "read", "acknowledge"} \cap {"parse"} = {}
<1>1. \A h \in Handlers : h # << >> /\ Head(h) # "parse" => h # <<"parse">> /\ Tail(h) # <<"parse">>
  BY HandlerSteps
<1>2. << >> # <<"parse">> /\ <<"read">> # <<"parse">> /\ <<"acknowledge">> # <<"parse">>
  OBVIOUS
<1>3. <<"take", "send", "read">> # <<"parse">> /\ <<"take", "send">> # <<"parse">>
  BY KindsOfHandlers
<1> QED BY <1>1, <1>2, <1>3

LEMMA ReadsOfCallbacks ==
  ASSUME IInv, Reading, Parsing, CallbackStep
  PROVE  Reading' /\ Parsing'
<1> USE DEF readVars
<1>0. task \in [Loops -> Handlers] /\ loop \in Loops /\ "old" \in Loops /\ "new" \in Loops
  BY DEF IInv, Types, Loops
<1>1. ASSUME NEW l \in Loops, Idle(l), onSocketConnected(l)
      PROVE  \A k \in Loops : task'[k] = <<"parse">> <=> task[k] = <<"parse">>
  BY <1>0, <1>1, NotParsing DEF onSocketConnected, Idle
<1>2. CASE accept
  <2>1. UNCHANGED <<current, chunk, inbound, unread, received, loop>>
    BY <1>2 DEF accept
  <2>2. Idle("old") /\ (onSocketConnected("old") \/ UNCHANGED task)
    BY <1>2 DEF accept
  <2>3. ReadsNothing
    BY <1>0, <1>1, <2>1, <2>2 DEF ReadsNothing
  <2> QED BY <2>3, ReadingNothing
<1>3. CASE onDNSResolution
  BY <1>3, ReadingNothing DEF onDNSResolution, ReadsNothing
<1>4. CASE onConnectCompleted
  <2>1. UNCHANGED <<current, chunk, inbound, unread, received, loop>>
    BY <1>4 DEF onConnectCompleted
  <2>2. Idle("old") /\ (onSocketConnected("old") \/ UNCHANGED task)
    BY <1>4 DEF onConnectCompleted
  <2>3. ReadsNothing
    BY <1>0, <1>1, <2>1, <2>2 DEF ReadsNothing
  <2> QED BY <2>3, ReadingNothing
<1>5. CASE acknowledge
  <2>1. UNCHANGED <<current, chunk, inbound, unread, received, loop>>
    BY <1>5 DEF acknowledge, connVars
  <2>2. task["new"] # << >> /\ Head(task["new"]) = "acknowledge" /\ task' = [task EXCEPT !["new"] = Tail(@)]
    BY <1>5 DEF acknowledge, Runs, Done
  <2>3. ReadsNothing
    BY <1>0, <2>1, <2>2, NotParsing DEF ReadsNothing
  <2> QED BY <2>3, ReadingNothing
<1>6. CASE onWriteCompleted
  BY <1>6, ReadingNothing DEF onWriteCompleted, connVars, ReadsNothing
<1>7. CASE onReadError
  BY <1>7, ReadingNothing DEF onReadError, ReadsNothing
<1>8. CASE moveToLoop_onSocketClosed
  BY <1>8, ReadingNothing DEF moveToLoop_onSocketClosed, ReadsNothing
<1>9. CASE moveToLoop_registerDuplicatedSocket
  <2>1. /\ UNCHANGED <<current, chunk, inbound, unread, received>>
        /\ Idle("new") /\ loop' = "new" /\ (onSocketConnected("new") \/ UNCHANGED task)
    BY <1>9 DEF moveToLoop_registerDuplicatedSocket, SwitchLoop
  <2>2. \A k \in Loops : task'[k] = <<"parse">> <=> task[k] = <<"parse">>
    BY <1>0, <1>1, <2>1
  <2>3. \A k \in Loops : task[k] # <<"parse">>
    <3>1. task["new"] # <<"parse">>
      BY <2>1, NotParsing DEF Idle
    <3>2. loop = "old" => Idle("old")
      BY <1>9 DEF IInv, Handling, moveToLoop_registerDuplicatedSocket
    <3>3. task["old"] # <<"parse">>
      BY <1>0, <3>2, NotParsing DEF Parsing, Idle, Loops
    <3> QED BY <3>1, <3>3 DEF Loops
  <2>4. chunk = << >>
    BY <1>0, <2>3 DEF Parsing
  <2>5. ToCome' = ToCome
    BY <2>1 DEF ToCome
  <2>6. Reading'
    BY <2>1, <2>5 DEF Reading
  <2>7. Parsing'
    BY <2>1, <2>2, <2>3, <2>4 DEF Parsing
  <2> QED BY <2>6, <2>7
<1>10. CASE CloseHandle
  BY <1>10, ReadingNothing DEF CloseHandle, ReadsNothing
<1> QED BY <1>2, <1>3, <1>4, <1>5, <1>6, <1>7, <1>8, <1>9, <1>10, Step_ReadData DEF CallbackStep

LEMMA ReadsOfLoops ==
  ASSUME IInv, Reading, Parsing, NEW l \in Loops, LoopStep(l)
  PROVE  Reading' /\ Parsing'
<1> USE DEF readVars, connVars
<1>0. task \in [Loops -> Handlers] /\ task[l] \in Handlers
  BY DEF IInv, Types
<1>1. ASSUME Head(task[l]) # "parse", task[l] # << >>,
             task' = [task EXCEPT ![l] = Tail(@)] \/ task' = [task EXCEPT ![l] = <<"acknowledge">>]
      PROVE  \A k \in Loops : task'[k] = <<"parse">> <=> task[k] = <<"parse">>
  <2>1. task[l] # <<"parse">> /\ task'[l] # <<"parse">>
    BY <1>0, <1>1, NotParsing
  <2>2. \A k \in Loops : k # l => task'[k] = task[k]
    BY <1>0, <1>1
  <2> QED BY <2>1, <2>2
<1>2. CASE StartReading(l)
  <2>1. UNCHANGED <<current, chunk, inbound, unread, received, loop>>
    BY <1>2 DEF StartReading
  <2>2. Head(task[l]) # "parse" /\ task[l] # << >>
    BY <1>2 DEF StartReading, Runs
  <2>3. task' = [task EXCEPT ![l] = Tail(@)] \/ task' = [task EXCEPT ![l] = <<"acknowledge">>]
    BY <1>2 DEF StartReading, Done
  <2>4. ReadsNothing
    BY <1>1, <2>1, <2>2, <2>3 DEF ReadsNothing
  <2> QED BY <2>4, ReadingNothing
<1>3. CASE processQueuedWrites(l)
  <2>1. UNCHANGED <<current, chunk, inbound, unread, received, loop>>
    BY <1>3 DEF processQueuedWrites
  <2>2. task[l] = << >> /\ (task' = task \/ task' = [task EXCEPT ![l] = <<"take", "send">>])
    BY <1>3 DEF processQueuedWrites, Idle
  <2>3. ReadsNothing
    BY <1>0, <2>1, <2>2, NotParsing DEF ReadsNothing
  <2> QED BY <2>3, ReadingNothing
<1>4. CASE TakeWrites(l)
  <2>1. UNCHANGED <<current, chunk, inbound, unread, received, loop>>
    BY <1>4 DEF TakeWrites
  <2>2. Head(task[l]) # "parse" /\ task[l] # << >> /\ task' = [task EXCEPT ![l] = Tail(@)]
    BY <1>4 DEF TakeWrites, Runs, Done
  <2>3. ReadsNothing
    BY <1>1, <2>1, <2>2 DEF ReadsNothing
  <2> QED BY <2>3, ReadingNothing
<1>5. CASE send(l)
  <2>1. UNCHANGED <<current, chunk, inbound, unread, received, loop>>
    BY <1>5 DEF send
  <2>2. Head(task[l]) # "parse" /\ task[l] # << >>
        /\ (task' = task \/ task' = [task EXCEPT ![l] = Tail(@)])
    BY <1>5 DEF send, Runs, Done
  <2>3. ReadsNothing
    BY <1>1, <2>1, <2>2 DEF ReadsNothing
  <2> QED BY <2>3, ReadingNothing
<1>6. CASE ReadMessage(l)
  BY <1>6, Step_ReadOne
<1>7. CASE EndOfChunk(l)
  <2>1. /\ UNCHANGED <<current, chunk, inbound, unread, received, loop>> /\ chunk = << >>
        /\ task' = [task EXCEPT ![l] = Tail(@)] /\ task[l] # << >> /\ Head(task[l]) = "parse"
    BY <1>7 DEF EndOfChunk, Runs, Done
  <2>2. task'[l] # <<"parse">> /\ \A k \in Loops : k # l => task'[k] = task[k]
    <3>1. Tail(task[l]) # <<"parse">>
      BY <1>0, <2>1, HandlerSteps
    <3> QED BY <1>0, <2>1, <3>1
  <2>3. ToCome' = ToCome
    BY <2>1 DEF ToCome
  <2>4. Reading'
    BY <2>1, <2>3 DEF Reading
  <2>5. Parsing'
    BY <2>1, <2>2 DEF Parsing
  <2> QED BY <2>4, <2>5
<1> QED BY <1>2, <1>3, <1>4, <1>5, <1>6, <1>7 DEF LoopStep

LEMMA ReadsOfOthers ==
  ASSUME IInv, Reading, Parsing,
         \/ UNCHANGED vars
         \/ \E w \in Writers : AddWrite(w) \/ MarshalWrite(w)
         \/ connect \/ Release \/ Destroy \/ Break
  PROVE  Reading' /\ Parsing'
<1>1. ReadsNothing
  BY DEF vars, connVars, readVars, ReadsNothing, AddWrite, MarshalWrite, connect, Release,
         Destroy, Break
<1> QED BY <1>1, ReadingNothing

LEMMA ReadingInductive ==
  ASSUME IInv, Reading, Parsing, [Next]_vars
  PROVE  Reading' /\ Parsing'
BY ReadsOfCallbacks, ReadsOfLoops, ReadsOfOthers DEF Next

LEMMA ReadingHolds == Spec => [](Reading /\ Parsing)
<1>1. Init => Reading /\ Parsing
  BY ReadingInitially
<1>2. IInv /\ (Reading /\ Parsing) /\ [Next]_vars => (Reading /\ Parsing)'
  BY ReadingInductive
<1> QED BY <1>1, <1>2, Invariance, PTL DEF Spec

(***************************************************************************)
(* Whatever messages the other end sends, with whichever of the libraries  *)
(* they were coalesced, and wherever the bytes are cut into reads, also    *)
(* inside a size and while the socket moves: the callbacks get these       *)
(* messages in their order, and no byte is lost or read twice.             *)
(***************************************************************************)
THEOREM ReadAsSentHolds == Spec => []ReadAsSent
<1>1. Reading => ReadAsSent
  <2> SUFFICES ASSUME Reading PROVE ReadAsSent
    OBVIOUS
  <2> DEFINE msgs == InboundBuffers(inbound)
             p == FlattenSeq(received)
  <2>1. msgs \in Seq(Data) /\ Len(msgs) = Len(inbound)
    BY InboundMessages DEF Reading
  <2>2. received \in Seq(Data) /\ Len(received) <= Len(msgs) /\ received = SubSeq(msgs, 1, Len(received))
    BY <2>1 DEF Reading
  <2>3. SubSeq(received, 1, Len(received)) = received
    BY <2>2, SubSeqFull
  <2>4. IsPrefix(received, msgs)
    BY <2>2, <2>3 DEF IsPrefix
  <2>5. current \in Data /\ chunk \in Data /\ unread \in Data /\ p \in Data
    BY <2>2, FlattenType DEF Reading, Data
  <2>6. p \o (current \o (chunk \o unread)) = FlattenSeq(msgs)
    BY DEF Reading
  <2> HIDE DEF p, msgs
  <2>7. p \o current \o chunk \o unread = p \o (current \o (chunk \o unread))
    <3>1. chunk \o unread \in Data /\ p \o current \in Data
      BY <2>5, JoinedData
    <3>2. ((p \o current) \o chunk) \o unread = (p \o current) \o (chunk \o unread)
      BY ZenonT(60), <2>5, <3>1, JoinedData
    <3> DEFINE w == chunk \o unread
    <3> HIDE DEF w
    <3>3. (p \o current) \o w = p \o (current \o w)
      <4>1. w \in Data
        BY <3>1 DEF w
      <4> QED BY SMTT(30), <2>5, <4>1, JoinedData
    <3> QED BY <3>2, <3>3 DEF w
  <2> QED BY <2>4, <2>6, <2>7 DEF ReadAsSent, p, msgs
<1> QED BY <1>1, ReadingHolds, PTL
-----------------------------------------------------------------------------
(* What TypeOK says of the variables that no other invariant is about.     *)
Counted ==
  connects \in 0 .. MaxConnects /\ broken \in BOOLEAN /\ adding \subseteq Writers

(* An accepted socket makes a handle when it has none.  Each call of       *)
(* connect makes one at most.                                              *)
OneHandleEach ==
  /\ leftOpen \in Nat
  /\ kind = "accepted" => leftOpen = 0
  /\ kind = "accepted" /\ stage = "created" => handle = Nowhere \/ task["old"] \in Connecting
  /\ leftOpen + (IF handle = Nowhere THEN 0 ELSE 1)
       + (IF stage = "resolving" THEN 1 ELSE 0) <= connects \/ kind = "accepted"
  /\ leftOpen > 0 => leftOpen < connects

(* The handle that is to be closed stays where it is until it is.          *)
ClosedAtTheEnd ==
  /\ closeEvent \in Loops \cup {Nowhere}
  /\ closeEvent # Nowhere => closeEvent = handle

LEMMA CountedHolds == Spec => []Counted
<1>1. Init => Counted
  <2> SUFFICES ASSUME Init PROVE Counted
    OBVIOUS
  <2>1. connects = 0 /\ broken = FALSE /\ adding = {}
    BY DEF Init
  <2>2. MaxConnects \in Nat
    BY SocketAssumption
  <2>3. 0 \in 0 .. MaxConnects
    BY <2>2
  <2> QED BY <2>1, <2>3 DEF Counted
<1>2. Counted /\ [Next]_vars => Counted'
  <2> SUFFICES ASSUME Counted, [Next]_vars PROVE Counted'
    OBVIOUS
  <2> USE DEF connVars, writeVars
  <2>1. CASE UNCHANGED vars
    BY <2>1 DEF vars, Counted
  <2>2. CASE CallbackStep
    BY <2>2 DEF CallbackStep, accept, onDNSResolution, onConnectCompleted, acknowledge,
                onWriteCompleted, onDataReceived, onReadError, moveToLoop_onSocketClosed,
                moveToLoop_registerDuplicatedSocket, CloseHandle, Counted
  <2>3. CASE \E l \in Loops : LoopStep(l)
    BY <2>3 DEF LoopStep, StartReading, processQueuedWrites, TakeWrites, send, ReadMessage,
                EndOfChunk, Counted
  <2>4. CASE \E w \in Writers : AddWrite(w) \/ MarshalWrite(w)
    BY <2>4 DEF AddWrite, MarshalWrite, Counted
  <2>5. CASE connect
    BY <2>5, SocketAssumption DEF connect, Counted
  <2>6. CASE Release \/ Destroy \/ Break
    BY <2>6 DEF Release, Destroy, Break, Counted
  <2> QED BY <2>1, <2>2, <2>3, <2>4, <2>5, <2>6 DEF Next
<1> QED BY <1>1, <1>2, PTL DEF Spec

LEMMA HandlesInductive ==
  ASSUME IInv, Counted, OneHandleEach, ClosedAtTheEnd, [Next]_vars
  PROVE  OneHandleEach' /\ ClosedAtTheEnd'
<1> USE DEF connVars
<1>0. /\ connects \in Nat /\ kind \in {"accepted", "outgoing"} /\ task \in [Loops -> Handlers]
      /\ loop \in Loops /\ handle \in {loop, Nowhere}
      /\ << >> \notin Connecting /\ <<"parse">> \notin Connecting
      /\ <<"acknowledge">> \notin Connecting
      /\ "old" \in Loops /\ "new" \in Loops /\ Nowhere \notin Loops
  BY SocketAssumption, KindsOfHandlers DEF IInv, Types, Counted, Loops, Nowhere
<1>1. /\ destroyed => ~Alive /\ ~(kind = "accepted" /\ stage = "created")
      /\ closeEvent # Nowhere => destroyed
  BY DEF IInv, Lifetime
<1>2. CASE UNCHANGED vars
  BY <1>2 DEF vars, ownVars, OneHandleEach, ClosedAtTheEnd
<1>3. CASE accept
  <2>1. handle = Nowhere /\ ~destroyed
    BY <1>0, <1>1, <1>3 DEF accept, Idle, OneHandleEach
  <2>2. leftOpen' = leftOpen /\ connects' = connects /\ kind' = kind /\ kind = "accepted"
    BY <1>3, <2>1 DEF accept, createSocket
  <2>3. stage' = "created" => task'["old"] \in Connecting
    BY <1>0, <1>3, KindsOfHandlers DEF accept, onSocketConnected
  <2>4. closeEvent' = closeEvent /\ closeEvent = Nowhere
    BY <1>1, <1>3, <2>1 DEF accept
  <2> QED BY <2>2, <2>3, <2>4 DEF OneHandleEach, ClosedAtTheEnd
<1>4. CASE connect
  <2>1. /\ leftOpen' = leftOpen /\ connects' = connects + 1 /\ kind' = kind /\ kind = "outgoing"
        /\ handle' = handle /\ closeEvent' = closeEvent /\ destroyed' = destroyed
        /\ stage # "resolving"
    BY <1>4 DEF connect, ownVars
  <2> QED BY <1>0, <2>1 DEF OneHandleEach, ClosedAtTheEnd
<1>5. CASE onDNSResolution
  <2>1. kind' = kind /\ kind = "outgoing" /\ connects' = connects /\ stage = "resolving"
    BY <1>0, <1>5 DEF onDNSResolution, IInv, Sides
  <2>2. stage' # "resolving"
    BY <1>5 DEF onDNSResolution, connectIP
  <2>3. closeEvent' = closeEvent /\ closeEvent = Nowhere
    BY <1>1, <1>5 DEF onDNSResolution
  <2>4. \/ leftOpen' = leftOpen /\ handle' = handle
        \/ leftOpen' = (IF handle = Nowhere THEN leftOpen ELSE leftOpen + 1)
    BY <1>5 DEF onDNSResolution, connectIP, createSocket
  <2> QED BY <1>0, <2>1, <2>2, <2>3, <2>4 DEF OneHandleEach, ClosedAtTheEnd
<1>6. CASE onConnectCompleted
  <2>1. /\ leftOpen' = leftOpen /\ connects' = connects /\ kind' = kind /\ kind = "outgoing"
        /\ handle' = handle /\ closeEvent' = closeEvent /\ destroyed' = destroyed
        /\ stage' # "resolving"
    BY <1>0, <1>6 DEF onConnectCompleted, ownVars, IInv, Sides
  <2> QED BY <1>0, <2>1 DEF OneHandleEach, ClosedAtTheEnd
<1>7. CASE acknowledge \/ onWriteCompleted \/ onDataReceived \/ onReadError
  <2>1. /\ leftOpen' = leftOpen /\ connects' = connects /\ kind' = kind /\ stage' = stage
        /\ handle' = handle /\ closeEvent' = closeEvent /\ destroyed' = destroyed
    BY <1>7 DEF acknowledge, onWriteCompleted, onDataReceived, onReadError, ownVars
  <2>2. task["old"] \in Connecting => task'["old"] \in Connecting
    BY <1>0, <1>7, HandlerSteps
       DEF acknowledge, onWriteCompleted, onDataReceived, onReadError, Runs, Done, Idle, Loops,
           IInv, Types, Sides
  <2> QED BY <2>1, <2>2 DEF OneHandleEach, ClosedAtTheEnd
<1>8. CASE moveToLoop_onSocketClosed
  <2>1. /\ leftOpen' = leftOpen /\ connects' = connects /\ kind' = kind /\ kind = "accepted"
        /\ stage' = "registering" /\ closeEvent' = closeEvent /\ destroyed' = destroyed
    BY <1>8 DEF moveToLoop_onSocketClosed, ownVars, IInv, Sides
  <2>2. closeEvent = Nowhere
    BY <1>1, <1>8 DEF moveToLoop_onSocketClosed, Alive
  <2> QED BY <2>1, <2>2 DEF OneHandleEach, ClosedAtTheEnd
<1>9. CASE moveToLoop_registerDuplicatedSocket
  <2>1. handle = Nowhere
    BY <1>9 DEF moveToLoop_registerDuplicatedSocket, IInv, Handling
  <2>2. /\ leftOpen' = leftOpen /\ connects' = connects /\ kind' = kind /\ kind = "accepted"
        /\ stage' # "created" /\ closeEvent' = closeEvent
    BY <1>9, <2>1 DEF moveToLoop_registerDuplicatedSocket, createSocket, IInv, Sides
  <2>3. closeEvent = Nowhere
    BY <1>1, <1>9 DEF moveToLoop_registerDuplicatedSocket
  <2> QED BY <2>2, <2>3 DEF OneHandleEach, ClosedAtTheEnd
<1>10. CASE CloseHandle
  <2>1. /\ leftOpen' = leftOpen /\ connects' = connects /\ kind' = kind /\ stage' = stage
        /\ handle' = Nowhere /\ closeEvent' = Nowhere
    BY <1>10 DEF CloseHandle
  <2> QED BY <1>0, <2>1 DEF OneHandleEach, ClosedAtTheEnd
<1>11. CASE \E l \in Loops : StartReading(l)
  <2>1. PICK l \in Loops : StartReading(l)
    BY <1>11
  <2>2. /\ leftOpen' = leftOpen /\ connects' = connects /\ kind' = kind
        /\ stage' \notin {"created", "resolving"}
        /\ handle' = handle /\ closeEvent' = closeEvent /\ destroyed' = destroyed
    BY <2>1 DEF StartReading, ownVars
  <2> QED BY <1>0, <2>2 DEF OneHandleEach, ClosedAtTheEnd
<1>12. CASE \E l \in Loops : ReadMessage(l)
  <2>1. PICK l \in Loops : ReadMessage(l)
    BY <1>12
  <2>2. /\ leftOpen' = leftOpen /\ connects' = connects /\ kind' = kind /\ task' = task
        /\ handle' = handle /\ closeEvent' = closeEvent /\ destroyed' = destroyed
    BY <2>1 DEF ReadMessage
  <2>3. stage' = stage \/ stage' \in {"closing", "unmoved"}
    BY <2>1 DEF ReadMessage, Dispatched, onConnect, moveToLoop, onDisconnect, Ignored
  <2> QED BY <1>0, <2>2, <2>3 DEF OneHandleEach, ClosedAtTheEnd
<1>13. CASE \E l \in Loops : processQueuedWrites(l) \/ TakeWrites(l) \/ send(l) \/ EndOfChunk(l)
  <2>1. PICK l \in Loops : processQueuedWrites(l) \/ TakeWrites(l) \/ send(l) \/ EndOfChunk(l)
    BY <1>13
  <2>2. /\ leftOpen' = leftOpen /\ connects' = connects /\ kind' = kind /\ stage' = stage
        /\ handle' = handle /\ closeEvent' = closeEvent /\ destroyed' = destroyed
    BY <2>1 DEF processQueuedWrites, TakeWrites, send, EndOfChunk, ownVars
  <2>3. task["old"] \in Connecting => task'["old"] \in Connecting
    BY <1>0, <2>1, HandlerSteps
       DEF processQueuedWrites, TakeWrites, send, EndOfChunk, Runs, Done, Idle
  <2> QED BY <2>2, <2>3 DEF OneHandleEach, ClosedAtTheEnd
<1>14. CASE Destroy
  <2>1. /\ leftOpen' = leftOpen /\ connects' = connects /\ kind' = kind /\ stage' = stage
        /\ handle' = handle /\ task' = task /\ destroyed' = TRUE
        /\ closeEvent' = (IF handle = Nowhere THEN Nowhere ELSE loop)
    BY <1>14 DEF Destroy
  <2>2. OneHandleEach'
    BY <2>1 DEF OneHandleEach
  <2>3. ClosedAtTheEnd'
    BY <1>0, <2>1 DEF ClosedAtTheEnd
  <2> QED BY <2>2, <2>3
<1>15. CASE Release \/ Break \/ \E w \in Writers : AddWrite(w) \/ MarshalWrite(w)
  <2>1. /\ leftOpen' = leftOpen /\ connects' = connects /\ kind' = kind /\ stage' = stage
        /\ handle' = handle /\ closeEvent' = closeEvent /\ destroyed' = destroyed
        /\ task' = task
    BY <1>15 DEF Release, Break, AddWrite, MarshalWrite, ownVars
  <2> QED BY <2>1 DEF OneHandleEach, ClosedAtTheEnd
<1> QED
  BY <1>2, <1>3, <1>4, <1>5, <1>6, <1>7, <1>8, <1>9, <1>10, <1>11, <1>12, <1>13, <1>14, <1>15
     DEF Next, CallbackStep, LoopStep

LEMMA HandlesHold == Spec => [](OneHandleEach /\ ClosedAtTheEnd)
<1>1. Init => OneHandleEach /\ ClosedAtTheEnd
  BY DEF Init, OneHandleEach, ClosedAtTheEnd
<1>2. IInv /\ Counted /\ OneHandleEach /\ ClosedAtTheEnd /\ [Next]_vars
        => (OneHandleEach /\ ClosedAtTheEnd)'
  BY HandlesInductive
<1> QED BY <1>1, <1>2, Invariance, CountedHolds, PTL DEF Spec

(***************************************************************************)
(* The destructor has the handle closed on the loop it belongs to, however *)
(* the socket came to it, and only connects that failed leave handles open.*)
(***************************************************************************)
THEOREM OpenHandlesHolds == Spec => []OpenHandles
<1>1. IInv /\ OneHandleEach /\ ClosedAtTheEnd => OpenHandles
  BY DEF IInv, Types, OneHandleEach, ClosedAtTheEnd, OpenHandles
<1> QED BY <1>1, Invariance, HandlesHold, PTL

(***************************************************************************)
(* Every variable has its type in every reachable state.                   *)
(***************************************************************************)
THEOREM TypeCorrect == Spec => []TypeOK
<1>1. IInv /\ Buffered /\ Reading /\ Counted /\ OneHandleEach /\ ClosedAtTheEnd => TypeOK
  <2> SUFFICES ASSUME IInv, Buffered, Reading, Counted, OneHandleEach, ClosedAtTheEnd
               PROVE  TypeOK
    OBVIOUS
  <2>1. Data = Messages
    BY DEF Data, Messages
  <2>2. queue \in Seq([data : Messages, override : Nat])
    <3> DEFINE T == [data : Messages, override : Nat]
    <3>1. WriteBuffers \subseteq T
      BY <2>1 DEF WriteBuffers
    <3>2. queue \in Seq(WriteBuffers)
      BY DEF Buffered
    <3> HIDE DEF T
    <3>3. queue \in Seq(T)
      BY <3>1, <3>2
    <3> QED BY <3>3 DEF T
  <2>3. asked \in Seq([size : Nat, override : Nat])
    <3> DEFINE T == [size : Nat, override : Nat]
               U == [size : Sizes, override : Nat]
    <3>1. U \subseteq T
      BY DEF Sizes
    <3>2. asked \in Seq(U)
      BY DEF Buffered
    <3> HIDE DEF T, U
    <3>3. asked \in Seq(T)
      BY <3>1, <3>2
    <3> QED BY <3>3 DEF T
  <2>4. task \in [Loops -> Seq({"take", "send", "read", "parse", "acknowledge"})]
    <3> DEFINE T == {"take", "send", "read", "parse", "acknowledge"}
    <3>1. "take" \in T /\ "send" \in T /\ "read" \in T /\ "parse" \in T /\ "acknowledge" \in T
      OBVIOUS
    <3> HIDE DEF T
    <3>2. Handlers \subseteq Seq(T)
      BY <3>1 DEF Handlers, Connecting
    <3> QED BY <3>2 DEF IInv, Types, T
  <2>5. /\ requests \in [Loops -> Seq(Messages)]
        /\ {current, chunk, unread, wire} \subseteq Messages
        /\ inbound \in Inbound /\ received \in Seq(Messages)
    BY <2>1 DEF Buffered, Reading
  <2>6. {reading, connected, destroyed, broken, wroteEarly, saidGoodbye} \subseteq BOOLEAN
    BY DEF IInv, Types, Counted
  <2>7. loop \in Loops /\ {handle, closeEvent} \subseteq Loops \cup {Nowhere}
    BY DEF IInv, Types, ClosedAtTheEnd
  <2>8. leftOpen \in 0 .. MaxConnects
    BY SocketAssumption DEF OneHandleEach, Counted
  <2> QED BY <2>2, <2>3, <2>4, <2>5, <2>6, <2>7, <2>8 DEF TypeOK, IInv, Types, Counted
<1> QED BY <1>1, Invariance, SendingHolds, ReadingHolds, CountedHolds, HandlesHold, PTL
=============================================================================
