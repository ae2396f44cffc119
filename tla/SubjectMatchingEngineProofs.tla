-------------------- MODULE SubjectMatchingEngineProofs ---------------------
(***************************************************************************)
(* The interest graph of a service, for any sockets, subjects and topics.  *)
(***************************************************************************)
EXTENDS SubjectMatchingEngine, TLAPS, FiniteSetTheorems, FunctionTheorems,
        SequenceTheorems, WellFoundedInduction

(* The tokens of subjects, with the wildcards named.                       *)
Tokens == STRING \cup {WILDCARD_STAR, WILDCARD_GREATER_THAN}

Infos == [id : SubscriptionIDs, socket : Sockets]

(* A node is reached from the root: no step of its path is missing.        *)
PrefixesExist == \A n \in nodes : PathTo(n) \subseteq nodes

(* The SubscriptionInfos map of a node is keyed by socket.                 *)
OneInfoPerSocket ==
  \A n \in nodes : \A i, j \in infos[n] : i.socket = j.socket => i = j

IInv ==
  /\ nodes \subseteq Seq(Tokens)
  /\ Root \in nodes
  /\ PrefixesExist
  /\ infos \in [nodes -> SUBSET Infos]
  /\ OneInfoPerSocket
  /\ returned \in 0 .. Cardinality(Sockets)
-----------------------------------------------------------------------------
(* Subjects and topics are sequences of tokens.                            *)
LEMMA SubjectsAreSequences ==
  SubjectNames \subseteq Seq(Tokens) /\ Topics \subseteq Seq(Tokens)
<1>1. \A s \in Seq(STRING) : s \in Seq(Tokens)
  BY SeqMonotonic DEF Tokens
<1>2. QED
  BY <1>1, EngineAssumption

(* A prefix of a subject: its length and its tokens.                       *)
LEMMA PrefixProperties ==
  ASSUME NEW S, NEW s \in Seq(S), NEW k \in 0 .. Len(s)
  PROVE  /\ SubSeq(s, 1, k) \in Seq(S)
         /\ Len(SubSeq(s, 1, k)) = k
         /\ \A i \in 1 .. k : SubSeq(s, 1, k)[i] = s[i]
<1>1. Len(s) \in Nat
  BY LenProperties
<1>2. \A i \in 1 .. k : s[i] \in S
  BY <1>1, ElementOfSeq
<1>3. QED
  BY <1>1, <1>2, SubSeqProperties

(* A prefix of a prefix is a prefix.                                       *)
LEMMA PrefixOfPrefix ==
  ASSUME NEW S, NEW s \in Seq(S), NEW k \in 0 .. Len(s), NEW j \in 0 .. k
  PROVE  SubSeq(SubSeq(s, 1, k), 1, j) = SubSeq(s, 1, j)
<1> DEFINE p == SubSeq(s, 1, k)
<1>1. Len(s) \in Nat /\ j \in 0 .. Len(s)
  BY LenProperties
<1>2. p \in Seq(S) /\ Len(p) = k /\ \A i \in 1 .. k : p[i] = s[i]
  BY PrefixProperties
<1>3. /\ SubSeq(p, 1, j) \in Seq(S)
      /\ Len(SubSeq(p, 1, j)) = j
      /\ \A i \in 1 .. j : SubSeq(p, 1, j)[i] = p[i]
  BY <1>2, PrefixProperties
<1>4. /\ SubSeq(s, 1, j) \in Seq(S)
      /\ Len(SubSeq(s, 1, j)) = j
      /\ \A i \in 1 .. j : SubSeq(s, 1, j)[i] = s[i]
  BY <1>1, PrefixProperties
<1>5. \A i \in 1 .. j : SubSeq(p, 1, j)[i] = SubSeq(s, 1, j)[i]
  BY <1>1, <1>2, <1>3, <1>4
<1> HIDE DEF p
<1>6. SubSeq(p, 1, j) = SubSeq(s, 1, j)
  BY <1>3, <1>4, <1>5, SeqEqual
<1>7. QED
  BY <1>6 DEF p

(* The child of a node for a token, and the node from the child.           *)
LEMMA ChildProperties ==
  ASSUME NEW n \in Seq(Tokens), NEW token \in Tokens
  PROVE  LET child == Append(n, token)
         IN  /\ child \in Seq(Tokens)
             /\ Len(child) = Len(n) + 1
             /\ child[Len(n) + 1] = token
             /\ SubSeq(child, 1, Len(n)) = n
<1> DEFINE child == Append(n, token)
<1> HIDE DEF child
<1>1. Len(n) \in Nat
  BY LenProperties
<1>2. /\ child \in Seq(Tokens)
      /\ Len(child) = Len(n) + 1
      /\ \A i \in 1 .. Len(n) : child[i] = n[i]
      /\ child[Len(n) + 1] = token
  <2>1. child \in Seq(Tokens)
    BY AppendProperties DEF child
  <2>2. Len(child) = Len(n) + 1
    BY AppendProperties DEF child
  <2>3. \A i \in 1 .. Len(n) : child[i] = n[i]
    BY AppendProperties DEF child
  <2>4. child[Len(n) + 1] = token
    BY AppendProperties DEF child
  <2>5. QED
    BY <2>1, <2>2, <2>3, <2>4
<1>3. /\ SubSeq(child, 1, Len(n)) \in Seq(Tokens)
      /\ Len(SubSeq(child, 1, Len(n))) = Len(n)
      /\ \A i \in 1 .. Len(n) : SubSeq(child, 1, Len(n))[i] = child[i]
  BY <1>1, <1>2, PrefixProperties
<1>4. SubSeq(child, 1, Len(n)) = n
  BY <1>2, <1>3, SeqEqual
<1>5. QED
  BY <1>2, <1>4 DEF child

(* A path that goes on below a node goes on to a child of it.              *)
LEMMA PathThroughChild ==
  ASSUME NEW m \in Seq(Tokens), NEW n, NEW k \in Nat,
         k < Len(m), SubSeq(m, 1, k) = n
  PROVE  /\ n \in Seq(Tokens)
         /\ Len(n) = k
         /\ m[k + 1] \in Tokens
         /\ SubSeq(m, 1, k + 1) = Append(n, m[k + 1])
<1>1. Len(m) \in Nat /\ k \in 0 .. Len(m) /\ k + 1 \in 1 .. Len(m)
  BY LenProperties
<1>2. n \in Seq(Tokens) /\ Len(n) = k /\ \A i \in 1 .. k : n[i] = m[i]
  BY <1>1, PrefixProperties
<1>3. m[k + 1] \in Tokens
  BY <1>1, ElementOfSeq
<1> DEFINE c == SubSeq(m, 1, k + 1)
           a == Append(n, m[k + 1])
<1>4. c \in Seq(Tokens) /\ Len(c) = k + 1 /\ \A i \in 1 .. k + 1 : c[i] = m[i]
  BY <1>1, PrefixProperties
<1>5. /\ a \in Seq(Tokens)
      /\ Len(a) = k + 1
      /\ \A i \in 1 .. k : a[i] = n[i]
      /\ a[k + 1] = m[k + 1]
  BY <1>2, <1>3, AppendProperties
<1> HIDE DEF c, a
<1>6. \A i \in 1 .. k + 1 : c[i] = a[i]
  BY <1>2, <1>4, <1>5
<1>7. c = a
  BY <1>4, <1>5, <1>6, SeqEqual
<1>8. QED
  BY <1>2, <1>3, <1>7 DEF c, a
-----------------------------------------------------------------------------
(* The paths getOrCreateNode creates hold the subject, the root and all    *)
(* of their own prefixes.                                                  *)
LEMMA PathToIsClosed ==
  ASSUME NEW s \in Seq(Tokens)
  PROVE  /\ PathTo(s) \subseteq Seq(Tokens)
         /\ s \in PathTo(s)
         /\ Root \in PathTo(s)
         /\ \A n \in PathTo(s) : PathTo(n) \subseteq PathTo(s)
<1>1. Len(s) \in Nat
  BY LenProperties
<1>2. PathTo(s) \subseteq Seq(Tokens)
  BY PrefixProperties DEF PathTo
<1>3. s \in PathTo(s)
  BY <1>1, SubSeqFull DEF PathTo
<1>4. SubSeq(s, 1, 0) = Root
  BY SubSeqEmpty DEF Root
<1>5. Root \in PathTo(s)
  BY <1>1, <1>4 DEF PathTo
<1>6. ASSUME NEW k \in 0 .. Len(s), NEW n, n = SubSeq(s, 1, k),
             NEW j \in 0 .. Len(n)
      PROVE  SubSeq(n, 1, j) \in PathTo(s)
  <2>1. Len(n) = k
    BY <1>6, PrefixProperties
  <2>2. SubSeq(n, 1, j) = SubSeq(s, 1, j)
    BY <1>6, <2>1, PrefixOfPrefix
  <2>3. j \in 0 .. Len(s)
    BY <1>1, <2>1
  <2>4. QED
    BY <2>2, <2>3 DEF PathTo
<1>7. \A n \in PathTo(s) : PathTo(n) \subseteq PathTo(s)
  BY <1>6 DEF PathTo
<1>8. QED
  BY <1>2, <1>3, <1>5, <1>7

(* A map keyed by socket has no more entries than there are     *)
(* sockets.                                                                *)
LEMMA InfosAreBounded ==
  ASSUME NEW held \in SUBSET Infos,
         \A i, j \in held : i.socket = j.socket => i = j
  PROVE  /\ IsFiniteSet(held)
         /\ Cardinality(held) \in 0 .. Cardinality(Sockets)
<1> DEFINE f == [i \in held |-> i.socket]
<1>1. f \in [held -> Sockets]
  BY DEF Infos
<1>2. \A a, b \in held : f[a] = f[b] => a = b
  OBVIOUS
<1> HIDE DEF f
<1>3. f \in Injection(held, Sockets)
  BY <1>1, <1>2, Fun_IsInj
<1>4. IsFiniteSet(Sockets)
  BY EngineAssumption
<1>5. IsFiniteSet(held) /\ Cardinality(held) <= Cardinality(Sockets)
  BY <1>3, <1>4, FS_Injection
<1>6. Cardinality(held) \in Nat /\ Cardinality(Sockets) \in Nat
  BY <1>4, <1>5, FS_CardinalityType
<1>7. QED
  BY <1>5, <1>6
-----------------------------------------------------------------------------
(* What addSubscription and removeSubscription have in common: they create *)
(* the node of a subject and leave held as its SubscriptionInfos.          *)
LEMMA GraphAfterChange ==
  ASSUME IInv, NEW s \in Seq(Tokens), NEW held \in SUBSET Infos,
         \A i, j \in held : i.socket = j.socket => i = j,
         CreateNodes(s), SetInfosAt(s, held)
  PROVE  /\ nodes' \subseteq Seq(Tokens)
         /\ nodes \subseteq nodes'
         /\ s \in nodes'
         /\ Root \in nodes'
         /\ PrefixesExist'
         /\ infos' \in [nodes' -> SUBSET Infos]
         /\ infos' = [n \in nodes' |-> IF n = s THEN held ELSE InfosAt(n)]
         /\ infos'[s] = held
         /\ OneInfoPerSocket'
<1>1. nodes' = nodes \cup PathTo(s)
  BY DEF CreateNodes
<1>2. infos' = [n \in nodes' |-> IF n = s THEN held ELSE InfosAt(n)]
  BY DEF SetInfosAt
<1>3. /\ PathTo(s) \subseteq Seq(Tokens)
      /\ s \in PathTo(s)
      /\ \A n \in PathTo(s) : PathTo(n) \subseteq PathTo(s)
  BY PathToIsClosed
<1>4. \A n : InfosAt(n) \in SUBSET Infos
  BY DEF IInv, InfosAt
<1>5. PrefixesExist'
  BY <1>1, <1>3 DEF IInv, PrefixesExist
<1>6. infos' \in [nodes' -> SUBSET Infos]
  BY <1>2, <1>4
<1>7. ASSUME NEW n \in nodes', NEW i \in infos'[n], NEW j \in infos'[n],
             i.socket = j.socket
      PROVE  i = j
  <2>1. CASE n = s
    BY <1>2, <1>7, <2>1
  <2>2. CASE n # s
    <3>1. i \in InfosAt(n) /\ j \in InfosAt(n)
      BY <1>2, <2>2
    <3>2. n \in nodes /\ i \in infos[n] /\ j \in infos[n]
      BY <3>1 DEF InfosAt
    <3>3. QED
      BY <1>7, <3>2 DEF IInv, OneInfoPerSocket
  <2>3. QED
    BY <2>1, <2>2
<1>8. OneInfoPerSocket'
  BY <1>7 DEF OneInfoPerSocket
<1>9. QED
  BY <1>1, <1>2, <1>3, <1>5, <1>6, <1>8 DEF IInv

(* What addSubscription leaves at the node is keyed by socket again.       *)
LEMMA HeldAfterInsert ==
  ASSUME IInv, NEW s, NEW id \in SubscriptionIDs, NEW socket \in Sockets
  PROVE  LET held == InsertInfo(InfosAt(s), Info(id, socket))
         IN  /\ held \in SUBSET Infos
             /\ \A i, j \in held : i.socket = j.socket => i = j
<1>1. InfosAt(s) \in SUBSET Infos
  BY DEF IInv, InfosAt
<1>2. \A i, j \in InfosAt(s) : i.socket = j.socket => i = j
  BY DEF IInv, OneInfoPerSocket, InfosAt
<1>3. Info(id, socket) \in Infos /\ Info(id, socket).socket = socket
  BY DEF Info, Infos
<1>4. QED
  BY <1>1, <1>2, <1>3 DEF InsertInfo

(* The invariant holds initially.                                          *)
LEMMA InitIsSafe == Init => IInv
<1> SUFFICES ASSUME Init PROVE IInv
  OBVIOUS
<1>1. nodes \subseteq Seq(Tokens) /\ Root \in nodes
  BY EmptySeq DEF Init, Root
<1>2. PathTo(Root) \subseteq {Root}
  BY EmptySeq, SubSeqEmpty DEF PathTo, Root
<1>3. PrefixesExist
  BY <1>2 DEF Init, PrefixesExist
<1>4. infos \in [nodes -> SUBSET Infos] /\ OneInfoPerSocket
  BY DEF Init, OneInfoPerSocket
<1>5. returned \in 0 .. Cardinality(Sockets)
  BY EngineAssumption, FS_CardinalityType DEF Init
<1>6. QED
  BY <1>1, <1>3, <1>4, <1>5 DEF IInv

(* Each change of the graph keeps the invariant.                           *)
LEMMA StepIsSafe == IInv /\ [Next]_vars => IInv'
<1> SUFFICES ASSUME IInv, [Next]_vars PROVE IInv'
  OBVIOUS
<1>1. ASSUME NEW s \in SubjectNames, NEW id \in SubscriptionIDs,
             NEW socket \in Sockets, addSubscription(s, id, socket)
      PROVE  IInv'
  <2> DEFINE held == InsertInfo(InfosAt(s), Info(id, socket))
  <2>1. /\ held \in SUBSET Infos
        /\ \A i, j \in held : i.socket = j.socket => i = j
    BY HeldAfterInsert
  <2>2. CreateNodes(s) /\ SetInfosAt(s, held) /\ s \in Seq(Tokens)
    BY <1>1, SubjectsAreSequences DEF addSubscription
  <2>3. returned' = Cardinality(infos'[s])
    BY <1>1 DEF addSubscription
  <2> HIDE DEF held
  <2>4. QED
    BY <2>1, <2>2, <2>3, GraphAfterChange, InfosAreBounded DEF IInv
<1>2. ASSUME NEW s \in SubjectNames, NEW socket \in Sockets,
             removeSubscription(s, socket)
      PROVE  IInv'
  <2> DEFINE held == {i \in InfosAt(s) : i.socket # socket}
  <2>1. /\ held \in SUBSET Infos
        /\ \A i, j \in held : i.socket = j.socket => i = j
    BY DEF IInv, OneInfoPerSocket, InfosAt
  <2>2. CreateNodes(s) /\ SetInfosAt(s, held) /\ s \in Seq(Tokens)
    BY <1>2, SubjectsAreSequences DEF removeSubscription
  <2>3. returned' = Cardinality(infos'[s])
    BY <1>2 DEF removeSubscription
  <2> HIDE DEF held
  <2>4. QED
    BY <2>1, <2>2, <2>3, GraphAfterChange, InfosAreBounded DEF IInv
<1>3. ASSUME NEW socket \in Sockets, removeAllSubscriptions(socket)
      PROVE  IInv'
  <2>1. nodes' = nodes /\ returned' = returned
    BY <1>3 DEF removeAllSubscriptions
  <2>2. infos' = [n \in nodes |-> IF Reached(n)
                                  THEN {i \in infos[n] : i.socket # socket}
                                  ELSE infos[n]]
    BY <1>3 DEF removeAllSubscriptions
  <2>3. infos' \in [nodes' -> SUBSET Infos] /\ OneInfoPerSocket'
    BY <2>1, <2>2 DEF IInv, OneInfoPerSocket
  <2>4. PrefixesExist'
    BY <2>1 DEF IInv, PrefixesExist
  <2>5. QED
    BY <2>1, <2>3, <2>4 DEF IInv
<1>4. CASE UNCHANGED vars
  BY <1>4 DEF vars, IInv, PrefixesExist, OneInfoPerSocket
<1>5. QED
  BY <1>1, <1>2, <1>3, <1>4 DEF Next

(* In every reachable graph the invariant holds.                           *)
THEOREM Safety == Spec => []IInv
  BY InitIsSafe, StepIsSafe, PTL DEF Spec

(* The nodes form one tree under the root, and each SubscriptionInfos map  *)
(* has at most one entry for a socket, whatever IDs clients have used.     *)
THEOREM TypeCorrect == Spec => []TypeOK
<1>1. IInv => TypeOK
  <2> SUFFICES ASSUME IInv PROVE TypeOK
    OBVIOUS
  <2>1. ASSUME NEW n \in nodes, n # Root
        PROVE  Front(n) \in nodes
    <3>1. n \in Seq(Tokens)
      BY DEF IInv
    <3>2. Len(n) - 1 \in 0 .. Len(n)
      BY <2>1, <3>1, EmptySeq DEF Root
    <3>3. QED
      BY <3>2 DEF IInv, PrefixesExist, PathTo, Front
  <2>2. QED
    BY <2>1 DEF IInv, OneInfoPerSocket, Infos, TypeOK
<1>2. QED
  BY <1>1, Safety, PTL
-----------------------------------------------------------------------------
(* The table read off the infos that one subject holds.                    *)
Entries(s, held) == {Entry(s, i.id, i.socket) : i \in held}

(* The number of entries of a subject is the number of infos of its node.  *)
LEMMA EntriesAreCounted ==
  ASSUME NEW s, NEW held \in SUBSET Infos, IsFiniteSet(held)
  PROVE  Cardinality(Entries(s, held)) = Cardinality(held)
<1> DEFINE f == [i \in held |-> Entry(s, i.id, i.socket)]
<1>1. f \in [held -> Entries(s, held)]
  BY DEF Entries
<1>2. ASSUME NEW a \in held, NEW b \in held, f[a] = f[b]
      PROVE  a = b
  <2>1. Entry(s, a.id, a.socket) = Entry(s, b.id, b.socket)
    BY <1>2
  <2>2. a.id = b.id /\ a.socket = b.socket
    BY <2>1 DEF Entry
  <2>3. QED
    BY <2>2 DEF Infos
<1>3. \A e \in Entries(s, held) : \E i \in held : f[i] = e
  BY DEF Entries
<1> HIDE DEF f
<1>4. f \in Bijection(held, Entries(s, held))
  BY <1>1, <1>2, <1>3, Fun_IsBij
<1>5. QED
  BY <1>4, FS_Bijection DEF ExistsBijection

(* The table after the SubscriptionInfos of one subject have changed.      *)
LEMMA TableAfterChange ==
  ASSUME IInv, NEW s \in Seq(Tokens), NEW held \in SUBSET Infos,
         \A i, j \in held : i.socket = j.socket => i = j,
         CreateNodes(s), SetInfosAt(s, held)
  PROVE  /\ Interest' = {e \in Interest : e.subject # s} \cup Entries(s, held)
         /\ SubscriptionCount(Interest', s) = Cardinality(infos'[s])
<1>1. /\ nodes \subseteq nodes'
      /\ s \in nodes'
      /\ infos' = [n \in nodes' |-> IF n = s THEN held ELSE InfosAt(n)]
      /\ infos'[s] = held
  BY GraphAfterChange
<1>2. Interest' = UNION {Entries(n, infos'[n]) : n \in nodes'}
  BY DEF Interest, Entries
<1>3. \A n : Entries(n, InfosAt(n)) \subseteq Interest
  BY DEF Entries, InfosAt, Interest
<1>4. \A n, h : \A e \in Entries(n, h) : e.subject = n
  BY DEF Entries, Entry
<1>5. \A e \in Interest : e \in Entries(e.subject, InfosAt(e.subject))
                          /\ e.subject \in nodes
  BY DEF Entries, Entry, InfosAt, Interest
<1>6. Interest' \subseteq {e \in Interest : e.subject # s} \cup Entries(s, held)
  <2> SUFFICES ASSUME NEW e \in Interest', e \notin Entries(s, held)
               PROVE  e \in Interest /\ e.subject # s
    OBVIOUS
  <2>1. PICK n \in nodes' : e \in Entries(n, infos'[n])
    BY <1>2
  <2>2. n # s
    BY <1>1, <2>1
  <2>3. e \in Entries(n, InfosAt(n))
    BY <1>1, <2>1, <2>2
  <2>4. QED
    BY <1>3, <1>4, <2>2, <2>3
<1>7. {e \in Interest : e.subject # s} \cup Entries(s, held) \subseteq Interest'
  <2>1. Entries(s, held) \subseteq Interest'
    BY <1>1, <1>2
  <2>2. ASSUME NEW e \in Interest, e.subject # s
        PROVE  e \in Interest'
    <3>1. e.subject \in nodes' /\ e \in Entries(e.subject, InfosAt(e.subject))
      BY <1>1, <1>5
    <3>2. infos'[e.subject] = InfosAt(e.subject)
      BY <1>1, <2>2, <3>1
    <3>3. QED
      BY <1>2, <3>1, <3>2
  <2>3. QED
    BY <2>1, <2>2
<1>8. Interest' = {e \in Interest : e.subject # s} \cup Entries(s, held)
  BY <1>6, <1>7
<1>9. {e \in Interest' : e.subject = s} = Entries(s, held)
  BY <1>4, <1>8
<1>10. Cardinality(Entries(s, held)) = Cardinality(held)
  BY InfosAreBounded, EntriesAreCounted
<1>11. QED
  BY <1>1, <1>8, <1>9, <1>10 DEF SubscriptionCount

(* An add: insert() keeps the entry that the socket already has.           *)
LEMMA AddIsTableAdd ==
  ASSUME IInv, NEW s \in SubjectNames, NEW id \in SubscriptionIDs,
         NEW socket \in Sockets, addSubscription(s, id, socket)
  PROVE  /\ Interest' = AddSubscription(Interest, s, id, socket)
         /\ returned' = SubscriptionCount(Interest', s)
<1> DEFINE held == InsertInfo(InfosAt(s), Info(id, socket))
<1>1. held \in SUBSET Infos /\ \A i, j \in held : i.socket = j.socket => i = j
  BY HeldAfterInsert
<1>2. CreateNodes(s) /\ SetInfosAt(s, held) /\ s \in Seq(Tokens)
      /\ returned' = Cardinality(infos'[s])
  BY SubjectsAreSequences DEF addSubscription
<1>3. /\ Interest' = {e \in Interest : e.subject # s} \cup Entries(s, held)
      /\ SubscriptionCount(Interest', s) = Cardinality(infos'[s])
  <2> HIDE DEF held
  <2> QED BY <1>1, <1>2, TableAfterChange
<1>4. {e \in Interest : e.subject = s} = Entries(s, InfosAt(s))
  BY DEF Interest, Entries, Entry, InfosAt
<1>5. \A i \in InfosAt(s) : i \in Infos
  BY DEF IInv, InfosAt
<1>6. EntriesOf(Interest, s, socket) # {}
        <=> \E i \in InfosAt(s) : i.socket = socket
  <2>1. EntriesOf(Interest, s, socket)
          = {e \in Entries(s, InfosAt(s)) : e.socket = socket}
    BY <1>4 DEF EntriesOf
  <2>2. \A i \in InfosAt(s) : Entry(s, i.id, i.socket).socket = i.socket
    BY DEF Entry
  <2>3. QED
    BY <2>1, <2>2 DEF Entries
<1>7. CASE \E i \in InfosAt(s) : i.socket = socket
  <2>1. held = InfosAt(s)
    BY <1>7 DEF InsertInfo, Info
  <2>2. Interest' = Interest
    BY <1>3, <1>4, <2>1
  <2>3. QED
    BY <1>2, <1>3, <1>6, <1>7, <2>2 DEF AddSubscription
<1>8. CASE ~ \E i \in InfosAt(s) : i.socket = socket
  <2>1. held = InfosAt(s) \cup {Info(id, socket)}
    BY <1>8 DEF InsertInfo, Info
  <2>2. Entries(s, held) = Entries(s, InfosAt(s)) \cup {Entry(s, id, socket)}
    BY <2>1 DEF Entries, Info
  <2>3. Interest' = Interest \cup {Entry(s, id, socket)}
    BY <1>3, <1>4, <2>2
  <2>4. QED
    BY <1>2, <1>3, <1>6, <1>8, <2>3 DEF AddSubscription
<1>9. QED
  BY <1>7, <1>8

(* A remove takes the socket's entry for the subject and no other.         *)
LEMMA RemoveIsTableRemove ==
  ASSUME IInv, NEW s \in SubjectNames, NEW socket \in Sockets,
         removeSubscription(s, socket)
  PROVE  /\ Interest' = RemoveSubscription(Interest, s, socket)
         /\ returned' = SubscriptionCount(Interest', s)
<1> DEFINE held == {i \in InfosAt(s) : i.socket # socket}
<1>1. held \in SUBSET Infos /\ \A i, j \in held : i.socket = j.socket => i = j
  BY DEF IInv, OneInfoPerSocket, InfosAt
<1>2. CreateNodes(s) /\ SetInfosAt(s, held) /\ s \in Seq(Tokens)
      /\ returned' = Cardinality(infos'[s])
  BY SubjectsAreSequences DEF removeSubscription
<1>3. /\ Interest' = {e \in Interest : e.subject # s} \cup Entries(s, held)
      /\ SubscriptionCount(Interest', s) = Cardinality(infos'[s])
  <2> HIDE DEF held
  <2> QED BY <1>1, <1>2, TableAfterChange
<1>4. {e \in Interest : e.subject = s} = Entries(s, InfosAt(s))
  BY DEF Interest, Entries, Entry, InfosAt
<1>5. Entries(s, held) = {e \in Entries(s, InfosAt(s)) : e.socket # socket}
  BY DEF Entries, Entry
<1>6. Interest' = Interest \ EntriesOf(Interest, s, socket)
  BY <1>3, <1>4, <1>5 DEF EntriesOf
<1>7. QED
  BY <1>2, <1>3, <1>6 DEF RemoveSubscription

(* The recursion reaches every node: a node's path lacks no step.          *)
LEMMA EveryNodeIsReached ==
  ASSUME IInv, NEW n \in nodes
  PROVE  Reached(n)
<1>1. n \in Seq(Tokens) /\ Len(n) \in Nat
  BY LenProperties DEF IInv
<1>2. ASSUME NEW k \in 1 .. Len(n)
      PROVE  SubSeq(n, 1, k) \in VisitedChildren(SubSeq(n, 1, k - 1))
  <2>1. k \in 0 .. Len(n) /\ k - 1 \in 0 .. Len(n) /\ k - 1 \in 0 .. k
    BY <1>1
  <2>2. SubSeq(n, 1, k) \in nodes
    BY <2>1 DEF IInv, PrefixesExist, PathTo
  <2>3. Len(SubSeq(n, 1, k)) = k /\ Len(SubSeq(n, 1, k - 1)) = k - 1
    BY <1>1, <2>1, PrefixProperties
  <2>4. SubSeq(SubSeq(n, 1, k), 1, k - 1) = SubSeq(n, 1, k - 1)
    BY <1>1, <2>1, PrefixOfPrefix
  <2>5. Len(SubSeq(n, 1, k)) = Len(SubSeq(n, 1, k - 1)) + 1
    BY <2>1, <2>3
  <2>6. SubSeq(SubSeq(n, 1, k), 1, Len(SubSeq(n, 1, k - 1)))
          = SubSeq(n, 1, k - 1)
    BY <2>3, <2>4
  <2>7. QED
    BY <2>2, <2>5, <2>6, Zenon DEF VisitedChildren, IsChild
<1>3. QED
  BY <1>2 DEF Reached

(* A disconnect takes every entry of the socket.                           *)
LEMMA RemoveAllIsTableRemoveAll ==
  ASSUME IInv, NEW socket \in Sockets, removeAllSubscriptions(socket)
  PROVE  /\ Interest' = RemoveAllSubscriptions(Interest, socket)
         /\ UNCHANGED returned
<1>1. infos' = [n \in nodes |-> {i \in infos[n] : i.socket # socket}]
      /\ nodes' = nodes /\ returned' = returned
  BY EveryNodeIsReached DEF removeAllSubscriptions
<1>2. Interest' = {e \in Interest : e.socket # socket}
  BY <1>1 DEF Interest, Entry
<1>3. QED
  BY <1>1, <1>2 DEF RemoveAllSubscriptions

(* The graph implements the table, whatever subjects come and go: an add   *)
(* keeps the ID a socket has for a subject, a remove leaves the other      *)
(* sockets, a disconnect removes the socket from every node, and the count *)
(* returned is the number of subscribers of the subject.                   *)
THEOREM EngineImplementsTable == Spec => ImplementsTable
<1>1. Init => Table!TableInit
  BY DEF Init, Interest, Table!TableInit
<1>2. IInv /\ [Next]_vars => [Table!TableNext]_(Table!tableVars)
  <2> SUFFICES ASSUME IInv, [Next]_vars
               PROVE  [Table!TableNext]_(Table!tableVars)
    OBVIOUS
  <2>1. ASSUME NEW s \in SubjectNames, NEW id \in SubscriptionIDs,
               NEW socket \in Sockets, addSubscription(s, id, socket)
        PROVE  Table!TableAdd(s, id, socket)
    BY <2>1, AddIsTableAdd
       DEF Table!TableAdd, Table!AddSubscription, AddSubscription,
           Table!EntriesOf, EntriesOf, Table!Entry, Entry,
           Table!SubscriptionCount, SubscriptionCount,
           Table!Cardinality, Cardinality
  <2>2. ASSUME NEW s \in SubjectNames, NEW socket \in Sockets,
               removeSubscription(s, socket)
        PROVE  Table!TableRemove(s, socket)
    BY <2>2, RemoveIsTableRemove
       DEF Table!TableRemove, Table!RemoveSubscription, RemoveSubscription,
           Table!EntriesOf, EntriesOf,
           Table!SubscriptionCount, SubscriptionCount,
           Table!Cardinality, Cardinality
  <2>3. ASSUME NEW socket \in Sockets, removeAllSubscriptions(socket)
        PROVE  Table!TableRemoveAll(socket)
    BY <2>3, RemoveAllIsTableRemoveAll
       DEF Table!TableRemoveAll, Table!RemoveAllSubscriptions,
           RemoveAllSubscriptions
  <2>4. CASE UNCHANGED vars
    BY <2>4 DEF vars, Interest, Table!tableVars
  <2>5. QED
    BY <2>1, <2>2, <2>3, <2>4 DEF Next, Table!TableNext
<1>3. QED
  BY <1>1, <1>2, Safety, PTL DEF Spec, ImplementsTable, Table!TableSpec
-----------------------------------------------------------------------------
(***************************************************************************)
(* The lookup.  InnerNodes are the nodes the walk for a topic goes on      *)
(* from, OneStep is what it finds at one of them from what it finds at the *)
(* children, and Walk the function that MatchingNodes defines by this      *)
(* recursion.                                                              *)
(***************************************************************************)
InnerNodes(topic) == {m \in nodes : Len(m) < Len(topic)}

OneStep(topic, w, n) ==
  LET next == FollowedChildren(n, topic[Len(n) + 1])
  IN  GreaterThanChild(n) \cup
        IF Len(n) + 1 = Len(topic) THEN next ELSE UNION {w[c] : c \in next}

Walk(topic) ==
  CHOOSE w : w = [n \in InnerNodes(topic) |-> OneStep(topic, w, n)]

(* The tokens of a pattern after the first k match those of the topic.     *)
RestMatches(pattern, topic, k) ==
  \/ /\ Len(pattern) = Len(topic)
     /\ \A i \in k + 1 .. Len(pattern) : TokenMatches(pattern[i], topic[i])
  \/ /\ Len(pattern) \in k + 1 .. Len(topic)
     /\ pattern[Len(pattern)] = WILDCARD_GREATER_THAN
     /\ \A i \in k + 1 .. Len(pattern) - 1 : TokenMatches(pattern[i], topic[i])

(* What the walk finds from a node: the nodes below it that match from     *)
(* there on.                                                               *)
Found(topic, n) ==
  {m \in nodes : /\ Len(n) < Len(m)
                 /\ SubSeq(m, 1, Len(n)) = n
                 /\ RestMatches(m, topic, Len(n))}

(* What is found at a node: its own children that match, and what is found *)
(* at the children that are followed.                                      *)
LEMMA FoundAtOneStep ==
  ASSUME IInv, NEW topic \in Seq(Tokens), NEW n \in InnerNodes(topic)
  PROVE  LET next == FollowedChildren(n, topic[Len(n) + 1])
         IN  Found(topic, n) =
               GreaterThanChild(n) \cup
                 IF Len(n) + 1 = Len(topic)
                 THEN next ELSE UNION {Found(topic, c) : c \in next}
<1> DEFINE k == Len(n)
           token == topic[k + 1]
           next == FollowedChildren(n, token)
<1>1. n \in nodes /\ n \in Seq(Tokens) /\ k \in Nat /\ Len(topic) \in Nat
      /\ k < Len(topic) /\ k = Len(n)
  BY LenProperties DEF IInv, InnerNodes
<1> HIDE DEF k
<1>2. /\ WILDCARD_GREATER_THAN \in Tokens
      /\ WILDCARD_STAR \in Tokens
      /\ token \in Tokens
      /\ token = topic[k + 1]
  <2>1. k + 1 \in 1 .. Len(topic)
    BY <1>1
  <2>2. token \in Tokens
    BY <2>1, ElementOfSeq
  <2>3. token = topic[k + 1]
    BY DEF token
  <2>4. WILDCARD_GREATER_THAN \in Tokens /\ WILDCARD_STAR \in Tokens
    BY DEF Tokens
  <2>5. QED
    BY <2>2, <2>3, <2>4
<1> HIDE DEF token
<1>3. ASSUME NEW u \in Tokens
      PROVE  /\ Append(n, u) \in Seq(Tokens)
             /\ Len(Append(n, u)) = k + 1
             /\ Append(n, u)[k + 1] = u
             /\ SubSeq(Append(n, u), 1, k) = n
  BY <1>1, ChildProperties
<1>4. \A c : c \in next <=> /\ c \in nodes
                            /\ \E u \in Tokens : /\ c = Append(n, u)
                                                 /\ TokenMatches(u, token)
  BY <1>2 DEF FollowedChildren, TokenMatches
<1>5. ASSUME NEW m \in GreaterThanChild(n)
      PROVE  m \in Found(topic, n)
  <2>1. m \in nodes /\ m = Append(n, WILDCARD_GREATER_THAN)
    BY DEF GreaterThanChild
  <2>2. /\ Len(m) = k + 1
        /\ m[k + 1] = WILDCARD_GREATER_THAN
        /\ SubSeq(m, 1, k) = n
    BY <1>2, <1>3, <2>1
  <2>3. RestMatches(m, topic, k)
    BY <1>1, <2>2 DEF RestMatches
  <2>4. m \in nodes /\ Len(n) < Len(m) /\ SubSeq(m, 1, Len(n)) = n
    BY <1>1, <2>1, <2>2
  <2>5. QED
    BY <1>1, <2>3, <2>4 DEF Found
<1>6. ASSUME k + 1 = Len(topic), NEW m \in next
      PROVE  m \in Found(topic, n)
  <2>1. PICK u \in Tokens : m = Append(n, u) /\ TokenMatches(u, token)
    BY <1>4
  <2>2. m \in nodes
    BY <1>4
  <2>3. /\ Len(m) = k + 1
        /\ TokenMatches(m[k + 1], topic[k + 1])
        /\ SubSeq(m, 1, k) = n
    BY <1>2, <1>3, <2>1
  <2>4. RestMatches(m, topic, k)
    BY <1>1, <1>6, <2>3 DEF RestMatches
  <2>5. QED
    BY <1>1, <2>2, <2>3, <2>4 DEF Found
<1>7. ASSUME NEW c \in next, NEW m \in Found(topic, c)
      PROVE  m \in Found(topic, n)
  <2>1. PICK u \in Tokens : c = Append(n, u) /\ TokenMatches(u, token)
    BY <1>4
  <2>2. Len(c) = k + 1 /\ c[k + 1] = u /\ SubSeq(c, 1, k) = n
    BY <1>3, <2>1
  <2>3. m \in nodes /\ m \in Seq(Tokens) /\ k + 1 < Len(m)
        /\ SubSeq(m, 1, k + 1) = c /\ RestMatches(m, topic, k + 1)
        /\ Len(m) \in Nat
    BY <2>2, LenProperties DEF Found, IInv
  <2>4. k + 1 \in 0 .. Len(m) /\ k \in 0 .. k + 1
    BY <1>1, <2>3
  <2>5. SubSeq(m, 1, k) = n
    BY <2>2, <2>3, <2>4, PrefixOfPrefix
  <2>6. m[k + 1] = u
    <3>1. \A i \in 1 .. k + 1 : c[i] = m[i]
      BY <2>3, <2>4, PrefixProperties
    <3>2. k + 1 \in 1 .. k + 1
      BY <1>1
    <3>3. QED
      BY <2>2, <3>1, <3>2, Zenon
  <2>7. TokenMatches(m[k + 1], topic[k + 1])
    BY <1>2, <2>1, <2>6
  <2>8. RestMatches(m, topic, k)
    BY <1>1, <2>3, <2>7 DEF RestMatches
  <2>9. QED
    BY <1>1, <2>3, <2>5, <2>8 DEF Found
<1>8. ASSUME NEW m \in Found(topic, n), m \notin GreaterThanChild(n)
      PROVE  IF k + 1 = Len(topic) THEN m \in next
                                   ELSE \E c \in next : m \in Found(topic, c)
  <2> DEFINE c == SubSeq(m, 1, k + 1)
  <2>1. m \in nodes /\ m \in Seq(Tokens) /\ k < Len(m) /\ Len(m) \in Nat
        /\ SubSeq(m, 1, k) = n /\ RestMatches(m, topic, k)
    BY <1>1, LenProperties DEF Found, IInv
  <2>2. m[k + 1] \in Tokens /\ c = Append(n, m[k + 1])
    BY <1>1, <2>1, PathThroughChild
  <2>3. c \in nodes
    <3>1. k + 1 \in 0 .. Len(m)
      BY <1>1, <2>1
    <3>2. QED
      BY <2>1, <3>1 DEF IInv, PrefixesExist, PathTo
  <2>4. Len(m) = k + 1 => c = m
    BY <2>1, SubSeqFull
  <2>5. ~ (Len(m) = k + 1 /\ m[k + 1] = WILDCARD_GREATER_THAN)
    BY <1>8, <2>2, <2>3, <2>4 DEF GreaterThanChild
  <2>6. TokenMatches(m[k + 1], token) /\ RestMatches(m, topic, k + 1)
    <3>1. CASE Len(m) = Len(topic)
               /\ \A i \in k + 1 .. Len(m) : TokenMatches(m[i], topic[i])
      <4>1. k + 1 \in k + 1 .. Len(m)
        BY <1>1, <2>1
      <4>2. TokenMatches(m[k + 1], token)
        BY <1>2, <3>1, <4>1
      <4>3. RestMatches(m, topic, k + 1)
        BY <1>1, <2>1, <3>1 DEF RestMatches
      <4>4. QED
        BY <4>2, <4>3
    <3>2. CASE /\ Len(m) \in k + 1 .. Len(topic)
               /\ m[Len(m)] = WILDCARD_GREATER_THAN
               /\ \A i \in k + 1 .. Len(m) - 1 : TokenMatches(m[i], topic[i])
      <4>1. k + 1 < Len(m)
        BY <1>1, <2>1, <2>5, <3>2
      <4>2. QED
        BY <1>1, <1>2, <2>1, <3>2, <4>1 DEF RestMatches
    <3>3. QED
      BY <2>1, <3>1, <3>2 DEF RestMatches
  <2>7. c \in next
    BY <1>4, <2>2, <2>3, <2>6
  <2>8. Len(m) \in k + 1 .. Len(topic)
    BY <1>1, <2>1 DEF RestMatches
  <2>9. CASE Len(m) = k + 1
    <3>1. k + 1 = Len(topic)
      BY <1>1, <2>1, <2>5, <2>9 DEF RestMatches
    <3>2. QED
      BY <2>4, <2>7, <2>9, <3>1
  <2>10. CASE Len(m) # k + 1
    <3>1. k + 1 < Len(m) /\ k + 1 # Len(topic) /\ Len(c) = k + 1
      BY <1>1, <1>3, <2>2, <2>8, <2>10
    <3>2. m \in Found(topic, c)
      BY <2>1, <2>6, <3>1 DEF Found
    <3>3. QED
      BY <2>7, <3>1, <3>2
  <2>11. QED
    BY <2>9, <2>10
<1> HIDE DEF next
<1>9. Found(topic, n) =
        GreaterThanChild(n) \cup
          IF k + 1 = Len(topic)
          THEN next ELSE UNION {Found(topic, c) : c \in next}
  BY <1>5, <1>6, <1>7, <1>8
<1>10. QED
  BY <1>9 DEF next, token, k

(* The walk from a node finds what Found says, by the number of levels     *)
(* that are left.                                                          *)
LEMMA WalkFinds ==
  ASSUME IInv, NEW topic \in Seq(Tokens), NEW n \in InnerNodes(topic)
  PROVE  Walk(topic)[n] = Found(topic, n)
<1> DEFINE D == InnerNodes(topic)
           F == [m \in D |-> Found(topic, m)]
           W == Walk(topic)
           left(m) == Len(topic) - Len(m)
<1>1. \A m \in D : m \in nodes /\ Len(m) \in Nat /\ left(m) \in Nat \ {0}
  <2>1. \A m \in D : m \in nodes /\ Len(m) \in Nat /\ Len(m) < Len(topic)
    BY LenProperties DEF IInv, InnerNodes
  <2>2. Len(topic) \in Nat
    BY LenProperties
  <2>3. QED
    BY <2>1, <2>2
<1>2. ASSUME NEW m \in D, Len(m) + 1 # Len(topic),
             NEW c \in FollowedChildren(m, topic[Len(m) + 1])
      PROVE  c \in D /\ left(c) = left(m) - 1
  <2>1. /\ m \in Seq(Tokens)
        /\ Len(topic) \in Nat
        /\ Len(m) \in Nat
        /\ Len(m) < Len(topic)
    BY LenProperties DEF IInv, InnerNodes
  <2>2. Len(m) + 1 \in 1 .. Len(topic)
    BY <2>1
  <2>3. topic[Len(m) + 1] \in Tokens
    BY <2>2, ElementOfSeq
  <2>4. WILDCARD_STAR \in Tokens
    BY DEF Tokens
  <2>5. c \in nodes /\ \E u \in Tokens : c = Append(m, u)
    BY <2>3, <2>4 DEF FollowedChildren
  <2>6. Len(c) = Len(m) + 1
    BY <2>1, <2>5, ChildProperties
  <2>7. c \in D
    BY <1>2, <2>1, <2>5, <2>6 DEF InnerNodes
  <2>8. left(c) = left(m) - 1
    BY <2>1, <2>6
  <2>9. QED
    BY <2>7, <2>8
<1>3. F = [m \in D |-> OneStep(topic, F, m)]
  <2>1. ASSUME NEW m \in D
        PROVE  Found(topic, m) = OneStep(topic, F, m)
    <3> DEFINE next == FollowedChildren(m, topic[Len(m) + 1])
    <3>1. CASE Len(m) + 1 = Len(topic)
      BY <3>1, FoundAtOneStep DEF OneStep
    <3>2. CASE Len(m) + 1 # Len(topic)
      <4>1. \A c \in next : c \in D
        BY <1>2, <3>2
      <4> HIDE DEF next, D
      <4>2. \A c \in next : F[c] = Found(topic, c)
        BY <4>1
      <4> HIDE DEF F
      <4>3. UNION {Found(topic, c) : c \in next} = UNION {F[c] : c \in next}
        BY <4>2
      <4>4. QED
        BY <3>2, <4>3, FoundAtOneStep DEF OneStep, next, D
    <3>3. QED
      BY <3>1, <3>2
  <2>2. QED
    BY <2>1
<1>4. W = [m \in D |-> OneStep(topic, W, m)]
  BY <1>3 DEF Walk
<1> DEFINE wrong == {k \in Nat : \E m \in D : left(m) = k /\ W[m] # F[m]}
<1>5. wrong = {}
  <2> SUFFICES ASSUME wrong # {} PROVE FALSE
    OBVIOUS
  <2>1. PICK k \in wrong : \A j \in wrong : ~ (<<j, k>> \in OpToRel(<, Nat))
    <3> HIDE DEF wrong
    <3>1. wrong \subseteq Nat
      BY DEF wrong
    <3>2. QED
      BY <3>1, WFMin, NatLessThanWellFounded
  <2>2. k \in Nat /\ \A j \in wrong : ~ (j < k)
    BY <2>1 DEF OpToRel
  <2>3. PICK m \in D : left(m) = k /\ W[m] # F[m]
    OBVIOUS
  <2> DEFINE next == FollowedChildren(m, topic[Len(m) + 1])
  <2>4. ASSUME Len(m) + 1 # Len(topic), NEW c \in next
        PROVE  W[c] = F[c]
    <3>1. c \in D /\ left(c) = k - 1
      BY <1>2, <2>3, <2>4
    <3>2. left(c) \in Nat /\ left(c) < k
      BY <1>1, <2>2, <3>1
    <3>3. left(c) \notin wrong
      BY <2>2, <3>2
    <3>4. QED
      BY <3>1, <3>2, <3>3
  <2> HIDE DEF W, F, D, wrong
  <2>5. OneStep(topic, W, m) = OneStep(topic, F, m)
    <3>1. CASE Len(m) + 1 = Len(topic)
      BY <3>1 DEF OneStep
    <3>2. CASE Len(m) + 1 # Len(topic)
      <4>1. UNION {W[c] : c \in next} = UNION {F[c] : c \in next}
        BY <2>4, <3>2
      <4>2. QED
        BY <3>2, <4>1 DEF OneStep
    <3>3. QED
      BY <3>1, <3>2
  <2>6. W[m] = OneStep(topic, W, m)
    BY <1>4, <2>3
  <2>7. F[m] = OneStep(topic, F, m)
    BY <1>3, <2>3
  <2>8. QED
    BY <2>3, <2>5, <2>6, <2>7
<1>6. W[n] = F[n]
  <2>1. left(n) \in Nat
    BY <1>1
  <2>2. QED
    BY <1>5, <2>1
<1>7. QED
  BY <1>6

(* The walk of getMatchingSubscriptionInfos is this function.              *)
LEMMA MatchingNodesWalk ==
  ASSUME NEW topic
  PROVE  MatchingNodes(topic) =
           IF topic = NoSubject THEN {} ELSE Walk(topic)[Root]
BY DEF MatchingNodes, Walk, OneStep, InnerNodes

(* The nodes a lookup finds are those whose subject matches.               *)
LEMMA MatchingNodesMatch ==
  ASSUME IInv, NEW topic \in Seq(Tokens), NEW n \in nodes
  PROVE  n \in MatchingNodes(topic) <=> Matches(n, topic)
<1>1. CASE topic = NoSubject
  BY <1>1, MatchingNodesWalk DEF Matches
<1>2. CASE topic # NoSubject
  <2>1. Len(topic) \in Nat \ {0} /\ Len(Root) = 0 /\ n \in Seq(Tokens)
        /\ Len(n) \in Nat
    BY <1>2, EmptySeq, LenProperties DEF NoSubject, Root, IInv
  <2>2. Root \in InnerNodes(topic)
    BY <2>1 DEF InnerNodes, IInv
  <2>3. MatchingNodes(topic) = Found(topic, Root)
    BY <1>2, <2>2, MatchingNodesWalk, WalkFinds
  <2>4. SubSeq(n, 1, 0) = Root
    BY SubSeqEmpty DEF Root
  <2>5. RestMatches(n, topic, 0) <=> Matches(n, topic)
    BY <1>2, <2>1 DEF RestMatches, Matches
  <2>6. RestMatches(n, topic, 0) => 0 < Len(n)
    BY <2>1 DEF RestMatches
  <2>7. n \in Found(topic, Root) <=> RestMatches(n, topic, 0)
    BY <2>1, <2>4, <2>6 DEF Found
  <2>8. QED
    BY <2>3, <2>5, <2>7
<1>3. QED
  BY <1>1, <1>2

(* A lookup finds exactly the subscriptions whose subject matches by the   *)
(* documented rules, whatever subjects were added and removed before.      *)
THEOREM LookupHolds == Spec => []LookupFollowsTheRules
<1>1. IInv => LookupFollowsTheRules
  <2> SUFFICES ASSUME IInv, NEW topic \in Topics
               PROVE  getMatchingSubscriptionInfos(topic)
                        = MatchingEntries(Interest, topic)
    BY DEF LookupFollowsTheRules
  <2>1. topic \in Seq(Tokens)
    BY SubjectsAreSequences
  <2>2. \A e \in Interest : e.subject \in nodes
    BY DEF Interest, Entry
  <2>3. \A e \in Interest :
          e.subject \in MatchingNodes(topic) <=> Matches(e.subject, topic)
    BY <2>1, <2>2, MatchingNodesMatch
  <2>4. QED
    BY <2>3 DEF getMatchingSubscriptionInfos, MatchingEntries
<1>2. QED
  BY <1>1, Safety, PTL
=============================================================================
