----------------------- MODULE SubjectMatchingEngine ------------------------
(***************************************************************************)
(* The interest graph of Gateway/SubjectMatchingEngine.cpp.                *)
(*                                                                         *)
(* A node is named by the path of tokens that leads to it from the root:   *)
(* the child in the Nodes map for an ordinary token, the child             *)
(* pNode_Wildcard_Star for "*", pNode_Wildcard_GreaterThan for ">".        *)
(* Nodes are created on demand and never removed.                          *)
(*                                                                         *)
(* The lookup cache is not modelled: m_cachingEnabled is false and no code *)
(* sets it.                                                                *)
(***************************************************************************)
EXTENDS Subscriptions, SequencesExt

CONSTANTS Sockets,          (* client sockets (by socket ID)               *)
          SubscriptionIDs,  (* IDs that clients give to subscriptions      *)
          SubjectNames,     (* subjects of SUBSCRIBE and UNSUBSCRIBE       *)
          Topics,           (* subjects of sent messages                   *)
          MaxInfos          (* bound: SubscriptionInfos in the graph       *)

ASSUME EngineAssumption ==
  /\ MaxInfos \in Nat
  /\ IsFiniteSet(Sockets)
  /\ SubjectNames \subseteq Seq(STRING)
  /\ Topics \subseteq Seq(STRING)

VARIABLES nodes,     (* the paths of the nodes that exist                  *)
          infos,     (* the SubscriptionInfos map of each node             *)
          returned   (* the count returned by the last add or remove       *)

vars == <<nodes, infos, returned>>

Root == << >>

Info(id, socket) == [id |-> id, socket |-> socket]

(* The graph read as a table of subscriptions.                             *)
Interest ==
  UNION {{Entry(n, i.id, i.socket) : i \in infos[n]} : n \in nodes}
-----------------------------------------------------------------------------
Init ==
  /\ nodes = {Root}
  /\ infos = [n \in {Root} |-> {}]
  /\ returned = 0

PathTo(subject) == {SubSeq(subject, 1, k) : k \in 0 .. Len(subject)}

(* getOrCreateNode: the nodes that exist after it, the new ones empty.     *)
CreateNodes(subject) ==
  nodes' = nodes \cup PathTo(subject)

InfosAt(node) == IF node \in nodes THEN infos[node] ELSE {}

SetInfosAt(node, held) ==
  infos' = [n \in nodes' |-> IF n = node THEN held ELSE InfosAt(n)]

(* Variants: an assignment, which takes the new ID, and a map keyed by the *)
(* subscription, which would hold one socket twice.                        *)
InsertInfo_Overwrites(held, info) ==
  {i \in held : i.socket # info.socket} \cup {info}

InsertInfo_KeyedByID(held, info) == held \cup {info}

(* insert() keeps the info, with its old ID, that the socket already has.  *)
InsertInfo(held, info) ==
  IF \E i \in held : i.socket = info.socket THEN held ELSE held \cup {info}

addSubscription(subject, id, socket) ==
  /\ Cardinality(Interest) < MaxInfos
  /\ CreateNodes(subject)
  /\ SetInfosAt(subject, InsertInfo(InfosAt(subject), Info(id, socket)))
  /\ returned' = Cardinality(infos'[subject])

removeSubscription(subject, socket) ==
  /\ CreateNodes(subject)
  /\ SetInfosAt(subject, {i \in InfosAt(subject) : i.socket # socket})
  /\ returned' = Cardinality(infos'[subject])

IsChild(child, node) ==
  /\ Len(child) = Len(node) + 1
  /\ SubSeq(child, 1, Len(node)) = node

(* The children the recursion of removeAllSubscriptions goes into.         *)
VisitedChildren(node) == {c \in nodes : IsChild(c, node)}

(* A node is reached when each step of its path is into a visited child.   *)
Reached(node) ==
  \A k \in 1 .. Len(node) :
    SubSeq(node, 1, k) \in VisitedChildren(SubSeq(node, 1, k - 1))

removeAllSubscriptions(socket) ==
  /\ infos' = [n \in nodes |-> IF Reached(n)
                               THEN {i \in infos[n] : i.socket # socket}
                               ELSE infos[n]]
  /\ UNCHANGED <<nodes, returned>>

Next ==
  \/ \E subject \in SubjectNames, id \in SubscriptionIDs, socket \in Sockets :
       addSubscription(subject, id, socket)
  \/ \E subject \in SubjectNames, socket \in Sockets :
       removeSubscription(subject, socket)
  \/ \E socket \in Sockets : removeAllSubscriptions(socket)

Spec == Init /\ [][Next]_vars
-----------------------------------------------------------------------------
(***************************************************************************)
(* getMatchingSubscriptionInfos.  At node n the walk looks at one token of *)
(* the sent subject.  The ">" child, when there is one, matches at once;   *)
(* the child for the token itself (never a wildcard: those are not in the  *)
(* Nodes map) and the "*" child match at the last token, and are walked    *)
(* into before it.                                                         *)
(***************************************************************************)
(* A variant that looks for ">" at the root only.                          *)
GreaterThanChild_OnlyAtRoot(n) ==
  IF n = Root THEN {Append(n, WILDCARD_GREATER_THAN)} \cap nodes ELSE {}

GreaterThanChild(n) == {Append(n, WILDCARD_GREATER_THAN)} \cap nodes

FollowedChildren(n, token) ==
  {Append(n, t) : t \in {token, WILDCARD_STAR} \ {WILDCARD_GREATER_THAN}}
    \cap nodes

MatchingNodes(topic) ==
  LET last == Len(topic)
      walk[n \in {m \in nodes : Len(m) < last}] ==
        LET next == FollowedChildren(n, topic[Len(n) + 1])
        IN  GreaterThanChild(n) \cup
              IF Len(n) + 1 = last THEN next
                                   ELSE UNION {walk[c] : c \in next}
  IN  IF topic = NoSubject THEN {} ELSE walk[Root]

getMatchingSubscriptionInfos(topic) ==
  {e \in Interest : e.subject \in MatchingNodes(topic)}
-----------------------------------------------------------------------------
(***************************************************************************)
(* The nodes form one tree under the root, with the SubscriptionInfos map  *)
(* of each keyed by socket: no socket is in it twice, under two IDs.       *)
(***************************************************************************)
TypeOK ==
  /\ Root \in nodes
  /\ \A n \in nodes : n # Root => Front(n) \in nodes
  /\ infos \in [nodes -> SUBSET [id : SubscriptionIDs, socket : Sockets]]
  /\ \A n \in nodes : \A i, j \in infos[n] : i.socket = j.socket => i = j
  /\ returned \in 0 .. Cardinality(Sockets)

(***************************************************************************)
(* A lookup finds exactly the subscriptions whose subject matches by the   *)
(* documented wildcard rules, whatever subjects were added and removed     *)
(* before and whatever nodes they left in the graph                        *)
(* (SubjectMatchingEngine.h, the rules for "*" and ">").                   *)
(***************************************************************************)
LookupFollowsTheRules ==
  \A topic \in Topics :
    getMatchingSubscriptionInfos(topic) = MatchingEntries(Interest, topic)

(***************************************************************************)
(* The graph implements the table: an add keeps the ID a socket already    *)
(* has for the subject, a remove leaves the other sockets, a disconnect    *)
(* removes the socket from every node, and the count returned is the       *)
(* number of subscribers of that subject.                                  *)
(***************************************************************************)
Table == INSTANCE SubscriptionTable WITH interest <- Interest

ImplementsTable == Table!TableSpec
=============================================================================
