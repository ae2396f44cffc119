--------------------------- MODULE Subscriptions ----------------------------
(***************************************************************************)
(* The subscriptions of one service as a table: a set of entries, one for  *)
(* each SubscriptionInfo that the interest graph of SubjectMatchingEngine  *)
(* holds.  The operators are what that class's methods do to the table and *)
(* what they return; SubjectMatchingEngine.tla shows that the graph        *)
(* implements them.  The service manager is written over the table.        *)
(***************************************************************************)
EXTENDS FiniteSets, Subjects

Entry(subject, id, socket) ==
  [subject |-> subject, id |-> id, socket |-> socket]

EntriesOf(table, subject, socket) ==
  {e \in table : e.subject = subject /\ e.socket = socket}

(* std::unordered_map::insert changes nothing when the key is there.       *)
AddSubscription(table, subject, id, socket) ==
  IF EntriesOf(table, subject, socket) # {}
  THEN table
  ELSE table \cup {Entry(subject, id, socket)}

RemoveSubscription(table, subject, socket) ==
  table \ EntriesOf(table, subject, socket)

RemoveAllSubscriptions(table, socket) ==
  {e \in table : e.socket # socket}

SubscriptionCount(table, subject) ==
  Cardinality({e \in table : e.subject = subject})

MatchingEntries(table, topic) ==
  {e \in table : Matches(e.subject, topic)}

(***************************************************************************)
(* The copies of a message on topic that are written to one socket: one    *)
(* for each matching subscription of a client, and for a mesh peer one in  *)
(* all, however many match, and none when the message came from a peer     *)
(* itself.  Which of its entries the peer's single copy is taken from      *)
(* tells nothing apart: a gateway never reads the subscription ID of a     *)
(* message it gets from a peer.                                            *)
(***************************************************************************)
CopiesTo(table, topic, socket, toPeer, fromPeer) ==
  LET hits == {e \in MatchingEntries(table, topic) : e.socket = socket}
  IN  IF ~toPeer THEN hits
      ELSE IF fromPeer \/ hits = {} THEN {}
      ELSE {CHOOSE e \in hits : TRUE}
=============================================================================
