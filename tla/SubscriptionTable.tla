------------------------- MODULE SubscriptionTable --------------------------
(***************************************************************************)
(* What SubjectMatchingEngine promises to the service manager: a table of  *)
(* subscriptions, with the number of subscribers of the subject returned   *)
(* by each change of it.                                                   *)
(***************************************************************************)
EXTENDS Subscriptions

CONSTANTS Sockets,          (* sockets that can hold subscriptions         *)
          SubscriptionIDs,  (* IDs that clients give to subscriptions      *)
          SubjectNames      (* subjects that SUBSCRIBE and UNSUBSCRIBE name *)

VARIABLES interest,   (* the entries of the table                          *)
          returned    (* the count that the last change of it returned     *)

tableVars == <<interest, returned>>

TableInit ==
  /\ interest = {}
  /\ returned = 0

TableAdd(subject, id, socket) ==
  /\ interest' = AddSubscription(interest, subject, id, socket)
  /\ returned' = SubscriptionCount(interest', subject)

TableRemove(subject, socket) ==
  /\ interest' = RemoveSubscription(interest, subject, socket)
  /\ returned' = SubscriptionCount(interest', subject)

TableRemoveAll(socket) ==
  /\ interest' = RemoveAllSubscriptions(interest, socket)
  /\ UNCHANGED returned

TableNext ==
  \E socket \in Sockets :
    \/ TableRemoveAll(socket)
    \/ \E subject \in SubjectNames :
         \/ TableRemove(subject, socket)
         \/ \E id \in SubscriptionIDs : TableAdd(subject, id, socket)

TableSpec == TableInit /\ [][TableNext]_tableVars
=============================================================================
