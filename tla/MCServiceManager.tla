-------------------------- MODULE MCServiceManager --------------------------
(***************************************************************************)
(* Two accepted sockets, each of which may turn out to be a client or a    *)
(* peer gateway, and one connection of ours to a peer; a plain and a       *)
(* wildcard subscription that match the same message, and the empty        *)
(* subject that UNSUBSCRIBE headers carry.                                 *)
(***************************************************************************)
EXTENDS ServiceManager

MCSubjectNames == { << >>, <<"A">>, <<"*">> }
MCTopics       == { <<"A">> }
=============================================================================
