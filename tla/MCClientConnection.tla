------------------------- MODULE MCClientConnection -------------------------
(***************************************************************************)
(* Both libraries and both ways of dispatching: one thread that calls      *)
(* processMessageQueue and one that works next to it.                      *)
(***************************************************************************)
EXTENDS ClientConnection

CONSTANTS app, worker, mesh, prices

MCThreads          == {app, worker}
MCSubjects         == {prices}
MCUninitialisedIDs == {0, 1}
MCLimits           == {All, 1}
=============================================================================
