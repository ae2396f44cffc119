------------------------------ MODULE MCUVLoop ------------------------------
(***************************************************************************)
(* A service's loop: the thread that creates it marshalls initialize(),    *)
(* which may throw, and two threads marshall writes and other events.      *)
(***************************************************************************)
EXTENDS UVLoop
=============================================================================
