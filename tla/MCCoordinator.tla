---------------------------- MODULE MCCoordinator ----------------------------
(* Two gateways with one service and two browsers.                         *)
EXTENDS Coordinator

MCGateways == {<<"London">>, <<"Paris">>}
MCServices == {<<"Prices">>}
MCSubjects == {"GBP", "bad"}
MCBadSubjects == {"bad"}
=============================================================================
