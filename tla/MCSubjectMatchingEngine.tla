---------------------- MODULE MCSubjectMatchingEngine -----------------------
(***************************************************************************)
(* Two sockets and subscriptions on subjects with and without wildcards:   *)
(* "", A, A.B, *.B, A.*, A.>, > and the malformed A.>.B; messages on one   *)
(* to three tokens, and on the empty subject.                              *)
(***************************************************************************)
EXTENDS SubjectMatchingEngine

MCSubjectNames ==
  { << >>, <<"A">>, <<"A", "B">>, <<"*", "B">>, <<"A", "*">>,
    <<"A", ">">>, <<">">>, <<"A", ">", "B">> }

MCTopics ==
  { << >>, <<"A">>, <<"B">>, <<"A", "B">>, <<"B", "B">>, <<"A", "A", "B">>,
    <<"A", ">", "B">>, <<"A", "*">> }
=============================================================================
