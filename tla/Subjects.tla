------------------------------ MODULE Subjects ------------------------------
(***************************************************************************)
(* Subjects and the wildcard rules of Messaging Mesh.                      *)
(*                                                                         *)
(* A subject is the sequence of the tokens MMUtils::tokenize finds between *)
(* its dots; the empty string, which an UNSUBSCRIBE header carries when    *)
(* its sender sets no subject, is the empty sequence.                      *)
(***************************************************************************)
EXTENDS Naturals, Sequences

WILDCARD_STAR         == "*"
WILDCARD_GREATER_THAN == ">"

NoSubject == << >>

(* One pattern token against one token of a sent subject.                  *)
TokenMatches(token, sent) ==
  /\ token # WILDCARD_GREATER_THAN
  /\ token \in {sent, WILDCARD_STAR}

(***************************************************************************)
(* The reference definition of a match, from the rules in the comment of   *)
(* SubjectMatchingEngine.h: "*" stands for exactly one token; ">" comes at *)
(* the end and stands for one or more tokens.  A pattern with ">" anywhere *)
(* else matches nothing, and nothing matches the empty subject.            *)
(***************************************************************************)
Matches(pattern, subject) ==
  /\ subject # NoSubject
  /\ \/ /\ Len(pattern) = Len(subject)
        /\ \A i \in 1 .. Len(pattern) : TokenMatches(pattern[i], subject[i])
     \/ /\ Len(pattern) \in 1 .. Len(subject)
        /\ pattern[Len(pattern)] = WILDCARD_GREATER_THAN
        /\ \A i \in 1 .. Len(pattern) - 1 : TokenMatches(pattern[i], subject[i])
=============================================================================
