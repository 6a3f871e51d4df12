-------------------------- MODULE MCQuerySampler --------------------------
(***************************************************************************)
(* Two statements of one alias, one of another and one with no query, and   *)
(* two calls of StartTrace, of which the second may come before the first   *)
(* has written.                                                             *)
(***************************************************************************)
EXTENDS QuerySampler

CONSTANTS s1, s2, s3, s4

MCAlias == [s \in Statements |-> CASE s = s3 -> "y" [] s = s4 -> "" [] OTHER -> "x"]

MCText == [s \in Statements |-> CASE s = s3 -> "other" [] s = s4 -> "empty"
                                [] OTHER -> "explainable"]
=============================================================================
