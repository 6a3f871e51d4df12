----------------------------- MODULE MCTracer -----------------------------
(***************************************************************************)
(* A request of endpoint "a", two statements of it with the same query, of  *)
(* 4 and 3 ms, and one in the background, which took less than the clock    *)
(* tells.                                                                   *)
(***************************************************************************)
EXTENDS Tracer

CONSTANTS r1, s1, s2, s3

MCLog == [m \in Metrics |-> IF m = r1 THEN "rms" ELSE "sms"]

MCPath == [m \in Metrics |-> IF m = s3 THEN "" ELSE "a"]

MCQuery == [m \in Metrics |-> IF m = s3 THEN "ExecContext y" ELSE "ExecContext x"]

MCDuration == (r1 :> 9) @@ (s1 :> 4) @@ (s2 :> 3) @@ (s3 :> 0)
=============================================================================
