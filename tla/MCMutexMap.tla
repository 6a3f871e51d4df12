---------------------------- MODULE MCMutexMap -----------------------------
(***************************************************************************)
(* Three threads and two keys, with a mutex to spare for each thread that   *)
(* might make one too many.                                                 *)
(***************************************************************************)
EXTENDS MutexMap

CONSTANTS t1, t2, t3, k1, k2, x1, x2, x3
=============================================================================
