----------------------------- MODULE MCPlayers -----------------------------
(***************************************************************************)
(* One player of the start, one or two newcomers, one id that is nobody's.  *)
(***************************************************************************)
EXTENDS Players

CONSTANTS p1, p2, p3, s1, r1, b1, a1
=============================================================================
