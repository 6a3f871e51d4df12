---------------------------- MODULE MCScoreCaches ----------------------------
(***************************************************************************)
(* Two organizers, two players, one visitor and three files: each player    *)
(* alone, and both with other scores.  Exchanging the players, or the       *)
(* organizers, changes nothing, the files included.                         *)
(***************************************************************************)
EXTENDS ScoreCaches, TLC

CONSTANTS p1, p2, o1, o2, w1

MCSheets == {p1 :> 1, p2 :> 1, p1 :> 2 @@ p2 :> 2}

Symmetric == Permutations(Players) \cup Permutations(Organizers)
=============================================================================
