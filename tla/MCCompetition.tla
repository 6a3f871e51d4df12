---------------------------- MODULE MCCompetition ----------------------------
(***************************************************************************)
(* Two players with a ranking request each, or one player, and score files  *)
(* that name one player.                                                    *)
(***************************************************************************)
EXTENDS Competition, TLC

CONSTANTS p1, p2, v1, v2, o1, o2, u1, u2

TwoPlayers == v1 :> p1 @@ v2 :> p2
OneViewer  == v1 :> p1
FilesOfOne == u1 :> {p1} @@ u2 :> {p2}
OneFile    == u1 :> {p1}
NoFiles    == <<>>

Interchangeable == Permutations({o1, o2})
=============================================================================
