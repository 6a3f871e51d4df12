---------------------------- MODULE MCScoreboard ----------------------------
(***************************************************************************)
(* Two players of the tenant and a guest; a file with a tie in which a      *)
(* repeated player falls behind, one of a player and the guest, and one of  *)
(* the other player, who drops out of the second as the others of the third.*)
(***************************************************************************)
EXTENDS Scoreboard

CONSTANTS p1, p2, g, c1, c2

R(p, s) == [player |-> p, score |-> s]

MCFiles == {<<R(p1, 2), R(p2, 2), R(p1, 2)>>,
            <<R(g, 1), R(p1, 2)>>,
            <<R(p2, 1)>>}

OneByOne == c1 :> 1 @@ c2 :> 2
=============================================================================
