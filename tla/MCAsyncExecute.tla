--------------------------- MODULE MCAsyncExecute ---------------------------
(***************************************************************************)
(* A queue with two distinct values, Set calls of one and of two values,    *)
(* and two callers of Wait.                                                 *)
(***************************************************************************)
EXTENDS AsyncExecuteHistory, TLC

CONSTANTS v1, v2, c1, c2

MCValues == {v1, v2}
MCChannels == {c1, c2}
MCBatches == {<<v1>>, <<v2>>, <<v1, v2>>}
=============================================================================
