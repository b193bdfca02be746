----------------------------- MODULE MCGptGames -----------------------------
(* Small instances of GptGames for TLC. *)
EXTENDS GptGames, TLC

\* Worker threads are interchangeable.
Symmetry == Permutations(Calls)

RunningOrOver == {FALSE, TRUE}
=============================================================================
