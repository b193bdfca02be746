--------------------------- MODULE MCMatchmaking ---------------------------
(* Small instances of Matchmaking for TLC. *)
EXTENDS Matchmaking, TLC

\* Threads, tickets and matches are interchangeable.
Symmetry == Permutations(Calls) \cup Permutations(Tickets) \cup Permutations(Matches)
=============================================================================
