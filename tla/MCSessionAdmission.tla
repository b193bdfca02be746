------------------------- MODULE MCSessionAdmission -------------------------
(* Small instances of SessionAdmission for TLC. *)
EXTENDS SessionAdmission, TLC

\* Requests, clients and session ids are interchangeable.
Symmetry == Permutations(Requests) \cup Permutations(Clients) \cup Permutations(Ids)
=============================================================================
