---------------------------- MODULE MCSharedKey ----------------------------
(* Small instances of SharedKey for TLC. *)
EXTENDS SharedKey, TLC

\* Threads are interchangeable, and so are sessions.
Symmetry == Permutations(Workers) \cup Permutations(Sessions)

\* A transient failure may strike any creation, so for the caches it stands
\* for a revocation too; the liveness run has revocations of their own.
CacheFaults == {"transient", "malformed", "save", "remove", "crash"}
ServiceFaults == {"transient", "break", "revoke", "malformed"}
RevokeOnly == {"revoke"}
=============================================================================
