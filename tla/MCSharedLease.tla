--------------------------- MODULE MCSharedLease ---------------------------
(* Model-checking instance of SharedLease. *)
EXTENDS SharedLease, TLC

Symmetry == Permutations(Lease) \cup Permutations(Payload)
=============================================================================
