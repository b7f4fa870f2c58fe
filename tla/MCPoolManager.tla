--------------------------- MODULE MCPoolManager ---------------------------
(* Model-checking instance of PoolManager. *)
EXTENDS PoolManager, TLC

CONSTANTS MaxPayloadReuse, MaxBlockReuse  \* bounds on the releases of one slot

Bounded ==
    /\ \A i \in DOMAIN bound : payload_pool.generations[i] <= MaxPayloadReuse
    /\ \A i \in DOMAIN cb : control_block_pool.generations[i] <= MaxBlockReuse

Symmetry == Permutations(Lease)
=============================================================================
