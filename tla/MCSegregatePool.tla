--------------------------- MODULE MCSegregatePool ---------------------------
(* Model-checking instance of SegregatePool: the memory is bounded by Base. *)
EXTENDS SegregatePool
=============================================================================
