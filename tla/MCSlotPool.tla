----------------------------- MODULE MCSlotPool -----------------------------
(* Model-checking instance of SlotPool. *)
EXTENDS SlotPool

CONSTANT MaxReleases  \* bound on the releases of one slot

Bounded == \A i \in DOMAIN releases : releases[i] <= MaxReleases
=============================================================================
