--------------------------- MODULE ExclusiveSlots ---------------------------
(***************************************************************************)
(* What a pool of slots promises its clients, with nothing about handles,  *)
(* generations or a freelist: a slot is free or it has one owner, it goes  *)
(* from free to owned and back, and only its owner can return it.          *)
(***************************************************************************)
CONSTANT Slot

VARIABLES free, owned

vars == << free, owned >>

Init == free = {} /\ owned = {}

Grow(S) ==
    /\ S # {}
    /\ S \cap (free \cup owned) = {}
    /\ free' = free \cup S
    /\ owned' = owned

Acquire(s) ==
    /\ s \in free
    /\ free' = free \ {s}
    /\ owned' = owned \cup {s}

Return(s) ==
    /\ s \in owned
    /\ owned' = owned \ {s}
    /\ free' = free \cup {s}

Reset == free' = {} /\ owned' = {}

Next ==
    \/ \E S \in SUBSET Slot : Grow(S)
    \/ \E s \in Slot : Acquire(s) \/ Return(s)
    \/ Reset

Spec == Init /\ [][Next]_vars
=============================================================================
