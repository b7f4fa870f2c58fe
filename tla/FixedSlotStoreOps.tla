------------------------- MODULE FixedSlotStoreOps -------------------------
(***************************************************************************)
(* FixedSlotStore<Traits> (base/pool/fixed_slot_store.h): the other pool   *)
(* of the managers, as operators on the pool values of SlotPoolOps.  It    *)
(* has no freelist: slots are created in order, next_uncreated_index_ is   *)
(* the first slot without a payload, and release gives nothing back.       *)
(***************************************************************************)
EXTENDS Integers, FiniteSetsExt

StoreSlots(p) == 0 .. (p.size - 1)

\* resizeStorage grows only.
StoreResize(p, n) ==
    [ p EXCEPT !.size = n,
               !.generations = [i \in 0 .. (n - 1) |-> IF i < p.size THEN @[i] ELSE 0],
               !.created = [i \in 0 .. (n - 1) |-> i < p.size /\ @[i]] ]

\* next_uncreated_index_, which emplace moves past the created slots.
NextUncreated(p) == Min({ i \in StoreSlots(p) : ~p.created[i] } \cup {p.size})

\* tryAcquireCreated only ever answers slot 0, and leaves it where it is;
\* tryReserveUncreated answers the next uncreated slot.
CanTakeSlot(p, wanted) ==
    IF wanted THEN NextUncreated(p) > 0 ELSE NextUncreated(p) < p.size

SlotTaken(p, wanted) == IF wanted THEN 0 ELSE NextUncreated(p)
=============================================================================
