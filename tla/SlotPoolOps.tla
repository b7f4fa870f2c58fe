---------------------------- MODULE SlotPoolOps ----------------------------
(***************************************************************************)
(* SlotPool<Traits> (base/pool/slot_pool.h) as operators on a pool value.  *)
(*                                                                         *)
(* A pool is a record of the class's parallel arrays: size (the length of  *)
(* payloads_), generations, created and freelist.  The payload objects     *)
(* themselves are left out: what the pool knows of a payload is its        *)
(* created flag.  A handle is a record with an index and a generation;     *)
(* every operator below reads only these two fields, so that a module may  *)
(* give its handles further (ghost) fields.                                *)
(*                                                                         *)
(* Here and in the other modules, an operator marked "Fault" is a variant  *)
(* of the operation that follows it, with a plausible mistake; nothing     *)
(* uses it.  The properties are tested against these variants.             *)
(***************************************************************************)
EXTENDS Integers, Sequences

CONSTANTS
    GenMod,          \* number of generation values: 2^8 for uint8_t, 2^32 for
                     \* uint32_t, 1 for a handle without generation (void)
    InvalidIndex,    \* Handle::invalid_index(), the largest index value
    DestroyOnRelease \* Traits::destroy_on_release

ASSUME SlotPoolConstants ==
    /\ GenMod \in Nat \ {0}
    /\ InvalidIndex \in Nat
    /\ DestroyOnRelease \in BOOLEAN

-----------------------------------------------------------------------------
(* State.                                                                  *)

Slots(p) == 0 .. (p.size - 1)

\* The four arrays of a pool of n slots.
PoolsOfSize(n) ==
    [ size : {n},
      generations : [0 .. (n - 1) -> 0 .. (GenMod - 1)],
      created : [0 .. (n - 1) -> BOOLEAN],
      freelist : Seq(0 .. (n - 1)) ]

IsPool(p) == \E n \in 0 .. InvalidIndex : p \in PoolsOfSize(n)

EmptyPool ==
    [ size |-> 0,
      generations |-> [i \in 0 .. -1 |-> 0],
      created |-> [i \in 0 .. -1 |-> FALSE],
      freelist |-> << >> ]

-----------------------------------------------------------------------------
(* Queries.                                                                *)

MakeHandle(p, i) == [ index |-> i, generation |-> p.generations[i] ]

\* In range, and of the slot's current generation.
IsValid(p, h) ==
    /\ h.index \in Slots(p)
    /\ h.generation = p.generations[h.index]

IsCreated(p, h) == IsValid(p, h) /\ p.created[h.index]

-----------------------------------------------------------------------------
(* Operations.                                                             *)

\* resize() grows only: it throws on a smaller size and on one past the
\* index type.
CanResize(p, n) == n \in p.size .. InvalidIndex

\* Fault: the loop that pushes the new indices stops one early.
ResizeLosingOne(p, n) ==
    [ size |-> n,
      generations |-> [i \in 0 .. (n - 1) |-> IF i < p.size THEN p.generations[i] ELSE 0],
      created |-> [i \in 0 .. (n - 1) |-> IF i < p.size THEN p.created[i] ELSE FALSE],
      freelist |-> p.freelist \o [k \in 1 .. (n - p.size - 1) |-> n - k] ]

\* The new slots start at generation 0, uncreated, and are pushed from the
\* highest index down, so that the lowest new index is on top.
Resize(p, n) ==
    [ size |-> n,
      generations |-> [i \in 0 .. (n - 1) |-> IF i < p.size THEN p.generations[i] ELSE 0],
      created |-> [i \in 0 .. (n - 1) |-> IF i < p.size THEN p.created[i] ELSE FALSE],
      freelist |-> p.freelist \o [k \in 1 .. (n - p.size) |-> n - k] ]

\* createRange over the slots of "range": emplace skips a slot that is already
\* created, and Traits::create succeeds for those in "ok".  A failure on one
\* slot does not stop the loop.
CreateRange(p, range, ok) ==
    [ p EXCEPT !.created = [i \in Slots(p) |-> p.created[i] \/ i \in range \cap ok] ]

\* createRange (and createAll) return whether every emplace returned true.
AllCreated(p, range, ok) == \A i \in range : ~p.created[i] /\ i \in ok

Top(p) == p.freelist[Len(p.freelist)]

\* tryAcquireCreated (wanted = TRUE) and tryReserveUncreated (wanted = FALSE)
\* pop the last entry and, when it is of the wrong kind, push it back and pop
\* it again, scan_count times: only the top of the freelist is ever inspected.
CanTake(p, wanted) == p.freelist # << >> /\ p.created[Top(p)] = wanted

\* Fault: the slot on top is handed out and the one at the front is removed.
TakeFront(p) == [ p EXCEPT !.freelist = Tail(@) ]

Take(p) == [ p EXCEPT !.freelist = SubSeq(@, 1, Len(@) - 1) ]

\* emplace runs Traits::create only under this guard.
CanEmplace(p, h) == IsValid(p, h) /\ ~IsCreated(p, h)

SetCreated(p, h, flag) == [ p EXCEPT !.created[h.index] = flag ]

\* Fault: the range of the handle is checked, its generation is not.
CanReleaseAnyGeneration(p, h) == h.index \in Slots(p)

\* release refuses a stale handle and, with destroy_on_release, a slot that
\* holds no payload.
CanRelease(p, h) ==
    /\ IsValid(p, h)
    /\ DestroyOnRelease => IsCreated(p, h)

\* Fault: the generation is left as it was.
ReleaseSameGeneration(p, h) ==
    [ p EXCEPT !.created[h.index] = @ /\ ~DestroyOnRelease,
               !.freelist = Append(@, h.index) ]

\* Traits::destroy (when it is on), then releaseImpl: next generation, modulo
\* the width of the field, and back on top of the freelist.
Release(p, h) ==
    [ p EXCEPT !.created[h.index] = @ /\ ~DestroyOnRelease,
               !.generations[h.index] = (@ + 1) % GenMod,
               !.freelist = Append(@, h.index) ]

=============================================================================
