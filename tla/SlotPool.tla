------------------------------ MODULE SlotPool ------------------------------
(***************************************************************************)
(* A slot pool and the clients of its handles.                             *)
(*                                                                         *)
(* pool is the program's state.  The other variables are history: held is  *)
(* the set of handles that a client obtained and has not given back, stale *)
(* the set of those it gave back and still remembers, and releases counts  *)
(* how often each slot has been released.  A handle carries the count at   *)
(* which it was issued in its ghost field "epoch".                         *)
(*                                                                         *)
(* A client may call release, emplace or destroy with a handle that it     *)
(* gave back before (a double release, a late call): this is what the      *)
(* generations are there to detect.  It does so at most StaleWindow        *)
(* releases of the slot later.                                             *)
(***************************************************************************)
EXTENDS SlotPoolOps

CONSTANT StaleWindow

ASSUME StaleWindowAssumption == StaleWindow \in Nat

VARIABLES pool, held, stale, releases

vars == << pool, held, stale, releases >>

Handles == [ index : Nat, generation : Nat, epoch : Nat ]

Init ==
    /\ pool = EmptyPool
    /\ held = {}
    /\ stale = {}
    /\ releases = [i \in 0 .. -1 |-> 0]

-----------------------------------------------------------------------------
\* The handles a client may present: its own, and those it remembers.
Presented ==
    held \cup { h \in stale : releases[h.index] - h.epoch < StaleWindow }

Issued(i) == [ index |-> i, generation |-> pool.generations[i], epoch |-> releases[i] ]

Grow(n) ==
    /\ CanResize(pool, n)
    /\ n > pool.size
    /\ pool' = Resize(pool, n)
    /\ releases' = [i \in 0 .. (n - 1) |-> IF i < pool.size THEN releases[i] ELSE 0]
    /\ UNCHANGED << held, stale >>

CreateAll(ok) ==
    /\ pool' = CreateRange(pool, Slots(pool), ok)
    /\ UNCHANGED << held, stale, releases >>

TakeSlot(wanted) ==
    /\ CanTake(pool, wanted)
    /\ pool' = Take(pool)
    /\ held' = held \cup { Issued(Top(pool)) }
    /\ UNCHANGED << stale, releases >>

AcquireCreated == TakeSlot(TRUE)

ReserveUncreated == TakeSlot(FALSE)

Emplace(h) ==
    /\ CanEmplace(pool, h)
    /\ pool' = SetCreated(pool, h, TRUE)
    /\ UNCHANGED << held, stale, releases >>

Destroy(h) ==
    /\ IsCreated(pool, h)
    /\ pool' = SetCreated(pool, h, FALSE)
    /\ UNCHANGED << held, stale, releases >>

ReleaseSlot(h) ==
    /\ CanRelease(pool, h)
    /\ pool' = Release(pool, h)
    /\ releases' = [releases EXCEPT ![h.index] = @ + 1]
    /\ held' = held \ {h}
    /\ stale' = stale \cup {h}

\* clear() destroys every payload and drops the arrays.  The generations
\* restart at 0 with the next resize, so that a handle from before is not
\* told apart from a new one: its owner must forget it.
Clear ==
    /\ pool' = EmptyPool
    /\ held' = {}
    /\ stale' = {}
    /\ releases' = [i \in 0 .. -1 |-> 0]

Next ==
    \/ \E n \in 1 .. InvalidIndex : Grow(n)
    \/ \E ok \in SUBSET Slots(pool) : CreateAll(ok)
    \/ AcquireCreated
    \/ ReserveUncreated
    \/ \E h \in Presented : Emplace(h) \/ Destroy(h) \/ ReleaseSlot(h)
    \/ Clear

Spec == Init /\ [][Next]_vars

-----------------------------------------------------------------------------
TypeOK ==
    /\ IsPool(pool)
    /\ held \subseteq Handles
    /\ stale \subseteq Handles
    /\ releases \in [Slots(pool) -> Nat]

\* A slot that a client holds is on no other client's hands and not on the
\* freelist, whatever late or double release was attempted on it: the handle
\* is the slot's current one and names it alone.
HeldExclusively ==
    /\ \A h \in held : IsValid(pool, h)
    /\ \A h \in held, g \in held : h.index = g.index => h = g
    /\ \A h \in held, k \in 1 .. Len(pool.freelist) : pool.freelist[k] # h.index

\* A slot is never on the freelist twice: two acquisitions never return it.
FreelistDistinct ==
    \A j, k \in 1 .. Len(pool.freelist) :
        pool.freelist[j] = pool.freelist[k] => j = k

\* No slot is lost: a slot that nobody holds can be acquired again.
NoSlotLost ==
    \A i \in Slots(pool) :
        \/ \E h \in held : h.index = i
        \/ \E k \in 1 .. Len(pool.freelist) : pool.freelist[k] = i

\* isValid() rejects a handle that was given back, until the generation field
\* of the slot has gone all the way round.
StaleRejected ==
    \A h \in stale :
        releases[h.index] - h.epoch < GenMod => ~IsValid(pool, h)

\* The pool implements exclusive slots: every call is one step of ExclusiveSlots
\* or none, and a release with a handle given back before is none.
FreeSlots == { pool.freelist[k] : k \in 1 .. Len(pool.freelist) }

HeldSlots == { h.index : h \in held }

Abstract == INSTANCE ExclusiveSlots
                WITH Slot <- 0 .. (InvalidIndex - 1), free <- FreeSlots, owned <- HeldSlots

ImplementsExclusiveSlots == Abstract!Spec

-----------------------------------------------------------------------------
(* The inductive invariant of SlotPoolProofs.                              *)

\* A slot's generation is the number of its releases modulo the width of the
\* field; a held handle is of the current epoch of its slot, a stale one of an
\* earlier epoch.
GenerationsTrack ==
    /\ \A i \in Slots(pool) : pool.generations[i] = releases[i] % GenMod
    /\ \A h \in held \cup stale : h.index \in Slots(pool) /\ h.generation = h.epoch % GenMod
    /\ \A h \in held : h.epoch = releases[h.index]
    /\ \A h \in stale : h.epoch < releases[h.index]

IInv ==
    /\ TypeOK
    /\ GenerationsTrack
    /\ HeldExclusively
    /\ FreelistDistinct
    /\ NoSlotLost
=============================================================================
