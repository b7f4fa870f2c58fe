------------------------- MODULE PoolManagerProofs -------------------------
(***************************************************************************)
(* Proofs about PoolManager, for any number of leases, any pool sizes and  *)
(* growth, with and without weak leases and the binding mixin.             *)
(*                                                                         *)
(* They assume what the code rests on.  Clients do not ask for a second    *)
(* control block of a leased payload, unless the mixin is there to find    *)
(* the first (Bindable \/ ~Reacquire: the run pool_manager_reacquire shows *)
(* what happens otherwise).  And no handle is remembered until the         *)
(* generation of its slot comes round (GenerationsFit).                    *)
(***************************************************************************)
EXTENDS PoolManager, FiniteSetTheorems, TLAPS

PL == INSTANCE SlotPoolOpsProofs WITH GenMod <- PayloadGenMod, InvalidIndex <- PayloadLimit
CL == INSTANCE SlotPoolOpsProofs WITH GenMod <- CbGenMod, InvalidIndex <- CbLimit,
                                      DestroyOnRelease <- FALSE

-----------------------------------------------------------------------------
Distinct(p) == \A j, k \in 1 .. Len(p.freelist) : p.freelist[j] = p.freelist[k] => j = k

(* The inductive invariant.                                                *)

\* No slot is on a freelist twice.
FreelistsDistinct == Distinct(payload_pool) /\ Distinct(control_block_pool)

\* A lease is on a control block of its generation, which is bound to the
\* payload of the lease or, once that was given back, to none.
LeasesOnBlocks ==
    \A l \in Lease : lease[l] # NoLease =>
        /\ C!IsValid(control_block_pool, lease[l].cb)
        /\ cb[lease[l].cb.index].payload \in {lease[l].payload, NoHandle}

\* A payload handle of a client is at most as new as its slot, and while it is
\* the slot's handle the slot is not free.
KnownHeld ==
    \A h \in known :
        /\ h.index \in P!Slots(payload_pool)
        /\ h.generation <= payload_pool.generations[h.index]
        /\ h.generation = payload_pool.generations[h.index] => ~Free(payload_pool, h.index)

\* A control block with strong leases has its payload, and the mixin knows it.
StrongBlocksBound ==
    \A i \in DOMAIN cb : cb[i].strong > 0 =>
        /\ P!IsCreated(payload_pool, cb[i].payload)
        /\ ~Free(payload_pool, cb[i].payload.index)
        /\ Bindable => bound[cb[i].payload.index] = C!MakeHandle(control_block_pool, i)

\* What the mixin remembers is the control block in use for the payload, or one
\* that was given back since, which only weak leases leave behind.
BoundTracks ==
    \A i \in DOMAIN bound : bound[i] # NoHandle =>
        /\ Bindable
        /\ bound[i].index \in C!Slots(control_block_pool)
        /\ \/ Weak /\ bound[i].generation < control_block_pool.generations[bound[i].index]
           \/ /\ bound[i].generation = control_block_pool.generations[bound[i].index]
              /\ ~Free(control_block_pool, bound[i].index)
              /\ cb[bound[i].index].payload = P!MakeHandle(payload_pool, i)

\* A configured manager has a payload block size.
ConfiguredSized == configured => payload_block_size # 0

IInv ==
    /\ TypeOK
    /\ ConfiguredSized
    /\ FreelistsDistinct
    /\ CountsExact
    /\ LeasesOnBlocks
    /\ BlocksReturned
    /\ FreeBlocksBindable
    /\ KnownHeld
    /\ StrongBlocksBound
    /\ OneBlockPerPayload
    /\ BoundTracks

\* No generation field comes round: a slot is released at most GenMod - 1 times
\* between two clears.  For the control blocks this matters only where a binding
\* may outlive its block.
GenerationsFit ==
    /\ \A i \in P!Slots(payload_pool) : payload_pool.generations[i] + 1 < PayloadGenMod
    /\ Bindable /\ Weak =>
        \A i \in C!Slots(control_block_pool) : control_block_pool.generations[i] + 1 < CbGenMod

-----------------------------------------------------------------------------
(* The operations of the two pools.                                        *)

LEMMA PayloadPool ==
    ASSUME NEW p
    PROVE  /\ P!IsPool(p) = PL!IsPool(p) /\ P!Slots(p) = PL!Slots(p)
           /\ Distinct(p) = PL!NoDuplicates(p)
           /\ P!Take(p) = PL!Take(p) /\ P!Top(p) = PL!Top(p)
           /\ P!EmptyPool = PL!EmptyPool
           /\ \A i : Free(p, i) = PL!OnFreelist(p, i)
           /\ \A h : P!Release(p, h) = PL!Release(p, h)
           /\ \A h : P!SetCreated(p, h, TRUE) = PL!SetCreated(p, h, TRUE)
           /\ \A n : P!Resize(p, n) = PL!Resize(p, n) /\ P!CanResize(p, n) = PL!CanResize(p, n)
           /\ \A range, ok : P!CreateRange(p, range, ok) = PL!CreateRange(p, range, ok)
<1>1. P!Slots(p) = PL!Slots(p)
  BY DEF P!Slots, PL!Slots
<1>2. P!IsPool(p) = PL!IsPool(p)
  BY DEF P!IsPool, PL!IsPool, P!PoolsOfSize, PL!PoolsOfSize
<1>3. Distinct(p) = PL!NoDuplicates(p)
  BY DEF Distinct, PL!NoDuplicates
<1>4. P!Take(p) = PL!Take(p)
  BY DEF P!Take, PL!Take
<1>5. P!Top(p) = PL!Top(p)
  BY DEF P!Top, PL!Top
<1>6. P!EmptyPool = PL!EmptyPool
  BY DEF P!EmptyPool, PL!EmptyPool
<1>7. ASSUME NEW i PROVE Free(p, i) = PL!OnFreelist(p, i)
  BY DEF Free, PL!OnFreelist
<1>8. ASSUME NEW h PROVE P!Release(p, h) = PL!Release(p, h)
  BY Zenon DEF P!Release, PL!Release
<1>9. ASSUME NEW h PROVE P!SetCreated(p, h, TRUE) = PL!SetCreated(p, h, TRUE)
  BY Zenon DEF P!SetCreated, PL!SetCreated
<1>10. ASSUME NEW n PROVE P!Resize(p, n) = PL!Resize(p, n) /\ P!CanResize(p, n) = PL!CanResize(p, n)
  BY Zenon DEF P!Resize, PL!Resize, P!CanResize, PL!CanResize
<1>11. ASSUME NEW range, NEW ok PROVE P!CreateRange(p, range, ok) = PL!CreateRange(p, range, ok)
  BY Zenon DEF P!CreateRange, PL!CreateRange, P!Slots, PL!Slots
<1> QED
  BY <1>1, <1>2, <1>3, <1>4, <1>5, <1>6, <1>7, <1>8, <1>9, <1>10, <1>11

\* The pool operators of this module and those of the lemmas are the same.
LEMMA BlockPool ==
    ASSUME NEW p
    PROVE  /\ C!IsPool(p) = CL!IsPool(p) /\ C!Slots(p) = CL!Slots(p)
           /\ Distinct(p) = CL!NoDuplicates(p)
           /\ C!Take(p) = CL!Take(p) /\ C!Top(p) = CL!Top(p)
           /\ C!EmptyPool = CL!EmptyPool
           /\ \A i : Free(p, i) = CL!OnFreelist(p, i)
           /\ \A h : C!Release(p, h) = CL!Release(p, h)
           /\ \A n : C!Resize(p, n) = CL!Resize(p, n) /\ C!CanResize(p, n) = CL!CanResize(p, n)
           /\ \A range, ok : C!CreateRange(p, range, ok) = CL!CreateRange(p, range, ok)
<1>1. C!Slots(p) = CL!Slots(p)
  BY DEF C!Slots, CL!Slots
<1>2. C!IsPool(p) = CL!IsPool(p)
  BY DEF C!IsPool, CL!IsPool, C!PoolsOfSize, CL!PoolsOfSize
<1>3. Distinct(p) = CL!NoDuplicates(p)
  BY DEF Distinct, CL!NoDuplicates
<1>4. C!Take(p) = CL!Take(p)
  BY DEF C!Take, CL!Take
<1>5. C!Top(p) = CL!Top(p)
  BY DEF C!Top, CL!Top
<1>6. C!EmptyPool = CL!EmptyPool
  BY DEF C!EmptyPool, CL!EmptyPool
<1>7. ASSUME NEW i PROVE Free(p, i) = CL!OnFreelist(p, i)
  BY DEF Free, CL!OnFreelist
<1>8. ASSUME NEW h PROVE C!Release(p, h) = CL!Release(p, h)
  BY Zenon DEF C!Release, CL!Release
<1>9. ASSUME NEW n PROVE C!Resize(p, n) = CL!Resize(p, n) /\ C!CanResize(p, n) = CL!CanResize(p, n)
  BY Zenon DEF C!Resize, CL!Resize, C!CanResize, CL!CanResize
<1>10. ASSUME NEW range, NEW ok PROVE C!CreateRange(p, range, ok) = CL!CreateRange(p, range, ok)
  BY Zenon DEF C!CreateRange, CL!CreateRange, C!Slots, CL!Slots
<1> QED
  BY <1>1, <1>2, <1>3, <1>4, <1>5, <1>6, <1>7, <1>8, <1>9, <1>10

\* The assumptions of SlotPoolOps hold for both pools.
LEMMA PoolConstants ==
    /\ PayloadGenMod \in Nat \ {0} /\ PayloadLimit \in Nat /\ DestroyOnRelease \in BOOLEAN
    /\ CbGenMod \in Nat \ {0} /\ CbLimit \in Nat /\ FALSE \in BOOLEAN
BY PoolManagerConstants

\* Only slots are free; generations are naturals.
LEMMA PayloadFields ==
    ASSUME NEW p, P!IsPool(p)
    PROVE  /\ p.size \in 0 .. PayloadLimit /\ p.size \in Nat
           /\ P!Slots(p) = 0 .. (p.size - 1)
           /\ p.generations \in [P!Slots(p) -> 0 .. (PayloadGenMod - 1)]
           /\ p.created \in [P!Slots(p) -> BOOLEAN]
           /\ \A i : Free(p, i) => i \in P!Slots(p)
           /\ \A i \in P!Slots(p) : i \in 0 .. (PayloadLimit - 1) /\ p.generations[i] \in Nat
<1>1. PL!IsPool(p)
  BY PayloadPool
<1>2. /\ p.size \in 0 .. PayloadLimit /\ p.size \in Nat
      /\ PL!Slots(p) = 0 .. (p.size - 1)
      /\ p.generations \in [PL!Slots(p) -> 0 .. (PayloadGenMod - 1)]
      /\ p.created \in [PL!Slots(p) -> BOOLEAN]
  BY <1>1, PL!PoolFields, PoolConstants
<1>3. \A i : Free(p, i) => i \in PL!Slots(p)
  BY <1>1, PL!FreeAreSlots, PoolConstants, PayloadPool
<1>4. P!Slots(p) = PL!Slots(p)
  BY PayloadPool
<1> QED
  BY <1>2, <1>3, <1>4, PoolConstants

\* The same for the pool of control blocks.
LEMMA BlockFields ==
    ASSUME NEW p, C!IsPool(p)
    PROVE  /\ p.size \in 0 .. CbLimit /\ p.size \in Nat
           /\ C!Slots(p) = 0 .. (p.size - 1)
           /\ p.generations \in [C!Slots(p) -> 0 .. (CbGenMod - 1)]
           /\ \A i : Free(p, i) => i \in C!Slots(p)
           /\ \A i \in C!Slots(p) : i \in 0 .. (CbLimit - 1) /\ p.generations[i] \in Nat
<1>1. CL!IsPool(p)
  BY BlockPool
<1>2. /\ p.size \in 0 .. CbLimit /\ p.size \in Nat
      /\ CL!Slots(p) = 0 .. (p.size - 1)
      /\ p.generations \in [CL!Slots(p) -> 0 .. (CbGenMod - 1)]
  BY <1>1, CL!PoolFields, PoolConstants
<1>3. \A i : Free(p, i) => i \in CL!Slots(p)
  BY <1>1, CL!FreeAreSlots, PoolConstants, BlockPool
<1>4. C!Slots(p) = CL!Slots(p)
  BY BlockPool
<1> QED
  BY <1>2, <1>3, <1>4, PoolConstants

\* Payload pool q has the slots of p with their generations and payloads, and
\* frees none of them.
PayloadsKept(p, q) ==
    /\ P!IsPool(q) /\ Distinct(q)
    /\ \A i \in P!Slots(p) :
        /\ i \in P!Slots(q)
        /\ q.generations[i] = p.generations[i]
        /\ p.created[i] => q.created[i]
        /\ Free(q, i) => Free(p, i)

\* A pool keeps what it has.
LEMMA PayloadsKeptSame ==
    ASSUME NEW p, P!IsPool(p), Distinct(p)
    PROVE  PayloadsKept(p, p)
BY DEF PayloadsKept

\* Two steps that keep the payloads make one.
LEMMA PayloadsKeptTransitive ==
    ASSUME NEW p, NEW q, NEW r, PayloadsKept(p, q), PayloadsKept(q, r)
    PROVE  PayloadsKept(p, r)
BY DEF PayloadsKept

\* Taking the top of the freelist.
LEMMA PayloadTake ==
    ASSUME NEW p, P!IsPool(p), Distinct(p), p.freelist # << >>
    PROVE  /\ PayloadsKept(p, P!Take(p))
           /\ P!Top(p) \in P!Slots(p)
           /\ P!Take(p).generations = p.generations
           /\ P!Take(p).size = p.size
           /\ ~Free(P!Take(p), P!Top(p))
<1>1. PL!IsPool(p) /\ PL!NoDuplicates(p)
  BY PayloadPool
<1>2. /\ PL!IsPool(PL!Take(p)) /\ PL!NoDuplicates(PL!Take(p))
      /\ PL!Take(p).size = p.size
      /\ PL!Take(p).generations = p.generations
      /\ PL!Take(p).created = p.created
      /\ PL!Top(p) \in PL!Slots(p)
      /\ \A i : PL!OnFreelist(PL!Take(p), i) <=> PL!OnFreelist(p, i) /\ i # PL!Top(p)
  BY <1>1, PL!TakeEffect, PoolConstants
<1>3. PL!Take(p) = P!Take(p) /\ PL!Top(p) = P!Top(p) /\ PL!Slots(p) = P!Slots(p)
  BY PayloadPool
<1>4. P!IsPool(P!Take(p)) /\ Distinct(P!Take(p))
  BY <1>2, <1>3, PayloadPool
<1>5. \A i : Free(P!Take(p), i) <=> Free(p, i) /\ i # P!Top(p)
  BY <1>2, <1>3, PayloadPool
<1>6. P!Slots(P!Take(p)) = P!Slots(p)
  BY <1>2, <1>3 DEF P!Slots
<1> QED
  BY <1>2, <1>3, <1>4, <1>5, <1>6 DEF PayloadsKept

\* Growing the pool.
LEMMA PayloadResize ==
    ASSUME NEW p, P!IsPool(p), Distinct(p), NEW n, P!CanResize(p, n)
    PROVE  /\ PayloadsKept(p, P!Resize(p, n))
           /\ P!Resize(p, n).size = n
           /\ n > p.size => P!Resize(p, n).freelist # << >>
<1>1. PL!IsPool(p) /\ PL!NoDuplicates(p) /\ PL!CanResize(p, n)
  BY PayloadPool
<1>2. PICK q : q = PL!Resize(p, n)
  OBVIOUS
<1>3. /\ PL!IsPool(q) /\ PL!NoDuplicates(q) /\ q.size = n
      /\ n \in Nat /\ p.size \in Nat /\ n >= p.size
      /\ \A i \in PL!Slots(p) : /\ i \in PL!Slots(q)
                                /\ q.generations[i] = p.generations[i]
                                /\ q.created[i] = p.created[i]
      /\ \A i : PL!OnFreelist(q, i) <=> PL!OnFreelist(p, i) \/ i \in p.size .. (n - 1)
      /\ n > p.size => q.freelist # << >>
  BY <1>1, <1>2, PL!ResizeEffect, PoolConstants
<1>4. P!Resize(p, n) = q
  BY <1>2, PayloadPool
<1>5. \A i \in P!Slots(p) : i \notin p.size .. (n - 1)
  BY <1>3 DEF P!Slots
<1>6. \A i \in P!Slots(p) : Free(q, i) => Free(p, i)
  BY <1>3, <1>5, PayloadPool
<1>7. P!IsPool(q) /\ Distinct(q) /\ P!Slots(p) = PL!Slots(p) /\ P!Slots(q) = PL!Slots(q)
  BY <1>3, PayloadPool
<1> QED
  BY <1>3, <1>4, <1>6, <1>7 DEF PayloadsKept

\* createRange, whichever creations fail.
LEMMA PayloadCreateRange ==
    ASSUME NEW p, P!IsPool(p), Distinct(p), NEW range, NEW ok
    PROVE  /\ PayloadsKept(p, P!CreateRange(p, range, ok))
           /\ P!CreateRange(p, range, ok).size = p.size
           /\ P!CreateRange(p, range, ok).freelist = p.freelist
<1>1. PL!IsPool(p) /\ PL!NoDuplicates(p)
  BY PayloadPool
<1>2. PICK q : q = PL!CreateRange(p, range, ok)
  OBVIOUS
<1>3. /\ PL!IsPool(q) /\ PL!NoDuplicates(q)
      /\ q.size = p.size /\ q.generations = p.generations /\ q.freelist = p.freelist
      /\ \A i \in PL!Slots(p) : p.created[i] => q.created[i]
  BY <1>1, <1>2, PL!CreateRangeEffect, PoolConstants
<1>4. P!CreateRange(p, range, ok) = q /\ P!IsPool(q) /\ Distinct(q) /\ P!Slots(p) = PL!Slots(p)
  BY <1>2, <1>3, PayloadPool
<1>5. P!Slots(q) = P!Slots(p) /\ \A i : Free(q, i) = Free(p, i)
  BY <1>3 DEF P!Slots, Free
<1> QED
  BY <1>3, <1>4, <1>5 DEF PayloadsKept

\* emplace.
LEMMA PayloadEmplace ==
    ASSUME NEW p, P!IsPool(p), Distinct(p), NEW h, h.index \in P!Slots(p)
    PROVE  /\ PayloadsKept(p, P!SetCreated(p, h, TRUE))
           /\ P!SetCreated(p, h, TRUE).size = p.size
<1>1. PL!IsPool(p) /\ PL!NoDuplicates(p) /\ h.index \in PL!Slots(p)
  BY PayloadPool
<1>2. PICK q : q = PL!SetCreated(p, h, TRUE)
  OBVIOUS
<1>3. /\ PL!IsPool(q) /\ PL!NoDuplicates(q)
      /\ q.size = p.size /\ q.generations = p.generations /\ q.freelist = p.freelist
      /\ \A i \in PL!Slots(p) : p.created[i] => q.created[i]
  BY <1>1, <1>2, PL!EmplaceEffect, PoolConstants
<1>4. P!SetCreated(p, h, TRUE) = q /\ P!IsPool(q) /\ Distinct(q) /\ P!Slots(p) = PL!Slots(p)
  BY <1>2, <1>3, PayloadPool
<1>5. P!Slots(q) = P!Slots(p) /\ \A i : Free(q, i) = Free(p, i)
  BY <1>3 DEF P!Slots, Free
<1> QED
  BY <1>3, <1>4, <1>5 DEF PayloadsKept

\* Payload pool q is p with slot i released.
PayloadReleased(p, q, i) ==
    /\ P!IsPool(q) /\ Distinct(q)
    /\ P!Slots(q) = P!Slots(p)
    /\ \A j \in P!Slots(p) : j # i => q.generations[j] = p.generations[j] /\ q.created[j] = p.created[j]
    /\ p.generations[i] + 1 < PayloadGenMod => q.generations[i] = p.generations[i] + 1
    /\ \A j : Free(q, j) <=> Free(p, j) \/ j = i

\* A generation that does not come round is counted up.
LEMMA NoWrap ==
    ASSUME NEW m \in Nat \ {0}, NEW a \in 0 .. (m - 1), a + 1 < m
    PROVE  (a + 1) % m = a + 1
OBVIOUS

\* release of a slot in use.
LEMMA PayloadRelease ==
    ASSUME NEW p, P!IsPool(p), Distinct(p), NEW h, h.index \in P!Slots(p), ~Free(p, h.index)
    PROVE  PayloadReleased(p, P!Release(p, h), h.index)
<1>1. PL!IsPool(p) /\ PL!NoDuplicates(p) /\ h.index \in PL!Slots(p) /\ ~PL!OnFreelist(p, h.index)
  BY PayloadPool
<1>2. PICK q : q = PL!Release(p, h)
  OBVIOUS
<1> DEFINE i == h.index
<1>3. /\ PL!IsPool(q) /\ PL!NoDuplicates(q) /\ q.size = p.size
      /\ q.generations[i] = (p.generations[i] + 1) % PayloadGenMod
      /\ \A j \in PL!Slots(p) : j # i => /\ q.generations[j] = p.generations[j]
                                         /\ q.created[j] = p.created[j]
      /\ \A j : PL!OnFreelist(q, j) <=> PL!OnFreelist(p, j) \/ j = i
  BY <1>1, <1>2, PL!ReleaseEffect, PoolConstants
<1>5. p.generations \in [P!Slots(p) -> 0 .. (PayloadGenMod - 1)]
  BY PayloadFields
<1>6. P!Release(p, h) = q /\ P!IsPool(q) /\ Distinct(q) /\ P!Slots(p) = PL!Slots(p)
  BY <1>2, <1>3, PayloadPool
<1>7. \A j : Free(q, j) <=> Free(p, j) \/ j = i
  BY <1>3, PayloadPool
<1>8. P!Slots(q) = P!Slots(p)
  BY <1>3 DEF P!Slots
<1>9. p.generations[i] + 1 < PayloadGenMod => q.generations[i] = p.generations[i] + 1
  BY <1>3, <1>5, NoWrap, PoolConstants
<1> QED
  BY <1>3, <1>6, <1>7, <1>8, <1>9 DEF PayloadReleased

\* Control blocks q, d are p, b with new blocks, all free and fresh.
BlocksGrown(p, q, b, d) ==
    /\ C!IsPool(q) /\ Distinct(q)
    /\ d = [i \in C!Slots(q) |-> d[i]]
    /\ \A i \in C!Slots(p) :
        /\ i \in C!Slots(q)
        /\ q.generations[i] = p.generations[i]
        /\ Free(q, i) <=> Free(p, i)
        /\ d[i] = b[i]
    /\ \A i \in C!Slots(q) : i \notin C!Slots(p) => Free(q, i) /\ d[i] = FreshBlock

\* Growing by nothing.
LEMMA BlocksGrownSame ==
    ASSUME NEW p, NEW b, C!IsPool(p), Distinct(p), b = [i \in C!Slots(p) |-> b[i]]
    PROVE  BlocksGrown(p, p, b, b)
BY DEF BlocksGrown

\* Growing the control block pool adds free, fresh blocks.
LEMMA BlocksGrow ==
    ASSUME C!IsPool(control_block_pool), Distinct(control_block_pool),
           DOMAIN cb = C!Slots(control_block_pool),
           NEW n, C!CanResize(control_block_pool, n)
    PROVE  /\ BlocksGrown(control_block_pool, GrownBlocks(n), cb, ResizeBlocks(n))
           /\ n > control_block_pool.size => GrownBlocks(n).freelist # << >>
<1>0. PICK p : p = control_block_pool
  OBVIOUS
<1>1. CL!IsPool(p) /\ CL!NoDuplicates(p) /\ CL!CanResize(p, n)
  BY <1>0, BlockPool
<1>2. PICK r : r = CL!Resize(p, n)
  OBVIOUS
<1>3. /\ CL!IsPool(r) /\ CL!NoDuplicates(r) /\ r.size = n
      /\ n \in Nat /\ p.size \in Nat /\ n >= p.size
      /\ \A i \in CL!Slots(p) : i \in CL!Slots(r) /\ r.generations[i] = p.generations[i]
      /\ \A i : CL!OnFreelist(r, i) <=> CL!OnFreelist(p, i) \/ i \in p.size .. (n - 1)
      /\ n > p.size => r.freelist # << >>
  BY <1>1, <1>2, CL!ResizeEffect, PoolConstants
<1>4. PICK q : q = CL!CreateRange(r, p.size .. (n - 1), 0 .. (n - 1))
  OBVIOUS
<1>5. /\ CL!IsPool(q) /\ CL!NoDuplicates(q)
      /\ q.size = r.size /\ q.generations = r.generations /\ q.freelist = r.freelist
  BY <1>3, <1>4, CL!CreateRangeEffect, PoolConstants
<1>6. q = GrownBlocks(n)
  BY <1>0, <1>2, <1>4, BlockPool DEF GrownBlocks
<1>7. C!IsPool(q) /\ Distinct(q)
  BY <1>5, BlockPool
<1>8. C!Slots(p) = 0 .. (p.size - 1) /\ C!Slots(q) = 0 .. (n - 1) /\ C!Slots(r) = C!Slots(q)
  BY <1>3, <1>5 DEF C!Slots
<1>9. \A i : Free(q, i) <=> Free(p, i) \/ i \in p.size .. (n - 1)
  <2>1. \A i : Free(q, i) = Free(r, i)
    BY <1>5 DEF Free
  <2> QED
    BY <1>3, <2>1, BlockPool
<1>10. \A i \in C!Slots(p) : i \in C!Slots(q) /\ i \notin p.size .. (n - 1)
  BY <1>3, <1>8
<1>11. \A i \in C!Slots(q) : i \notin C!Slots(p) => i \in p.size .. (n - 1)
  BY <1>3, <1>8
<1>12. \A i \in C!Slots(p) : q.generations[i] = p.generations[i]
  BY <1>3, <1>5, BlockPool
<1>13. PICK d : d = ResizeBlocks(n)
  OBVIOUS
<1>14. d = [i \in C!Slots(q) |-> IF i \in C!Slots(p) THEN cb[i] ELSE FreshBlock]
  BY <1>0, <1>8, <1>13 DEF ResizeBlocks
<1>15. d = [i \in C!Slots(q) |-> d[i]]
  BY <1>14
<1>16. BlocksGrown(p, q, cb, d)
  BY <1>7, <1>9, <1>10, <1>11, <1>12, <1>14, <1>15 DEF BlocksGrown
<1> QED
  BY <1>0, <1>3, <1>5, <1>6, <1>13, <1>16

\* Taking a control block from the freelist.
LEMMA BlockTake ==
    ASSUME NEW p, C!IsPool(p), Distinct(p), p.freelist # << >>
    PROVE  /\ C!IsPool(C!Take(p)) /\ Distinct(C!Take(p))
           /\ C!Slots(C!Take(p)) = C!Slots(p)
           /\ C!Take(p).generations = p.generations
           /\ C!Top(p) \in C!Slots(p)
           /\ Free(p, C!Top(p))
           /\ \A i : Free(C!Take(p), i) <=> Free(p, i) /\ i # C!Top(p)
<1>1. CL!IsPool(p) /\ CL!NoDuplicates(p)
  BY BlockPool
<1>2. /\ CL!IsPool(CL!Take(p)) /\ CL!NoDuplicates(CL!Take(p))
      /\ CL!Take(p).size = p.size
      /\ CL!Take(p).generations = p.generations
      /\ CL!Top(p) \in CL!Slots(p)
      /\ CL!OnFreelist(p, CL!Top(p))
      /\ \A i : CL!OnFreelist(CL!Take(p), i) <=> CL!OnFreelist(p, i) /\ i # CL!Top(p)
  BY <1>1, CL!TakeEffect, PoolConstants
<1>3. CL!Take(p) = C!Take(p) /\ CL!Top(p) = C!Top(p) /\ CL!Slots(p) = C!Slots(p)
  BY BlockPool
<1>4. C!IsPool(C!Take(p)) /\ Distinct(C!Take(p))
  BY <1>2, <1>3, BlockPool
<1>5. Free(p, C!Top(p)) /\ \A i : Free(C!Take(p), i) <=> Free(p, i) /\ i # C!Top(p)
  BY <1>2, <1>3, BlockPool
<1>6. C!Slots(C!Take(p)) = C!Slots(p)
  BY <1>2, <1>3 DEF C!Slots
<1> QED
  BY <1>2, <1>3, <1>4, <1>5, <1>6

\* Control block pool q is p with slot i released.
BlockReleased(p, q, i) ==
    /\ C!IsPool(q) /\ Distinct(q)
    /\ C!Slots(q) = C!Slots(p)
    /\ \A j \in C!Slots(p) : j # i => q.generations[j] = p.generations[j]
    /\ p.generations[i] + 1 < CbGenMod => q.generations[i] = p.generations[i] + 1
    /\ \A j : Free(q, j) <=> Free(p, j) \/ j = i

\* Giving a control block back.
LEMMA BlockRelease ==
    ASSUME NEW p, C!IsPool(p), Distinct(p), NEW h, h.index \in C!Slots(p), ~Free(p, h.index)
    PROVE  BlockReleased(p, C!Release(p, h), h.index)
<1>1. CL!IsPool(p) /\ CL!NoDuplicates(p) /\ h.index \in CL!Slots(p) /\ ~CL!OnFreelist(p, h.index)
  BY BlockPool
<1>2. PICK q : q = CL!Release(p, h)
  OBVIOUS
<1> DEFINE i == h.index
<1>3. /\ CL!IsPool(q) /\ CL!NoDuplicates(q) /\ q.size = p.size
      /\ q.generations[i] = (p.generations[i] + 1) % CbGenMod
      /\ \A j \in CL!Slots(p) : j # i => q.generations[j] = p.generations[j]
      /\ \A j : CL!OnFreelist(q, j) <=> CL!OnFreelist(p, j) \/ j = i
  BY <1>1, <1>2, CL!ReleaseEffect, PoolConstants
<1>4. p.generations \in [C!Slots(p) -> 0 .. (CbGenMod - 1)]
  BY BlockFields
<1>5. C!Release(p, h) = q /\ C!IsPool(q) /\ Distinct(q) /\ C!Slots(p) = CL!Slots(p)
  BY <1>2, <1>3, BlockPool
<1>6. \A j : Free(q, j) <=> Free(p, j) \/ j = i
  BY <1>3, BlockPool
<1>7. C!Slots(q) = C!Slots(p)
  BY <1>3 DEF C!Slots
<1>8. p.generations[i] + 1 < CbGenMod => q.generations[i] = p.generations[i] + 1
  BY <1>3, <1>4, NoWrap, PoolConstants
<1> QED
  BY <1>3, <1>5, <1>6, <1>7, <1>8 DEF BlockReleased

\* Both pools start empty.
LEMMA EmptyPools ==
    /\ P!IsPool(P!EmptyPool) /\ Distinct(P!EmptyPool) /\ P!Slots(P!EmptyPool) = {}
    /\ P!EmptyPool.size = 0
    /\ C!IsPool(C!EmptyPool) /\ Distinct(C!EmptyPool) /\ C!Slots(C!EmptyPool) = {}
<1>1. PL!IsPool(PL!EmptyPool) /\ PL!NoDuplicates(PL!EmptyPool) /\ PL!Slots(PL!EmptyPool) = {}
      /\ PL!EmptyPool.size = 0
  BY PL!EmptyPoolEffect, PoolConstants
<1>2. CL!IsPool(CL!EmptyPool) /\ CL!NoDuplicates(CL!EmptyPool) /\ CL!Slots(CL!EmptyPool) = {}
  BY CL!EmptyPoolEffect, PoolConstants
<1> QED
  BY <1>1, <1>2, PayloadPool, BlockPool

-----------------------------------------------------------------------------
(* The counts, read as statements about lease objects.                     *)

\* The leases of one kind on a control block.
On(i, kind) == { l \in Lease : lease[l].kind = kind /\ lease[l].cb.index = i }

OnBlock(x, i, kind) == x.kind = kind /\ x.cb.index = i

One(b) == IF b THEN 1 ELSE 0

\* The leases on a block can be counted.
LEMMA OnFinite ==
    ASSUME NEW i, NEW kind
    PROVE  IsFiniteSet(On(i, kind)) /\ Cardinality(On(i, kind)) \in Nat
<1>1. On(i, kind) \subseteq Lease /\ IsFiniteSet(Lease)
  BY PoolManagerConstants DEF On
<1> QED
  BY <1>1, FS_Subset, FS_CardinalityType

\* What the counts 0 and 1 say of the leases.
LEMMA OnSome ==
    ASSUME NEW i, NEW kind
    PROVE  /\ Cardinality(On(i, kind)) = 0 <=> \A l \in Lease : ~OnBlock(lease[l], i, kind)
           /\ \A l \in Lease : OnBlock(lease[l], i, kind) /\ Cardinality(On(i, kind)) = 1 =>
                \A n \in Lease : OnBlock(lease[n], i, kind) => n = l
<1>1. IsFiniteSet(On(i, kind)) /\ Cardinality(On(i, kind)) \in Nat
  BY OnFinite
<1>2. \A l \in Lease : l \in On(i, kind) <=> OnBlock(lease[l], i, kind)
  BY DEF On, OnBlock
<1>3. On(i, kind) \subseteq Lease
  BY DEF On
<1>4. Cardinality(On(i, kind)) = 0 <=> On(i, kind) = {}
  BY <1>1, FS_EmptySet
<1>5. ASSUME NEW l \in Lease, OnBlock(lease[l], i, kind), Cardinality(On(i, kind)) = 1,
             NEW n \in Lease, OnBlock(lease[n], i, kind)
      PROVE  n = l
  <2>1. PICK x : On(i, kind) = {x}
    BY <1>1, <1>5, FS_Singleton
  <2> QED
    BY <1>2, <1>5, <2>1
<1> QED
  BY <1>2, <1>3, <1>4, <1>5

\* A step of one lease object changes the number of leases on a block by what the
\* object contributes before and after.
LEMMA OnChange ==
    ASSUME NEW a \in Lease, NEW i, NEW kind,
           \A m \in Lease : m # a => lease'[m] = lease[m]
    PROVE  Cardinality(On(i, kind)') =
             Cardinality(On(i, kind)) - One(OnBlock(lease[a], i, kind)) + One(OnBlock(lease'[a], i, kind))
<1> DEFINE S == On(i, kind)
           T == On(i, kind)'
           R == S \ {a}
<1>1. /\ IsFiniteSet(S) /\ Cardinality(S) \in Nat
      /\ IsFiniteSet(R) /\ Cardinality(R) \in Nat
  BY OnFinite, FS_Subset, FS_CardinalityType
<1>2. R = T \ {a}
  BY DEF On
<1>3. (a \in S <=> OnBlock(lease[a], i, kind)) /\ (a \in T <=> OnBlock(lease'[a], i, kind))
  BY DEF On, OnBlock
<1>4. Cardinality(S) = Cardinality(R) + One(OnBlock(lease[a], i, kind))
  <2>1. CASE a \in S
    <3>1. Cardinality(R) = Cardinality(S) - 1
      BY <1>1, <2>1, FS_RemoveElement
    <3> QED
      BY <1>1, <1>3, <2>1, <3>1 DEF One
  <2>2. CASE a \notin S
    <3>1. R = S
      BY <2>2
    <3>2. One(OnBlock(lease[a], i, kind)) = 0
      BY <1>3, <2>2 DEF One
    <3> HIDE DEF R, S
    <3> QED
      BY <1>1, <3>1, <3>2
  <2> QED
    BY <2>1, <2>2
<1>5. Cardinality(T) = Cardinality(R) + One(OnBlock(lease'[a], i, kind))
  <2>1. CASE a \in T
    <3>1. T = R \cup {a} /\ a \notin R
      BY <1>2, <2>1
    <3>2. Cardinality(R \cup {a}) = Cardinality(R) + 1
      BY <1>1, <3>1, FS_AddElement
    <3>3. One(OnBlock(lease'[a], i, kind)) = 1
      BY <1>3, <2>1 DEF One
    <3> HIDE DEF R, T
    <3> QED
      BY <1>1, <3>1, <3>2, <3>3
  <2>2. CASE a \notin T
    <3>1. R = T
      BY <1>2, <2>2
    <3>2. One(OnBlock(lease'[a], i, kind)) = 0
      BY <1>3, <2>2 DEF One
    <3> HIDE DEF R, T
    <3> QED
      BY <1>1, <3>1, <3>2
  <2> QED
    BY <2>1, <2>2
<1> HIDE DEF S, T, R
<1>6. One(OnBlock(lease[a], i, kind)) \in 0 .. 1 /\ One(OnBlock(lease'[a], i, kind)) \in 0 .. 1
  BY DEF One
<1> QED
  BY <1>1, <1>4, <1>5, <1>6 DEF S, T

-----------------------------------------------------------------------------
(* What the types say of leases, control blocks and handles.               *)

PayloadHandles == Handles(PayloadLimit, PayloadGenMod)
BlockHandles == Handles(CbLimit, CbGenMod)
Blocks == [ strong : Nat, weak : Nat, payload : PayloadHandles \cup {NoHandle} ]
Leases == [ kind : Kinds, cb : BlockHandles, payload : PayloadHandles ]

\* The kinds of lease.
LEMMA KindFacts ==
    /\ Kinds \subseteq {"strong", "weak"} /\ "strong" \in Kinds /\ "none" \notin Kinds
    /\ "weak" \in Kinds <=> Weak
BY DEF Kinds

\* The fields of the handles.
LEMMA HandleFacts ==
    /\ \A h \in PayloadHandles : /\ h.index \in 0 .. (PayloadLimit - 1)
                                 /\ h.generation \in 0 .. (PayloadGenMod - 1)
                                 /\ h = [ index |-> h.index, generation |-> h.generation ]
                                 /\ h # NoHandle
    /\ \A h \in BlockHandles : /\ h.index \in 0 .. (CbLimit - 1)
                               /\ h.generation \in 0 .. (CbGenMod - 1)
                               /\ h = [ index |-> h.index, generation |-> h.generation ]
                               /\ h # NoHandle
    /\ NoHandle.index = -1 /\ NoLease.kind = "none" /\ NoLease.cb = NoHandle
    /\ NoLease.payload = NoHandle
BY PoolConstants DEF PayloadHandles, BlockHandles, Handles, NoHandle, NoLease

\* A handle that a pool accepts is the one it would issue now.
LEMMA ValidHandles ==
    /\ \A p : \A h \in PayloadHandles : P!IsValid(p, h) => h = P!MakeHandle(p, h.index)
    /\ \A p : \A h \in BlockHandles : C!IsValid(p, h) => h = C!MakeHandle(p, h.index)
BY HandleFacts DEF P!IsValid, P!MakeHandle, C!IsValid, C!MakeHandle

\* The handle of a slot is a handle, and the pool accepts it.
LEMMA IssuedHandles ==
    /\ \A p : P!IsPool(p) => \A i \in P!Slots(p) :
        /\ P!MakeHandle(p, i) \in PayloadHandles /\ P!MakeHandle(p, i).index = i
        /\ P!MakeHandle(p, i).generation = p.generations[i]
    /\ \A p : C!IsPool(p) => \A i \in C!Slots(p) :
        /\ C!MakeHandle(p, i) \in BlockHandles /\ C!MakeHandle(p, i).index = i
        /\ C!MakeHandle(p, i).generation = p.generations[i]
<1>1. ASSUME NEW p, P!IsPool(p), NEW i \in P!Slots(p)
      PROVE  /\ P!MakeHandle(p, i) \in PayloadHandles /\ P!MakeHandle(p, i).index = i
             /\ P!MakeHandle(p, i).generation = p.generations[i]
  <2>1. i \in 0 .. (PayloadLimit - 1) /\ p.generations[i] \in 0 .. (PayloadGenMod - 1)
    BY <1>1, PayloadFields
  <2> QED
    BY <2>1 DEF P!MakeHandle, PayloadHandles, Handles
<1>2. ASSUME NEW p, C!IsPool(p), NEW i \in C!Slots(p)
      PROVE  /\ C!MakeHandle(p, i) \in BlockHandles /\ C!MakeHandle(p, i).index = i
             /\ C!MakeHandle(p, i).generation = p.generations[i]
  <2>1. i \in 0 .. (CbLimit - 1) /\ p.generations[i] \in 0 .. (CbGenMod - 1)
    BY <1>2, BlockFields
  <2> QED
    BY <2>1 DEF C!MakeHandle, BlockHandles, Handles
<1> QED
  BY <1>1, <1>2

ConfigTypes ==
    /\ configured \in BOOLEAN
    /\ payload_block_size \in BlockSizes \cup {0}
    /\ control_block_block_size \in BlockSizes \cup {0}

PayloadTypes ==
    /\ P!IsPool(payload_pool)
    /\ bound \in [P!Slots(payload_pool) -> BlockHandles \cup {NoHandle}]
    /\ known \subseteq PayloadHandles

BlockTypes ==
    /\ C!IsPool(control_block_pool)
    /\ cb \in [C!Slots(control_block_pool) -> Blocks]
    /\ lease \in [Lease -> {NoLease} \cup Leases]

\* The type invariant: configuration, payloads, blocks and leases.
LEMMA TypeParts == TypeOK <=> ConfigTypes /\ PayloadTypes /\ BlockTypes
BY DEF TypeOK, ConfigTypes, PayloadTypes, BlockTypes, PayloadHandles, BlockHandles, Blocks, Leases

\* The same for the next state.
LEMMA TypePartsNext == ConfigTypes' /\ PayloadTypes' /\ BlockTypes' => TypeOK'
BY DEF TypeOK, ConfigTypes, PayloadTypes, BlockTypes, PayloadHandles, BlockHandles, Blocks, Leases

\* The fields of a control block.
LEMMA BlockRecord ==
    /\ \A b \in Blocks : /\ b.strong \in Nat /\ b.weak \in Nat
                         /\ b.payload \in PayloadHandles \cup {NoHandle}
                         /\ b = [ strong |-> b.strong, weak |-> b.weak, payload |-> b.payload ]
    /\ \A s, w \in Nat : \A h \in PayloadHandles \cup {NoHandle} :
         [ strong |-> s, weak |-> w, payload |-> h ] \in Blocks
    /\ FreshBlock \in Blocks /\ FreshBlock.strong = 0 /\ FreshBlock.weak = 0
    /\ FreshBlock.payload = NoHandle
BY DEF Blocks, FreshBlock

\* The fields of a lease.
LEMMA LeaseRecord ==
    /\ \A x \in Leases : /\ x.kind \in Kinds /\ x.kind # "none" /\ x # NoLease
                         /\ x.cb \in BlockHandles /\ x.payload \in PayloadHandles
    /\ \A k \in Kinds : \A c \in BlockHandles : \A h \in PayloadHandles :
         [ kind |-> k, cb |-> c, payload |-> h ] \in Leases
BY KindFacts DEF Leases, NoLease

\* A lease object is empty or has the three fields.
LEMMA LeaseFields ==
    ASSUME BlockTypes, NEW l \in Lease
    PROVE  /\ lease[l] # NoLease => lease[l] \in Leases
           /\ lease[l].kind = "none" <=> lease[l] = NoLease
           /\ lease[l].kind \in Kinds => lease[l] # NoLease
           /\ lease[l].cb.index \in Int
<1>1. lease[l] \in {NoLease} \cup Leases
  BY DEF BlockTypes
<1> QED
  BY <1>1, LeaseRecord, HandleFacts, KindFacts, PoolConstants

\* A control block counts the leases on it.
LEMMA CountsRead ==
    ASSUME CountsExact, NEW i \in DOMAIN cb
    PROVE  /\ cb[i].strong = Cardinality(On(i, "strong"))
           /\ cb[i].weak = Cardinality(On(i, "weak"))
BY DEF CountsExact, On

\* A control block that a lease is on has a count, and is not free.
LEMMA LeasedBlocks ==
    ASSUME IInv, NEW l \in Lease, lease[l] # NoLease
    PROVE  /\ lease[l].cb.index \in DOMAIN cb
           /\ lease[l].kind = "strong" => cb[lease[l].cb.index].strong > 0
           /\ lease[l].kind = "weak" => cb[lease[l].cb.index].weak > 0
           /\ ~Free(control_block_pool, lease[l].cb.index)
<1> DEFINE i == lease[l].cb.index
<1>0. BlockTypes /\ CountsExact /\ LeasesOnBlocks /\ BlocksReturned
  BY TypeParts DEF IInv
<1>1. i \in DOMAIN cb
  BY <1>0 DEF LeasesOnBlocks, C!IsValid, BlockTypes
<1>2. cb[i] \in Blocks /\ cb[i].strong \in Nat /\ cb[i].weak \in Nat
  BY <1>0, <1>1, BlockRecord DEF BlockTypes
<1>3. lease[l].kind = "strong" => cb[i].strong # 0
  BY <1>0, <1>1, CountsRead, OnSome DEF OnBlock
<1>4. lease[l].kind = "weak" => cb[i].weak # 0
  BY <1>0, <1>1, CountsRead, OnSome DEF OnBlock
<1>5. lease[l].kind \in {"strong", "weak"}
  BY <1>0, LeaseFields, LeaseRecord, KindFacts
<1>6. cb[i].strong + cb[i].weak # 0
  BY <1>2, <1>3, <1>4, <1>5
<1> QED
  BY <1>0, <1>1, <1>2, <1>3, <1>4, <1>6 DEF BlocksReturned

-----------------------------------------------------------------------------
(* Growing control blocks.                                                 *)

LEMMA BlocksGrowStep ==
    ASSUME IInv, BlocksGrown(control_block_pool, control_block_pool', cb, cb'), lease' = lease
    PROVE  /\ BlockTypes' /\ CountsExact' /\ LeasesOnBlocks' /\ BlocksReturned'
           /\ FreeBlocksBindable' /\ OneBlockPerPayload'
<1>0. /\ BlockTypes /\ CountsExact /\ LeasesOnBlocks /\ BlocksReturned
      /\ FreeBlocksBindable /\ OneBlockPerPayload
  BY TypeParts DEF IInv
<1>1. /\ DOMAIN cb = C!Slots(control_block_pool) /\ DOMAIN cb' = C!Slots(control_block_pool')
      /\ DOMAIN cb \subseteq DOMAIN cb'
  BY <1>0 DEF BlockTypes, BlocksGrown
<1>2. /\ \A i \in DOMAIN cb : /\ cb'[i] = cb[i]
                              /\ Free(control_block_pool', i) <=> Free(control_block_pool, i)
                              /\ control_block_pool'.generations[i] = control_block_pool.generations[i]
      /\ \A i \in DOMAIN cb' : i \notin DOMAIN cb =>
            cb'[i] = FreshBlock /\ Free(control_block_pool', i)
  BY <1>1 DEF BlocksGrown
<1>3. \A i \in DOMAIN cb' : cb'[i] \in Blocks
  BY <1>0, <1>1, <1>2, BlockRecord DEF BlockTypes
<1>4. BlockTypes'
  <2>1. cb' \in [C!Slots(control_block_pool') -> Blocks]
    BY <1>1, <1>3 DEF BlocksGrown
  <2> QED
    BY <1>0, <2>1 DEF BlockTypes, BlocksGrown
<1>5. \A l \in Lease : lease[l] # NoLease => lease[l].cb.index \in DOMAIN cb
  BY <1>0, <1>1 DEF LeasesOnBlocks, C!IsValid
<1>6. CountsExact'
  <2>1. ASSUME NEW i \in DOMAIN cb', NEW kind \in {"strong", "weak"}, i \notin DOMAIN cb
        PROVE  Cardinality(On(i, kind)) = 0
    <3>1. ASSUME NEW l \in Lease PROVE ~OnBlock(lease[l], i, kind)
      <4>1. lease[l] = NoLease => lease[l].kind = "none"
        BY HandleFacts
      <4> QED
        BY <1>5, <2>1, <4>1 DEF OnBlock
    <3> QED
      BY <3>1, OnSome
  <2>2. ASSUME NEW i \in DOMAIN cb'
        PROVE  /\ cb'[i].strong = Cardinality(On(i, "strong"))
               /\ cb'[i].weak = Cardinality(On(i, "weak"))
    BY <1>0, <1>2, <2>1, CountsRead, BlockRecord
  <2>3. \A i : On(i, "strong")' = On(i, "strong") /\ On(i, "weak")' = On(i, "weak")
    BY DEF On
  <2>4. \A i \in DOMAIN cb' : /\ cb'[i].strong = Cardinality(On(i, "strong")')
                              /\ cb'[i].weak = Cardinality(On(i, "weak")')
    BY <2>2, <2>3
  <2> QED
    BY <2>4 DEF CountsExact, On
<1>7. LeasesOnBlocks'
  BY <1>0, <1>1, <1>2 DEF LeasesOnBlocks, C!IsValid
<1>8. BlocksReturned'
  BY <1>0, <1>2, BlockRecord DEF BlocksReturned
<1>9. FreeBlocksBindable'
  BY <1>0, <1>2, BlockRecord DEF FreeBlocksBindable, CanBindPayload
<1>10. OneBlockPerPayload'
  <2>1. \A i \in DOMAIN cb' : cb'[i].strong > 0 => i \in DOMAIN cb /\ cb'[i] = cb[i]
    BY <1>2, BlockRecord
  <2> QED
    BY <1>0, <2>1 DEF OneBlockPerPayload
<1> QED
  BY <1>4, <1>6, <1>7, <1>8, <1>9, <1>10

\* A payload pool that grows or gives out slots, and control blocks that grow.
LEMMA GrowthStep ==
    ASSUME IInv, ConfigTypes', ConfiguredSized', PayloadsKept(payload_pool, payload_pool'),
           bound' = [i \in P!Slots(payload_pool') |-> IF i \in DOMAIN bound THEN bound[i] ELSE NoHandle],
           BlocksGrown(control_block_pool, control_block_pool', cb, cb'), lease' = lease,
           \A h \in known' : h \in known \/ /\ h \in PayloadHandles
                                            /\ h.index \in P!Slots(payload_pool')
                                            /\ h.generation = payload_pool'.generations[h.index]
                                            /\ ~Free(payload_pool', h.index)
    PROVE  IInv'
<1>0. /\ PayloadTypes /\ BlockTypes /\ FreelistsDistinct /\ LeasesOnBlocks /\ KnownHeld
      /\ StrongBlocksBound /\ BoundTracks
  BY TypeParts DEF IInv
<1>1. /\ BlockTypes' /\ CountsExact' /\ LeasesOnBlocks' /\ BlocksReturned'
      /\ FreeBlocksBindable' /\ OneBlockPerPayload'
  BY BlocksGrowStep
<1>2. /\ DOMAIN bound = P!Slots(payload_pool) /\ DOMAIN bound' = P!Slots(payload_pool')
      /\ \A i \in DOMAIN bound : i \in DOMAIN bound' /\ bound'[i] = bound[i]
      /\ \A i \in DOMAIN bound' : i \notin DOMAIN bound => bound'[i] = NoHandle
  BY <1>0 DEF PayloadTypes, PayloadsKept
<1>3. \A i \in P!Slots(payload_pool) :
        /\ i \in P!Slots(payload_pool')
        /\ payload_pool'.generations[i] = payload_pool.generations[i]
        /\ payload_pool.created[i] => payload_pool'.created[i]
        /\ Free(payload_pool', i) => Free(payload_pool, i)
  BY DEF PayloadsKept
<1>4. TypeOK'
  <2>1. bound' \in [P!Slots(payload_pool') -> BlockHandles \cup {NoHandle}]
    BY <1>0, <1>2 DEF PayloadTypes
  <2>2. known' \subseteq PayloadHandles
    BY <1>0 DEF PayloadTypes
  <2>3. PayloadTypes'
    BY <2>1, <2>2 DEF PayloadTypes, PayloadsKept
  <2> QED
    BY <1>1, <2>3, TypePartsNext
<1>5. FreelistsDistinct'
  BY DEF FreelistsDistinct, PayloadsKept, BlocksGrown
<1>6. KnownHeld'
  <2> SUFFICES ASSUME NEW h \in known'
               PROVE  /\ h.index \in P!Slots(payload_pool')
                      /\ h.generation <= payload_pool'.generations[h.index]
                      /\ h.generation = payload_pool'.generations[h.index] => ~Free(payload_pool', h.index)
    BY DEF KnownHeld
  <2>1. CASE h \in known
    BY <1>0, <1>3, <2>1 DEF KnownHeld
  <2>2. CASE h \notin known
    <3>1. /\ h \in PayloadHandles /\ h.index \in P!Slots(payload_pool')
          /\ h.generation = payload_pool'.generations[h.index] /\ ~Free(payload_pool', h.index)
      BY <2>2
    <3>2. h.generation \in Nat
      BY <3>1, HandleFacts, PoolConstants
    <3> QED
      BY <3>1, <3>2
  <2> QED
    BY <2>1, <2>2
<1>7. /\ DOMAIN cb = C!Slots(control_block_pool) /\ DOMAIN cb' = C!Slots(control_block_pool')
      /\ \A i \in DOMAIN cb : /\ i \in DOMAIN cb' /\ cb'[i] = cb[i]
                              /\ Free(control_block_pool', i) <=> Free(control_block_pool, i)
                              /\ control_block_pool'.generations[i] = control_block_pool.generations[i]
      /\ \A i \in DOMAIN cb' : cb'[i].strong > 0 => i \in DOMAIN cb
  BY <1>0, <1>1, BlockRecord DEF BlockTypes, BlocksGrown
<1>8. StrongBlocksBound'
  <2> SUFFICES ASSUME NEW i \in DOMAIN cb', cb'[i].strong > 0
               PROVE  /\ P!IsCreated(payload_pool', cb'[i].payload)
                      /\ ~Free(payload_pool', cb'[i].payload.index)
                      /\ Bindable => bound'[cb'[i].payload.index] = C!MakeHandle(control_block_pool', i)
    BY DEF StrongBlocksBound
  <2>1. i \in DOMAIN cb /\ cb'[i] = cb[i] /\ cb[i].strong > 0
    BY <1>7
  <2>2. /\ P!IsCreated(payload_pool, cb[i].payload)
        /\ ~Free(payload_pool, cb[i].payload.index)
        /\ Bindable => bound[cb[i].payload.index] = C!MakeHandle(control_block_pool, i)
    BY <1>0, <2>1 DEF StrongBlocksBound
  <2>3. C!MakeHandle(control_block_pool', i) = C!MakeHandle(control_block_pool, i)
    BY <1>7, <2>1 DEF C!MakeHandle
  <2>4. cb[i].payload.index \in P!Slots(payload_pool)
    BY <2>2 DEF P!IsCreated, P!IsValid
  <2> QED
    BY <1>2, <1>3, <2>1, <2>2, <2>3, <2>4 DEF P!IsCreated, P!IsValid
<1>9. BoundTracks'
  <2> SUFFICES ASSUME NEW i \in DOMAIN bound', bound'[i] # NoHandle
               PROVE  /\ Bindable
                      /\ bound'[i].index \in C!Slots(control_block_pool')
                      /\ \/ Weak /\ bound'[i].generation < control_block_pool'.generations[bound'[i].index]
                         \/ /\ bound'[i].generation = control_block_pool'.generations[bound'[i].index]
                            /\ ~Free(control_block_pool', bound'[i].index)
                            /\ cb'[bound'[i].index].payload = P!MakeHandle(payload_pool', i)
    BY DEF BoundTracks
  <2>1. i \in DOMAIN bound /\ bound'[i] = bound[i]
    BY <1>2
  <2>2. P!MakeHandle(payload_pool', i) = P!MakeHandle(payload_pool, i)
    BY <1>2, <1>3, <2>1 DEF P!MakeHandle
  <2>3. /\ Bindable /\ bound[i].index \in C!Slots(control_block_pool)
        /\ \/ Weak /\ bound[i].generation < control_block_pool.generations[bound[i].index]
           \/ /\ bound[i].generation = control_block_pool.generations[bound[i].index]
              /\ ~Free(control_block_pool, bound[i].index)
              /\ cb[bound[i].index].payload = P!MakeHandle(payload_pool, i)
    BY <1>0, <2>1 DEF BoundTracks
  <2> QED
    BY <1>7, <2>1, <2>2, <2>3
<1> QED
  BY <1>1, <1>4, <1>5, <1>6, <1>8, <1>9 DEF IInv

\* A payload pool that starts again, when no strong lease is left.
LEMMA ResetStep ==
    ASSUME IInv, ConfigTypes', ConfiguredSized', P!IsPool(payload_pool'), Distinct(payload_pool'),
           bound' = [i \in P!Slots(payload_pool') |-> NoHandle], known' = {}, CanTeardown,
           BlocksGrown(control_block_pool, control_block_pool', cb, cb'), lease' = lease
    PROVE  IInv'
<1>1. /\ BlockTypes' /\ CountsExact' /\ LeasesOnBlocks' /\ BlocksReturned'
      /\ FreeBlocksBindable' /\ OneBlockPerPayload'
  BY BlocksGrowStep
<1>2. TypeOK'
  <2>1. PayloadTypes'
    BY DEF PayloadTypes
  <2> QED
    BY <1>1, <2>1, TypePartsNext
<1>3. FreelistsDistinct'
  BY DEF FreelistsDistinct, BlocksGrown
<1>4. \A i \in DOMAIN cb' : cb'[i].strong = 0
  <2>1. DOMAIN cb = C!Slots(control_block_pool) /\ DOMAIN cb' = C!Slots(control_block_pool')
    BY <1>1, TypeParts DEF IInv, BlockTypes
  <2> QED
    BY <2>1, BlockRecord DEF BlocksGrown, CanTeardown
<1>5. StrongBlocksBound'
  BY <1>4 DEF StrongBlocksBound
<1>6. KnownHeld' /\ BoundTracks'
  BY DEF KnownHeld, BoundTracks
<1> QED
  BY <1>1, <1>2, <1>3, <1>5, <1>6 DEF IInv

\* configure, in each of the ways it may stop half way.
LEMMA ConfigureStep ==
    ASSUME IInv, NEW payloads \in 0 .. PayloadLimit, NEW blocks \in 0 .. CbLimit,
           NEW payload_bs \in BlockSizes, NEW block_bs \in BlockSizes,
           Configure(payloads, payload_bs, blocks, block_bs)
    PROVE  IInv'
<1> DEFINE reset == configured /\ payload_bs # payload_block_size
           pool1 == IF reset THEN P!EmptyPool ELSE payload_pool
           resized == P!CanResize(pool1, payloads)
           checked == resized /\ (control_block_block_size \notin {0, block_bs} => CanShutdown)
           done == checked /\ C!CanResize(control_block_pool, blocks)
<1>0. /\ ConfigTypes /\ PayloadTypes /\ BlockTypes /\ FreelistsDistinct
  BY TypeParts DEF IInv
<1>1. /\ payload_block_size \notin {0, payload_bs} => CanTeardown
      /\ payload_block_size' = payload_bs
      /\ payload_pool' = IF resized THEN P!Resize(pool1, payloads) ELSE pool1
      /\ known' = IF reset THEN {} ELSE known
      /\ bound' = IF reset THEN [i \in DOMAIN payload_pool'.created |-> NoHandle]
                           ELSE ResizeBound(payload_pool'.size)
      /\ control_block_block_size' = IF checked THEN block_bs ELSE control_block_block_size
      /\ control_block_pool' = IF done THEN GrownBlocks(blocks) ELSE control_block_pool
      /\ cb' = IF done THEN ResizeBlocks(blocks) ELSE cb
      /\ configured' = (configured \/ done)
      /\ lease' = lease
  BY Zenon DEF Configure
<1>2. ConfigTypes' /\ ConfiguredSized'
  <2>1. configured' \in BOOLEAN
    BY <1>0, <1>1, Zenon DEF ConfigTypes
  <2> HIDE DEF checked, done, resized, reset, pool1
  <2> QED
    BY <1>0, <1>1, <2>1, PoolManagerConstants DEF ConfigTypes, ConfiguredSized
<1>3. DOMAIN cb = C!Slots(control_block_pool) /\ cb = [i \in C!Slots(control_block_pool) |-> cb[i]]
  BY <1>0 DEF BlockTypes
<1>4. BlocksGrown(control_block_pool, control_block_pool', cb, cb')
  <2>1. CASE done
    <3>1. control_block_pool' = GrownBlocks(blocks) /\ cb' = ResizeBlocks(blocks)
      BY <1>1, <2>1, Zenon
    <3>2. C!CanResize(control_block_pool, blocks)
      BY <2>1
    <3> QED
      BY <1>0, <1>3, <3>1, <3>2, BlocksGrow DEF BlockTypes, FreelistsDistinct
  <2>2. CASE ~done
    <3>1. control_block_pool' = control_block_pool /\ cb' = cb
      BY <1>1, <2>2, Zenon
    <3> QED
      BY <1>0, <1>3, <3>1, BlocksGrownSame DEF BlockTypes, FreelistsDistinct
  <2> QED
    BY <2>1, <2>2
<1>5. P!IsPool(pool1) /\ Distinct(pool1)
  BY <1>0, EmptyPools DEF PayloadTypes, FreelistsDistinct
<1>6. PayloadsKept(pool1, payload_pool')
  <2> HIDE DEF pool1
  <2>1. CASE resized
    <3>1. payload_pool' = P!Resize(pool1, payloads)
      BY <1>1, <2>1, Zenon
    <3> QED
      BY <1>5, <2>1, <3>1, PayloadResize
  <2>2. CASE ~resized
    <3>1. payload_pool' = pool1
      BY <1>1, <2>2, Zenon
    <3> QED
      BY <1>5, <3>1, PayloadsKeptSame
  <2> QED
    BY <2>1, <2>2
<1>7. CASE reset
  <2>1. CanTeardown
    BY <1>1, <1>7 DEF IInv, ConfiguredSized
  <2>2. bound' = [i \in P!Slots(payload_pool') |-> NoHandle] /\ known' = {}
    <3>1. bound' = [i \in DOMAIN payload_pool'.created |-> NoHandle] /\ known' = {}
      BY <1>1, <1>7, Zenon
    <3>2. DOMAIN payload_pool'.created = P!Slots(payload_pool')
      BY <1>6, PayloadFields DEF PayloadsKept
    <3> QED
      BY <3>1, <3>2
  <2>3. P!IsPool(payload_pool') /\ Distinct(payload_pool')
    BY <1>6 DEF PayloadsKept
  <2>4. lease' = lease
    BY <1>1
  <2> QED
    BY <1>2, <1>4, <2>1, <2>2, <2>3, <2>4, ResetStep
<1>8. CASE ~reset
  <2>1. PayloadsKept(payload_pool, payload_pool')
    BY <1>6, <1>8
  <2>2. bound' = ResizeBound(payload_pool'.size) /\ known' = known
    BY <1>1, <1>8, Zenon
  <2>3. bound' = [i \in P!Slots(payload_pool') |-> IF i \in DOMAIN bound THEN bound[i] ELSE NoHandle]
    BY <2>2 DEF ResizeBound, P!Slots
  <2>4. lease' = lease
    BY <1>1
  <2> QED
    BY <1>2, <1>4, <2>1, <2>2, <2>3, <2>4, GrowthStep
<1> QED
  BY <1>7, <1>8

\* shutdown, complete or refused after the payload pool was cleared.
LEMMA ShutdownStep ==
    ASSUME IInv, Shutdown
    PROVE  IInv'
<1>0. /\ ConfigTypes /\ PayloadTypes /\ BlockTypes /\ FreelistsDistinct /\ ConfiguredSized
      /\ CountsExact /\ LeasesOnBlocks
  BY TypeParts DEF IInv
<1>1. /\ payload_pool' = P!EmptyPool /\ known' = {} /\ lease' = lease /\ CanTeardown
      /\ bound' = [i \in 0 .. -1 |-> NoHandle]
      /\ payload_block_size' = payload_block_size
      /\ control_block_block_size' = control_block_block_size
      /\ configured /\ configured' = ~CanShutdown
      /\ control_block_pool' = IF CanShutdown THEN C!EmptyPool ELSE control_block_pool
      /\ cb' = IF CanShutdown THEN [i \in 0 .. -1 |-> FreshBlock] ELSE cb
  BY DEF Shutdown
<1>2. ConfigTypes' /\ ConfiguredSized'
  <2>1. configured' \in BOOLEAN
    BY <1>1, Zenon
  <2> QED
    BY <1>0, <1>1, <2>1 DEF ConfigTypes, ConfiguredSized
<1>3. P!IsPool(payload_pool') /\ Distinct(payload_pool') /\ P!Slots(payload_pool') = {}
  BY <1>1, EmptyPools
<1>4. bound' = [i \in P!Slots(payload_pool') |-> NoHandle]
  <2>1. 0 .. -1 = {}
    OBVIOUS
  <2> QED
    BY <1>1, <1>3, <2>1
<1>5. CASE ~CanShutdown
  <2>1. control_block_pool' = control_block_pool /\ cb' = cb
    BY <1>1, <1>5, Zenon
  <2>2. cb = [i \in C!Slots(control_block_pool) |-> cb[i]]
    BY <1>0 DEF BlockTypes
  <2>3. BlocksGrown(control_block_pool, control_block_pool', cb, cb')
    BY <1>0, <2>1, <2>2, BlocksGrownSame DEF BlockTypes, FreelistsDistinct
  <2> QED
    BY <1>1, <1>2, <1>3, <1>4, <2>3, ResetStep
<1>6. CASE CanShutdown
  <2>1. \A l \in Lease : lease[l] = NoLease
    <3> SUFFICES ASSUME NEW l \in Lease, lease[l] # NoLease PROVE FALSE
      OBVIOUS
    <3>1. /\ lease[l].cb.index \in DOMAIN cb
          /\ lease[l].kind = "strong" => cb[lease[l].cb.index].strong > 0
          /\ lease[l].kind = "weak" => cb[lease[l].cb.index].weak > 0
      BY LeasedBlocks
    <3>2. lease[l].kind \in {"strong", "weak"}
      BY <1>0, LeaseFields, LeaseRecord, KindFacts
    <3> QED
      BY <1>6, <3>1, <3>2 DEF CanShutdown
  <2>2. 0 .. -1 = {}
    OBVIOUS
  <2>3. control_block_pool' = C!EmptyPool /\ cb' = [i \in {} |-> FreshBlock]
    BY <1>1, <1>6, <2>2, Zenon
  <2>4. C!IsPool(control_block_pool') /\ Distinct(control_block_pool') /\ C!Slots(control_block_pool') = {}
    BY <2>3, EmptyPools
  <2>5. BlockTypes'
    BY <1>0, <1>1, <2>3, <2>4 DEF BlockTypes
  <2>6. PayloadTypes'
    BY <1>1, <1>3, <1>4 DEF PayloadTypes
  <2>7. TypeOK'
    BY <1>2, <2>5, <2>6, TypePartsNext
  <2>8. DOMAIN cb' = {} /\ DOMAIN bound' = {}
    BY <1>3, <1>4, <2>3
  <2>9. CountsExact' /\ BlocksReturned' /\ FreeBlocksBindable' /\ StrongBlocksBound' /\ OneBlockPerPayload'
    BY <2>8 DEF CountsExact, BlocksReturned, FreeBlocksBindable, StrongBlocksBound, OneBlockPerPayload
  <2>10. LeasesOnBlocks'
    BY <1>1, <2>1 DEF LeasesOnBlocks
  <2>11. KnownHeld' /\ BoundTracks'
    BY <1>1, <2>8 DEF KnownHeld, BoundTracks
  <2>12. FreelistsDistinct'
    BY <1>3, <2>4 DEF FreelistsDistinct
  <2> QED
    BY <1>2, <2>7, <2>9, <2>10, <2>11, <2>12 DEF IInv
<1> QED
  BY <1>5, <1>6

\* What clients learn about payload slots is theirs.
NewlyKnown(h) ==
    /\ h \in PayloadHandles
    /\ h.index \in P!Slots(payload_pool)
    /\ h.generation = payload_pool.generations[h.index]
    /\ ~Free(payload_pool, h.index)

\* A step on payload slots.
LEMMA PayloadStep ==
    ASSUME IInv, UNCHANGED << config, control_block_pool, cb, lease >>,
           PayloadsKept(payload_pool, payload_pool'),
           bound' = [i \in P!Slots(payload_pool') |-> IF i \in DOMAIN bound THEN bound[i] ELSE NoHandle],
           \A h \in known' : h \in known \/ NewlyKnown(h)'
    PROVE  IInv'
<1>0. ConfigTypes /\ ConfiguredSized /\ BlockTypes /\ FreelistsDistinct
  BY TypeParts DEF IInv
<1>1. ConfigTypes' /\ ConfiguredSized' /\ lease' = lease /\ control_block_pool' = control_block_pool /\ cb' = cb
  BY <1>0 DEF ConfigTypes, ConfiguredSized, config
<1>2. cb = [i \in C!Slots(control_block_pool) |-> cb[i]]
  BY <1>0 DEF BlockTypes
<1>3. BlocksGrown(control_block_pool, control_block_pool', cb, cb')
  BY <1>0, <1>1, <1>2, BlocksGrownSame DEF BlockTypes, FreelistsDistinct
<1> QED
  BY <1>1, <1>3, GrowthStep DEF NewlyKnown

\* The handle that HandOut gives out is the client's alone.
LEMMA HandOutFacts ==
    ASSUME NEW q, PayloadsKept(payload_pool, q), q.freelist # << >>, HandOut(q)
    PROVE  /\ PayloadsKept(payload_pool, payload_pool')
           /\ payload_pool'.size = q.size
           /\ \A h \in known' : h \in known \/ NewlyKnown(h)'
<1>1. payload_pool' = P!Take(q) /\ known' = known \cup { P!MakeHandle(q, P!Top(q)) }
  BY DEF HandOut
<1>2. P!IsPool(q) /\ Distinct(q)
  BY DEF PayloadsKept
<1>3. /\ PayloadsKept(q, payload_pool') /\ P!Top(q) \in P!Slots(q)
      /\ payload_pool'.generations = q.generations /\ payload_pool'.size = q.size
      /\ ~Free(payload_pool', P!Top(q))
  BY <1>1, <1>2, PayloadTake
<1>4. PayloadsKept(payload_pool, payload_pool')
  BY <1>3, PayloadsKeptTransitive
<1>5. NewlyKnown(P!MakeHandle(q, P!Top(q)))'
  <2>1. PICK h : h = P!MakeHandle(q, P!Top(q))
    OBVIOUS
  <2>2. h \in PayloadHandles /\ h.index = P!Top(q) /\ h.generation = q.generations[P!Top(q)]
    BY <1>2, <1>3, <2>1, IssuedHandles
  <2>3. P!Slots(payload_pool') = P!Slots(q)
    BY <1>3 DEF P!Slots
  <2>4. NewlyKnown(h)'
    BY <1>3, <2>2, <2>3 DEF NewlyKnown
  <2> QED
    BY <1>1, <2>1, <2>2, <2>3, <1>3 DEF NewlyKnown
<1> QED
  BY <1>1, <1>3, <1>4, <1>5

\* The binding table follows a pool that does not grow ...
LEMMA SameBound ==
    ASSUME PayloadTypes, bound' = bound, payload_pool'.size = payload_pool.size
    PROVE  bound' = [i \in P!Slots(payload_pool') |-> IF i \in DOMAIN bound THEN bound[i] ELSE NoHandle]
<1>1. P!Slots(payload_pool') = P!Slots(payload_pool)
  BY DEF P!Slots
<1>2. bound = [i \in P!Slots(payload_pool) |-> IF i \in DOMAIN bound THEN bound[i] ELSE NoHandle]
  BY DEF PayloadTypes
<1> QED
  BY <1>1, <1>2

\* ... and one that does.
LEMMA ResizedBound ==
    ASSUME NEW n, bound' = ResizeBound(n), payload_pool'.size = n
    PROVE  bound' = [i \in P!Slots(payload_pool') |-> IF i \in DOMAIN bound THEN bound[i] ELSE NoHandle]
BY DEF ResizeBound, P!Slots

\* createAllPayloads and emplacePayload.
LEMMA CreationSteps ==
    ASSUME IInv,
           \/ \E ok \in SUBSET P!Slots(payload_pool) : CreateAllPayloads(ok)
           \/ \E h \in known : EmplacePayload(h)
    PROVE  IInv'
<1>0. PayloadTypes /\ P!IsPool(payload_pool) /\ Distinct(payload_pool)
  BY TypeParts DEF IInv, PayloadTypes, FreelistsDistinct
<1>1. ASSUME NEW ok, CreateAllPayloads(ok) PROVE IInv'
  <2>1. /\ payload_pool' = P!CreateRange(payload_pool, P!Slots(payload_pool), ok)
        /\ UNCHANGED << config, control_block_pool, bound, cb, lease, known >>
    BY <1>1 DEF CreateAllPayloads
  <2>2. PayloadsKept(payload_pool, payload_pool') /\ payload_pool'.size = payload_pool.size
    BY <1>0, <2>1, PayloadCreateRange
  <2> QED
    BY <1>0, <2>1, <2>2, SameBound, PayloadStep
<1>2. ASSUME NEW h \in known, EmplacePayload(h) PROVE IInv'
  <2>1. /\ payload_pool' = P!SetCreated(payload_pool, h, TRUE)
        /\ h.index \in P!Slots(payload_pool)
        /\ UNCHANGED << config, control_block_pool, bound, cb, lease, known >>
    BY <1>2 DEF EmplacePayload, P!CanEmplace, P!IsValid
  <2>2. PayloadsKept(payload_pool, payload_pool') /\ payload_pool'.size = payload_pool.size
    BY <1>0, <2>1, PayloadEmplace
  <2> QED
    BY <1>0, <2>1, <2>2, SameBound, PayloadStep
<1> QED
  BY <1>1, <1>2

\* acquirePayloadOrGrowAndCreate, the creation that fails included.
LEMMA AcquirePayloadStep ==
    ASSUME IInv, NEW ok, AcquirePayloadOrGrowAndCreate(ok)
    PROVE  IInv'
<1>0. PayloadTypes /\ P!IsPool(payload_pool) /\ Distinct(payload_pool)
  BY TypeParts DEF IInv, PayloadTypes, FreelistsDistinct
<1> DEFINE n == payload_pool.size + PayloadGrowth
           new == payload_pool.size .. (n - 1)
           grown == P!Resize(payload_pool, n)
           created == P!CreateRange(grown, new, ok)
<1>1. UNCHANGED << config, control_block_pool, cb, lease >>
  BY DEF AcquirePayloadOrGrowAndCreate
<1>2. \/ P!CanTake(payload_pool, TRUE) /\ HandOut(payload_pool) /\ bound' = bound
      \/ /\ P!CanResize(payload_pool, n) /\ bound' = ResizeBound(n)
         /\ HandOut(created) \/ (payload_pool' = created /\ known' = known)
  BY Zenon DEF AcquirePayloadOrGrowAndCreate
<1>3. CASE P!CanTake(payload_pool, TRUE) /\ HandOut(payload_pool) /\ bound' = bound
  <2>1. PayloadsKept(payload_pool, payload_pool)
    BY <1>0, PayloadsKeptSame
  <2>2. payload_pool.freelist # << >>
    BY <1>3 DEF P!CanTake
  <2>3. /\ PayloadsKept(payload_pool, payload_pool') /\ payload_pool'.size = payload_pool.size
        /\ \A h \in known' : h \in known \/ NewlyKnown(h)'
    BY <1>3, <2>1, <2>2, HandOutFacts
  <2> QED
    BY <1>0, <1>1, <1>3, <2>3, SameBound, PayloadStep
<1>4. CASE /\ P!CanResize(payload_pool, n) /\ bound' = ResizeBound(n)
           /\ HandOut(created) \/ (payload_pool' = created /\ known' = known)
  <2>1. n > payload_pool.size
    BY <1>0, PayloadFields, PoolManagerConstants
  <2>2. PayloadsKept(payload_pool, grown) /\ grown.size = n /\ grown.freelist # << >>
    BY <1>0, <1>4, <2>1, PayloadResize
  <2>3. P!IsPool(grown) /\ Distinct(grown)
    BY <2>2 DEF PayloadsKept
  <2> HIDE DEF grown
  <2>4. PayloadsKept(grown, created) /\ created.size = n /\ created.freelist # << >>
    BY <2>2, <2>3, PayloadCreateRange
  <2>5. PayloadsKept(payload_pool, created)
    BY <2>2, <2>4, PayloadsKeptTransitive
  <2> HIDE DEF created
  <2>6. /\ PayloadsKept(payload_pool, payload_pool') /\ payload_pool'.size = n
        /\ \A h \in known' : h \in known \/ NewlyKnown(h)'
    <3>1. CASE HandOut(created)
      BY <2>4, <2>5, <3>1, HandOutFacts
    <3>2. CASE payload_pool' = created /\ known' = known
      BY <2>4, <2>5, <3>2
    <3> QED
      BY <1>4, <3>1, <3>2
  <2> QED
    BY <1>0, <1>1, <1>4, <2>6, ResizedBound, PayloadStep
<1> QED
  BY <1>2, <1>3, <1>4

\* reserveUncreatedPayloadOrGrow.
LEMMA ReservePayloadStep ==
    ASSUME IInv, ReserveUncreatedPayloadOrGrow
    PROVE  IInv'
<1>0. PayloadTypes /\ P!IsPool(payload_pool) /\ Distinct(payload_pool)
  BY TypeParts DEF IInv, PayloadTypes, FreelistsDistinct
<1> DEFINE n == payload_pool.size + PayloadGrowth
           grown == P!Resize(payload_pool, n)
<1>1. UNCHANGED << config, control_block_pool, cb, lease >>
  BY DEF ReserveUncreatedPayloadOrGrow
<1>2. \/ P!CanTake(payload_pool, FALSE) /\ HandOut(payload_pool) /\ bound' = bound
      \/ P!CanResize(payload_pool, n) /\ bound' = ResizeBound(n) /\ HandOut(grown)
  BY Zenon DEF ReserveUncreatedPayloadOrGrow
<1>3. CASE P!CanTake(payload_pool, FALSE) /\ HandOut(payload_pool) /\ bound' = bound
  <2>1. PayloadsKept(payload_pool, payload_pool)
    BY <1>0, PayloadsKeptSame
  <2>2. payload_pool.freelist # << >>
    BY <1>3 DEF P!CanTake
  <2>3. /\ PayloadsKept(payload_pool, payload_pool') /\ payload_pool'.size = payload_pool.size
        /\ \A h \in known' : h \in known \/ NewlyKnown(h)'
    BY <1>3, <2>1, <2>2, HandOutFacts
  <2> QED
    BY <1>0, <1>1, <1>3, <2>3, SameBound, PayloadStep
<1>4. CASE P!CanResize(payload_pool, n) /\ bound' = ResizeBound(n) /\ HandOut(grown)
  <2>1. n > payload_pool.size
    BY <1>0, PayloadFields, PoolManagerConstants
  <2>2. PayloadsKept(payload_pool, grown) /\ grown.size = n /\ grown.freelist # << >>
    BY <1>0, <1>4, <2>1, PayloadResize
  <2> HIDE DEF grown
  <2>3. /\ PayloadsKept(payload_pool, payload_pool') /\ payload_pool'.size = n
        /\ \A h \in known' : h \in known \/ NewlyKnown(h)'
    BY <1>4, <2>2, HandOutFacts
  <2> QED
    BY <1>0, <1>1, <1>4, <2>3, ResizedBound, PayloadStep
<1> QED
  BY <1>2, <1>3, <1>4

-----------------------------------------------------------------------------
(* One more lease, one lease less.                                         *)

LEMMA CountFacts ==
    ASSUME NEW b \in Blocks, NEW d \in Int
    PROVE  /\ Count(b, "strong", d) =
                [ strong |-> b.strong + d, weak |-> b.weak, payload |-> b.payload ]
           /\ Count(b, "weak", d) =
                [ strong |-> b.strong, weak |-> b.weak + d, payload |-> b.payload ]
<1>1. b = [ strong |-> b.strong, weak |-> b.weak, payload |-> b.payload ]
  BY BlockRecord
<1>2. Count(b, "strong", d) = [ b EXCEPT !.strong = b.strong + d ]
  BY DEF Count
<1>3. Count(b, "weak", d) = [ b EXCEPT !.weak = b.weak + d ]
  BY DEF Count
<1> QED
  BY <1>1, <1>2, <1>3

\* The block of index i before its first lease: a new one is fresh.
Before(i) == IF i \in DOMAIN cb THEN cb[i] ELSE FreshBlock

\* The blocks count as the lease object a changes to x.
LEMMA CountsStep ==
    ASSUME IInv, NEW a \in Lease, NEW x, lease' = [lease EXCEPT ![a] = x],
           \A i \in DOMAIN cb' :
             /\ cb'[i].strong = Before(i).strong - One(OnBlock(lease[a], i, "strong"))
                                                 + One(OnBlock(x, i, "strong"))
             /\ cb'[i].weak = Before(i).weak - One(OnBlock(lease[a], i, "weak"))
                                             + One(OnBlock(x, i, "weak"))
    PROVE  CountsExact'
<1>0. BlockTypes /\ CountsExact
  BY TypeParts DEF IInv
<1>1. lease'[a] = x /\ \A m \in Lease : m # a => lease'[m] = lease[m]
  BY <1>0 DEF BlockTypes
<1>2. ASSUME NEW i \in DOMAIN cb', NEW kind \in {"strong", "weak"}, i \notin DOMAIN cb
      PROVE  Cardinality(On(i, kind)) = 0
  <2>1. ASSUME NEW l \in Lease PROVE ~OnBlock(lease[l], i, kind)
    <3>1. lease[l] = NoLease => lease[l].kind = "none"
      BY HandleFacts
    <3> QED
      BY <1>2, <3>1, LeasedBlocks DEF OnBlock
  <2> QED
    BY <2>1, OnSome
<1>3. ASSUME NEW i \in DOMAIN cb'
      PROVE  /\ Before(i).strong = Cardinality(On(i, "strong"))
             /\ Before(i).weak = Cardinality(On(i, "weak"))
  BY <1>0, <1>2, CountsRead, BlockRecord DEF Before
<1>4. ASSUME NEW i \in DOMAIN cb'
      PROVE  /\ cb'[i].strong = Cardinality(On(i, "strong")')
             /\ cb'[i].weak = Cardinality(On(i, "weak")')
  <2>1. Cardinality(On(i, "strong")') = Cardinality(On(i, "strong"))
          - One(OnBlock(lease[a], i, "strong")) + One(OnBlock(x, i, "strong"))
    BY <1>1, OnChange
  <2>2. Cardinality(On(i, "weak")') = Cardinality(On(i, "weak"))
          - One(OnBlock(lease[a], i, "weak")) + One(OnBlock(x, i, "weak"))
    BY <1>1, OnChange
  <2> QED
    BY <1>3, <2>1, <2>2
<1> QED
  BY <1>4 DEF CountsExact, On

\* A lease more on control block c, which is in use for payload h.
LEMMA AddLease ==
    ASSUME IInv, NEW a \in Lease, lease[a] = NoLease,
           NEW c \in BlockHandles, C!IsValid(control_block_pool, c), ~Free(control_block_pool, c.index),
           NEW h \in PayloadHandles, cb[c.index].payload \in {h, NoHandle},
           NEW kind \in Kinds,
           kind = "strong" /\ cb[c.index].strong = 0 =>
             /\ P!IsCreated(payload_pool, cb[c.index].payload)
             /\ ~Free(payload_pool, cb[c.index].payload.index)
             /\ Bindable => bound[cb[c.index].payload.index] = C!MakeHandle(control_block_pool, c.index)
             /\ \A j \in DOMAIN cb : cb[j].strong > 0 => cb[j].payload # cb[c.index].payload,
           cb' = [cb EXCEPT ![c.index] = Count(cb[c.index], kind, 1)],
           lease' = [lease EXCEPT ![a] = [ kind |-> kind, cb |-> c, payload |-> h ]],
           UNCHANGED << config, payload_pool, control_block_pool, bound, known >>
    PROVE  IInv'
<1> DEFINE i == c.index
           x == [ kind |-> kind, cb |-> c, payload |-> h ]
<1>0. /\ ConfigTypes /\ PayloadTypes /\ BlockTypes /\ ConfiguredSized /\ FreelistsDistinct
      /\ CountsExact /\ LeasesOnBlocks /\ BlocksReturned /\ FreeBlocksBindable /\ KnownHeld
      /\ StrongBlocksBound /\ OneBlockPerPayload /\ BoundTracks
  BY TypeParts DEF IInv
<1>1. /\ payload_pool' = payload_pool /\ control_block_pool' = control_block_pool
      /\ bound' = bound /\ known' = known
      /\ ConfigTypes' /\ ConfiguredSized' /\ PayloadTypes'
  BY <1>0 DEF config, ConfigTypes, ConfiguredSized, PayloadTypes
<1>2. /\ i \in DOMAIN cb /\ DOMAIN cb = C!Slots(control_block_pool) /\ cb[i] \in Blocks
      /\ cb[i].strong \in Nat /\ cb[i].weak \in Nat
  BY <1>0, BlockRecord DEF BlockTypes, C!IsValid
<1>3. kind = "strong" \/ kind = "weak"
  BY KindFacts
<1>4. /\ DOMAIN cb' = DOMAIN cb /\ \A j \in DOMAIN cb : j # i => cb'[j] = cb[j]
      /\ cb'[i] = Count(cb[i], kind, 1)
  BY <1>2
<1>5. /\ cb'[i].strong = cb[i].strong + One(kind = "strong")
      /\ cb'[i].weak = cb[i].weak + One(kind = "weak")
      /\ cb'[i].payload = cb[i].payload
      /\ cb'[i] \in Blocks
  <2>1. cb[i].payload \in PayloadHandles \cup {NoHandle}
    BY <1>2, BlockRecord
  <2>2. CASE kind = "strong"
    <3>1. cb'[i] = [ strong |-> cb[i].strong + 1, weak |-> cb[i].weak, payload |-> cb[i].payload ]
      BY <1>2, <1>4, <2>2, CountFacts
    <3> QED
      BY <1>2, <2>1, <2>2, <3>1, BlockRecord DEF One
  <2>3. CASE kind = "weak"
    <3>1. cb'[i] = [ strong |-> cb[i].strong, weak |-> cb[i].weak + 1, payload |-> cb[i].payload ]
      BY <1>2, <1>4, <2>3, CountFacts
    <3> QED
      BY <1>2, <2>1, <2>3, <3>1, BlockRecord DEF One
  <2> QED
    BY <1>3, <2>2, <2>3
<1>6. x \in Leases /\ x.kind = kind /\ x.cb = c /\ x.payload = h /\ lease'[a] = x
      /\ \A m \in Lease : m # a => lease'[m] = lease[m]
  BY <1>0, LeaseRecord DEF BlockTypes
<1>7. TypeOK'
  <2>1. cb' \in [C!Slots(control_block_pool') -> Blocks]
    BY <1>0, <1>1, <1>2, <1>5 DEF BlockTypes
  <2>2. lease' \in [Lease -> {NoLease} \cup Leases]
    BY <1>0, <1>6 DEF BlockTypes
  <2>3. BlockTypes'
    BY <1>0, <1>1, <2>1, <2>2 DEF BlockTypes
  <2> QED
    BY <1>1, <2>3, TypePartsNext
<1>8. CountsExact'
  <2>1. ASSUME NEW j \in DOMAIN cb', NEW k \in {"strong", "weak"}
        PROVE  /\ One(OnBlock(lease[a], j, k)) = 0
               /\ One(OnBlock(x, j, k)) = One(j = i /\ kind = k)
    BY <1>6, HandleFacts DEF OnBlock, One
  <2>2. ASSUME NEW j \in DOMAIN cb'
        PROVE  /\ cb'[j].strong = Before(j).strong + One(j = i /\ kind = "strong")
               /\ cb'[j].weak = Before(j).weak + One(j = i /\ kind = "weak")
               /\ Before(j).strong \in Nat /\ Before(j).weak \in Nat
    <3>1. Before(j) = cb[j] /\ cb[j].strong \in Nat /\ cb[j].weak \in Nat
      BY <1>0, <1>4, BlockRecord DEF Before, BlockTypes
    <3> QED
      BY <1>4, <1>5, <3>1 DEF One
  <2>3. \A j \in DOMAIN cb' :
             /\ cb'[j].strong = Before(j).strong - One(OnBlock(lease[a], j, "strong"))
                                                 + One(OnBlock(x, j, "strong"))
             /\ cb'[j].weak = Before(j).weak - One(OnBlock(lease[a], j, "weak"))
                                             + One(OnBlock(x, j, "weak"))
    BY <2>1, <2>2
  <2> HIDE DEF x
  <2>4. lease' = [lease EXCEPT ![a] = x]
    BY DEF x
  <2> QED
    BY <2>3, <2>4, CountsStep
<1>9. LeasesOnBlocks'
  <2> SUFFICES ASSUME NEW m \in Lease, lease'[m] # NoLease
               PROVE  /\ C!IsValid(control_block_pool, lease'[m].cb)
                      /\ cb'[lease'[m].cb.index].payload \in {lease'[m].payload, NoHandle}
    BY <1>1 DEF LeasesOnBlocks
  <2>1. CASE m = a
    BY <1>5, <1>6, <2>1
  <2>2. CASE m # a
    <3>1. /\ C!IsValid(control_block_pool, lease[m].cb)
          /\ cb[lease[m].cb.index].payload \in {lease[m].payload, NoHandle}
          /\ lease'[m] = lease[m] /\ lease[m].cb.index \in DOMAIN cb
      BY <1>0, <1>2, <1>6, <2>2 DEF LeasesOnBlocks, C!IsValid
    <3> QED
      BY <1>4, <1>5, <3>1
  <2> QED
    BY <2>1, <2>2
<1>10. BlocksReturned'
  <2>1. One(kind = "strong") + One(kind = "weak") = 1 /\ One(kind = "strong") \in Nat /\ One(kind = "weak") \in Nat
    BY <1>3 DEF One
  <2>2. cb'[i].strong + cb'[i].weak # 0
    BY <1>2, <1>5, <2>1
  <2> QED
    BY <1>0, <1>1, <1>4, <2>2 DEF BlocksReturned
<1>11. FreeBlocksBindable'
  BY <1>0, <1>1, <1>4 DEF FreeBlocksBindable, CanBindPayload
<1>12. KnownHeld' /\ FreelistsDistinct'
  BY <1>0, <1>1 DEF KnownHeld, FreelistsDistinct
<1>13. \A j \in DOMAIN cb : cb'[j].payload = cb[j].payload
  BY <1>4, <1>5
<1>14. \A j \in DOMAIN cb : cb'[j].strong > 0 => cb[j].strong > 0 \/ (j = i /\ kind = "strong" /\ cb[i].strong = 0)
  BY <1>2, <1>4, <1>5 DEF One
<1>15. StrongBlocksBound'
  BY <1>0, <1>1, <1>4, <1>13, <1>14 DEF StrongBlocksBound
<1>16. OneBlockPerPayload'
  BY <1>0, <1>4, <1>13, <1>14 DEF OneBlockPerPayload
<1>17. BoundTracks'
  <2>1. \A k \in DOMAIN bound : bound[k] # NoHandle => bound[k].index \in DOMAIN cb
    BY <1>0, <1>2 DEF BoundTracks
  <2> QED
    BY <1>0, <1>1, <1>13, <2>1 DEF BoundTracks
<1> QED
  BY <1>1, <1>7, <1>8, <1>9, <1>10, <1>11, <1>12, <1>15, <1>16, <1>17 DEF IInv

\* Copies, weak leases of strong ones, and promotion.
LEMMA DeriveStep ==
    ASSUME IInv, NEW l \in Lease, NEW n \in Lease, NEW kind \in Kinds, DeriveLease(l, n, kind)
    PROVE  IInv'
<1> DEFINE c == lease[l].cb
           h == lease[l].payload
<1>0. BlockTypes /\ LeasesOnBlocks
  BY TypeParts DEF IInv
<1>1. /\ lease[l] # NoLease /\ lease[n] = NoLease /\ CanDerive(l, kind)
      /\ cb' = [cb EXCEPT ![c.index] = Count(cb[c.index], kind, 1)]
      /\ lease' = [lease EXCEPT ![n] = [lease[l] EXCEPT !.kind = kind]]
      /\ UNCHANGED << config, payload_pool, control_block_pool, bound, known >>
  BY DEF DeriveLease
<1>2. lease[l] \in Leases /\ c \in BlockHandles /\ h \in PayloadHandles
  BY <1>0, <1>1, LeaseFields, LeaseRecord
<1>3. [lease[l] EXCEPT !.kind = kind] = [ kind |-> kind, cb |-> c, payload |-> h ]
  BY <1>2 DEF Leases
<1>4. /\ C!IsValid(control_block_pool, c) /\ cb[c.index].payload \in {h, NoHandle}
  BY <1>0, <1>1 DEF LeasesOnBlocks
<1>5. /\ c.index \in DOMAIN cb /\ ~Free(control_block_pool, c.index)
      /\ lease[l].kind = "strong" => cb[c.index].strong > 0
  BY <1>1, LeasedBlocks
<1>6. kind = "strong" => cb[c.index].strong > 0
  BY <1>1, <1>5 DEF CanDerive
<1>7. cb[c.index].strong \in Nat
  BY <1>0, <1>5, BlockRecord DEF BlockTypes
<1>8. lease' = [lease EXCEPT ![n] = [ kind |-> kind, cb |-> c, payload |-> h ]]
  BY <1>1, <1>3
<1>9. ~(kind = "strong" /\ cb[c.index].strong = 0)
  BY <1>6, <1>7
<1>10. /\ lease[n] = NoLease /\ c \in BlockHandles /\ h \in PayloadHandles
       /\ cb' = [cb EXCEPT ![c.index] = Count(cb[c.index], kind, 1)]
       /\ UNCHANGED << config, payload_pool, control_block_pool, bound, known >>
  BY <1>1, <1>2
<1>11. C!IsValid(control_block_pool, c) /\ ~Free(control_block_pool, c.index)
  BY <1>4, <1>5
<1> HIDE DEF c, h
<1> QED
  BY <1>4, <1>8, <1>9, <1>10, <1>11, AddLease

\* The mixin finds the control block in use for the payload.
LEMMA LeaseBoundStep ==
    ASSUME IInv, NEW l \in Lease, NEW h \in known, NEW kind \in Kinds,
           lease[l] = NoLease, P!IsCreated(payload_pool, h), LeaseBound(l, h, kind),
           UNCHANGED << config, payload_pool, known >>
    PROVE  IInv'
<1>0. PayloadTypes /\ BlockTypes /\ KnownHeld /\ StrongBlocksBound /\ BoundTracks
  BY TypeParts DEF IInv
<1> DEFINE c == bound[h.index]
<1>1. /\ Bindable /\ c # NoHandle /\ C!IsValid(control_block_pool, c)
      /\ cb' = [cb EXCEPT ![c.index] = Count(cb[c.index], kind, 1)]
      /\ lease' = [lease EXCEPT ![l] = [ kind |-> kind, cb |-> c, payload |-> h ]]
      /\ UNCHANGED << control_block_pool, bound >>
  BY DEF LeaseBound, HasBound
<1>2. /\ h \in PayloadHandles /\ h.index \in DOMAIN bound /\ c \in BlockHandles
      /\ h = P!MakeHandle(payload_pool, h.index)
      /\ c = C!MakeHandle(control_block_pool, c.index)
  BY <1>0, <1>1, ValidHandles DEF PayloadTypes, P!IsCreated, P!IsValid
<1>3. ~(c.generation < control_block_pool.generations[c.index])
  <2>1. c.generation \in Nat /\ c.generation = control_block_pool.generations[c.index]
    BY <1>1, <1>2, HandleFacts, PoolConstants DEF C!IsValid
  <2> QED
    BY <2>1
<1>4. ~Free(control_block_pool, c.index) /\ cb[c.index].payload = h
  BY <1>0, <1>1, <1>2, <1>3 DEF BoundTracks
<1>5. ~Free(payload_pool, h.index)
  BY <1>0 DEF KnownHeld, P!IsCreated, P!IsValid
<1>6. c.index \in DOMAIN cb /\ cb[c.index].strong \in Nat
  BY <1>0, <1>1, BlockRecord DEF BlockTypes, C!IsValid
<1>7. ASSUME NEW j \in DOMAIN cb, cb[j].strong > 0, cb[j].payload = h, cb[c.index].strong = 0
      PROVE  FALSE
  <2>1. c = C!MakeHandle(control_block_pool, j)
    BY <1>0, <1>1, <1>7 DEF StrongBlocksBound
  <2>2. c.index = j
    BY <2>1 DEF C!MakeHandle
  <2> QED
    BY <1>6, <1>7, <2>2
<1> HIDE DEF c
<1>8. UNCHANGED << config, payload_pool, control_block_pool, bound, known >>
  BY <1>1
<1>9. bound[h.index] = C!MakeHandle(control_block_pool, c.index)
  BY <1>2 DEF c
<1> QED
  BY <1>1, <1>2, <1>4, <1>5, <1>7, <1>8, <1>9, AddLease

\* No control block with strong leases is in use for a payload about to get one.
LEMMA NoOtherBlock ==
    ASSUME IInv, Bindable \/ ~Reacquire, NEW h \in known, P!IsCreated(payload_pool, h),
           Reacquire \/ ~Leased(h), ~HasBound(h)
    PROVE  \A j \in DOMAIN cb : cb[j].strong > 0 =>
             /\ cb[j].payload # h
             /\ Bindable => cb[j].payload.index # h.index
<1>0. PayloadTypes /\ BlockTypes /\ StrongBlocksBound
  BY TypeParts DEF IInv
<1> SUFFICES ASSUME NEW j \in DOMAIN cb, cb[j].strong > 0
             PROVE  cb[j].payload # h /\ (Bindable => cb[j].payload.index # h.index)
  OBVIOUS
<1>1. cb[j].strong \in Nat /\ cb[j].weak \in Nat
  BY <1>0, BlockRecord DEF BlockTypes
<1>2. ASSUME Bindable, cb[j].payload.index = h.index PROVE FALSE
  <2>1. bound[h.index] = C!MakeHandle(control_block_pool, j)
    BY <1>0, <1>2 DEF StrongBlocksBound
  <2>2. C!MakeHandle(control_block_pool, j) \in BlockHandles
        /\ C!IsValid(control_block_pool, C!MakeHandle(control_block_pool, j))
    BY <1>0, IssuedHandles DEF BlockTypes, C!IsValid
  <2> QED
    BY <1>2, <2>1, <2>2, HandleFacts DEF HasBound
<1>3. ASSUME ~Bindable, cb[j].payload = h PROVE FALSE
  <2>1. ~Leased(h)
    BY <1>3
  <2> QED
    BY <1>1, <1>3, <2>1 DEF Leased
<1> QED
  BY <1>2, <1>3

\* A free control block is as new, also after growth.
LEMMA FreeBlocksFresh ==
    ASSUME IInv, NEW q, NEW d, BlocksGrown(control_block_pool, q, cb, d),
           NEW i \in C!Slots(q), Free(q, i)
    PROVE  d[i] = FreshBlock
<1>0. BlockTypes /\ FreeBlocksBindable
  BY TypeParts DEF IInv
<1>1. CASE i \in DOMAIN cb
  <2>1. Free(control_block_pool, i) /\ d[i] = cb[i]
    BY <1>0, <1>1 DEF BlocksGrown, BlockTypes
  <2>2. cb[i].payload = NoHandle /\ cb[i].strong = 0 /\ cb[i].weak = 0 /\ cb[i] \in Blocks
    BY <1>0, <1>1, <2>1 DEF FreeBlocksBindable, CanBindPayload, BlockTypes
  <2> QED
    BY <2>1, <2>2, BlockRecord DEF FreshBlock
<1>2. CASE i \notin DOMAIN cb
  BY <1>0, <1>2 DEF BlocksGrown, BlockTypes
<1> QED
  BY <1>1, <1>2

\* A control block taken for a payload: q, d are the blocks after growth, if any.
LEMMA NewLease ==
    ASSUME IInv, Bindable \/ ~Reacquire, NEW l \in Lease, lease[l] = NoLease,
           NEW h \in known, P!IsCreated(payload_pool, h),
           Reacquire \/ ~Leased(h), ~HasBound(h), NEW kind \in Kinds,
           NEW q, NEW d, BlocksGrown(control_block_pool, q, cb, d), q.freelist # << >>,
           NEW c, c = C!MakeHandle(q, C!Top(q)),
           control_block_pool' = C!Take(q),
           cb' = [d EXCEPT ![c.index] = Count([FreshBlock EXCEPT !.payload = h], kind, 1)],
           bound' = [bound EXCEPT ![h.index] = IF Bindable THEN c ELSE NoHandle],
           lease' = [lease EXCEPT ![l] = [ kind |-> kind, cb |-> c, payload |-> h ]],
           UNCHANGED << config, payload_pool, known >>
    PROVE  IInv'
<1> DEFINE i == c.index
           x == [ kind |-> kind, cb |-> c, payload |-> h ]
<1>0. /\ ConfigTypes /\ PayloadTypes /\ BlockTypes /\ ConfiguredSized /\ FreelistsDistinct
      /\ CountsExact /\ LeasesOnBlocks /\ BlocksReturned /\ FreeBlocksBindable /\ KnownHeld
      /\ StrongBlocksBound /\ OneBlockPerPayload /\ BoundTracks
  BY TypeParts DEF IInv
<1>1. payload_pool' = payload_pool /\ known' = known /\ ConfigTypes' /\ ConfiguredSized'
  BY <1>0 DEF config, ConfigTypes, ConfiguredSized
<1>2. /\ C!IsPool(q) /\ Distinct(q) /\ DOMAIN cb = C!Slots(control_block_pool)
      /\ DOMAIN d = C!Slots(q)
      /\ \A j \in DOMAIN cb : /\ j \in C!Slots(q) /\ d[j] = cb[j]
                              /\ q.generations[j] = control_block_pool.generations[j]
                              /\ Free(q, j) <=> Free(control_block_pool, j)
      /\ \A j \in C!Slots(q) : j \notin DOMAIN cb => Free(q, j) /\ d[j] = FreshBlock
  BY <1>0 DEF BlocksGrown, BlockTypes
<1>3. /\ C!IsPool(control_block_pool') /\ Distinct(control_block_pool')
      /\ C!Slots(control_block_pool') = C!Slots(q)
      /\ control_block_pool'.generations = q.generations
      /\ C!Top(q) \in C!Slots(q) /\ Free(q, C!Top(q))
      /\ \A j : Free(control_block_pool', j) <=> Free(q, j) /\ j # C!Top(q)
  BY <1>2, BlockTake
<1>4. c \in BlockHandles /\ i = C!Top(q) /\ c.generation = q.generations[i]
  BY <1>2, <1>3, IssuedHandles
<1>5. C!IsValid(control_block_pool', c) /\ c = C!MakeHandle(control_block_pool', i)
  BY <1>3, <1>4 DEF C!IsValid, C!MakeHandle
<1>6. h \in PayloadHandles /\ h.index \in DOMAIN bound /\ DOMAIN bound = P!Slots(payload_pool)
      /\ h = P!MakeHandle(payload_pool, h.index)
      /\ P!IsCreated(payload_pool, h) /\ ~Free(payload_pool, h.index)
  BY <1>0, ValidHandles DEF PayloadTypes, P!IsCreated, P!IsValid, KnownHeld
<1>7. d[i] = FreshBlock
  BY <1>3, <1>4, FreeBlocksFresh
<1>8. /\ DOMAIN cb' = C!Slots(q) /\ i \in DOMAIN cb'
      /\ \A j \in DOMAIN cb' : j # i => cb'[j] = d[j]
      /\ cb'[i] = Count([FreshBlock EXCEPT !.payload = h], kind, 1)
  BY <1>2, <1>3, <1>4 DEF BlocksGrown
<1>9. /\ cb'[i].strong = One(kind = "strong") /\ cb'[i].weak = One(kind = "weak")
      /\ cb'[i].payload = h /\ cb'[i] \in Blocks
  <2>1. [FreshBlock EXCEPT !.payload = h] = [ strong |-> 0, weak |-> 0, payload |-> h ]
    BY DEF FreshBlock
  <2>2. PICK b : b = [ strong |-> 0, weak |-> 0, payload |-> h ]
    OBVIOUS
  <2>3. b \in Blocks /\ b.strong = 0 /\ b.weak = 0 /\ b.payload = h
    BY <1>6, <2>2, BlockRecord
  <2>4. cb'[i] = Count(b, kind, 1)
    BY <1>8, <2>1, <2>2
  <2>5. CASE kind = "strong"
    <3>1. cb'[i] = [ strong |-> 1, weak |-> 0, payload |-> h ]
      BY <2>3, <2>4, <2>5, CountFacts
    <3>2. [ strong |-> 1, weak |-> 0, payload |-> h ] \in Blocks
      BY <1>6 DEF Blocks
    <3>3. One(kind = "strong") = 1 /\ One(kind = "weak") = 0
      BY <2>5 DEF One
    <3> QED
      BY <3>1, <3>2, <3>3
  <2>6. CASE kind = "weak"
    <3>1. cb'[i] = [ strong |-> 0, weak |-> 1, payload |-> h ]
      BY <2>3, <2>4, <2>6, CountFacts
    <3>2. [ strong |-> 0, weak |-> 1, payload |-> h ] \in Blocks
      BY <1>6 DEF Blocks
    <3>3. One(kind = "strong") = 0 /\ One(kind = "weak") = 1
      BY <2>6 DEF One
    <3> QED
      BY <3>1, <3>2, <3>3
  <2> QED
    BY <2>5, <2>6, KindFacts
<1>10. \A j \in DOMAIN cb' : j # i => cb'[j] = Before(j)
  BY <1>2, <1>8 DEF Before
<1>11. Before(i) = FreshBlock
  BY <1>2, <1>7 DEF Before
<1>12. \A j \in DOMAIN cb' : Before(j) \in Blocks
  BY <1>0, BlockRecord DEF Before, BlockTypes
<1>13. x \in Leases /\ x.kind = kind /\ x.cb = c /\ x.payload = h /\ lease'[l] = x
       /\ \A m \in Lease : m # l => lease'[m] = lease[m]
  BY <1>0, <1>4, <1>6, LeaseRecord DEF BlockTypes
<1>14. TypeOK'
  <2>1. cb' \in [C!Slots(control_block_pool') -> Blocks]
    <3>1. \A j \in DOMAIN cb' : cb'[j] \in Blocks
      BY <1>9, <1>10, <1>12
    <3>2. cb' = [j \in C!Slots(q) |-> cb'[j]]
      BY <1>2 DEF BlocksGrown
    <3> QED
      BY <1>3, <1>8, <3>1, <3>2
  <2>2. lease' \in [Lease -> {NoLease} \cup Leases]
    BY <1>0, <1>13 DEF BlockTypes
  <2>3. BlockTypes'
    BY <1>3, <2>1, <2>2 DEF BlockTypes
  <2>4. PayloadTypes'
    BY <1>0, <1>1, <1>4, <1>6 DEF PayloadTypes
  <2> QED
    BY <1>1, <2>3, <2>4, TypePartsNext
<1>15. CountsExact'
  <2>1. ASSUME NEW j \in DOMAIN cb', NEW k \in {"strong", "weak"}
        PROVE  /\ One(OnBlock(lease[l], j, k)) = 0
               /\ One(OnBlock(x, j, k)) = One(j = i /\ kind = k)
    BY <1>13, HandleFacts DEF OnBlock, One
  <2>2. ASSUME NEW j \in DOMAIN cb'
        PROVE  /\ cb'[j].strong = Before(j).strong + One(j = i /\ kind = "strong")
               /\ cb'[j].weak = Before(j).weak + One(j = i /\ kind = "weak")
               /\ Before(j).strong \in Nat /\ Before(j).weak \in Nat
    <3>1. Before(j).strong \in Nat /\ Before(j).weak \in Nat
      BY <1>12, BlockRecord
    <3>2. CASE j = i
      BY <1>9, <1>11, <3>1, <3>2, BlockRecord DEF One
    <3>3. CASE j # i
      BY <1>10, <3>1, <3>3 DEF One
    <3> QED
      BY <3>1, <3>2, <3>3
  <2>3. \A j \in DOMAIN cb' :
             /\ cb'[j].strong = Before(j).strong - One(OnBlock(lease[l], j, "strong"))
                                                 + One(OnBlock(x, j, "strong"))
             /\ cb'[j].weak = Before(j).weak - One(OnBlock(lease[l], j, "weak"))
                                             + One(OnBlock(x, j, "weak"))
    BY <2>1, <2>2
  <2>4. lease' = [lease EXCEPT ![l] = x]
    OBVIOUS
  <2> HIDE DEF x
  <2> QED
    BY <2>3, <2>4, CountsStep
<1>16. LeasesOnBlocks'
  <2> SUFFICES ASSUME NEW m \in Lease, lease'[m] # NoLease
               PROVE  /\ C!IsValid(control_block_pool', lease'[m].cb)
                      /\ cb'[lease'[m].cb.index].payload \in {lease'[m].payload, NoHandle}
    BY DEF LeasesOnBlocks
  <2>1. CASE m = l
    BY <1>5, <1>9, <1>13, <2>1
  <2>2. CASE m # l
    <3>1. lease'[m] = lease[m] /\ lease[m] # NoLease
      BY <1>13, <2>2
    <3>2. /\ C!IsValid(control_block_pool, lease[m].cb)
          /\ cb[lease[m].cb.index].payload \in {lease[m].payload, NoHandle}
      BY <1>0, <3>1 DEF LeasesOnBlocks
    <3>3. lease[m].cb.index \in DOMAIN cb /\ ~Free(control_block_pool, lease[m].cb.index)
      BY <3>1, LeasedBlocks
    <3>4. lease[m].cb.index # i
      BY <1>2, <1>3, <1>4, <3>3
    <3> QED
      BY <1>2, <1>3, <1>8, <3>1, <3>2, <3>3, <3>4 DEF C!IsValid
  <2> QED
    BY <2>1, <2>2
<1>17. /\ \A j \in DOMAIN cb' : Free(control_block_pool', j) <=> Free(q, j) /\ j # i
       /\ One(kind = "strong") + One(kind = "weak") = 1
  BY <1>3, <1>4, KindFacts DEF One
<1>18. BlocksReturned'
  BY <1>0, <1>2, <1>8, <1>9, <1>17, BlockRecord DEF BlocksReturned
<1>19. FreeBlocksBindable'
  BY <1>0, <1>2, <1>8, <1>17, BlockRecord DEF FreeBlocksBindable, CanBindPayload
<1>20. KnownHeld' /\ FreelistsDistinct'
  BY <1>0, <1>1, <1>3 DEF KnownHeld, FreelistsDistinct
<1>21. \A j \in DOMAIN cb' : j # i /\ cb'[j].strong > 0 =>
         /\ j \in DOMAIN cb /\ cb'[j] = cb[j]
         /\ cb[j].payload # h
         /\ Bindable => cb[j].payload.index # h.index
  BY <1>2, <1>8, NoOtherBlock, BlockRecord
<1>22. /\ \A k \in DOMAIN bound : k # h.index => bound'[k] = bound[k]
       /\ bound'[h.index] = IF Bindable THEN c ELSE NoHandle
       /\ DOMAIN bound' = DOMAIN bound
  BY <1>6
<1>23. StrongBlocksBound'
  <2> SUFFICES ASSUME NEW j \in DOMAIN cb', cb'[j].strong > 0
               PROVE  /\ P!IsCreated(payload_pool, cb'[j].payload)
                      /\ ~Free(payload_pool, cb'[j].payload.index)
                      /\ Bindable => bound'[cb'[j].payload.index] = C!MakeHandle(control_block_pool', j)
    BY <1>1 DEF StrongBlocksBound
  <2>1. CASE j = i
    BY <1>5, <1>6, <1>9, <1>22, <2>1
  <2>2. CASE j # i
    <3>1. j \in DOMAIN cb /\ cb'[j] = cb[j] /\ (Bindable => cb[j].payload.index # h.index)
      BY <1>21, <2>2
    <3>2. /\ P!IsCreated(payload_pool, cb[j].payload)
          /\ ~Free(payload_pool, cb[j].payload.index)
          /\ Bindable => bound[cb[j].payload.index] = C!MakeHandle(control_block_pool, j)
          /\ cb[j].payload.index \in DOMAIN bound
      BY <1>0, <1>6, <3>1 DEF StrongBlocksBound, P!IsCreated, P!IsValid
    <3>3. C!MakeHandle(control_block_pool', j) = C!MakeHandle(control_block_pool, j)
      BY <1>2, <1>3, <3>1 DEF C!MakeHandle
    <3> QED
      BY <1>22, <3>1, <3>2, <3>3
  <2> QED
    BY <2>1, <2>2
<1>24. OneBlockPerPayload'
  BY <1>0, <1>9, <1>21 DEF OneBlockPerPayload
<1>25. BoundTracks'
  <2> SUFFICES ASSUME NEW k \in DOMAIN bound, bound'[k] # NoHandle
               PROVE  /\ Bindable
                      /\ bound'[k].index \in C!Slots(control_block_pool')
                      /\ \/ Weak /\ bound'[k].generation < control_block_pool'.generations[bound'[k].index]
                         \/ /\ bound'[k].generation = control_block_pool'.generations[bound'[k].index]
                            /\ ~Free(control_block_pool', bound'[k].index)
                            /\ cb'[bound'[k].index].payload = P!MakeHandle(payload_pool, k)
    BY <1>1, <1>22 DEF BoundTracks
  <2>1. CASE k = h.index
    <3>1. Bindable /\ bound'[k] = c
      BY <1>22, <2>1
    <3> QED
      BY <1>3, <1>4, <1>6, <1>9, <2>1, <3>1
  <2>2. CASE k # h.index
    <3>1. bound'[k] = bound[k] /\ bound[k] # NoHandle
      BY <1>22, <2>2
    <3>2. /\ Bindable /\ bound[k].index \in DOMAIN cb
          /\ \/ Weak /\ bound[k].generation < control_block_pool.generations[bound[k].index]
             \/ /\ bound[k].generation = control_block_pool.generations[bound[k].index]
                /\ ~Free(control_block_pool, bound[k].index)
                /\ cb[bound[k].index].payload = P!MakeHandle(payload_pool, k)
      BY <1>0, <1>2, <3>1 DEF BoundTracks
    <3>3. ~Free(control_block_pool, bound[k].index) => bound[k].index # i
      BY <1>2, <1>3, <1>4, <3>2
    <3> QED
      BY <1>2, <1>3, <1>8, <3>1, <3>2, <3>3
  <2> QED
    BY <2>1, <2>2
<1> QED
  BY <1>1, <1>14, <1>15, <1>16, <1>18, <1>19, <1>20, <1>23, <1>24, <1>25 DEF IInv

\* acquireLeaseImpl on a new control block never refuses it.
LEMMA LeaseNewStep ==
    ASSUME IInv, Bindable \/ ~Reacquire, NEW l \in Lease, lease[l] = NoLease,
           NEW h \in known, P!IsCreated(payload_pool, h),
           Reacquire \/ ~Leased(h), NEW kind \in Kinds, LeaseNew(l, h, kind),
           UNCHANGED << config, payload_pool, known >>
    PROVE  IInv'
<1> DEFINE grow == ~C!CanTake(control_block_pool, TRUE)
           n == control_block_pool.size + CbGrowth
           pool == IF grow THEN GrownBlocks(n) ELSE control_block_pool
           blocks == IF grow THEN ResizeBlocks(n) ELSE cb
           c == C!MakeHandle(pool, C!Top(pool))
           bind == CanBindPayload(blocks[c.index])
<1>0. BlockTypes /\ FreelistsDistinct
  BY TypeParts DEF IInv
<1>1. /\ ~HasBound(h)
      /\ grow => C!CanResize(control_block_pool, n)
      /\ control_block_pool' = IF bind THEN C!Take(pool) ELSE C!Release(C!Take(pool), c)
      /\ cb' = IF bind
               THEN [blocks EXCEPT ![c.index] = Count([FreshBlock EXCEPT !.payload = h], kind, 1)]
               ELSE blocks
      /\ bound' = [bound EXCEPT ![h.index] = IF Bindable /\ bind THEN c ELSE NoHandle]
      /\ lease' = IF bind
                  THEN [lease EXCEPT ![l] = [ kind |-> kind, cb |-> c, payload |-> h ]]
                  ELSE lease
  BY Zenon DEF LeaseNew
<1>2. DOMAIN cb = C!Slots(control_block_pool) /\ cb = [i \in C!Slots(control_block_pool) |-> cb[i]]
  BY <1>0 DEF BlockTypes
<1>3. BlocksGrown(control_block_pool, pool, cb, blocks) /\ pool.freelist # << >>
  <2>1. CASE grow
    <3>1. pool = GrownBlocks(n) /\ blocks = ResizeBlocks(n) /\ C!CanResize(control_block_pool, n)
      BY <1>1, <2>1, Zenon
    <3>2. n > control_block_pool.size
      BY <1>0, BlockFields, PoolManagerConstants DEF BlockTypes
    <3> HIDE DEF pool, blocks
    <3> QED
      BY <1>0, <1>2, <3>1, <3>2, BlocksGrow DEF BlockTypes, FreelistsDistinct
  <2>2. CASE ~grow
    <3>1. pool = control_block_pool /\ blocks = cb /\ control_block_pool.freelist # << >>
      BY <2>2, Zenon DEF C!CanTake
    <3> HIDE DEF pool, blocks
    <3> QED
      BY <1>0, <1>2, <3>1, BlocksGrownSame DEF BlockTypes, FreelistsDistinct
  <2> QED
    BY <2>1, <2>2
<1> HIDE DEF pool, blocks
<1>4. C!IsPool(pool) /\ Distinct(pool)
  BY <1>3 DEF BlocksGrown
<1>5. C!Top(pool) \in C!Slots(pool) /\ Free(pool, C!Top(pool))
  BY <1>3, <1>4, BlockTake
<1>6. c.index = C!Top(pool)
  BY DEF C!MakeHandle
<1>7. blocks[c.index] = FreshBlock
  BY <1>3, <1>5, <1>6, FreeBlocksFresh
<1>8. bind
  BY <1>7, BlockRecord DEF CanBindPayload
<1> HIDE DEF bind
<1>9. /\ control_block_pool' = C!Take(pool)
      /\ cb' = [blocks EXCEPT ![c.index] = Count([FreshBlock EXCEPT !.payload = h], kind, 1)]
      /\ bound' = [bound EXCEPT ![h.index] = IF Bindable THEN c ELSE NoHandle]
      /\ lease' = [lease EXCEPT ![l] = [ kind |-> kind, cb |-> c, payload |-> h ]]
  <2> HIDE DEF c
  <2>1. (Bindable /\ bind) = Bindable
    BY <1>8, PoolManagerConstants
  <2> QED
    BY <1>1, <1>8, <2>1, Zenon
<1>10. PICK k : k = c
  OBVIOUS
<1>11. k = C!MakeHandle(pool, C!Top(pool))
  BY <1>10
<1>12. /\ cb' = [blocks EXCEPT ![k.index] = Count([FreshBlock EXCEPT !.payload = h], kind, 1)]
       /\ bound' = [bound EXCEPT ![h.index] = IF Bindable THEN k ELSE NoHandle]
       /\ lease' = [lease EXCEPT ![l] = [ kind |-> kind, cb |-> k, payload |-> h ]]
  BY <1>9, <1>10, Zenon
<1>13. ~HasBound(h) /\ control_block_pool' = C!Take(pool)
  BY <1>1, <1>9, Zenon
<1> QED
  BY <1>3, <1>11, <1>12, <1>13, NewLease

\* A call that finds no control block at most forgets a stale binding.
LEMMA NoBlockLeftStep ==
    ASSUME IInv, Bindable \/ ~Reacquire, NEW h \in known, P!IsCreated(payload_pool, h),
           Reacquire \/ ~Leased(h), NoBlockLeft(h),
           UNCHANGED << config, payload_pool, known >>
    PROVE  IInv'
<1>0. /\ ConfigTypes /\ PayloadTypes /\ BlockTypes /\ ConfiguredSized /\ FreelistsDistinct
      /\ CountsExact /\ LeasesOnBlocks /\ BlocksReturned /\ FreeBlocksBindable /\ KnownHeld
      /\ StrongBlocksBound /\ OneBlockPerPayload /\ BoundTracks
  BY TypeParts DEF IInv
<1>1. /\ payload_pool' = payload_pool /\ known' = known /\ ConfigTypes' /\ ConfiguredSized'
      /\ control_block_pool' = control_block_pool /\ cb' = cb /\ lease' = lease
      /\ ~HasBound(h) /\ bound' = [bound EXCEPT ![h.index] = NoHandle]
  BY <1>0 DEF config, ConfigTypes, ConfiguredSized, NoBlockLeft
<1>2. DOMAIN bound = P!Slots(payload_pool) /\ h.index \in DOMAIN bound
  BY <1>0 DEF PayloadTypes, P!IsCreated, P!IsValid
<1>3. /\ \A k \in DOMAIN bound : k # h.index => bound'[k] = bound[k]
      /\ bound'[h.index] = NoHandle /\ DOMAIN bound' = DOMAIN bound
  BY <1>1, <1>2
<1>4. TypeOK'
  <2>1. PayloadTypes' /\ BlockTypes'
    BY <1>0, <1>1 DEF PayloadTypes, BlockTypes
  <2> QED
    BY <1>1, <2>1, TypePartsNext
<1>5. CountsExact'
  BY <1>0, <1>1 DEF CountsExact
<1>6. /\ FreelistsDistinct' /\ LeasesOnBlocks' /\ BlocksReturned' /\ FreeBlocksBindable'
      /\ KnownHeld' /\ OneBlockPerPayload'
  BY <1>0, <1>1 DEF FreelistsDistinct, LeasesOnBlocks, BlocksReturned, FreeBlocksBindable, KnownHeld,
     OneBlockPerPayload
<1>7. StrongBlocksBound'
  <2>1. \A j \in DOMAIN cb : cb[j].strong > 0 =>
          /\ Bindable => cb[j].payload.index # h.index
          /\ cb[j].payload.index \in DOMAIN bound
    BY <1>0, <1>1, <1>2, NoOtherBlock DEF StrongBlocksBound, P!IsCreated, P!IsValid
  <2> QED
    BY <1>0, <1>1, <1>3, <2>1 DEF StrongBlocksBound
<1>8. BoundTracks'
  BY <1>0, <1>1, <1>3 DEF BoundTracks
<1> QED
  BY <1>1, <1>4, <1>5, <1>6, <1>7, <1>8 DEF IInv

\* acquireStrongLease and acquireWeakLease.
LEMMA AcquireStep ==
    ASSUME IInv, Bindable \/ ~Reacquire, NEW l \in Lease, NEW h \in known, NEW kind \in Kinds,
           AcquireLease(l, h, kind)
    PROVE  IInv'
<1>1. /\ lease[l] = NoLease /\ (Reacquire \/ ~Leased(h)) /\ P!IsCreated(payload_pool, h)
      /\ LeaseBound(l, h, kind) \/ LeaseNew(l, h, kind) \/ NoBlockLeft(h)
      /\ UNCHANGED << config, payload_pool, known >>
  BY DEF AcquireLease
<1>2. CASE LeaseBound(l, h, kind)
  BY <1>1, <1>2, LeaseBoundStep
<1>3. CASE LeaseNew(l, h, kind)
  BY <1>1, <1>3, LeaseNewStep
<1>4. CASE NoBlockLeft(h)
  BY <1>1, <1>4, NoBlockLeftStep
<1> QED
  BY <1>1, <1>2, <1>3, <1>4

\* What a release does to the control block: b is the block afterwards.
BlockLosesLease(l, b) ==
    LET i == lease[l].cb.index IN
    /\ b \in Blocks
    /\ b.strong = cb[i].strong - One(lease[l].kind = "strong")
    /\ b.weak = cb[i].weak - One(lease[l].kind = "weak")
    /\ b.payload = cb[i].payload \/ (b.payload = NoHandle /\ b.strong = 0)
    /\ cb' = [cb EXCEPT ![i] = b]
    /\ lease' = [lease EXCEPT ![l] = NoLease]
    /\ b.strong + b.weak # 0 => control_block_pool' = control_block_pool
    /\ b.strong + b.weak = 0 =>
         b.payload = NoHandle /\ BlockReleased(control_block_pool, control_block_pool', i)

\* The parts of the invariant that are about blocks and leases survive a release.
LEMMA ReleaseBlocks ==
    ASSUME IInv, NEW l \in Lease, lease[l] # NoLease, NEW b, BlockLosesLease(l, b)
    PROVE  /\ BlockTypes' /\ Distinct(control_block_pool') /\ CountsExact' /\ LeasesOnBlocks'
           /\ BlocksReturned' /\ FreeBlocksBindable' /\ OneBlockPerPayload'
           /\ C!Slots(control_block_pool') = C!Slots(control_block_pool)
           /\ DOMAIN cb' = DOMAIN cb
           /\ \A j \in DOMAIN cb : j # lease[l].cb.index =>
                /\ cb'[j] = cb[j]
                /\ control_block_pool'.generations[j] = control_block_pool.generations[j]
                /\ Free(control_block_pool', j) <=> Free(control_block_pool, j)
           /\ cb'[lease[l].cb.index] = b
<1> DEFINE i == lease[l].cb.index
           kind == lease[l].kind
<1>0. /\ BlockTypes /\ CountsExact /\ LeasesOnBlocks /\ BlocksReturned /\ FreelistsDistinct
      /\ FreeBlocksBindable /\ OneBlockPerPayload
  BY TypeParts DEF IInv
<1>1. /\ b \in Blocks
      /\ b.strong = cb[i].strong - One(kind = "strong")
      /\ b.weak = cb[i].weak - One(kind = "weak")
      /\ b.payload = cb[i].payload \/ (b.payload = NoHandle /\ b.strong = 0)
      /\ cb' = [cb EXCEPT ![i] = b]
      /\ lease' = [lease EXCEPT ![l] = NoLease]
      /\ b.strong + b.weak # 0 => control_block_pool' = control_block_pool
      /\ b.strong + b.weak = 0 =>
           b.payload = NoHandle /\ BlockReleased(control_block_pool, control_block_pool', i)
  BY DEF BlockLosesLease
<1>2. /\ i \in DOMAIN cb /\ DOMAIN cb = C!Slots(control_block_pool) /\ cb[i] \in Blocks
      /\ cb[i].strong \in Nat /\ cb[i].weak \in Nat /\ ~Free(control_block_pool, i)
      /\ b.strong \in Nat /\ b.weak \in Nat
  BY <1>0, <1>1, LeasedBlocks, BlockRecord DEF BlockTypes
<1>3. lease[l] \in Leases /\ kind \in {"strong", "weak"} /\ kind \in Kinds
  BY <1>0, LeaseFields, LeaseRecord, KindFacts
<1>4. /\ DOMAIN cb' = DOMAIN cb /\ cb'[i] = b /\ \A j \in DOMAIN cb : j # i => cb'[j] = cb[j]
      /\ lease'[l] = NoLease /\ \A m \in Lease : m # l => lease'[m] = lease[m]
  BY <1>0, <1>1, <1>2 DEF BlockTypes
<1>5. /\ C!IsPool(control_block_pool') /\ Distinct(control_block_pool')
      /\ C!Slots(control_block_pool') = C!Slots(control_block_pool)
      /\ \A j \in DOMAIN cb : j # i =>
           /\ control_block_pool'.generations[j] = control_block_pool.generations[j]
           /\ Free(control_block_pool', j) <=> Free(control_block_pool, j)
      /\ Free(control_block_pool', i) <=> b.strong + b.weak = 0
  <2>1. CASE b.strong + b.weak = 0
    BY <1>1, <1>2, <2>1 DEF BlockReleased
  <2>2. CASE b.strong + b.weak # 0
    BY <1>0, <1>1, <1>2, <2>2 DEF BlockTypes, FreelistsDistinct
  <2> QED
    BY <2>1, <2>2
<1>6. BlockTypes'
  <2>1. cb' \in [C!Slots(control_block_pool') -> Blocks]
    BY <1>0, <1>1, <1>2, <1>5 DEF BlockTypes
  <2>2. lease' \in [Lease -> {NoLease} \cup Leases]
    BY <1>0, <1>1 DEF BlockTypes
  <2> QED
    BY <1>5, <2>1, <2>2 DEF BlockTypes
<1>7. CountsExact'
  <2>1. ASSUME NEW j \in DOMAIN cb', NEW k \in {"strong", "weak"}
        PROVE  /\ One(OnBlock(NoLease, j, k)) = 0
               /\ One(OnBlock(lease[l], j, k)) = One(j = i /\ kind = k)
    BY HandleFacts DEF OnBlock, One
  <2>2. ASSUME NEW j \in DOMAIN cb'
        PROVE  /\ cb'[j].strong = Before(j).strong - One(j = i /\ kind = "strong")
               /\ cb'[j].weak = Before(j).weak - One(j = i /\ kind = "weak")
               /\ Before(j).strong \in Nat /\ Before(j).weak \in Nat
               /\ One(j = i /\ kind = "strong") \in Nat /\ One(j = i /\ kind = "weak") \in Nat
    <3>1. Before(j) = cb[j] /\ cb[j].strong \in Nat /\ cb[j].weak \in Nat
      BY <1>0, <1>4, BlockRecord DEF Before, BlockTypes
    <3>2. CASE j = i
      BY <1>1, <1>4, <3>1, <3>2 DEF One
    <3>3. CASE j # i
      BY <1>4, <3>1, <3>3 DEF One
    <3> QED
      BY <3>2, <3>3
  <2>3. \A j \in DOMAIN cb' :
             /\ cb'[j].strong = Before(j).strong - One(OnBlock(lease[l], j, "strong"))
                                                 + One(OnBlock(NoLease, j, "strong"))
             /\ cb'[j].weak = Before(j).weak - One(OnBlock(lease[l], j, "weak"))
                                             + One(OnBlock(NoLease, j, "weak"))
    BY <2>1, <2>2
  <2> QED
    BY <1>1, <2>3, CountsStep
<1>8. LeasesOnBlocks'
  <2> SUFFICES ASSUME NEW m \in Lease, lease'[m] # NoLease
               PROVE  /\ C!IsValid(control_block_pool', lease'[m].cb)
                      /\ cb'[lease'[m].cb.index].payload \in {lease'[m].payload, NoHandle}
    BY DEF LeasesOnBlocks
  <2>1. m # l /\ lease'[m] = lease[m] /\ lease[m] # NoLease
    BY <1>4
  <2>2. /\ C!IsValid(control_block_pool, lease[m].cb)
        /\ cb[lease[m].cb.index].payload \in {lease[m].payload, NoHandle}
        /\ lease[m].cb.index \in DOMAIN cb
    BY <1>0, <2>1, LeasedBlocks DEF LeasesOnBlocks
  <2>3. CASE lease[m].cb.index # i
    BY <1>4, <1>5, <2>1, <2>2, <2>3 DEF C!IsValid
  <2>4. CASE lease[m].cb.index = i
    <3>1. b.strong + b.weak # 0
      <4>0. /\ b.strong = cb[i].strong - One(kind = "strong")
            /\ b.weak = cb[i].weak - One(kind = "weak")
            /\ cb[i].strong \in Nat /\ cb[i].weak \in Nat /\ b.strong \in Nat /\ b.weak \in Nat
            /\ One(kind = "strong") \in Nat /\ One(kind = "weak") \in Nat
        BY <1>1, <1>2 DEF One
      <4> DEFINE Left == cb[i].strong > One(kind = "strong") \/ cb[i].weak > One(kind = "weak")
      <4>4. Left => b.strong + b.weak # 0
        <5> SUFFICES ASSUME Left PROVE b.strong + b.weak # 0
          OBVIOUS
        <5> DEFINE s == cb[i].strong
                   w == cb[i].weak
                   x == b.strong
                   y == b.weak
                   a == One(kind = "strong")
                   c == One(kind = "weak")
        <5>1. /\ s \in Nat /\ w \in Nat /\ x \in Nat /\ y \in Nat /\ a \in Nat /\ c \in Nat
              /\ x = s - a /\ y = w - c /\ (s > a \/ w > c)
          BY <4>0, Zenon
        <5>2. x + y # 0
          <6> HIDE DEF s, w, x, y, a, c
          <6> QED
            BY <5>1
        <5> QED
          BY <5>2, Zenon
      <4>1. lease[m].kind \in {"strong", "weak"}
        BY <1>0, <2>1, LeaseFields, LeaseRecord, KindFacts
      <4>2. ASSUME lease[m].kind = kind PROVE b.strong + b.weak # 0
        <5>1. Cardinality(On(i, kind)) # 1
          BY <1>3, <2>1, <2>4, <4>2, OnSome DEF OnBlock
        <5>2. CASE kind = "strong"
          <6>1. cb[i].strong # 1 /\ cb[i].strong > 0
            BY <1>0, <1>2, <5>1, <5>2, CountsRead, LeasedBlocks
          <6> QED
            BY <4>0, <4>4, <5>2, <6>1 DEF One
        <5>3. CASE kind = "weak"
          <6>1. cb[i].weak # 1 /\ cb[i].weak > 0
            BY <1>0, <1>2, <5>1, <5>3, CountsRead, LeasedBlocks
          <6> QED
            BY <4>0, <4>4, <5>3, <6>1 DEF One
        <5> QED
          BY <1>3, <5>2, <5>3
      <4>3. ASSUME lease[m].kind # kind PROVE b.strong + b.weak # 0
        <5>1. /\ lease[m].kind = "strong" => cb[i].strong > 0
              /\ lease[m].kind = "weak" => cb[i].weak > 0
          BY <2>1, <2>4, LeasedBlocks
        <5> QED
          BY <1>3, <4>1, <4>3, <4>4, <5>1 DEF One
      <4> QED
        BY <4>2, <4>3
    <3>2. control_block_pool' = control_block_pool
      BY <1>1, <3>1
    <3> QED
      BY <1>1, <1>4, <2>1, <2>2, <2>4, <3>2
  <2> QED
    BY <2>3, <2>4
<1>9. BlocksReturned'
  BY <1>0, <1>4, <1>5 DEF BlocksReturned
<1>10. FreeBlocksBindable'
  <2>1. Free(control_block_pool', i) => CanBindPayload(cb'[i])
    BY <1>1, <1>2, <1>4, <1>5 DEF CanBindPayload
  <2> QED
    BY <1>0, <1>4, <1>5, <2>1 DEF FreeBlocksBindable, CanBindPayload
<1>11. OneBlockPerPayload'
  <2>1. \A j \in DOMAIN cb : cb'[j].strong > 0 => cb[j].strong > 0 /\ cb'[j].payload = cb[j].payload
    BY <1>1, <1>2, <1>3, <1>4 DEF One
  <2> QED
    BY <1>0, <1>4, <2>1 DEF OneBlockPerPayload
<1> QED
  BY <1>4, <1>5, <1>6, <1>7, <1>8, <1>9, <1>10, <1>11

\* After a release the mixin remembers the control block in use, or one that is
\* out of date.
LEMMA ReleaseBound ==
    ASSUME IInv, GenerationsFit, NEW l \in Lease, lease[l] # NoLease, NEW b, BlockLosesLease(l, b),
           NEW k \in DOMAIN bound, bound[k] # NoHandle,
           cb[lease[l].cb.index].payload = P!MakeHandle(payload_pool, k) =>
             \/ b.payload = cb[lease[l].cb.index].payload /\ b.strong + b.weak # 0
             \/ b.strong + b.weak = 0 /\ Weak
    PROVE  /\ Bindable
           /\ bound[k].index \in C!Slots(control_block_pool')
           /\ \/ Weak /\ bound[k].generation < control_block_pool'.generations[bound[k].index]
              \/ /\ bound[k].generation = control_block_pool'.generations[bound[k].index]
                 /\ ~Free(control_block_pool', bound[k].index)
                 /\ cb'[bound[k].index].payload = P!MakeHandle(payload_pool, k)
<1> DEFINE i == lease[l].cb.index
           c == bound[k]
<1>0. PayloadTypes /\ BlockTypes /\ BoundTracks /\ BlocksReturned
  BY TypeParts DEF IInv
<1>1. /\ b.strong + b.weak # 0 => control_block_pool' = control_block_pool
      /\ b.strong + b.weak = 0 => BlockReleased(control_block_pool, control_block_pool', i)
  BY DEF BlockLosesLease
<1>2. /\ C!Slots(control_block_pool') = C!Slots(control_block_pool)
      /\ \A j \in DOMAIN cb : j # i =>
           /\ cb'[j] = cb[j]
           /\ control_block_pool'.generations[j] = control_block_pool.generations[j]
           /\ Free(control_block_pool', j) <=> Free(control_block_pool, j)
      /\ cb'[i] = b
  BY ReleaseBlocks
<1>3. /\ Bindable /\ c.index \in C!Slots(control_block_pool) /\ c.index \in DOMAIN cb
      /\ \/ Weak /\ c.generation < control_block_pool.generations[c.index]
         \/ /\ c.generation = control_block_pool.generations[c.index]
            /\ ~Free(control_block_pool, c.index)
            /\ cb[c.index].payload = P!MakeHandle(payload_pool, k)
  BY <1>0 DEF BoundTracks, BlockTypes
<1>4. CASE c.index # i
  BY <1>2, <1>3, <1>4
<1>5. CASE c.index = i
  <2>1. c.generation \in Nat /\ control_block_pool.generations[i] \in Nat
    <3>1. c \in BlockHandles
      BY <1>0 DEF PayloadTypes
    <3> QED
      BY <1>0, <1>3, <1>5, <3>1, HandleFacts, BlockFields, PoolConstants DEF BlockTypes
  <2>2. b.strong + b.weak = 0 /\ Weak =>
          control_block_pool'.generations[i] = control_block_pool.generations[i] + 1
    BY <1>1, <1>3, <1>5 DEF BlockReleased, GenerationsFit
  <2>3. CASE b.strong + b.weak = 0 /\ Weak
    BY <1>2, <1>3, <1>5, <2>1, <2>2, <2>3
  <2>4. CASE b.strong + b.weak # 0
    <3>1. control_block_pool' = control_block_pool
      BY <1>1, <2>4
    <3> QED
      BY <1>2, <1>3, <1>5, <2>4, <3>1
  <2>5. CASE b.strong + b.weak = 0 /\ ~Weak
    BY <1>3, <1>5, <2>5
  <2> QED
    BY <2>3, <2>4, <2>5
<1> QED
  BY <1>4, <1>5

\* A release that leaves the payload alone: not the last strong lease.
LEMMA ReleaseKeepsPayload ==
    ASSUME IInv, GenerationsFit, NEW l \in Lease, lease[l] # NoLease, NEW b, BlockLosesLease(l, b),
           b.payload = cb[lease[l].cb.index].payload \/ (b.strong + b.weak = 0 /\ Weak),
           b.strong + b.weak = 0 => Weak,
           UNCHANGED << config, payload_pool, bound, known >>
    PROVE  IInv'
<1> DEFINE i == lease[l].cb.index
<1>0. /\ ConfigTypes /\ PayloadTypes /\ BlockTypes /\ ConfiguredSized /\ FreelistsDistinct
      /\ KnownHeld /\ StrongBlocksBound
  BY TypeParts DEF IInv
<1>1. /\ payload_pool' = payload_pool /\ known' = known /\ bound' = bound
      /\ ConfigTypes' /\ ConfiguredSized' /\ PayloadTypes'
  BY <1>0 DEF config, ConfigTypes, ConfiguredSized, PayloadTypes
<1>2. /\ BlockTypes' /\ Distinct(control_block_pool') /\ CountsExact' /\ LeasesOnBlocks'
      /\ BlocksReturned' /\ FreeBlocksBindable' /\ OneBlockPerPayload'
      /\ C!Slots(control_block_pool') = C!Slots(control_block_pool)
      /\ DOMAIN cb' = DOMAIN cb
      /\ \A j \in DOMAIN cb : j # i =>
           /\ cb'[j] = cb[j]
           /\ control_block_pool'.generations[j] = control_block_pool.generations[j]
           /\ Free(control_block_pool', j) <=> Free(control_block_pool, j)
      /\ cb'[i] = b
  BY ReleaseBlocks
<1>3. TypeOK'
  BY <1>1, <1>2, TypePartsNext
<1>4. FreelistsDistinct' /\ KnownHeld'
  BY <1>0, <1>1, <1>2 DEF FreelistsDistinct, KnownHeld
<1>5. StrongBlocksBound'
  <2> SUFFICES ASSUME NEW j \in DOMAIN cb, cb'[j].strong > 0
               PROVE  /\ P!IsCreated(payload_pool, cb'[j].payload)
                      /\ ~Free(payload_pool, cb'[j].payload.index)
                      /\ Bindable => bound[cb'[j].payload.index] = C!MakeHandle(control_block_pool', j)
    BY <1>1, <1>2 DEF StrongBlocksBound
  <2>1. /\ cb[j].strong > 0 /\ cb'[j].payload = cb[j].payload
        /\ control_block_pool'.generations[j] = control_block_pool.generations[j]
    <3>1. CASE j # i
      BY <1>2, <3>1
    <3>2. CASE j = i
      <4>1. b.strong > 0 /\ b \in Blocks /\ b.strong \in Nat /\ b.weak \in Nat
        BY <1>2, <3>2, BlockRecord DEF BlockLosesLease
      <4>2. b.strong + b.weak # 0
        BY <4>1
      <4>3. b.strong = cb[i].strong - One(lease[l].kind = "strong") /\ control_block_pool' = control_block_pool
        BY <4>2 DEF BlockLosesLease
      <4>4. cb[j].strong \in Nat
        BY <1>0, BlockRecord DEF BlockTypes
      <4> QED
        BY <1>2, <3>2, <4>1, <4>2, <4>3, <4>4 DEF One
    <3> QED
      BY <3>1, <3>2
  <2>2. C!MakeHandle(control_block_pool', j) = C!MakeHandle(control_block_pool, j)
    BY <2>1 DEF C!MakeHandle
  <2> QED
    BY <1>0, <2>1, <2>2 DEF StrongBlocksBound
<1>6. BoundTracks'
  <2>1. ASSUME NEW k \in DOMAIN bound, bound[k] # NoHandle
        PROVE  /\ Bindable
               /\ bound[k].index \in C!Slots(control_block_pool')
               /\ \/ Weak /\ bound[k].generation < control_block_pool'.generations[bound[k].index]
                  \/ /\ bound[k].generation = control_block_pool'.generations[bound[k].index]
                     /\ ~Free(control_block_pool', bound[k].index)
                     /\ cb'[bound[k].index].payload = P!MakeHandle(payload_pool, k)
    BY <2>1, ReleaseBound
  <2> QED
    BY <1>1, <2>1 DEF BoundTracks
<1> QED
  BY <1>1, <1>2, <1>3, <1>4, <1>5, <1>6 DEF IInv

\* No slot has the index of the empty handle.
LEMMA SlotIndices ==
    ASSUME NEW p, P!IsPool(p), NEW i \in P!Slots(p)
    PROVE  i # -1
<1>1. p.size \in Nat /\ P!Slots(p) = 0 .. (p.size - 1)
  BY PayloadFields
<1> QED
  BY <1>1

\* The release of the last strong lease gives the payload back.
LEMMA ReleaseReturnsPayload ==
    ASSUME IInv, GenerationsFit, NEW l \in Lease, lease[l] # NoLease, NEW b, BlockLosesLease(l, b),
           NEW h, h = cb[lease[l].cb.index].payload, cb[lease[l].cb.index].strong > 0,
           b.strong = 0, b.payload = NoHandle,
           payload_pool' = P!Release(payload_pool, h), bound' = [bound EXCEPT ![h.index] = NoHandle],
           UNCHANGED << config, known >>
    PROVE  IInv'
<1> DEFINE i == lease[l].cb.index
<1>0. /\ ConfigTypes /\ PayloadTypes /\ BlockTypes /\ ConfiguredSized /\ FreelistsDistinct
      /\ KnownHeld /\ StrongBlocksBound /\ OneBlockPerPayload
  BY TypeParts DEF IInv
<1>1. known' = known /\ ConfigTypes' /\ ConfiguredSized'
  BY <1>0 DEF config, ConfigTypes, ConfiguredSized
<1>2. /\ BlockTypes' /\ Distinct(control_block_pool') /\ CountsExact' /\ LeasesOnBlocks'
      /\ BlocksReturned' /\ FreeBlocksBindable' /\ OneBlockPerPayload'
      /\ C!Slots(control_block_pool') = C!Slots(control_block_pool)
      /\ DOMAIN cb' = DOMAIN cb
      /\ \A j \in DOMAIN cb : j # i =>
           /\ cb'[j] = cb[j]
           /\ control_block_pool'.generations[j] = control_block_pool.generations[j]
           /\ Free(control_block_pool', j) <=> Free(control_block_pool, j)
      /\ cb'[i] = b
  BY ReleaseBlocks
<1>3. i \in DOMAIN cb
  BY LeasedBlocks
<1>4. /\ P!IsCreated(payload_pool, h) /\ ~Free(payload_pool, h.index)
      /\ h.index \in P!Slots(payload_pool) /\ h.generation = payload_pool.generations[h.index]
  BY <1>0, <1>3 DEF StrongBlocksBound, P!IsCreated, P!IsValid
<1>5. PayloadReleased(payload_pool, payload_pool', h.index)
  BY <1>0, <1>4, PayloadRelease DEF PayloadTypes, FreelistsDistinct
<1>6. h \in PayloadHandles /\ h = P!MakeHandle(payload_pool, h.index)
  <2>1. h \in PayloadHandles \cup {NoHandle}
    BY <1>0, <1>3, BlockRecord DEF BlockTypes
  <2>2. h.index # -1
    BY <1>0, <1>4, SlotIndices DEF PayloadTypes
  <2>3. h \in PayloadHandles
    BY <2>1, <2>2, HandleFacts
  <2> QED
    BY <1>4, <2>3, ValidHandles DEF P!IsCreated
<1>7. payload_pool'.generations[h.index] = payload_pool.generations[h.index] + 1
  BY <1>4, <1>5 DEF PayloadReleased, GenerationsFit
<1>8. /\ P!IsPool(payload_pool') /\ Distinct(payload_pool')
      /\ P!Slots(payload_pool') = P!Slots(payload_pool)
      /\ \A j \in P!Slots(payload_pool) : j # h.index =>
           /\ payload_pool'.generations[j] = payload_pool.generations[j]
           /\ payload_pool'.created[j] = payload_pool.created[j]
           /\ Free(payload_pool', j) <=> Free(payload_pool, j)
  BY <1>5 DEF PayloadReleased
<1>9. /\ DOMAIN bound = P!Slots(payload_pool) /\ DOMAIN bound' = DOMAIN bound
      /\ bound'[h.index] = NoHandle /\ \A k \in DOMAIN bound : k # h.index => bound'[k] = bound[k]
  BY <1>0, <1>4 DEF PayloadTypes
<1>10. TypeOK'
  <2>1. PayloadTypes'
    BY <1>0, <1>1, <1>8 DEF PayloadTypes
  <2> QED
    BY <1>1, <1>2, <2>1, TypePartsNext
<1>11. FreelistsDistinct'
  BY <1>2, <1>8 DEF FreelistsDistinct
<1>12. KnownHeld'
  <2> SUFFICES ASSUME NEW g \in known
               PROVE  /\ g.index \in P!Slots(payload_pool')
                      /\ g.generation <= payload_pool'.generations[g.index]
                      /\ g.generation = payload_pool'.generations[g.index] => ~Free(payload_pool', g.index)
    BY <1>1 DEF KnownHeld
  <2>1. /\ g.index \in P!Slots(payload_pool) /\ g.generation <= payload_pool.generations[g.index]
        /\ g.generation = payload_pool.generations[g.index] => ~Free(payload_pool, g.index)
    BY <1>0 DEF KnownHeld
  <2>2. g.generation \in Nat /\ payload_pool.generations[g.index] \in Nat
    BY <1>0, <2>1, HandleFacts, PayloadFields, PoolConstants DEF PayloadTypes
  <2>3. CASE g.index = h.index
    <3>1. payload_pool'.generations[g.index] = payload_pool.generations[g.index] + 1
      BY <1>7, <2>3
    <3>2. g.index \in P!Slots(payload_pool')
      BY <1>8, <2>1
    <3>3. g.generation < payload_pool'.generations[g.index]
      BY <2>1, <2>2, <3>1
    <3> QED
      BY <2>2, <3>1, <3>2, <3>3
  <2>4. CASE g.index # h.index
    BY <1>8, <2>1, <2>4
  <2> QED
    BY <2>3, <2>4
<1>13. StrongBlocksBound'
  <2> SUFFICES ASSUME NEW j \in DOMAIN cb, cb'[j].strong > 0
               PROVE  /\ P!IsCreated(payload_pool', cb'[j].payload)
                      /\ ~Free(payload_pool', cb'[j].payload.index)
                      /\ Bindable => bound'[cb'[j].payload.index] = C!MakeHandle(control_block_pool', j)
    BY <1>2 DEF StrongBlocksBound
  <2>1. j # i
    BY <1>2
  <2>2. cb'[j] = cb[j] /\ cb[j].strong > 0
    BY <1>2, <2>1
  <2> DEFINE g == cb[j].payload
  <2>3. /\ P!IsCreated(payload_pool, g) /\ ~Free(payload_pool, g.index)
        /\ Bindable => bound[g.index] = C!MakeHandle(control_block_pool, j)
        /\ g.index \in P!Slots(payload_pool) /\ g.generation = payload_pool.generations[g.index]
    BY <1>0, <2>2 DEF StrongBlocksBound, P!IsCreated, P!IsValid
  <2>4. g \in PayloadHandles
    <3>1. g \in PayloadHandles \cup {NoHandle}
      BY <1>0, BlockRecord DEF BlockTypes
    <3>2. g.index # -1
      BY <1>0, <2>3, SlotIndices DEF PayloadTypes
    <3> QED
      BY <3>1, <3>2, HandleFacts
  <2>5. g.index # h.index
    <3>1. g.index = h.index => g = h
      <4>1. g = P!MakeHandle(payload_pool, g.index)
        BY <2>3, <2>4, ValidHandles DEF P!IsCreated
      <4> HIDE DEF g
      <4> QED
        BY <1>6, <4>1
    <3> QED
      BY <1>0, <1>3, <2>1, <2>2, <3>1 DEF OneBlockPerPayload
  <2>6. C!MakeHandle(control_block_pool', j) = C!MakeHandle(control_block_pool, j)
    BY <1>2, <2>1 DEF C!MakeHandle
  <2> HIDE DEF g
  <2>7. P!IsCreated(payload_pool', g)
    BY <1>8, <2>3, <2>5 DEF P!IsCreated, P!IsValid
  <2>8. ~Free(payload_pool', g.index)
    BY <1>8, <2>3, <2>5
  <2>9. Bindable => bound'[g.index] = C!MakeHandle(control_block_pool', j)
    BY <1>9, <2>3, <2>5, <2>6
  <2> QED
    BY <2>2, <2>7, <2>8, <2>9 DEF g
<1>14. BoundTracks'
  <2>1. ASSUME NEW k \in DOMAIN bound, bound'[k] # NoHandle
        PROVE  /\ Bindable
               /\ bound'[k].index \in C!Slots(control_block_pool')
               /\ \/ Weak /\ bound'[k].generation < control_block_pool'.generations[bound'[k].index]
                  \/ /\ bound'[k].generation = control_block_pool'.generations[bound'[k].index]
                     /\ ~Free(control_block_pool', bound'[k].index)
                     /\ cb'[bound'[k].index].payload = P!MakeHandle(payload_pool', k)
    <3>1. k # h.index /\ bound'[k] = bound[k] /\ k \in P!Slots(payload_pool)
      BY <1>9, <2>1
    <3>2. P!MakeHandle(payload_pool', k) = P!MakeHandle(payload_pool, k)
      BY <1>8, <3>1 DEF P!MakeHandle
    <3>3. P!MakeHandle(payload_pool, k) # h
      BY <3>1 DEF P!MakeHandle
    <3>4. /\ Bindable
          /\ bound[k].index \in C!Slots(control_block_pool')
          /\ \/ Weak /\ bound[k].generation < control_block_pool'.generations[bound[k].index]
             \/ /\ bound[k].generation = control_block_pool'.generations[bound[k].index]
                /\ ~Free(control_block_pool', bound[k].index)
                /\ cb'[bound[k].index].payload = P!MakeHandle(payload_pool, k)
      BY <2>1, <3>1, <3>3, ReleaseBound
    <3> QED
      BY <3>1, <3>2, <3>4
  <2> QED
    BY <1>9, <2>1 DEF BoundTracks
<1> QED
  BY <1>1, <1>2, <1>10, <1>11, <1>12, <1>13, <1>14 DEF IInv

\* releaseStrong and releaseWeak.  The payload pool never refuses the payload of
\* the last strong lease.
LEMMA ReleaseStep ==
    ASSUME IInv, GenerationsFit, NEW l \in Lease, ReleaseLease(l)
    PROVE  IInv'
<1> DEFINE kind == lease[l].kind
           c == lease[l].cb
           i == c.index
           block == Count(cb[c.index], kind, -1)
           lastStrong == kind = "strong" /\ block.strong = 0
           lastWeak == kind = "weak" /\ block.weak = 0
           returned == lastStrong /\ ReturnedPayload(block)
           b == IF returned \/ (lastWeak /\ Idle(block)) THEN [block EXCEPT !.payload = NoHandle]
                                                         ELSE block
           given == (lastStrong \/ lastWeak) /\ Idle(block) /\ C!CanRelease(control_block_pool, c)
<1>0. /\ PayloadTypes /\ BlockTypes /\ FreelistsDistinct /\ LeasesOnBlocks /\ StrongBlocksBound
  BY TypeParts DEF IInv
<1>1. /\ lease[l] # NoLease
      /\ payload_pool' = IF returned THEN P!Release(payload_pool, block.payload) ELSE payload_pool
      /\ bound' = IF lastStrong /\ P!IsValid(payload_pool, block.payload)
                  THEN [bound EXCEPT ![block.payload.index] = NoHandle] ELSE bound
      /\ cb' = [cb EXCEPT ![i] = b]
      /\ control_block_pool' = IF given THEN C!Release(control_block_pool, c) ELSE control_block_pool
      /\ lease' = [lease EXCEPT ![l] = NoLease]
      /\ UNCHANGED << config, known >>
  BY Zenon DEF ReleaseLease
<1>2. /\ kind \in {"strong", "weak"} /\ kind \in Kinds
  BY <1>0, <1>1, LeaseFields, LeaseRecord, KindFacts
<1>3. /\ i \in DOMAIN cb /\ i \in C!Slots(control_block_pool) /\ ~Free(control_block_pool, i)
      /\ cb[i] \in Blocks /\ cb[i].strong \in Nat /\ cb[i].weak \in Nat
      /\ kind = "strong" => cb[i].strong > 0
      /\ kind = "weak" => cb[i].weak > 0
      /\ C!CanRelease(control_block_pool, c)
  BY <1>0, <1>1, LeasedBlocks, BlockRecord DEF BlockTypes, LeasesOnBlocks, C!CanRelease
<1>4. block = [ strong |-> cb[i].strong - One(kind = "strong"),
                weak |-> cb[i].weak - One(kind = "weak"), payload |-> cb[i].payload ]
  <2>1. PICK e \in Blocks : e = cb[i]
    BY <1>3
  <2>2. /\ Count(e, "strong", -1) = [ strong |-> e.strong + -1, weak |-> e.weak, payload |-> e.payload ]
        /\ Count(e, "weak", -1) = [ strong |-> e.strong, weak |-> e.weak + -1, payload |-> e.payload ]
    BY CountFacts
  <2>3. e.strong \in Nat /\ e.weak \in Nat
    BY BlockRecord
  <2>4. e.strong + -1 = e.strong - 1 /\ e.weak + -1 = e.weak - 1 /\ e.strong - 0 = e.strong /\ e.weak - 0 = e.weak
    BY <2>3
  <2>5. block = Count(e, kind, -1)
    BY <2>1
  <2> HIDE DEF block
  <2>6. CASE kind = "strong"
    <3>1. block = [ strong |-> e.strong - 1, weak |-> e.weak - 0, payload |-> e.payload ]
      BY <2>2, <2>4, <2>5, <2>6
    <3>2. One(kind = "strong") = 1 /\ One(kind = "weak") = 0
      BY <2>6 DEF One
    <3> QED
      BY <2>1, <3>1, <3>2
  <2>7. CASE kind = "weak"
    <3>1. block = [ strong |-> e.strong - 0, weak |-> e.weak - 1, payload |-> e.payload ]
      BY <2>2, <2>4, <2>5, <2>7
    <3>2. One(kind = "strong") = 0 /\ One(kind = "weak") = 1
      BY <2>7 DEF One
    <3> QED
      BY <2>1, <3>1, <3>2
  <2> QED
    BY <1>2, <2>6, <2>7
<1>5. PICK k : k = block
  OBVIOUS
<1>6. /\ k \in Blocks /\ k.payload = cb[i].payload /\ k.strong \in Nat /\ k.weak \in Nat
      /\ k.strong = cb[i].strong - One(kind = "strong") /\ k.weak = cb[i].weak - One(kind = "weak")
  BY <1>2, <1>3, <1>4, <1>5, BlockRecord DEF One
<1>7. PICK a : a = b
  OBVIOUS
<1>8. /\ a = IF returned \/ (lastWeak /\ Idle(k)) THEN [k EXCEPT !.payload = NoHandle] ELSE k
      /\ lastStrong = (kind = "strong" /\ k.strong = 0)
      /\ lastWeak = (kind = "weak" /\ k.weak = 0)
      /\ returned = (lastStrong /\ ReturnedPayload(k))
      /\ given = ((lastStrong \/ lastWeak) /\ Idle(k) /\ C!CanRelease(control_block_pool, c))
      /\ payload_pool' = IF returned THEN P!Release(payload_pool, k.payload) ELSE payload_pool
      /\ bound' = IF lastStrong /\ P!IsValid(payload_pool, k.payload)
                  THEN [bound EXCEPT ![k.payload.index] = NoHandle] ELSE bound
      /\ cb' = [cb EXCEPT ![i] = a]
  BY <1>1, <1>5, <1>7, Zenon
<1>9. lastStrong \in BOOLEAN /\ lastWeak \in BOOLEAN /\ returned \in BOOLEAN /\ given \in BOOLEAN
  BY DEF ReturnedPayload, P!CanRelease, P!IsValid, C!CanRelease, C!IsValid, Idle
<1> HIDE DEF block, lastStrong, lastWeak, returned, b, given
<1>10. Idle(k) <=> k.strong + k.weak = 0
  BY <1>6 DEF Idle
<1>11. lastStrong => returned /\ P!IsValid(payload_pool, k.payload)
  <2> SUFFICES ASSUME lastStrong PROVE ReturnedPayload(k) /\ P!IsValid(payload_pool, k.payload)
    BY <1>8
  <2>1. cb[i].strong > 0
    BY <1>3, <1>8
  <2>2. P!IsCreated(payload_pool, k.payload) /\ P!IsValid(payload_pool, k.payload)
    BY <1>0, <1>3, <1>6, <2>1 DEF StrongBlocksBound, P!IsCreated
  <2>3. k.payload.index # -1
    BY <1>0, <2>2, SlotIndices DEF PayloadTypes, P!IsValid
  <2> QED
    BY <2>2, <2>3, HandleFacts DEF ReturnedPayload, P!CanRelease
<1>12. k.strong + k.weak = 0 => lastStrong \/ lastWeak
  <2>1. k.strong + k.weak = 0 => k.strong = 0 /\ k.weak = 0
    BY <1>6
  <2> QED
    BY <1>2, <1>8, <2>1
<1>13. given <=> k.strong + k.weak = 0
  BY <1>3, <1>8, <1>10, <1>12
<1>14. /\ a \in Blocks /\ a.strong = k.strong /\ a.weak = k.weak
       /\ a.payload = IF returned \/ (lastWeak /\ Idle(k)) THEN NoHandle ELSE k.payload
  <2>1. [k EXCEPT !.payload = NoHandle] = [ strong |-> k.strong, weak |-> k.weak, payload |-> NoHandle ]
    BY <1>6, BlockRecord DEF Blocks
  <2>2. [ strong |-> k.strong, weak |-> k.weak, payload |-> NoHandle ] \in Blocks
    BY <1>6, BlockRecord
  <2>3. CASE returned \/ (lastWeak /\ Idle(k))
    <3>1. a = [ strong |-> k.strong, weak |-> k.weak, payload |-> NoHandle ]
      BY <1>8, <2>1, <2>3
    <3> QED
      BY <2>2, <2>3, <3>1
  <2>4. CASE ~(returned \/ (lastWeak /\ Idle(k)))
    BY <1>6, <1>8, <2>4
  <2> QED
    BY <2>3, <2>4
<1>15. BlockLosesLease(l, a)
  <2>1. a.payload = k.payload \/ (a.payload = NoHandle /\ a.strong = 0)
    BY <1>8, <1>14 DEF Idle
  <2>2. a.strong + a.weak # 0 => control_block_pool' = control_block_pool
    BY <1>1, <1>13, <1>14
  <2>3. a.strong + a.weak = 0 =>
          a.payload = NoHandle /\ BlockReleased(control_block_pool, control_block_pool', i)
    <3> SUFFICES ASSUME a.strong + a.weak = 0
                 PROVE  a.payload = NoHandle /\ BlockReleased(control_block_pool, control_block_pool', i)
      OBVIOUS
    <3>1. given /\ Idle(k) /\ (lastStrong \/ lastWeak)
      BY <1>10, <1>12, <1>13, <1>14
    <3>2. a.payload = NoHandle
      BY <1>11, <1>14, <3>1
    <3>3. control_block_pool' = C!Release(control_block_pool, c)
      BY <1>1, <3>1
    <3>4. PICK d : d = c
      OBVIOUS
    <3>5. BlockReleased(control_block_pool, C!Release(control_block_pool, d), d.index)
      BY <1>0, <1>3, <3>4, BlockRelease DEF BlockTypes, FreelistsDistinct
    <3> QED
      BY <3>2, <3>3, <3>4, <3>5
  <2> QED
    BY <1>1, <1>6, <1>8, <1>14, <2>1, <2>2, <2>3 DEF BlockLosesLease
<1>16. CASE lastStrong
  <2>1. returned /\ P!IsValid(payload_pool, k.payload)
    BY <1>11, <1>16
  <2>2. PICK h : h = k.payload
    OBVIOUS
  <2>3. payload_pool' = P!Release(payload_pool, h) /\ bound' = [bound EXCEPT ![h.index] = NoHandle]
    BY <1>8, <1>16, <2>1, <2>2
  <2>4. a.strong = 0 /\ a.payload = NoHandle /\ cb[i].strong > 0 /\ h = cb[i].payload
    BY <1>3, <1>6, <1>8, <1>14, <1>16, <2>1, <2>2
  <2> QED
    BY <1>1, <1>15, <2>3, <2>4, ReleaseReturnsPayload
<1>17. CASE ~lastStrong
  <2>1. ~returned /\ payload_pool' = payload_pool /\ bound' = bound
    BY <1>8, <1>17
  <2>2. a.payload = cb[i].payload \/ (lastWeak /\ Idle(k))
    BY <1>6, <1>14, <2>1
  <2>3. lastWeak => Weak
    BY <1>2, <1>8, KindFacts
  <2>4. a.strong + a.weak = 0 => Weak
    BY <1>12, <1>14, <1>17, <2>3
  <2>5. a.payload = cb[i].payload \/ (a.strong + a.weak = 0 /\ Weak)
    BY <1>10, <1>14, <2>2, <2>3
  <2> QED
    BY <1>1, <1>15, <2>1, <2>4, <2>5, ReleaseKeepsPayload
<1> QED
  BY <1>16, <1>17

-----------------------------------------------------------------------------
(* The invariant is inductive.                                             *)

\* A new manager satisfies the invariant.
LEMMA InitInv == Init => IInv
<1> SUFFICES ASSUME Init PROVE IInv
  OBVIOUS
<1>1. /\ configured = FALSE /\ payload_block_size = 0 /\ control_block_block_size = 0
      /\ payload_pool = P!EmptyPool /\ control_block_pool = C!EmptyPool
      /\ bound = [i \in 0 .. -1 |-> NoHandle] /\ cb = [i \in 0 .. -1 |-> FreshBlock]
      /\ lease = [l \in Lease |-> NoLease] /\ known = {}
  BY DEF Init
<1>2. DOMAIN bound = {} /\ DOMAIN cb = {}
  BY <1>1
<1>3. P!Slots(payload_pool) = {} /\ C!Slots(control_block_pool) = {}
  BY <1>1, EmptyPools
<1>4. bound \in [P!Slots(payload_pool) -> BlockHandles \cup {NoHandle}]
  BY <1>1, <1>3
<1>5. cb \in [C!Slots(control_block_pool) -> Blocks]
  BY <1>1, <1>3
<1>6. ConfigTypes /\ PayloadTypes /\ BlockTypes
  <2>1. lease \in [Lease -> {NoLease} \cup Leases]
    BY <1>1
  <2>2. known \subseteq PayloadHandles
    BY <1>1
  <2>3. P!IsPool(payload_pool) /\ C!IsPool(control_block_pool)
    BY <1>1, EmptyPools
  <2> QED
    BY <1>1, <1>4, <1>5, <2>1, <2>2, <2>3 DEF ConfigTypes, PayloadTypes, BlockTypes
<1>7. ConfiguredSized /\ KnownHeld
  BY <1>1 DEF ConfiguredSized, KnownHeld
<1>8. FreelistsDistinct
  BY <1>1, EmptyPools DEF FreelistsDistinct
<1>9. CountsExact /\ BlocksReturned /\ FreeBlocksBindable /\ StrongBlocksBound /\ OneBlockPerPayload
  BY <1>2 DEF CountsExact, BlocksReturned, FreeBlocksBindable, StrongBlocksBound, OneBlockPerPayload
<1>10. LeasesOnBlocks
  BY <1>1 DEF LeasesOnBlocks
<1>11. BoundTracks
  BY <1>2 DEF BoundTracks
<1> QED
  BY <1>6, <1>7, <1>8, <1>9, <1>10, <1>11, TypeParts DEF IInv

\* So does one that nothing happened to.
LEMMA StutterInv ==
    ASSUME IInv, UNCHANGED vars
    PROVE  IInv'
<1>0. /\ ConfigTypes /\ PayloadTypes /\ BlockTypes /\ ConfiguredSized /\ FreelistsDistinct
      /\ CountsExact /\ LeasesOnBlocks /\ BlocksReturned /\ FreeBlocksBindable /\ KnownHeld
      /\ StrongBlocksBound /\ OneBlockPerPayload /\ BoundTracks
  BY TypeParts DEF IInv
<1>1. /\ configured' = configured /\ payload_block_size' = payload_block_size
      /\ control_block_block_size' = control_block_block_size
      /\ payload_pool' = payload_pool /\ control_block_pool' = control_block_pool
      /\ bound' = bound /\ cb' = cb /\ lease' = lease /\ known' = known
  BY DEF vars, config
<1>2. ConfigTypes' /\ PayloadTypes' /\ BlockTypes' /\ ConfiguredSized'
  BY <1>0, <1>1 DEF ConfigTypes, PayloadTypes, BlockTypes, ConfiguredSized
<1>3. CountsExact'
  BY <1>0, <1>1 DEF CountsExact
<1>4. /\ FreelistsDistinct' /\ LeasesOnBlocks' /\ BlocksReturned' /\ FreeBlocksBindable'
      /\ KnownHeld' /\ OneBlockPerPayload'
  BY <1>0, <1>1 DEF FreelistsDistinct, LeasesOnBlocks, BlocksReturned, FreeBlocksBindable, KnownHeld,
     OneBlockPerPayload
<1>5. StrongBlocksBound' /\ BoundTracks'
  BY <1>0, <1>1 DEF StrongBlocksBound, BoundTracks
<1> QED
  BY <1>2, <1>3, <1>4, <1>5, TypePartsNext DEF IInv

\* Every operation keeps the invariant.
LEMMA NextInv ==
    ASSUME Bindable \/ ~Reacquire, IInv, GenerationsFit, [Next]_vars
    PROVE  IInv'
<1>1. CASE \E payloads \in 0 .. PayloadLimit, blocks \in 0 .. CbLimit,
              payload_bs, block_bs \in BlockSizes :
                Configure(payloads, payload_bs, blocks, block_bs)
  BY <1>1, ConfigureStep
<1>2. CASE Shutdown
  BY <1>2, ShutdownStep
<1>3. CASE \/ \E ok \in SUBSET P!Slots(payload_pool) : CreateAllPayloads(ok)
           \/ \E h \in known : EmplacePayload(h)
  BY <1>3, CreationSteps
<1>4. CASE \E ok \in SUBSET (payload_pool.size .. (payload_pool.size + PayloadGrowth - 1)) :
             AcquirePayloadOrGrowAndCreate(ok)
  BY <1>4, AcquirePayloadStep
<1>5. CASE ReserveUncreatedPayloadOrGrow
  BY <1>5, ReservePayloadStep
<1>6. CASE \E l \in Lease, h \in known, kind \in Kinds : AcquireLease(l, h, kind)
  BY <1>6, AcquireStep
<1>7. CASE \E l, n \in Lease, kind \in Kinds : DeriveLease(l, n, kind)
  BY <1>7, DeriveStep
<1>8. CASE \E l \in Lease : ReleaseLease(l)
  BY <1>8, ReleaseStep
<1>9. CASE UNCHANGED vars
  BY <1>9, StutterInv
<1> QED
  BY <1>1, <1>2, <1>3, <1>4, <1>5, <1>6, <1>7, <1>8, <1>9 DEF Next

\* IInv holds in every state of a manager whose clients keep to one request per
\* payload (or whose payload pool has the mixin), as long as no generation field
\* comes round.
THEOREM InvariantAlways ==
    ASSUME Bindable \/ ~Reacquire
    PROVE  Spec /\ []GenerationsFit => []IInv
<1>1. Init => IInv
  BY InitInv
<1>2. IInv /\ GenerationsFit /\ [Next]_vars => IInv'
  BY NextInv
<1> QED
  BY <1>1, <1>2, PTL DEF Spec

-----------------------------------------------------------------------------
(* What the invariant says of the code.                                    *)

\* Every operation, a configure that throws half way included, leaves the two
\* pools, the binding table, the control blocks and the leases well formed and
\* of matching sizes.
THEOREM TypesAlways ==
    ASSUME Bindable \/ ~Reacquire
    PROVE  Spec /\ []GenerationsFit => []TypeOK
<1>1. IInv => TypeOK
  BY DEF IInv
<1> QED
  BY <1>1, InvariantAlways, PTL

\* The counts of a control block are exactly the numbers of strong and weak
\* leases on it, after any sequence of acquire, copy, promote, release,
\* configure and shutdown: releaseStrong never counts below zero, and a count
\* of zero means that nobody holds the block.
THEOREM CountsExactAlways ==
    ASSUME Bindable \/ ~Reacquire
    PROVE  Spec /\ []GenerationsFit => []CountsExact
<1>1. IInv => CountsExact
  BY DEF IInv
<1> QED
  BY <1>1, InvariantAlways, PTL

\* A strong lease leads to the payload it was acquired for, which is constructed
\* and on no freelist: no other client's release, no reconfiguration and no
\* shutdown takes it away.
THEOREM StrongKeepsPayloadAlways ==
    ASSUME Bindable \/ ~Reacquire
    PROVE  Spec /\ []GenerationsFit => []StrongKeepsPayload
<1>1. IInv => StrongKeepsPayload
  <2> SUFFICES ASSUME IInv, NEW l \in Lease, lease[l].kind = "strong"
               PROVE  /\ cb[lease[l].cb.index].payload = lease[l].payload
                      /\ P!IsCreated(payload_pool, lease[l].payload)
                      /\ ~Free(payload_pool, lease[l].payload.index)
    BY DEF StrongKeepsPayload
  <2>0. PayloadTypes /\ BlockTypes /\ LeasesOnBlocks /\ StrongBlocksBound
    BY TypeParts DEF IInv
  <2>1. lease[l] # NoLease
    BY HandleFacts
  <2> DEFINE i == lease[l].cb.index
             h == cb[lease[l].cb.index].payload
  <2>2. i \in DOMAIN cb /\ cb[i].strong > 0
    BY <2>1, LeasedBlocks
  <2>3. P!IsCreated(payload_pool, h) /\ ~Free(payload_pool, h.index)
    BY <2>0, <2>2 DEF StrongBlocksBound
  <2>4. h.index # -1
    BY <2>0, <2>3, SlotIndices DEF PayloadTypes, P!IsCreated, P!IsValid
  <2>5. h \in {lease[l].payload, NoHandle}
    BY <2>0, <2>1 DEF LeasesOnBlocks
  <2> HIDE DEF h
  <2>6. h = lease[l].payload
    BY <2>4, <2>5, HandleFacts
  <2> QED
    BY <2>3, <2>6 DEF h
<1> QED
  BY <1>1, InvariantAlways, PTL

\* acquireLeaseImpl never throws "control block binding failed": a control block
\* it takes from the freelist has no counts and no payload.
THEOREM FreeBlocksBindableAlways ==
    ASSUME Bindable \/ ~Reacquire
    PROVE  Spec /\ []GenerationsFit => []FreeBlocksBindable
<1>1. IInv => FreeBlocksBindable
  BY DEF IInv
<1> QED
  BY <1>1, InvariantAlways, PTL

\* No control block is lost, and none is reused under a lease: the blocks on the
\* freelist are exactly the ones with no lease.
THEOREM BlocksReturnedAlways ==
    ASSUME Bindable \/ ~Reacquire
    PROVE  Spec /\ []GenerationsFit => []BlocksReturned
<1>1. IInv => BlocksReturned
  BY DEF IInv
<1> QED
  BY <1>1, InvariantAlways, PTL

\* No two control blocks with strong leases are bound to one payload, so that
\* the payload is given back once, with its last strong lease.
THEOREM OneBlockPerPayloadAlways ==
    ASSUME Bindable \/ ~Reacquire
    PROVE  Spec /\ []GenerationsFit => []OneBlockPerPayload
<1>1. IInv => OneBlockPerPayload
  BY DEF IInv
<1> QED
  BY <1>1, InvariantAlways, PTL

=============================================================================
