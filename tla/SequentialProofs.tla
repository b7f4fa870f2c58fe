-------------------------- MODULE SequentialProofs --------------------------
(***************************************************************************)
(* Proofs about three structures that one thread uses at a time.           *)
(*                                                                         *)
(* SlotPool, for every pool size, every width of the generation field and  *)
(* every client that keeps within its window.                              *)
(*                                                                         *)
(* TensorLayout, for any shapes, steps and ranks and any chain of views: a *)
(* view addresses, at every index, the element that the meaning of the     *)
(* operations it was derived by puts there.  The recursive functions of    *)
(* the module are shown to exist, each from the least argument it would    *)
(* fail at.  A sum over dimensions does not depend on their order, nor on  *)
(* the terms that are zero: transpose, squeeze, unsqueeze and broadcastTo  *)
(* keep addresses for that reason, and slice because the sum is linear.    *)
(* reshape keeps them because the address in a contiguous view is the      *)
(* position in row-major order, and every position below the number of     *)
(* elements is that of an index.  64-bit overflow is left out.             *)
(*                                                                         *)
(* SlotAllocator, for any levels that initialize accepts, any sizes asked  *)
(* for and any number of views, reservations and failing maps: the slots   *)
(* in use and on the free lists partition the reserved memory, views have  *)
(* slots of their own, and what is free is merged.                         *)
(***************************************************************************)
EXTENDS SlotPool, TensorLayout, SlotAllocator, SlotPoolOpsProofs, FiniteSetTheorems,
        FunctionTheorems

-----------------------------------------------------------------------------
(* The slot pool *)

(* The invariant.                                                          *)

\* The pool starts with no slot and no handle.
LEMMA InitIInv == Init => IInv
<1> SUFFICES ASSUME Init PROVE IInv
  OBVIOUS
<1>1. /\ pool = EmptyPool /\ held = {} /\ stale = {}
      /\ releases \in [{} -> Nat]
  <2>1. 0 .. -1 = {}
    OBVIOUS
  <2> QED
    BY <2>1 DEF Init
<1>2. IsPool(pool) /\ Slots(pool) = {} /\ pool.freelist = << >>
  BY <1>1, EmptyPoolFacts
<1>3. TypeOK
  BY <1>1, <1>2 DEF TypeOK
<1>4. GenerationsTrack
  BY <1>1, <1>2 DEF GenerationsTrack
<1>5. 1 .. Len(pool.freelist) = {}
  BY <1>2
<1>6. HeldExclusively /\ FreelistDistinct /\ NoSlotLost
  BY <1>1, <1>2, <1>5 DEF HeldExclusively, FreelistDistinct, NoSlotLost
<1> QED
  BY <1>3, <1>4, <1>6 DEF IInv

\* Of the handles a client presents, isValid() accepts only those it holds: a
\* handle given back less than GenMod releases ago has another generation.
LEMMA PresentedIsHeld ==
    ASSUME StaleWindow <= GenMod, IInv, NEW h \in Presented, IsValid(pool, h)
    PROVE  h \in held
<1> SUFFICES ASSUME h \in stale, releases[h.index] - h.epoch < StaleWindow PROVE FALSE
  BY DEF Presented
<1>1. h.index \in Slots(pool) /\ h.generation = h.epoch % GenMod /\ h.epoch < releases[h.index]
  BY DEF IInv, GenerationsTrack
<1>2. h.generation = releases[h.index] % GenMod
  BY <1>1 DEF IInv, GenerationsTrack, IsValid
<1>3. h.epoch \in Nat /\ releases[h.index] \in Nat
  BY <1>1 DEF IInv, TypeOK, Handles
<1>4. releases[h.index] - h.epoch < GenMod
  BY <1>3, StaleWindowAssumption, SlotPoolConstants
<1> QED
  BY <1>1, <1>2, <1>3, <1>4, SlotPoolConstants, ModWindow

\* A step that changes only created flags keeps the invariant.
LEMMA CreatedOnlyIInv ==
    ASSUME IInv, IsPool(pool'), pool'.size = pool.size,
           pool'.generations = pool.generations, pool'.freelist = pool.freelist,
           UNCHANGED << held, stale, releases >>
    PROVE  IInv'
<1>1. Slots(pool)' = Slots(pool)
  BY DEF Slots
<1>2. TypeOK'
  BY <1>1 DEF IInv, TypeOK
<1>3. GenerationsTrack'
  BY <1>1 DEF IInv, GenerationsTrack
<1>4. HeldExclusively'
  BY <1>1 DEF IInv, HeldExclusively, IsValid
<1>5. FreelistDistinct' /\ NoSlotLost'
  BY <1>1 DEF IInv, FreelistDistinct, NoSlotLost
<1> QED
  BY <1>2, <1>3, <1>4, <1>5 DEF IInv

\* resize keeps the invariant: the new slots are free, the old ones stay as they were.
LEMMA GrowIInv ==
    ASSUME IInv, NEW n, Grow(n)
    PROVE  IInv'
<1>1. IsPool(pool) /\ pool' = Resize(pool, n) /\ CanResize(pool, n)
  BY DEF IInv, TypeOK, Grow
<1>2. PICK m \in Nat : m = pool.size
  BY <1>1, PoolFields
<1>3. PICK l \in Nat : l = Len(pool.freelist)
  BY <1>1, ResizeFacts
<1>4. /\ n \in Nat /\ m <= n
      /\ IsPool(pool') /\ pool'.size = n
      /\ \A i \in 0 .. (n - 1) : pool'.generations[i] = IF i < m THEN pool.generations[i] ELSE 0
      /\ Len(pool'.freelist) = l + (n - m)
      /\ \A k \in 1 .. l : pool'.freelist[k] = pool.freelist[k]
      /\ \A k \in 1 .. (n - m) : pool'.freelist[l + k] = n - k
  <2>1. n \in Nat /\ n >= m /\ IsPool(pool') /\ pool'.size = n
    BY <1>1, <1>2, ResizeFacts, Zenon
  <2>2. /\ \A i \in 0 .. (n - 1) : Resize(pool, n).generations[i] =
                IF i < pool.size THEN pool.generations[i] ELSE 0
        /\ Len(Resize(pool, n).freelist) = Len(pool.freelist) + (n - pool.size)
        /\ \A k \in 1 .. Len(pool.freelist) : Resize(pool, n).freelist[k] = pool.freelist[k]
        /\ \A k \in 1 .. (n - pool.size) : Resize(pool, n).freelist[Len(pool.freelist) + k] = n - k
    BY <1>1, ResizeFacts
  <2>3. /\ \A i \in 0 .. (n - 1) : pool'.generations[i] = IF i < m THEN pool.generations[i] ELSE 0
        /\ Len(pool'.freelist) = l + (n - m)
        /\ \A k \in 1 .. l : pool'.freelist[k] = pool.freelist[k]
        /\ \A k \in 1 .. (n - m) : pool'.freelist[l + k] = n - k
    BY <1>1, <1>2, <1>3, <2>2
  <2> QED
    BY <2>1, <2>2, <2>3
<1>5. Slots(pool) = 0 .. (m - 1) /\ Slots(pool)' = 0 .. (n - 1)
  BY <1>4, <1>2 DEF Slots
<1>6. /\ held' = held /\ stale' = stale
      /\ releases' = [i \in 0 .. (n - 1) |-> IF i < m THEN releases[i] ELSE 0]
  BY <1>2 DEF Grow
<1>7. \A k \in 1 .. l : pool.freelist[k] \in 0 .. (m - 1)
  BY <1>1, <1>5, <1>3, PoolFields, ElementOfSeq
<1>8. \A k \in (l + 1) .. (l + (n - m)) : pool'.freelist[k] = n - (k - l)
  <2> SUFFICES ASSUME NEW k \in (l + 1) .. (l + (n - m)) PROVE pool'.freelist[k] = n - (k - l)
    OBVIOUS
  <2>1. k - l \in 1 .. (n - m) /\ k = l + (k - l)
    BY <1>4
  <2> QED
    BY <1>4, <2>1
<1>9. TypeOK'
  <2>1. releases \in [0 .. (m - 1) -> Nat]
    BY <1>5 DEF IInv, TypeOK
  <2>2. \A i \in 0 .. (n - 1) : (IF i < m THEN releases[i] ELSE 0) \in Nat
    BY <1>4, <2>1
  <2> QED
    BY <1>4, <1>5, <1>6, <2>2 DEF IInv, TypeOK
<1>10. GenerationsTrack'
  <2>1. 0 % GenMod = 0
    BY SlotPoolConstants
  <2>2. \A i \in Slots(pool)' : pool'.generations[i] = releases'[i] % GenMod
    <3> SUFFICES ASSUME NEW i \in 0 .. (n - 1)
                 PROVE  pool'.generations[i] = releases'[i] % GenMod
      BY <1>5
    <3>1. CASE i < m
      <4>1. i \in Slots(pool)
        BY <1>4, <1>5, <3>1
      <4> QED
        BY <1>4, <1>6, <3>1, <4>1 DEF IInv, GenerationsTrack
    <3>2. CASE ~(i < m)
      BY <1>4, <1>6, <3>2, <2>1
    <3> QED
      BY <3>1, <3>2
  <2>3. \A h \in held \cup stale : /\ h.index \in Slots(pool) /\ h.index \in Slots(pool)'
                                  /\ releases'[h.index] = releases[h.index]
    BY <1>4, <1>5, <1>6 DEF IInv, GenerationsTrack
  <2> QED
    BY <1>6, <2>2, <2>3 DEF IInv, GenerationsTrack
<1>11. HeldExclusively'
  <2>1. \A h \in held : h.index \in 0 .. (m - 1)
    BY <1>5 DEF IInv, GenerationsTrack
  <2>2. \A h \in held : IsValid(pool', h)
    <3> SUFFICES ASSUME NEW h \in held PROVE IsValid(pool', h)
      OBVIOUS
    <3> DEFINE i == h.index
    <3>1. i \in 0 .. (m - 1) /\ h.generation = pool.generations[i]
      BY <2>1 DEF IInv, HeldExclusively, IsValid
    <3>2. Slots(pool') = 0 .. (n - 1) /\ m \in Nat /\ n \in Nat /\ n >= m
      BY <1>3, <1>4, <1>5 DEF Slots
    <3> HIDE DEF i
    <3>3. i \in 0 .. (n - 1) /\ i < m
      BY <3>1, <3>2
    <3>4. pool'.generations[i] = pool.generations[i]
      BY <1>4, <3>3
    <3>5. i \in Slots(pool') /\ h.generation = pool'.generations[i]
      BY <3>1, <3>2, <3>3, <3>4
    <3> QED
      BY <3>5 DEF IsValid, i
  <2>3. \A h \in held, k \in 1 .. (l + (n - m)) : pool'.freelist[k] # h.index
    <3> SUFFICES ASSUME NEW h \in held, NEW k \in 1 .. (l + (n - m))
                 PROVE  pool'.freelist[k] # h.index
      OBVIOUS
    <3>1. CASE k <= l
      BY <1>4, <1>3, <3>1 DEF IInv, HeldExclusively
    <3>2. CASE ~(k <= l)
      BY <1>4, <1>8, <2>1, <3>2
    <3> QED
      BY <3>1, <3>2
  <2> QED
    BY <1>4, <1>6, <2>2, <2>3 DEF IInv, HeldExclusively
<1>12. FreelistDistinct'
  <2> SUFFICES ASSUME NEW j \in 1 .. (l + (n - m)), NEW k \in 1 .. (l + (n - m)),
                      pool'.freelist[j] = pool'.freelist[k]
               PROVE  j = k
    BY <1>4 DEF FreelistDistinct
  <2>1. CASE j <= l /\ k <= l
    BY <1>4, <1>3, <2>1 DEF IInv, FreelistDistinct
  <2>2. CASE j > l /\ k > l
    <3>1. j \in (l + 1) .. (l + (n - m)) /\ k \in (l + 1) .. (l + (n - m))
      <4>1. l \in Nat /\ m \in Nat /\ n \in Nat
        BY <1>2, <1>3, <1>4
      <4> QED
        BY <2>2, <4>1
    <3>2. n - (j - l) = n - (k - l)
      <4>1. pool'.freelist[j] = n - (j - l)
        BY <1>8, <3>1
      <4>2. pool'.freelist[k] = n - (k - l)
        BY <1>8, <3>1
      <4> QED
        BY <4>1, <4>2
    <3>3. j \in Int /\ k \in Int /\ l \in Int /\ n \in Int
      BY <1>3, <1>4, <3>1
    <3> QED
      BY <3>2, <3>3
  <2>3. CASE j <= l /\ k > l
    BY <1>4, <1>7, <1>8, <2>3
  <2>4. CASE j > l /\ k <= l
    BY <1>4, <1>7, <1>8, <2>4
  <2> QED
    BY <1>4, <2>1, <2>2, <2>3, <2>4
<1>13. NoSlotLost'
  <2> SUFFICES ASSUME NEW i \in 0 .. (n - 1)
               PROVE  \/ \E h \in held : h.index = i
                      \/ \E k \in 1 .. (l + (n - m)) : pool'.freelist[k] = i
    BY <1>4, <1>5, <1>6 DEF NoSlotLost
  <2>1. CASE i < m
    <3>1. i \in Slots(pool)
      BY <1>4, <1>5, <2>1
    <3>2. CASE \E h \in held : h.index = i
      BY <3>2
    <3>3. CASE \E k \in 1 .. l : pool.freelist[k] = i
      <4>1. PICK k \in 1 .. l : pool.freelist[k] = i
        BY <3>3
      <4>2. k \in 1 .. (l + (n - m)) /\ pool'.freelist[k] = i
        BY <1>4, <4>1
      <4> QED
        BY <4>2
    <3> QED
      BY <1>3, <3>1, <3>2, <3>3 DEF IInv, NoSlotLost
  <2>2. CASE ~(i < m)
    <3>1. n - i \in 1 .. (n - m) /\ n - (n - i) = i /\ l + (n - i) \in 1 .. (l + (n - m))
      BY <1>4, <2>2
    <3>2. pool'.freelist[l + (n - i)] = i
      BY <1>4, <3>1
    <3> QED
      BY <3>1, <3>2
  <2> QED
    BY <2>1, <2>2
<1> QED
  BY <1>9, <1>10, <1>11, <1>12, <1>13 DEF IInv

\* acquireCreated and reserveUncreated keep the invariant: the slot on top of the
\* freelist moves to its new owner.
LEMMA TakeIInv ==
    ASSUME IInv, NEW wanted, TakeSlot(wanted)
    PROVE  IInv'
<1>1. /\ IsPool(pool) /\ pool.freelist # << >> /\ pool' = Take(pool)
      /\ held' = held \cup { Issued(Top(pool)) } /\ stale' = stale /\ releases' = releases
  BY DEF IInv, TypeOK, TakeSlot, CanTake
<1>2. PICK l \in Nat \ {0} : l = Len(pool.freelist)
  BY <1>1, TakeFacts
<1>3. PICK i \in Slots(pool) : i = Top(pool) /\ i = pool.freelist[l]
  BY <1>1, <1>2, TakeFacts
<1>4. /\ IsPool(pool') /\ pool'.size = pool.size /\ pool'.generations = pool.generations
      /\ Len(pool'.freelist) = l - 1
      /\ \A k \in 1 .. (l - 1) : pool'.freelist[k] = pool.freelist[k]
  BY <1>1, <1>2, TakeFacts, Zenon
<1>5. Slots(pool)' = Slots(pool) /\ i \in Nat
  BY <1>1, <1>4, PoolFields DEF Slots
<1> DEFINE h == Issued(i)
<1>6. /\ h.index = i /\ h.generation = pool.generations[i] /\ h.epoch = releases[i]
      /\ h \in Handles
  <2>1. releases[i] \in Nat
    BY DEF IInv, TypeOK
  <2>2. pool.generations[i] \in Nat
    BY <1>1, PoolFields, SlotPoolConstants
  <2> QED
    BY <1>5, <2>1, <2>2 DEF Issued, Handles
<1>7. held' = held \cup {h}
  BY <1>1, <1>3
<1> HIDE DEF h
<1>8. \A g \in held : g.index # i
  BY <1>2, <1>3 DEF IInv, HeldExclusively
<1>9. TypeOK'
  BY <1>1, <1>4, <1>5, <1>6, <1>7 DEF IInv, TypeOK
<1>10. GenerationsTrack'
  BY <1>1, <1>4, <1>5, <1>6, <1>7 DEF IInv, GenerationsTrack
<1>11. HeldExclusively'
  <2>1. \A g \in held' : IsValid(pool', g)
    BY <1>4, <1>5, <1>6, <1>7 DEF IInv, HeldExclusively, IsValid
  <2>2. \A f \in held', g \in held' : f.index = g.index => f = g
    BY <1>6, <1>7, <1>8 DEF IInv, HeldExclusively
  <2>3. \A k \in 1 .. (l - 1) : pool.freelist[k] # i
    BY <1>2, <1>3 DEF IInv, FreelistDistinct
  <2>4. \A g \in held', k \in 1 .. (l - 1) : pool'.freelist[k] # g.index
    BY <1>2, <1>4, <1>6, <1>7, <2>3 DEF IInv, HeldExclusively
  <2> QED
    BY <1>4, <2>1, <2>2, <2>4 DEF HeldExclusively
<1>12. FreelistDistinct'
  BY <1>2, <1>4 DEF IInv, FreelistDistinct
<1>13. NoSlotLost'
  <2> SUFFICES ASSUME NEW j \in Slots(pool)
               PROVE  \/ \E g \in held' : g.index = j
                      \/ \E k \in 1 .. (l - 1) : pool'.freelist[k] = j
    BY <1>4, <1>5 DEF NoSlotLost
  <2>1. CASE \E g \in held : g.index = j
    BY <1>7, <2>1
  <2>2. CASE \E k \in 1 .. l : pool.freelist[k] = j
    <3>1. PICK k \in 1 .. l : pool.freelist[k] = j
      BY <2>2
    <3>2. CASE k = l
      BY <1>3, <1>6, <1>7, <3>1, <3>2
    <3>3. CASE k # l
      <4>1. k \in 1 .. (l - 1)
        BY <3>3
      <4> QED
        BY <1>4, <3>1, <4>1
    <3> QED
      BY <3>2, <3>3
  <2> QED
    BY <1>2, <2>1, <2>2 DEF IInv, NoSlotLost
<1> QED
  BY <1>9, <1>10, <1>11, <1>12, <1>13 DEF IInv

\* release of a held handle keeps the invariant: the slot moves back to the freelist
\* and its generation moves on with the count of its releases.
LEMMA ReleaseIInv ==
    ASSUME IInv, NEW h \in held, ReleaseSlot(h)
    PROVE  IInv'
<1>1. /\ IsPool(pool) /\ pool' = Release(pool, h)
      /\ releases' = [releases EXCEPT ![h.index] = releases[h.index] + 1]
      /\ held' = held \ {h} /\ stale' = stale \cup {h}
  BY DEF IInv, TypeOK, ReleaseSlot
<1>2. PICK i \in Slots(pool) : i = h.index
  BY DEF IInv, GenerationsTrack
<1>3. PICK l \in Nat : l = Len(pool.freelist)
  BY <1>1, <1>2, ReleaseFacts
<1>4. /\ IsPool(pool') /\ pool'.size = pool.size
      /\ pool'.generations = [pool.generations EXCEPT ![i] = (pool.generations[i] + 1) % GenMod]
      /\ Len(pool'.freelist) = l + 1
      /\ \A k \in 1 .. l : pool'.freelist[k] = pool.freelist[k]
      /\ pool'.freelist[l + 1] = i
  <2>1. /\ IsPool(Release(pool, h)) /\ Release(pool, h).size = pool.size
        /\ Release(pool, h).generations =
                [pool.generations EXCEPT ![h.index] = (pool.generations[h.index] + 1) % GenMod]
        /\ Len(Release(pool, h).freelist) = Len(pool.freelist) + 1
        /\ \A k \in 1 .. Len(pool.freelist) : Release(pool, h).freelist[k] = pool.freelist[k]
        /\ Release(pool, h).freelist[Len(pool.freelist) + 1] = h.index
    BY <1>1, <1>2, ReleaseFacts
  <2> QED
    BY <1>1, <1>2, <1>3, <2>1
<1>5. Slots(pool)' = Slots(pool)
  BY <1>4 DEF Slots
<1>6. /\ releases \in [Slots(pool) -> Nat]
      /\ pool.generations \in [Slots(pool) -> 0 .. (GenMod - 1)]
  BY <1>1, PoolFields DEF IInv, TypeOK
<1>7. \A g \in held' : g.index \in Slots(pool) /\ g.index # i
  BY <1>1, <1>2 DEF IInv, GenerationsTrack, HeldExclusively
<1>8. TypeOK'
  <2>1. releases' \in [Slots(pool) -> Nat]
    BY <1>1, <1>2, <1>6
  <2> QED
    BY <1>1, <1>4, <1>5, <2>1 DEF IInv, TypeOK
<1>9. GenerationsTrack'
  <2>1. \A j \in Slots(pool) : pool'.generations[j] = releases'[j] % GenMod
    <3> SUFFICES ASSUME NEW j \in Slots(pool) PROVE pool'.generations[j] = releases'[j] % GenMod
      OBVIOUS
    <3>1. pool.generations[j] = releases[j] % GenMod
      BY DEF IInv, GenerationsTrack
    <3>2. CASE j = i
      <4>1. ((releases[i] % GenMod) + 1) % GenMod = (releases[i] + 1) % GenMod
        BY <1>6, SlotPoolConstants, ModSuccessor
      <4>2. pool'.generations[i] = (pool.generations[i] + 1) % GenMod
        BY <1>4, <1>6
      <4>3. releases'[i] = releases[i] + 1
        BY <1>1, <1>2, <1>6
      <4> QED
        BY <3>1, <3>2, <4>1, <4>2, <4>3
    <3>3. CASE j # i
      BY <1>1, <1>2, <1>4, <1>6, <3>1, <3>3
    <3> QED
      BY <3>2, <3>3
  <2>2. \A g \in held' \cup stale' : g.index \in Slots(pool) /\ g.generation = g.epoch % GenMod
    BY <1>1, <1>2 DEF IInv, GenerationsTrack
  <2>3. \A g \in held' : g.epoch = releases'[g.index]
    BY <1>1, <1>2, <1>6, <1>7 DEF IInv, GenerationsTrack
  <2>4. \A g \in stale' : g.epoch < releases'[g.index]
    <3> SUFFICES ASSUME NEW g \in stale' PROVE g.epoch < releases'[g.index]
      OBVIOUS
    <3>1. g \in Handles /\ g.index \in Slots(pool) /\ g.epoch <= releases[g.index]
      BY <1>1, <1>6 DEF IInv, GenerationsTrack, TypeOK, Handles
    <3>2. g \in stale => g.epoch < releases[g.index]
      BY DEF IInv, GenerationsTrack
    <3>3. g.epoch \in Nat /\ releases[g.index] \in Nat
      BY <1>6, <3>1 DEF Handles
    <3>4. CASE g.index = i
      BY <1>1, <1>2, <1>6, <3>1, <3>3, <3>4
    <3>5. CASE g.index # i
      BY <1>1, <1>2, <1>6, <3>1, <3>2, <3>5
    <3> QED
      BY <3>4, <3>5
  <2> QED
    BY <1>5, <2>1, <2>2, <2>3, <2>4 DEF GenerationsTrack
<1>10. HeldExclusively'
  <2>1. \A g \in held' : IsValid(pool', g)
    <3> SUFFICES ASSUME NEW g \in held' PROVE IsValid(pool', g)
      OBVIOUS
    <3>1. g.index \in Slots(pool) /\ g.index # i /\ g.generation = pool.generations[g.index]
      BY <1>1, <1>7 DEF IInv, HeldExclusively, IsValid
    <3>2. pool'.generations[g.index] = pool.generations[g.index]
      BY <1>4, <1>6, <3>1
    <3> QED
      BY <1>5, <3>1, <3>2 DEF IsValid
  <2>2. \A g \in held', k \in 1 .. (l + 1) : pool'.freelist[k] # g.index
    <3> SUFFICES ASSUME NEW g \in held', NEW k \in 1 .. (l + 1) PROVE pool'.freelist[k] # g.index
      OBVIOUS
    <3>1. CASE k \in 1 .. l
      BY <1>1, <1>3, <1>4, <3>1 DEF IInv, HeldExclusively
    <3>2. CASE k = l + 1
      BY <1>4, <1>7, <3>2
    <3> QED
      BY <3>1, <3>2
  <2> QED
    BY <1>1, <1>4, <2>1, <2>2 DEF IInv, HeldExclusively
<1>11. FreelistDistinct'
  <2>1. \A k \in 1 .. l : pool.freelist[k] # i
    BY <1>2, <1>3 DEF IInv, HeldExclusively
  <2> SUFFICES ASSUME NEW j \in 1 .. (l + 1), NEW k \in 1 .. (l + 1),
                      pool'.freelist[j] = pool'.freelist[k]
               PROVE  j = k
    BY <1>4 DEF FreelistDistinct
  <2>2. CASE j \in 1 .. l /\ k \in 1 .. l
    BY <1>3, <1>4, <2>2 DEF IInv, FreelistDistinct
  <2>3. CASE j = l + 1 /\ k \in 1 .. l
    BY <1>4, <2>1, <2>3
  <2>4. CASE j \in 1 .. l /\ k = l + 1
    BY <1>4, <2>1, <2>4
  <2> QED
    BY <2>2, <2>3, <2>4
<1>12. NoSlotLost'
  <2> SUFFICES ASSUME NEW j \in Slots(pool)
               PROVE  \/ \E g \in held' : g.index = j
                      \/ \E k \in 1 .. (l + 1) : pool'.freelist[k] = j
    BY <1>4, <1>5 DEF NoSlotLost
  <2>1. CASE j = i
    <3>1. l + 1 \in 1 .. (l + 1)
      OBVIOUS
    <3> QED
      BY <1>4, <2>1, <3>1
  <2>2. CASE j # i /\ \E g \in held : g.index = j
    BY <1>1, <1>2, <2>2
  <2>3. CASE \E k \in 1 .. l : pool.freelist[k] = j
    <3>1. PICK k \in 1 .. l : pool.freelist[k] = j
      BY <2>3
    <3>2. k \in 1 .. (l + 1)
      OBVIOUS
    <3> QED
      BY <1>4, <3>1, <3>2
  <2> QED
    BY <1>3, <2>1, <2>2, <2>3 DEF IInv, NoSlotLost
<1> QED
  BY <1>8, <1>9, <1>10, <1>11, <1>12 DEF IInv

\* Every step keeps the invariant, for clients that present a handle they gave
\* back less than GenMod releases of its slot ago.
LEMMA NextIInv ==
    ASSUME StaleWindow <= GenMod, IInv, [Next]_vars
    PROVE  IInv'
<1>1. IsPool(pool)
  BY DEF IInv, TypeOK
<1>2. CASE \E n \in 1 .. InvalidIndex : Grow(n)
  BY <1>2, GrowIInv
<1>3. CASE \E ok \in SUBSET Slots(pool) : CreateAll(ok)
  <2>1. PICK ok : CreateAll(ok)
    BY <1>3
  <2>2. /\ IsPool(pool') /\ pool'.size = pool.size
        /\ pool'.generations = pool.generations /\ pool'.freelist = pool.freelist
        /\ UNCHANGED << held, stale, releases >>
    BY <1>1, <2>1, CreateRangeFacts DEF CreateAll
  <2> QED
    BY <2>2, CreatedOnlyIInv
<1>4. CASE AcquireCreated \/ ReserveUncreated
  BY <1>4, TakeIInv DEF AcquireCreated, ReserveUncreated
<1>5. CASE \E h \in Presented : Emplace(h) \/ Destroy(h)
  <2>1. PICK h \in Presented : Emplace(h) \/ Destroy(h)
    BY <1>5
  <2>2. h.index \in Slots(pool)
    BY <2>1 DEF Emplace, Destroy, CanEmplace, IsCreated, IsValid
  <2>3. PICK flag \in BOOLEAN :
          pool' = SetCreated(pool, h, flag) /\ UNCHANGED << held, stale, releases >>
    BY <2>1 DEF Emplace, Destroy
  <2>4. /\ IsPool(pool') /\ pool'.size = pool.size
        /\ pool'.generations = pool.generations /\ pool'.freelist = pool.freelist
    BY <1>1, <2>2, <2>3, SetCreatedFacts
  <2> QED
    BY <2>3, <2>4, CreatedOnlyIInv
<1>6. CASE \E h \in Presented : ReleaseSlot(h)
  <2>1. PICK h \in Presented : ReleaseSlot(h)
    BY <1>6
  <2>2. IsValid(pool, h)
    BY <2>1 DEF ReleaseSlot, CanRelease
  <2>3. h \in held
    BY <2>2, PresentedIsHeld
  <2> QED
    BY <2>1, <2>3, ReleaseIInv
<1>7. CASE Clear
  <2>1. /\ pool' = EmptyPool /\ held' = {} /\ stale' = {}
        /\ releases' \in [{} -> Nat]
    <3>1. 0 .. -1 = {}
      OBVIOUS
    <3> QED
      BY <1>7, <3>1 DEF Clear
  <2>2. IsPool(pool') /\ Slots(pool)' = {} /\ pool'.freelist = << >>
    BY <2>1, EmptyPoolFacts
  <2>3. 1 .. Len(pool'.freelist) = {}
    BY <2>2
  <2>4. TypeOK' /\ GenerationsTrack'
    BY <2>1, <2>2 DEF TypeOK, GenerationsTrack
  <2>5. HeldExclusively' /\ FreelistDistinct' /\ NoSlotLost'
    BY <2>1, <2>2, <2>3 DEF HeldExclusively, FreelistDistinct, NoSlotLost
  <2> QED
    BY <2>4, <2>5 DEF IInv
<1>8. CASE UNCHANGED vars
  BY <1>8, <1>1, CreatedOnlyIInv DEF vars
<1> QED
  BY <1>2, <1>3, <1>4, <1>5, <1>6, <1>7, <1>8 DEF Next

-----------------------------------------------------------------------------
(* The theorems: for every pool size and every generation width, as long   *)
(* as no client presents a handle GenMod or more releases after it gave it *)
(* back.  The bound is sharp: one release more and the generation repeats. *)

\* The invariant behind the theorems: generation fields count releases, held
\* slots and the freelist share the slots out between them.
THEOREM Invariance ==
    ASSUME StaleWindow <= GenMod
    PROVE  Spec => []IInv
<1>1. IInv /\ [Next]_vars => IInv'
  BY NextIInv
<1> QED
  BY <1>1, InitIInv, PTL DEF Spec

\* The arrays keep one length, generations stay within their width.
THEOREM TypeCorrectness ==
    ASSUME StaleWindow <= GenMod
    PROVE  Spec => []TypeOK
<1>1. IInv => TypeOK
  BY DEF IInv
<1> QED
  BY <1>1, Invariance, PTL

\* acquireCreated and reserveUncreated never hand out a slot that is held, and a
\* held handle stays valid until its owner releases it.
THEOREM Exclusion ==
    ASSUME StaleWindow <= GenMod
    PROVE  Spec => []HeldExclusively
<1>1. IInv => HeldExclusively
  BY DEF IInv
<1> QED
  BY <1>1, Invariance, PTL

\* release, late or double, never leaves a slot on freelist_ twice.
THEOREM NoDuplicateFreeSlot ==
    ASSUME StaleWindow <= GenMod
    PROVE  Spec => []FreelistDistinct
<1>1. IInv => FreelistDistinct
  BY DEF IInv
<1> QED
  BY <1>1, Invariance, PTL

\* Every slot is on freelist_ or held, so that none is leaked by the pool.
THEOREM NoLeakedSlot ==
    ASSUME StaleWindow <= GenMod
    PROVE  Spec => []NoSlotLost
<1>1. IInv => NoSlotLost
  BY DEF IInv
<1> QED
  BY <1>1, Invariance, PTL

\* isValid() rejects a handle for GenMod - 1 further releases of its slot after
\* the one that gave it back.
THEOREM StaleHandlesRejected ==
    ASSUME StaleWindow <= GenMod
    PROVE  Spec => []StaleRejected
<1>1. IInv => StaleRejected
  <2> SUFFICES ASSUME IInv, NEW h \in stale, releases[h.index] - h.epoch < GenMod,
                      IsValid(pool, h)
               PROVE  FALSE
    BY DEF StaleRejected
  <2>1. /\ h.index \in Slots(pool) /\ h.epoch < releases[h.index]
        /\ h.generation = h.epoch % GenMod
    BY DEF IInv, GenerationsTrack
  <2>2. h.generation = releases[h.index] % GenMod
    BY <2>1 DEF IInv, GenerationsTrack, IsValid
  <2>3. h.epoch \in Nat /\ releases[h.index] \in Nat
    BY <2>1 DEF IInv, TypeOK, Handles
  <2> QED
    BY <2>1, <2>2, <2>3, SlotPoolConstants, ModWindow
<1> QED
  BY <1>1, Invariance, PTL

-----------------------------------------------------------------------------
(* Refinement: the pool implements ExclusiveSlots.                         *)

\* An empty pool is an initial state of ExclusiveSlots.
LEMMA InitSimulates == Init => Abstract!Init
<1> SUFFICES ASSUME Init PROVE Abstract!Init
  OBVIOUS
<1>1. pool.freelist = << >> /\ held = {}
  BY EmptyPoolFacts DEF Init
<1>2. 1 .. Len(pool.freelist) = {}
  BY <1>1
<1> QED
  BY <1>1, <1>2 DEF Abstract!Init, FreeSlots, HeldSlots

\* resize adds free slots to ExclusiveSlots.
LEMMA GrowSimulates ==
    ASSUME IInv, NEW n \in 1 .. InvalidIndex, Grow(n)
    PROVE  Abstract!Next
<1>1. IsPool(pool) /\ pool' = Resize(pool, n) /\ CanResize(pool, n) /\ n > pool.size
  BY DEF IInv, TypeOK, Grow
<1>2. PICK m \in Nat : m = pool.size
  BY <1>1, PoolFields
<1>3. PICK l \in Nat : l = Len(pool.freelist)
  BY <1>1, ResizeFacts
<1>4. /\ Len(pool'.freelist) = l + (n - m)
      /\ \A k \in 1 .. l : pool'.freelist[k] = pool.freelist[k]
      /\ \A k \in 1 .. (n - m) : pool'.freelist[l + k] = n - k
  <2>1. /\ Len(Resize(pool, n).freelist) = Len(pool.freelist) + (n - pool.size)
        /\ \A k \in 1 .. Len(pool.freelist) : Resize(pool, n).freelist[k] = pool.freelist[k]
        /\ \A k \in 1 .. (n - pool.size) : Resize(pool, n).freelist[Len(pool.freelist) + k] = n - k
    BY <1>1, ResizeFacts
  <2> QED
    BY <1>1, <1>2, <1>3, <2>1
<1>5. n \in Nat /\ m < n /\ n <= InvalidIndex
  BY <1>1, <1>2, SlotPoolConstants
<1> DEFINE S == m .. (n - 1)
<1>6. S # {} /\ S \in SUBSET (0 .. (InvalidIndex - 1))
  <2>1. m \in S
    BY <1>5
  <2>2. S \subseteq 0 .. (InvalidIndex - 1)
    BY <1>5, SlotPoolConstants
  <2> QED
    BY <2>1, <2>2
<1>7. \A k \in 1 .. l : pool.freelist[k] \in 0 .. (m - 1)
  BY <1>1, <1>2, <1>3, PoolFields, ElementOfSeq
<1>8. S \cap (FreeSlots \cup HeldSlots) = {}
  <2>1. FreeSlots \subseteq 0 .. (m - 1)
    BY <1>3, <1>7 DEF FreeSlots
  <2>2. HeldSlots \subseteq 0 .. (m - 1)
    BY <1>2 DEF HeldSlots, IInv, GenerationsTrack, Slots
  <2> QED
    BY <2>1, <2>2, <1>5
<1>9. FreeSlots' = FreeSlots \cup S
  <2>1. FreeSlots \cup S \subseteq FreeSlots'
    <3>1. \A k \in 1 .. l : k \in 1 .. (l + (n - m))
      BY <1>5
    <3>2. FreeSlots \subseteq FreeSlots'
      BY <1>3, <1>4, <3>1 DEF FreeSlots
    <3>3. ASSUME NEW i \in S PROVE i \in FreeSlots'
      <4>1. n - i \in 1 .. (n - m) /\ n - (n - i) = i /\ l + (n - i) \in 1 .. (l + (n - m))
        BY <1>5
      <4>2. pool'.freelist[l + (n - i)] = i
        BY <1>4, <4>1
      <4> QED
        BY <1>4, <4>1, <4>2 DEF FreeSlots
    <3> QED
      BY <3>2, <3>3
  <2>2. ASSUME NEW k \in 1 .. (l + (n - m)) PROVE pool'.freelist[k] \in FreeSlots \cup S
    <3>1. CASE k \in 1 .. l
      BY <1>3, <1>4, <3>1 DEF FreeSlots
    <3>2. CASE k \notin 1 .. l
      <4>1. k - l \in 1 .. (n - m) /\ k = l + (k - l) /\ n - (k - l) \in S
        BY <1>5, <3>2
      <4>2. pool'.freelist[k] = n - (k - l)
        BY <1>4, <4>1
      <4> QED
        BY <4>1, <4>2
    <3> QED
      BY <3>1, <3>2
  <2>3. FreeSlots' \subseteq FreeSlots \cup S
    BY <1>4, <2>2 DEF FreeSlots
  <2> QED
    BY <2>1, <2>3
<1>10. HeldSlots' = HeldSlots
  BY DEF HeldSlots, Grow
<1> HIDE DEF S
<1>11. Abstract!Grow(S)
  BY <1>6, <1>8, <1>9, <1>10 DEF Abstract!Grow
<1> QED
  BY <1>6, <1>11 DEF Abstract!Next

\* acquireCreated and reserveUncreated acquire a free slot of ExclusiveSlots.
LEMMA TakeSimulates ==
    ASSUME IInv, NEW wanted, TakeSlot(wanted)
    PROVE  Abstract!Next
<1>1. /\ IsPool(pool) /\ pool.freelist # << >> /\ pool' = Take(pool)
      /\ held' = held \cup { Issued(Top(pool)) }
  BY DEF IInv, TypeOK, TakeSlot, CanTake
<1>2. PICK l \in Nat \ {0} : l = Len(pool.freelist)
  BY <1>1, TakeFacts
<1>3. PICK i \in Slots(pool) : i = Top(pool) /\ i = pool.freelist[l]
  BY <1>1, <1>2, TakeFacts
<1>4. /\ Len(pool'.freelist) = l - 1
      /\ \A k \in 1 .. (l - 1) : pool'.freelist[k] = pool.freelist[k]
  BY <1>1, <1>2, TakeFacts, Zenon
<1>5. i \in 0 .. (InvalidIndex - 1)
  BY <1>1, PoolFields, SlotPoolConstants
<1>6. i \in FreeSlots
  <2>1. l \in 1 .. l
    OBVIOUS
  <2> QED
    BY <1>2, <1>3, <2>1 DEF FreeSlots
<1>7. FreeSlots' = FreeSlots \ {i}
  <2>1. ASSUME NEW k \in 1 .. (l - 1) PROVE pool.freelist[k] # i /\ k \in 1 .. l
    BY <1>2, <1>3 DEF IInv, FreelistDistinct
  <2>2. FreeSlots' \subseteq FreeSlots \ {i}
    BY <1>2, <1>4, <2>1 DEF FreeSlots
  <2>3. ASSUME NEW k \in 1 .. l, pool.freelist[k] # i PROVE k \in 1 .. (l - 1)
    BY <1>3, <2>3
  <2>4. FreeSlots \ {i} \subseteq FreeSlots'
    BY <1>2, <1>4, <2>3 DEF FreeSlots
  <2> QED
    BY <2>2, <2>4
<1>8. HeldSlots' = HeldSlots \cup {i}
  <2>1. Issued(i).index = i /\ held' = held \cup { Issued(i) }
    BY <1>1, <1>3 DEF Issued
  <2> QED
    BY <2>1 DEF HeldSlots
<1>9. Abstract!Acquire(i)
  BY <1>6, <1>7, <1>8 DEF Abstract!Acquire
<1> QED
  BY <1>5, <1>9 DEF Abstract!Next

\* release of a held handle frees an owned slot of ExclusiveSlots.
LEMMA ReleaseSimulates ==
    ASSUME IInv, NEW h \in held, ReleaseSlot(h)
    PROVE  Abstract!Next
<1>1. IsPool(pool) /\ pool' = Release(pool, h) /\ held' = held \ {h}
  BY DEF IInv, TypeOK, ReleaseSlot
<1>2. PICK i \in Slots(pool) : i = h.index
  BY DEF IInv, GenerationsTrack
<1>3. PICK l \in Nat : l = Len(pool.freelist)
  BY <1>1, <1>2, ReleaseFacts
<1>4. /\ Len(pool'.freelist) = l + 1
      /\ \A k \in 1 .. l : pool'.freelist[k] = pool.freelist[k]
      /\ pool'.freelist[l + 1] = i
  <2>1. /\ IsPool(Release(pool, h)) /\ Release(pool, h).size = pool.size
        /\ Release(pool, h).generations =
                [pool.generations EXCEPT ![h.index] = (pool.generations[h.index] + 1) % GenMod]
        /\ Len(Release(pool, h).freelist) = Len(pool.freelist) + 1
        /\ \A k \in 1 .. Len(pool.freelist) : Release(pool, h).freelist[k] = pool.freelist[k]
        /\ Release(pool, h).freelist[Len(pool.freelist) + 1] = h.index
    BY <1>1, <1>2, ReleaseFacts
  <2> QED
    BY <1>1, <1>2, <1>3, <2>1
<1>5. i \in 0 .. (InvalidIndex - 1)
  BY <1>1, PoolFields, SlotPoolConstants
<1>6. i \in HeldSlots /\ HeldSlots' = HeldSlots \ {i}
  <2>1. \A g \in held : g.index = i => g = h
    BY <1>2 DEF IInv, HeldExclusively
  <2> QED
    BY <1>1, <1>2, <2>1 DEF HeldSlots
<1>7. FreeSlots' = FreeSlots \cup {i}
  <2>1. l + 1 \in 1 .. (l + 1) /\ \A k \in 1 .. (l + 1) : k \in 1 .. l \/ k = l + 1
    OBVIOUS
  <2>2. \A k \in 1 .. l : k \in 1 .. (l + 1)
    OBVIOUS
  <2>3. FreeSlots' \subseteq FreeSlots \cup {i}
    BY <1>3, <1>4, <2>1 DEF FreeSlots
  <2>4. FreeSlots \cup {i} \subseteq FreeSlots'
    BY <1>3, <1>4, <2>1, <2>2 DEF FreeSlots
  <2> QED
    BY <2>3, <2>4
<1>8. Abstract!Return(i)
  BY <1>6, <1>7 DEF Abstract!Return
<1> QED
  BY <1>5, <1>8 DEF Abstract!Next

\* A step of the pool is a step of ExclusiveSlots, or changes neither the free
\* nor the owned slots.
LEMMA StepSimulates ==
    ASSUME StaleWindow <= GenMod, IInv, [Next]_vars
    PROVE  [Abstract!Next]_(Abstract!vars)
<1>1. IsPool(pool)
  BY DEF IInv, TypeOK
<1>2. CASE \E n \in 1 .. InvalidIndex : Grow(n)
  BY <1>2, GrowSimulates
<1>3. CASE \E ok \in SUBSET Slots(pool) : CreateAll(ok)
  <2>1. pool'.freelist = pool.freelist /\ held' = held
    BY <1>1, <1>3, CreateRangeFacts DEF CreateAll
  <2> QED
    BY <2>1 DEF Abstract!vars, FreeSlots, HeldSlots
<1>4. CASE AcquireCreated \/ ReserveUncreated
  BY <1>4, TakeSimulates DEF AcquireCreated, ReserveUncreated
<1>5. CASE \E h \in Presented : Emplace(h) \/ Destroy(h)
  <2>1. PICK h \in Presented : Emplace(h) \/ Destroy(h)
    BY <1>5
  <2>2. h.index \in Slots(pool)
    BY <2>1 DEF Emplace, Destroy, CanEmplace, IsCreated, IsValid
  <2>3. PICK flag \in BOOLEAN : pool' = SetCreated(pool, h, flag) /\ held' = held
    BY <2>1 DEF Emplace, Destroy
  <2>4. pool'.freelist = pool.freelist
    BY <1>1, <2>2, <2>3, SetCreatedFacts
  <2> QED
    BY <2>3, <2>4 DEF Abstract!vars, FreeSlots, HeldSlots
<1>6. CASE \E h \in Presented : ReleaseSlot(h)
  <2>1. PICK h \in Presented : ReleaseSlot(h)
    BY <1>6
  <2>2. h \in held
    BY <2>1, PresentedIsHeld DEF ReleaseSlot, CanRelease
  <2> QED
    BY <2>1, <2>2, ReleaseSimulates
<1>7. CASE Clear
  <2>1. pool'.freelist = << >> /\ held' = {}
    BY <1>7, EmptyPoolFacts DEF Clear
  <2>2. 1 .. Len(pool'.freelist) = {}
    BY <2>1
  <2>3. FreeSlots' = {} /\ HeldSlots' = {}
    BY <2>1, <2>2 DEF FreeSlots, HeldSlots
  <2> QED
    BY <2>3 DEF Abstract!Next, Abstract!Reset
<1>8. CASE UNCHANGED vars
  BY <1>8 DEF vars, Abstract!vars, FreeSlots, HeldSlots
<1> QED
  BY <1>2, <1>3, <1>4, <1>5, <1>6, <1>7, <1>8 DEF Next

\* SlotPool implements ExclusiveSlots: whatever freelist, generations and late
\* calls do, its clients see slots that are free or have one owner.
THEOREM Refinement ==
    ASSUME StaleWindow <= GenMod
    PROVE  Spec => ImplementsExclusiveSlots
<1>1. IInv /\ [Next]_vars => [Abstract!Next]_(Abstract!vars)
  BY StepSimulates
<1> QED
  BY <1>1, InitSimulates, Invariance, PTL DEF Spec, ImplementsExclusiveSlots, Abstract!Spec

-----------------------------------------------------------------------------
(* The tensor layout *)

LEMMA LeastNat ==
    ASSUME NEW X \in SUBSET Nat, X # {}
    PROVE  \E m \in X : \A n \in X : m <= n
<1> DEFINE T == {1 .. n : n \in X}
           R == StrictSubsetOrdering(Nat)
<1>1. ASSUME NEW n \in X PROVE 1 .. n \in FiniteSubsetsOf(Nat)
  <2>1. n \in Int /\ 1 \in Int /\ 1 .. n \in SUBSET Nat
    OBVIOUS
  <2>2. IsFiniteSet(1 .. n)
    BY <2>1, FS_Interval
  <2> QED
    BY <2>1, <2>2 DEF FiniteSubsetsOf
<1>2. T \subseteq FiniteSubsetsOf(Nat) /\ T # {}
  BY <1>1
<1>3. IsWellFoundedOn(R, FiniteSubsetsOf(Nat))
  BY FS_StrictSubsetOrderingWellFounded
<1>4. PICK x \in T : \A y \in T : ~ (<< y, x >> \in R)
  <2> HIDE DEF T, R
  <2> QED
    BY <1>2, <1>3, WFMin
<1>5. PICK m \in X : x = 1 .. m
  OBVIOUS
<1>6. ASSUME NEW n \in X PROVE m <= n
  <2> SUFFICES ASSUME n < m PROVE FALSE
    OBVIOUS
  <2>1. 1 .. n \in SUBSET Nat /\ 1 .. m \in SUBSET Nat /\ 1 .. n \subseteq 1 .. m
    OBVIOUS
  <2>2. m \in 1 .. m /\ m \notin 1 .. n
    OBVIOUS
  <2>3. << 1 .. n, 1 .. m >> \in R
    BY <2>1, <2>2 DEF StrictSubsetOrdering
  <2>4. 1 .. n \in T
    OBVIOUS
  <2> QED
    BY <1>4, <1>5, <2>3, <2>4
<1> QED
  BY <1>6

LEMMA ListOf ==
    ASSUME NEW n \in Nat, NEW S, NEW f \in [1 .. n -> S]
    PROVE  f \in Seq(S) /\ Len(f) = n /\ DOMAIN f = 1 .. n
<1>1. f \in Seq(S)
  BY SeqDef
<1> QED
  BY <1>1, LenProperties

-----------------------------------------------------------------------------
(* Recursive functions and sums *)

LEMMA Upward ==
    ASSUME NEW m \in Nat, NEW X, 0 \in X, \A n \in 1 .. m : n - 1 \in X => n \in X
    PROVE  \A n \in 0 .. m : n \in X
<1> DEFINE Y == {n \in 0 .. m : n \notin X}
<1> SUFFICES ASSUME Y # {} PROVE FALSE
  OBVIOUS
<1>1. Y \in SUBSET Nat
  OBVIOUS
<1>2. PICK k \in Y : \A n \in Y : k <= n
  BY <1>1, LeastNat
<1>3. k \in 0 .. m /\ k \notin X /\ k # 0
  OBVIOUS
<1> HIDE DEF Y
<1>4. k \in 1 .. m /\ k - 1 \in 0 .. m /\ ~ (k <= k - 1)
  BY <1>3
<1>5. k - 1 \notin Y
  BY <1>2, <1>4, Zenon
<1>6. k - 1 \in X
  BY <1>4, <1>5 DEF Y
<1> QED
  BY <1>3, <1>4, <1>6

\* f starts at x and makes one of m steps at a time.
IsRun(f, m, x, step) == f = [n \in 0 .. m |-> IF n = 0 THEN x ELSE step[n][f[n - 1]]]

LEMMA RunExists ==
    ASSUME NEW m \in Nat, NEW S, NEW x \in S, NEW step \in [1 .. m -> [S -> S]]
    PROVE  \E f \in [0 .. m -> S] : IsRun(f, m, x, step)
<1> DEFINE X == {k \in 0 .. m : \E f \in [0 .. k -> S] : IsRun(f, k, x, step)}
<1>1. 0 \in X
  <2> DEFINE f == [n \in 0 .. 0 |-> x]
  <2>1. f \in [0 .. 0 -> S] /\ \A n \in 0 .. 0 : n = 0
    OBVIOUS
  <2>2. IsRun(f, 0, x, step)
    BY <2>1 DEF IsRun
  <2> HIDE DEF f
  <2> QED
    BY <2>1, <2>2
<1>2. ASSUME NEW k \in 1 .. m, k - 1 \in X PROVE k \in X
  <2>1. PICK f \in [0 .. k - 1 -> S] : IsRun(f, k - 1, x, step)
    BY <1>2
  <2> HIDE DEF X
  <2>2. /\ k \in 0 .. m /\ k # 0 /\ k - 1 \in 0 .. k - 1
        /\ \A n \in 0 .. k : n # k => n \in 0 .. k - 1
        /\ \A n \in 0 .. k - 1 : n \in 0 .. k /\ n # k
        /\ \A n \in 0 .. k : n # 0 => n - 1 \in 0 .. k - 1
    OBVIOUS
  <2>3. \A n \in 0 .. k - 1 : f[n] = IF n = 0 THEN x ELSE step[n][f[n - 1]]
    <3> DEFINE F(n) == IF n = 0 THEN x ELSE step[n][f[n - 1]]
    <3>1. f = [n \in 0 .. k - 1 |-> F(n)]
      BY <2>1 DEF IsRun
    <3> HIDE DEF F
    <3>2. \A n \in 0 .. k - 1 : f[n] = F(n)
      BY <3>1
    <3> QED
      BY <3>2 DEF F
  <2>4. step[k] \in [S -> S] /\ f[k - 1] \in S
    BY <2>2
  <2> DEFINE g == [n \in 0 .. k |-> IF n = k THEN step[k][f[k - 1]] ELSE f[n]]
  <2>5. g \in [0 .. k -> S]
    BY <2>2, <2>4
  <2>6. \A n \in 0 .. k - 1 : g[n] = f[n]
    BY <2>2
  <2>7. g[k] = step[k][f[k - 1]]
    BY <2>2
  <2> HIDE DEF g
  <2>8. ASSUME NEW n \in 0 .. k PROVE g[n] = IF n = 0 THEN x ELSE step[n][g[n - 1]]
    <3>1. CASE n = k
      BY <2>2, <2>6, <2>7, <3>1
    <3>2. CASE n # k
      <4>1. n \in 0 .. k - 1 /\ (n # 0 => n - 1 \in 0 .. k - 1)
        BY <2>2, <3>2, Zenon
      <4>2. g[n] = f[n] /\ (n # 0 => g[n - 1] = f[n - 1])
        BY <2>6, <4>1, Zenon
      <4> QED
        BY <2>3, <4>1, <4>2
    <3> QED
      BY <3>1, <3>2
  <2>9. IsRun(g, k, x, step)
    <3>1. g = [n \in 0 .. k |-> g[n]]
      BY <2>5
    <3> QED
      BY <2>8, <3>1 DEF IsRun
  <2> QED
    BY <2>2, <2>5, <2>9 DEF X
<1>3. m \in X
  <2> HIDE DEF X
  <2>1. \A k \in 1 .. m : k - 1 \in X => k \in X
    BY <1>2
  <2>2. \A k \in 0 .. m : k \in X
    BY <1>1, <2>1, Upward
  <2> QED
    BY <2>2
<1> QED
  BY <1>3

LEMMA RunFacts ==
    ASSUME NEW m \in Nat, NEW x, NEW step, NEW f, IsRun(f, m, x, step)
    PROVE  f[0] = x /\ \A n \in 1 .. m : f[n] = step[n][f[n - 1]]
<1> DEFINE F(n) == IF n = 0 THEN x ELSE step[n][f[n - 1]]
<1>1. f = [n \in 0 .. m |-> F(n)]
  BY DEF IsRun
<1> HIDE DEF F
<1>2. \A n \in 0 .. m : f[n] = F(n)
  BY <1>1
<1>3. 0 \in 0 .. m /\ \A n \in 1 .. m : n \in 0 .. m /\ n # 0
  OBVIOUS
<1> QED
  BY <1>2, <1>3 DEF F

\* A loop of m steps over values of S.
IsLoop(f, m, x, step) == f[0] = x /\ \A n \in 1 .. m : f[n] = step[n][f[n - 1]]

LEMMA LoopExists ==
    ASSUME NEW m \in Nat, NEW S, NEW x \in S, NEW step \in [1 .. m -> [S -> S]]
    PROVE  \E f \in [0 .. m -> S] : IsLoop(f, m, x, step)
<1>1. PICK f \in [0 .. m -> S] : IsRun(f, m, x, step)
  BY RunExists
<1>2. f[0] = x /\ \A n \in 1 .. m : f[n] = step[n][f[n - 1]]
  <2>1. IsRun(f, m, x, step)
    BY <1>1
  <2> QED
    BY <2>1, RunFacts
<1> QED
  BY <1>2 DEF IsLoop

LEMMA ProductNat == \A a, b, c \in Nat : a * b + c \in Nat
OBVIOUS

LEMMA SumsRun ==
    ASSUME NEW m \in Nat, NEW t \in [1 .. m -> Int]
    PROVE  \E f \in [0 .. m -> Int] :
             /\ f[0] = 0 /\ \A n \in 1 .. m : f[n] = f[n - 1] + t[n]
             /\ Sums(t) = f
<1> DEFINE step == [n \in 1 .. m |-> [x \in Int |-> x + t[n]]]
           IsLet(f) == f = [n \in 0 .. m |-> IF n = 0 THEN 0 ELSE f[n - 1] + t[n]]
           g == CHOOSE f : IsLet(f)
<1>1. Len(t) = m
  BY ListOf
<1>2. step \in [1 .. m -> [Int -> Int]]
  OBVIOUS
<1>3. \A n \in 1 .. m, x \in Int : step[n][x] = x + t[n]
  OBVIOUS
<1> HIDE DEF step
<1>4. PICK f \in [0 .. m -> Int] : f[0] = 0 /\ \A n \in 1 .. m : f[n] = step[n][f[n - 1]]
  <2>1. 0 \in Int
    OBVIOUS
  <2>2. \E f \in [0 .. m -> Int] : IsLoop(f, m, 0, step)
    BY <1>2, <2>1, LoopExists, Zenon
  <2> QED
    BY <2>2 DEF IsLoop
<1>5. \A n \in 0 .. m : n = 0 \/ (n \in 1 .. m /\ n - 1 \in 0 .. m)
  OBVIOUS
<1>6. f[0] = 0 /\ \A n \in 1 .. m : f[n] = f[n - 1] + t[n]
  <2>1. \A n \in 1 .. m : f[n - 1] \in Int
    BY <1>4
  <2> QED
    BY <1>3, <1>4, <2>1
<1>7. IsLet(f)
  <2>1. \A n \in 0 .. m : f[n] = IF n = 0 THEN 0 ELSE f[n - 1] + t[n]
    BY <1>5, <1>6
  <2>2. f = [n \in 0 .. m |-> f[n]]
    OBVIOUS
  <2> QED
    BY <2>1, <2>2
<1>8. IsLet(g)
  <2> HIDE DEF IsLet
  <2> QED
    BY <1>7
<1>9. Sums(t) = g
  BY <1>1 DEF Sums
<1>10. g = [n \in 0 .. m |-> IF n = 0 THEN 0 ELSE g[n - 1] + t[n]]
  BY <1>8
<1> HIDE DEF g
<1>11. g[0] = 0 /\ \A n \in 1 .. m : g[n] = g[n - 1] + t[n]
  <2> DEFINE F(n) == IF n = 0 THEN 0 ELSE g[n - 1] + t[n]
  <2>1. g = [n \in 0 .. m |-> F(n)]
    BY <1>10
  <2> HIDE DEF F
  <2>2. \A n \in 0 .. m : g[n] = F(n)
    BY <2>1
  <2>3. 0 \in 0 .. m /\ \A n \in 1 .. m : n \in 0 .. m /\ n # 0
    OBVIOUS
  <2> QED
    BY <2>2, <2>3 DEF F
<1>12. \A n \in 0 .. m : g[n] \in Int
  <2> DEFINE X == {n \in 0 .. m : g[n] \in Int}
  <2>1. 0 \in X
    <3>1. 0 \in Int /\ 0 \in 0 .. m
      OBVIOUS
    <3> QED
      BY <1>11, <3>1
  <2>2. ASSUME NEW n \in 1 .. m, n - 1 \in X PROVE n \in X
    <3>1. n \in 0 .. m /\ g[n - 1] \in Int /\ g[n] = g[n - 1] + t[n]
      BY <1>11, <2>2
    <3>2. (g[n - 1] + t[n]) \in Int
      BY <3>1
    <3> QED
      BY <3>1, <3>2
  <2> HIDE DEF X
  <2>3. \A n \in 0 .. m : n \in X
    BY <2>1, <2>2, Upward
  <2> QED
    BY <2>3 DEF X
<1>13. g \in [0 .. m -> Int]
  BY <1>10, <1>12
<1> QED
  BY <1>9, <1>11, <1>13

LEMMA ExtentsRun ==
    ASSUME NEW m \in Nat, NEW s \in [1 .. m -> Nat]
    PROVE  \E f \in [0 .. m -> Nat] :
             /\ f[0] = 1 /\ \A n \in 1 .. m : f[n] = f[n - 1] * s[m + 1 - n]
             /\ Extents(s) = f
<1> DEFINE step == [n \in 1 .. m |-> [x \in Nat |-> x * s[m + 1 - n]]]
           IsLet(f) == f = [n \in 0 .. m |-> IF n = 0 THEN 1 ELSE f[n - 1] * s[m + 1 - n]]
           g == CHOOSE f : IsLet(f)
<1>1. Len(s) = m
  BY ListOf
<1>2. step \in [1 .. m -> [Nat -> Nat]]
  BY \A n \in 1 .. m : m + 1 - n \in 1 .. m
<1>3. \A n \in 1 .. m, x \in Nat : step[n][x] = x * s[m + 1 - n]
  OBVIOUS
<1> HIDE DEF step
<1>4. PICK f \in [0 .. m -> Nat] : f[0] = 1 /\ \A n \in 1 .. m : f[n] = step[n][f[n - 1]]
  <2>1. 1 \in Nat
    OBVIOUS
  <2>2. \E f \in [0 .. m -> Nat] : IsLoop(f, m, 1, step)
    BY <1>2, <2>1, LoopExists, Zenon
  <2> QED
    BY <2>2 DEF IsLoop
<1>5. \A n \in 0 .. m : n = 0 \/ (n \in 1 .. m /\ n - 1 \in 0 .. m)
  OBVIOUS
<1>6. f[0] = 1 /\ \A n \in 1 .. m : f[n] = f[n - 1] * s[m + 1 - n]
  <2>1. \A n \in 1 .. m : f[n - 1] \in Nat
    BY <1>4
  <2> QED
    BY <1>3, <1>4, <2>1
<1>7. IsLet(f)
  <2>1. \A n \in 0 .. m : f[n] = IF n = 0 THEN 1 ELSE f[n - 1] * s[m + 1 - n]
    BY <1>5, <1>6
  <2>2. f = [n \in 0 .. m |-> f[n]]
    OBVIOUS
  <2> QED
    BY <2>1, <2>2
<1>8. IsLet(g)
  <2> HIDE DEF IsLet
  <2> QED
    BY <1>7
<1>9. Extents(s) = g
  BY <1>1 DEF Extents
<1>10. g = [n \in 0 .. m |-> IF n = 0 THEN 1 ELSE g[n - 1] * s[m + 1 - n]]
  BY <1>8
<1> HIDE DEF g
<1>11. g[0] = 1 /\ \A n \in 1 .. m : g[n] = g[n - 1] * s[m + 1 - n]
  <2> DEFINE F(n) == IF n = 0 THEN 1 ELSE g[n - 1] * s[m + 1 - n]
  <2>1. g = [n \in 0 .. m |-> F(n)]
    BY <1>10
  <2> HIDE DEF F
  <2>2. \A n \in 0 .. m : g[n] = F(n)
    BY <2>1
  <2>3. 0 \in 0 .. m /\ \A n \in 1 .. m : n \in 0 .. m /\ n # 0
    OBVIOUS
  <2> QED
    BY <2>2, <2>3 DEF F
<1>12. \A n \in 0 .. m : g[n] \in Nat
  <2> DEFINE X == {n \in 0 .. m : g[n] \in Nat}
  <2>1. 0 \in X
    <3>1. 1 \in Nat /\ 0 \in 0 .. m
      OBVIOUS
    <3> QED
      BY <1>11, <3>1
  <2>2. ASSUME NEW n \in 1 .. m, n - 1 \in X PROVE n \in X
    <3>1. n \in 0 .. m /\ g[n - 1] \in Nat /\ g[n] = g[n - 1] * s[m + 1 - n]
      BY <1>11, <2>2
    <3>2. (g[n - 1] * s[m + 1 - n]) \in Nat
      <4>1. m + 1 - n \in 1 .. m
        OBVIOUS
      <4>2. \A a, b \in Nat : a * b \in Nat
        OBVIOUS
      <4> QED
        BY <3>1, <4>1, <4>2
    <3> QED
      BY <3>1, <3>2
  <2> HIDE DEF X
  <2>3. \A n \in 0 .. m : n \in X
    BY <2>1, <2>2, Upward
  <2> QED
    BY <2>3 DEF X
<1>13. g \in [0 .. m -> Nat]
  BY <1>10, <1>12
<1> QED
  BY <1>9, <1>11, <1>13

LEMMA RowMajorRun ==
    ASSUME NEW m \in Nat, NEW s \in [1 .. m -> Nat], NEW i \in [1 .. m -> Nat]
    PROVE  \E f \in [0 .. m -> Nat] :
             /\ f[0] = 0 /\ \A n \in 1 .. m : f[n] = f[n - 1] * s[n] + i[n]
             /\ RowMajor(s, i) = f[m]
<1> DEFINE step == [n \in 1 .. m |-> [x \in Nat |-> x * s[n] + i[n]]]
           IsLet(f) == f = [n \in 0 .. m |-> IF n = 0 THEN 0 ELSE f[n - 1] * s[n] + i[n]]
           g == CHOOSE f : IsLet(f)
<1>1. Len(s) = m
  BY ListOf
<1>2. step \in [1 .. m -> [Nat -> Nat]]
  <2>1. \A a, b, c \in Nat : a * b + c \in Nat
    OBVIOUS
  <2> QED
    BY <2>1
<1>3. \A n \in 1 .. m, x \in Nat : step[n][x] = x * s[n] + i[n]
  OBVIOUS
<1> HIDE DEF step
<1>4. PICK f \in [0 .. m -> Nat] : f[0] = 0 /\ \A n \in 1 .. m : f[n] = step[n][f[n - 1]]
  <2>1. 0 \in Nat
    OBVIOUS
  <2>2. \E f \in [0 .. m -> Nat] : IsLoop(f, m, 0, step)
    BY <1>2, <2>1, LoopExists, Zenon
  <2> QED
    BY <2>2 DEF IsLoop
<1>5. \A n \in 0 .. m : n = 0 \/ (n \in 1 .. m /\ n - 1 \in 0 .. m)
  OBVIOUS
<1>6. f[0] = 0 /\ \A n \in 1 .. m : f[n] = f[n - 1] * s[n] + i[n]
  <2>1. \A n \in 1 .. m : f[n - 1] \in Nat
    BY <1>4
  <2> QED
    BY <1>3, <1>4, <2>1
<1>7. IsLet(f)
  <2>1. \A n \in 0 .. m : f[n] = IF n = 0 THEN 0 ELSE f[n - 1] * s[n] + i[n]
    BY <1>5, <1>6
  <2>2. f = [n \in 0 .. m |-> f[n]]
    OBVIOUS
  <2> QED
    BY <2>1, <2>2
<1>8. IsLet(g)
  <2> HIDE DEF IsLet
  <2> QED
    BY <1>7
<1>9. RowMajor(s, i) = g[m]
  BY <1>1 DEF RowMajor
<1>10. g = [n \in 0 .. m |-> IF n = 0 THEN 0 ELSE g[n - 1] * s[n] + i[n]]
  BY <1>8
<1> HIDE DEF g
<1>11. g[0] = 0 /\ \A n \in 1 .. m : g[n] = g[n - 1] * s[n] + i[n]
  <2> DEFINE F(n) == IF n = 0 THEN 0 ELSE g[n - 1] * s[n] + i[n]
  <2>1. g = [n \in 0 .. m |-> F(n)]
    BY <1>10
  <2> HIDE DEF F
  <2>2. \A n \in 0 .. m : g[n] = F(n)
    BY <2>1
  <2>3. 0 \in 0 .. m /\ \A n \in 1 .. m : n \in 0 .. m /\ n # 0
    OBVIOUS
  <2> QED
    BY <2>2, <2>3 DEF F
<1>12. \A n \in 0 .. m : g[n] \in Nat
  <2> DEFINE X == {n \in 0 .. m : g[n] \in Nat}
  <2>1. 0 \in X
    <3>1. 0 \in Nat /\ 0 \in 0 .. m
      OBVIOUS
    <3> QED
      BY <1>11, <3>1
  <2>2. ASSUME NEW n \in 1 .. m, n - 1 \in X PROVE n \in X
    <3>1. n \in 0 .. m /\ g[n - 1] \in Nat /\ g[n] = g[n - 1] * s[n] + i[n]
      BY <1>11, <2>2
    <3>2. (g[n - 1] * s[n] + i[n]) \in Nat
      <4>1. \A a, b, c \in Nat : a * b + c \in Nat
        BY ProductNat
      <4> QED
        BY <3>1, <4>1
    <3> QED
      BY <3>1, <3>2
  <2> HIDE DEF X
  <2>3. \A n \in 0 .. m : n \in X
    BY <2>1, <2>2, Upward
  <2> QED
    BY <2>3 DEF X
<1>13. g \in [0 .. m -> Nat]
  BY <1>10, <1>12
<1> QED
  BY <1>9, <1>11, <1>13

\* The dimensions kept are listed one by one.
KeepsIn(v, m, dims) ==
    \E f \in [0 .. m -> Seq(Nat)] :
        /\ f[0] = << >> /\ \A n \in 1 .. m : f[n] = IF n \in dims THEN f[n - 1] ELSE Append(f[n - 1], n)
        /\ Kept(v, dims) = f[m]

LEMMA KeptRun ==
    ASSUME NEW m \in Nat, NEW v, v.shape \in [1 .. m -> Nat], NEW dims
    PROVE  KeepsIn(v, m, dims)
<1> DEFINE step == [n \in 1 .. m |-> [x \in Seq(Nat) |-> IF n \in dims THEN x ELSE Append(x, n)]]
           IsLet(f) == f = [n \in 0 .. m |-> IF n = 0 THEN << >> ELSE IF n \in dims THEN f[n - 1] ELSE Append(f[n - 1], n)]
           g == CHOOSE f : IsLet(f)
<1>1. Len(v.shape) = m
  BY ListOf
<1>2. step \in [1 .. m -> [Seq(Nat) -> Seq(Nat)]]
  BY \A n \in 1 .. m : n \in Nat
<1>3. \A n \in 1 .. m, x \in Seq(Nat) : step[n][x] = IF n \in dims THEN x ELSE Append(x, n)
  OBVIOUS
<1> HIDE DEF step
<1>4. PICK f \in [0 .. m -> Seq(Nat)] : f[0] = << >> /\ \A n \in 1 .. m : f[n] = step[n][f[n - 1]]
  <2>1. << >> \in Seq(Nat)
    OBVIOUS
  <2>2. \E f \in [0 .. m -> Seq(Nat)] : IsLoop(f, m, << >>, step)
    BY <1>2, <2>1, LoopExists, Zenon
  <2> QED
    BY <2>2 DEF IsLoop
<1>5. \A n \in 0 .. m : n = 0 \/ (n \in 1 .. m /\ n - 1 \in 0 .. m)
  OBVIOUS
<1>6. f[0] = << >> /\ \A n \in 1 .. m : f[n] = IF n \in dims THEN f[n - 1] ELSE Append(f[n - 1], n)
  <2>1. \A n \in 1 .. m : f[n - 1] \in Seq(Nat)
    BY <1>4
  <2> QED
    BY <1>3, <1>4, <2>1
<1>7. IsLet(f)
  <2>1. \A n \in 0 .. m : f[n] = IF n = 0 THEN << >> ELSE IF n \in dims THEN f[n - 1] ELSE Append(f[n - 1], n)
    BY <1>5, <1>6
  <2>2. f = [n \in 0 .. m |-> f[n]]
    OBVIOUS
  <2> QED
    BY <2>1, <2>2
<1>8. IsLet(g)
  <2> HIDE DEF IsLet
  <2> QED
    BY <1>7
<1>9. Kept(v, dims) = g[m]
  BY <1>1 DEF Kept
<1>10. g = [n \in 0 .. m |-> IF n = 0 THEN << >> ELSE IF n \in dims THEN g[n - 1] ELSE Append(g[n - 1], n)]
  BY <1>8
<1> HIDE DEF g
<1>11. g[0] = << >> /\ \A n \in 1 .. m : g[n] = IF n \in dims THEN g[n - 1] ELSE Append(g[n - 1], n)
  <2> DEFINE F(n) == IF n = 0 THEN << >> ELSE IF n \in dims THEN g[n - 1] ELSE Append(g[n - 1], n)
  <2>1. g = [n \in 0 .. m |-> F(n)]
    BY <1>10
  <2> HIDE DEF F
  <2>2. \A n \in 0 .. m : g[n] = F(n)
    BY <2>1
  <2>3. 0 \in 0 .. m /\ \A n \in 1 .. m : n \in 0 .. m /\ n # 0
    OBVIOUS
  <2> QED
    BY <2>2, <2>3 DEF F
<1>12. \A n \in 0 .. m : g[n] \in Seq(Nat)
  <2> DEFINE X == {n \in 0 .. m : g[n] \in Seq(Nat)}
  <2>1. 0 \in X
    <3>1. << >> \in Seq(Nat) /\ 0 \in 0 .. m
      OBVIOUS
    <3> QED
      BY <1>11, <3>1
  <2>2. ASSUME NEW n \in 1 .. m, n - 1 \in X PROVE n \in X
    <3>1. n \in 0 .. m /\ g[n - 1] \in Seq(Nat) /\ g[n] = IF n \in dims THEN g[n - 1] ELSE Append(g[n - 1], n)
      BY <1>11, <2>2
    <3>2. (IF n \in dims THEN g[n - 1] ELSE Append(g[n - 1], n)) \in Seq(Nat)
      <4>1. n \in Nat
        OBVIOUS
      <4>2. n \notin dims => Append(g[n - 1], n) \in Seq(Nat)
        BY <3>1, <4>1
      <4> QED
        BY <3>1, <4>2
    <3> QED
      BY <3>1, <3>2
  <2> HIDE DEF X
  <2>3. \A n \in 0 .. m : n \in X
    BY <2>1, <2>2, Upward
  <2> QED
    BY <2>3 DEF X
<1>13. g \in [0 .. m -> Seq(Nat)]
  BY <1>10, <1>12
<1> QED
  BY <1>9, <1>11, <1>13 DEF KeepsIn

LEMMA TotalFacts ==
    ASSUME NEW m \in Nat, NEW t \in [1 .. m -> Int]
    PROVE  /\ Total(t) \in Int /\ Total(t) = Sums(t)[m]
           /\ Sums(t)[0] = 0
           /\ \A n \in 0 .. m : Sums(t)[n] \in Int
           /\ \A n \in 1 .. m : Sums(t)[n] = Sums(t)[n - 1] + t[n]
<1>1. Len(t) = m
  BY ListOf
<1>2. PICK f \in [0 .. m -> Int] : /\ f[0] = 0 /\ \A n \in 1 .. m : f[n] = f[n - 1] + t[n]
                                   /\ Sums(t) = f
  BY SumsRun
<1>3. Total(t) = Sums(t)[m] /\ m \in 0 .. m
  BY <1>1 DEF Total
<1> QED
  BY <1>2, <1>3

LEMMA TotalAdd ==
    ASSUME NEW m \in Nat, NEW a \in [1 .. m -> Int], NEW b \in [1 .. m -> Int]
    PROVE  Total([d \in 1 .. m |-> a[d] + b[d]]) = Total(a) + Total(b)
<1> DEFINE c == [d \in 1 .. m |-> a[d] + b[d]]
           X == {n \in 0 .. m : Sums(c)[n] = Sums(a)[n] + Sums(b)[n]}
<1>1. c \in [1 .. m -> Int] /\ \A d \in 1 .. m : c[d] = a[d] + b[d]
  OBVIOUS
<1> HIDE DEF c
<1>2. 0 \in X
  <2>1. Sums(a)[0] = 0 /\ Sums(b)[0] = 0
    BY TotalFacts
  <2>2. Sums(c)[0] = 0
    BY <1>1, TotalFacts
  <2> QED
    BY <2>1, <2>2
<1>3. ASSUME NEW n \in 1 .. m, n - 1 \in X PROVE n \in X
  <2>1. Sums(c)[n - 1] = Sums(a)[n - 1] + Sums(b)[n - 1] /\ n \in 0 .. m /\ n - 1 \in 0 .. m
    BY <1>3
  <2> HIDE DEF X
  <2>2. Sums(c)[n] = Sums(c)[n - 1] + c[n] /\ c[n] = a[n] + b[n]
    BY <1>1, TotalFacts
  <2>3. /\ Sums(a)[n] = Sums(a)[n - 1] + a[n] /\ Sums(b)[n] = Sums(b)[n - 1] + b[n]
        /\ Sums(a)[n - 1] \in Int /\ Sums(b)[n - 1] \in Int /\ a[n] \in Int /\ b[n] \in Int
    BY <2>1, TotalFacts
  <2>4. Sums(c)[n] = Sums(a)[n] + Sums(b)[n]
    BY <2>1, <2>2, <2>3
  <2> QED
    BY <2>1, <2>4 DEF X
<1>4. m \in X
  <2> HIDE DEF X
  <2>1. \A n \in 0 .. m : n \in X
    BY <1>2, <1>3, Upward
  <2> QED
    BY <2>1
<1>5. Sums(c)[m] = Sums(a)[m] + Sums(b)[m]
  BY <1>4
<1>6. Total(c) = Sums(c)[m] /\ Total(a) = Sums(a)[m] /\ Total(b) = Sums(b)[m]
  BY <1>1, TotalFacts
<1> QED
  BY <1>5, <1>6 DEF c

\* The last term comes last.
LEMMA TotalPrefix ==
    ASSUME NEW m \in Nat \ {0}, NEW t \in [1 .. m -> Int]
    PROVE  Total(t) = Total([d \in 1 .. m - 1 |-> t[d]]) + t[m]
<1> DEFINE k == m - 1
           u == [d \in 1 .. k |-> t[d]]
           X == {n \in 0 .. k : Sums(u)[n] = Sums(t)[n]}
<1>1. k \in Nat /\ m = k + 1 /\ m \in 1 .. m /\ \A d \in 1 .. k : d \in 1 .. m
  OBVIOUS
<1> HIDE DEF k
<1>2. u \in [1 .. k -> Int] /\ \A d \in 1 .. k : u[d] = t[d]
  BY <1>1
<1> HIDE DEF u
<1>3. 0 \in X
  BY <1>1, <1>2, TotalFacts
<1>4. ASSUME NEW n \in 1 .. k, n - 1 \in X PROVE n \in X
  <2>1. Sums(u)[n - 1] = Sums(t)[n - 1] /\ n \in 0 .. k
    BY <1>4
  <2> HIDE DEF X
  <2>2. Sums(u)[n] = Sums(u)[n - 1] + u[n] /\ u[n] = t[n] /\ n \in 1 .. m
    BY <1>1, <1>2, TotalFacts
  <2>3. Sums(t)[n] = Sums(t)[n - 1] + t[n]
    BY <2>2, TotalFacts
  <2> QED
    BY <2>1, <2>2, <2>3 DEF X
<1>5. k \in X
  <2> HIDE DEF X
  <2>1. \A n \in 0 .. k : n \in X
    BY <1>1, <1>3, <1>4, Upward
  <2> QED
    BY <1>1, <2>1
<1>6. Sums(u)[k] = Sums(t)[k] /\ Total(u) = Sums(u)[k]
  BY <1>1, <1>2, <1>5, TotalFacts
<1>7. Total(t) = Sums(t)[m] /\ Sums(t)[m] = Sums(t)[m - 1] + t[m]
  BY <1>1, TotalFacts
<1> QED
  BY <1>6, <1>7 DEF k, u

LEMMA TotalZeroed ==
    ASSUME NEW m \in Nat, NEW t \in [1 .. m -> Int], NEW k \in 1 .. m
    PROVE  Total(t) = Total([t EXCEPT ![k] = 0]) + t[k]
<1> DEFINE u == [t EXCEPT ![k] = 0]
           X == {n \in 0 .. m : Sums(t)[n] = Sums(u)[n] + (IF k <= n THEN t[k] ELSE 0)}
<1>1. u \in [1 .. m -> Int] /\ u[k] = 0 /\ \A d \in 1 .. m : d # k => u[d] = t[d]
  OBVIOUS
<1> HIDE DEF u
<1>2. 0 \in X
  <2>1. Sums(t)[0] = 0 /\ ~ (k <= 0) /\ 0 \in 0 .. m
    BY TotalFacts
  <2>2. Sums(u)[0] = 0
    BY <1>1, TotalFacts
  <2> QED
    BY <2>1, <2>2
<1>3. ASSUME NEW n \in 1 .. m, n - 1 \in X PROVE n \in X
  <2>1. /\ Sums(t)[n - 1] = Sums(u)[n - 1] + (IF k <= n - 1 THEN t[k] ELSE 0)
        /\ n \in 0 .. m /\ n - 1 \in 0 .. m /\ k \in Int
    BY <1>3
  <2> HIDE DEF X
  <2>2. /\ Sums(u)[n] = Sums(u)[n - 1] + u[n] /\ Sums(t)[n] = Sums(t)[n - 1] + t[n]
        /\ Sums(u)[n - 1] \in Int /\ t[n] \in Int /\ t[k] \in Int
    BY <1>1, <2>1, TotalFacts
  <2>3. Sums(t)[n] = Sums(u)[n] + (IF k <= n THEN t[k] ELSE 0)
    <3>1. CASE n = k
      BY <1>1, <2>1, <2>2, <3>1
    <3>2. CASE n # k
      <4>1. u[n] = t[n] /\ (k <= n - 1 <=> k <= n)
        BY <1>1, <2>1, <3>2
      <4> QED
        BY <2>1, <2>2, <4>1
    <3> QED
      BY <3>1, <3>2
  <2> QED
    BY <2>1, <2>3 DEF X
<1>4. m \in X
  <2> HIDE DEF X
  <2>1. \A n \in 0 .. m : n \in X
    BY <1>2, <1>3, Upward
  <2> QED
    BY <2>1
<1>5. Sums(t)[m] = Sums(u)[m] + t[k]
  BY <1>4
<1>6. Total(t) = Sums(t)[m] /\ Total(u) = Sums(u)[m]
  BY <1>1, TotalFacts
<1> QED
  BY <1>5, <1>6 DEF u

LEMMA TotalOfNone ==
    ASSUME NEW m \in Nat, NEW t \in [1 .. m -> Int], \A d \in 1 .. m : t[d] = 0
    PROVE  Total(t) = 0
<1> DEFINE X == {n \in 0 .. m : Sums(t)[n] = 0}
<1>1. 0 \in X
  BY TotalFacts
<1>2. ASSUME NEW n \in 1 .. m, n - 1 \in X PROVE n \in X
  <2>1. Sums(t)[n] = Sums(t)[n - 1] + t[n]
    BY TotalFacts
  <2> QED
    BY <1>2, <2>1
<1>3. m \in X
  <2> HIDE DEF X
  <2>1. \A n \in 0 .. m : n \in X
    BY <1>1, <1>2, Upward
  <2> QED
    BY <2>1
<1> QED
  BY <1>3, TotalFacts

\* q lists terms of t once each, and every other term is zero.
ListsTerms(t, q, m, r) ==
    /\ q \in [1 .. r -> 1 .. m]
    /\ \A e, f \in 1 .. r : q[e] = q[f] => e = f
    /\ \A d \in 1 .. m : (\A e \in 1 .. r : q[e] # d) => t[d] = 0

Picked(t, q, n) == [e \in 1 .. n |-> t[q[e]]]

\* A sum may be taken in any order, and over its nonzero terms alone.
LEMMA TotalAlong ==
    ASSUME NEW m \in Nat, NEW r \in Nat, NEW t \in [1 .. m -> Int], NEW q, ListsTerms(t, q, m, r)
    PROVE  Total(t) = Total(Picked(t, q, r))
<1> DEFINE P(n, u, p) == Total(u) = Total([e \in 1 .. n |-> u[p[e]]])
           X == {n \in 0 .. r : \A u \in [1 .. m -> Int], p \in [1 .. n -> 1 .. m] :
                                   ListsTerms(u, p, m, n) => P(n, u, p)}
<1>1. 0 \in X
  <2> SUFFICES ASSUME NEW u \in [1 .. m -> Int], NEW p \in [1 .. 0 -> 1 .. m], ListsTerms(u, p, m, 0)
               PROVE  P(0, u, p)
    OBVIOUS
  <2>1. \A d \in 1 .. m : u[d] = 0
    BY DEF ListsTerms
  <2>2. Total(u) = 0
    BY <2>1, TotalOfNone
  <2> DEFINE w == [e \in 1 .. 0 |-> u[p[e]]]
  <2>3. w \in [1 .. 0 -> Int] /\ \A d \in 1 .. 0 : w[d] = 0
    OBVIOUS
  <2> HIDE DEF w
  <2>4. 0 \in Nat
    OBVIOUS
  <2>5. Total(w) = 0
    BY <2>3, <2>4, TotalOfNone
  <2> QED
    BY <2>2, <2>5 DEF w
<1>2. ASSUME NEW n \in 1 .. r, n - 1 \in X PROVE n \in X
  <2> SUFFICES ASSUME NEW u \in [1 .. m -> Int], NEW p \in [1 .. n -> 1 .. m], ListsTerms(u, p, m, n)
               PROVE  P(n, u, p)
    <3>1. n \in 0 .. r
      OBVIOUS
    <3> HIDE DEF P
    <3> QED
      BY <3>1
  <2> DEFINE k == n - 1
             h == [e \in 1 .. k |-> p[e]]
             w == [u EXCEPT ![p[n]] = 0]
             x == [e \in 1 .. n |-> u[p[e]]]
  <2>1. \A a \in [1 .. m -> Int], b \in [1 .. k -> 1 .. m] : ListsTerms(a, b, m, k) => P(k, a, b)
    BY <1>2
  <2> HIDE DEF X
  <2>2. k \in Nat /\ n \in Nat \ {0} /\ n \in 1 .. n /\ p[n] \in 1 .. m /\ n \notin 1 .. k
        /\ \A e \in 1 .. k : e \in 1 .. n /\ e # n
    OBVIOUS
  <2>2a. \A e \in 1 .. n : e \in 1 .. k \/ e = n
    OBVIOUS
  <2> HIDE DEF k
  <2>3. h \in [1 .. k -> 1 .. m] /\ \A e \in 1 .. k : h[e] = p[e]
    BY <2>2
  <2>4. w \in [1 .. m -> Int] /\ w[p[n]] = 0 /\ \A d \in 1 .. m : d # p[n] => w[d] = u[d]
    BY <2>2
  <2>5. x \in [1 .. n -> Int] /\ x[n] = u[p[n]] /\ \A e \in 1 .. k : x[e] = u[p[e]]
    BY <2>2
  <2> HIDE DEF h, w, x
  <2>6. ListsTerms(w, h, m, k)
    <3>1. \A e, f \in 1 .. k : h[e] = h[f] => e = f
      BY <2>2, <2>3 DEF ListsTerms
    <3>2. ASSUME NEW d \in 1 .. m, \A e \in 1 .. k : h[e] # d PROVE w[d] = 0
      <4>1. CASE d = p[n]
        BY <2>4, <4>1
      <4>2. CASE d # p[n]
        <5>1. \A e \in 1 .. n : p[e] # d
          BY <2>2a, <2>3, <3>2, <4>2
        <5>2. u[d] = 0
          BY <5>1 DEF ListsTerms
        <5> QED
          BY <2>4, <4>2, <5>2
      <4> QED
        BY <4>1, <4>2
    <3> QED
      BY <2>3, <3>1, <3>2 DEF ListsTerms
  <2>7. Total(w) = Total([e \in 1 .. k |-> w[h[e]]])
    BY <2>1, <2>3, <2>4, <2>6
  <2>8. [e \in 1 .. k |-> w[h[e]]] = [e \in 1 .. k |-> x[e]]
    <3>1. \A e \in 1 .. k : p[e] \in 1 .. m /\ p[e] # p[n]
      BY <2>2 DEF ListsTerms
    <3>2. \A e \in 1 .. k : w[h[e]] = x[e]
      <4> TAKE e \in 1 .. k
      <4>1. h[e] = p[e] /\ x[e] = u[p[e]]
        BY <2>3, <2>5
      <4>2. w[p[e]] = u[p[e]]
        BY <2>4, <3>1
      <4> QED
        BY <4>1, <4>2
    <3> QED
      BY <3>2
  <2>9. Total(u) = Total(w) + u[p[n]]
    BY <2>2, TotalZeroed DEF w
  <2>10. Total(x) = Total([e \in 1 .. k |-> x[e]]) + x[n]
    BY <2>2, <2>5, TotalPrefix DEF k
  <2>11. Total(u) = Total(x)
    BY <2>5, <2>7, <2>8, <2>9, <2>10
  <2> QED
    BY <2>11 DEF x
<1>3. r \in X
  <2> HIDE DEF X
  <2>1. \A n \in 0 .. r : n \in X
    BY <1>1, <1>2, Upward
  <2> QED
    BY <2>1
<1>4. q \in [1 .. r -> 1 .. m]
  BY DEF ListsTerms
<1>5. P(r, t, q)
  BY <1>3, <1>4
<1> QED
  BY <1>5 DEF Picked

-----------------------------------------------------------------------------
(* Extents, strides and positions *)

LEMMA Smaller ==
    ASSUME NEW a \in Nat, NEW b \in Nat, NEW c \in Nat, a <= b
    PROVE  a * c <= b * c
<1> DEFINE d == b - a
<1>1. d \in Nat /\ b = a + d
  OBVIOUS
<1> HIDE DEF d
<1>2. \A x, y, z \in Nat : (x + y) * z = x * z + y * z /\ x * z \in Nat /\ y * z \in Nat
  OBVIOUS
<1>3. b * c = a * c + d * c /\ a * c \in Nat /\ d * c \in Nat
  BY <1>1, <1>2
<1> QED
  BY <1>3

LessTimes(a, b, c) == a * c < b * c

LEMMA Fits ==
    ASSUME NEW a \in Nat, NEW b \in Nat, NEW c \in Nat, LessTimes(a, b, c)
    PROVE  a < b
<1> USE DEF LessTimes
<1> SUFFICES ASSUME b <= a PROVE FALSE
  OBVIOUS
<1>1. b * c <= a * c
  BY Smaller
<1>2. \A x, y \in Nat : x * y \in Nat
  OBVIOUS
<1>3. b * c \in Nat /\ a * c \in Nat
  BY <1>2
<1> QED
  BY <1>1, <1>3

LEMMA Divided ==
    ASSUME NEW a \in Nat, NEW e \in Nat, e > 0
    PROVE  /\ a \div e \in Nat /\ a % e \in Nat /\ a % e < e
           /\ a = (a \div e) * e + (a % e)
<1>1. \A n \in Nat : /\ n \div e \in Nat /\ n % e \in 0 .. e - 1
                     /\ n = e * (n \div e) + (n % e)
  OBVIOUS
<1> DEFINE q == a \div e
           r == a % e
<1>2. q \in Nat /\ r \in 0 .. e - 1 /\ a = e * q + r
  BY <1>1
<1> HIDE DEF q, r
<1>3. e * q = q * e
  BY <1>2
<1>4. a = q * e + r /\ r \in Nat /\ r < e
  BY <1>2, <1>3
<1> QED
  BY <1>2, <1>4 DEF q, r

LEMMA ExtentsFacts ==
    ASSUME NEW m \in Nat, NEW s \in [1 .. m -> Nat]
    PROVE  /\ \A n \in 0 .. m : Extents(s)[n] \in Nat
           /\ Extents(s)[0] = 1 /\ numelOf(s) = Extents(s)[m] /\ numelOf(s) \in Nat
           /\ \A n \in 1 .. m : Extents(s)[n] = Extents(s)[n - 1] * s[m + 1 - n]
           /\ \A n \in 1 .. m : Extents(s)[m - (n - 1)] = Extents(s)[m - n] * s[n]
<1>1. Len(s) = m
  BY ListOf
<1>2. PICK f \in [0 .. m -> Nat] : /\ f[0] = 1 /\ \A n \in 1 .. m : f[n] = f[n - 1] * s[m + 1 - n]
                                   /\ Extents(s) = f
  BY ExtentsRun
<1>3. numelOf(s) = Extents(s)[m] /\ m \in 0 .. m
  BY <1>1 DEF numelOf
<1>4. ASSUME NEW n \in 1 .. m PROVE f[m - (n - 1)] = f[m - n] * s[n]
  <2> DEFINE k == m - (n - 1)
  <2>1. k \in 1 .. m /\ k - 1 = m - n /\ m + 1 - k = n
    OBVIOUS
  <2> HIDE DEF k
  <2>2. f[k] = f[k - 1] * s[m + 1 - k]
    BY <1>2, <2>1
  <2> QED
    BY <2>1, <2>2 DEF k
<1> QED
  BY <1>2, <1>3, <1>4

LEMMA StridesFacts ==
    ASSUME NEW m \in Nat, NEW s \in [1 .. m -> Nat]
    PROVE  /\ makeContiguousStrides(s) \in [1 .. m -> Int]
           /\ \A d \in 1 .. m : makeContiguousStrides(s)[d] = Extents(s)[m - d]
<1>1. Len(s) = m /\ DOMAIN s = 1 .. m
  BY ListOf
<1>2. \A d \in 1 .. m : Extents(s)[m - d] \in Int
  BY ExtentsFacts
<1>3. makeContiguousStrides(s) = [d \in 1 .. m |-> Extents(s)[m - d]]
  BY <1>1 DEF makeContiguousStrides
<1> QED
  BY <1>2, <1>3

\* A position counted dimension by dimension is the sum the strides give.
LEMMA RowMajorIsTotal ==
    ASSUME NEW m \in Nat, NEW s \in [1 .. m -> Nat], NEW i \in [1 .. m -> Nat]
    PROVE  /\ RowMajor(s, i) \in Nat
           /\ RowMajor(s, i) = Total([d \in 1 .. m |-> i[d] * makeContiguousStrides(s)[d]])
<1>1. PICK f \in [0 .. m -> Nat] : /\ f[0] = 0 /\ \A n \in 1 .. m : f[n] = f[n - 1] * s[n] + i[n]
                                   /\ RowMajor(s, i) = f[m]
  BY RowMajorRun
<1> DEFINE c == makeContiguousStrides(s)
           E == Extents(s)
           t == [d \in 1 .. m |-> i[d] * c[d]]
           X == {n \in 0 .. m : Sums(t)[n] = f[n] * E[m - n]}
<1>2. c \in [1 .. m -> Int] /\ \A d \in 1 .. m : c[d] = E[m - d]
  BY StridesFacts
<1>3. /\ E[0] = 1 /\ \A n \in 0 .. m : E[n] \in Nat
      /\ \A n \in 1 .. m : E[m - (n - 1)] = E[m - n] * s[n]
  BY ExtentsFacts
<1> HIDE DEF c, E
<1>4. t \in [1 .. m -> Int] /\ \A d \in 1 .. m : t[d] = i[d] * c[d]
  <2>1. \A d \in 1 .. m : i[d] * c[d] \in Int
    BY <1>2
  <2> QED
    BY <2>1
<1> HIDE DEF t
<1>5. 0 \in X
  <2>1. Sums(t)[0] = 0
    BY <1>4, TotalFacts
  <2>2. E[m - 0] \in Nat /\ f[0] = 0
    BY <1>1, <1>3
  <2> QED
    BY <2>1, <2>2
<1>6. ASSUME NEW n \in 1 .. m, n - 1 \in X PROVE n \in X
  <2>1. Sums(t)[n - 1] = f[n - 1] * E[m - (n - 1)] /\ n \in 0 .. m /\ n - 1 \in 0 .. m /\ m - n \in 0 .. m
    BY <1>6
  <2> HIDE DEF X
  <2>2. Sums(t)[n] = Sums(t)[n - 1] + t[n]
    BY <1>4, TotalFacts
  <2>3. t[n] = i[n] * E[m - n] /\ E[m - (n - 1)] = E[m - n] * s[n] /\ f[n] = f[n - 1] * s[n] + i[n]
    BY <1>1, <1>2, <1>3, <1>4
  <2>4. f[n - 1] \in Nat /\ E[m - n] \in Nat /\ s[n] \in Nat /\ i[n] \in Nat
    BY <1>3, <2>1
  <2>5. \A a, e, x, y \in Nat : a * (e * x) + y * e = (a * x + y) * e
    OBVIOUS
  <2>6. f[n - 1] * (E[m - n] * s[n]) + i[n] * E[m - n] = (f[n - 1] * s[n] + i[n]) * E[m - n]
    BY <2>4, <2>5
  <2>7. Sums(t)[n] = f[n] * E[m - n]
    BY <2>1, <2>2, <2>3, <2>6
  <2> QED
    BY <2>1, <2>7 DEF X
<1>7. m \in X
  <2> HIDE DEF X
  <2>1. \A n \in 0 .. m : n \in X
    BY <1>5, <1>6, Upward
  <2> QED
    BY <2>1
<1>8. Sums(t)[m] = f[m] * E[m - m] /\ m - m = 0 /\ f[m] \in Nat
  BY <1>7
<1>9. Sums(t)[m] = f[m]
  BY <1>3, <1>8
<1>10. Total(t) = Sums(t)[m]
  BY <1>4, TotalFacts
<1> QED
  BY <1>1, <1>8, <1>9, <1>10 DEF t, c

IsIndex(i, m, s) == i \in [1 .. m -> Nat] /\ \A d \in 1 .. m : i[d] < s[d]

LEMMA Regrouped ==
    ASSUME NEW a \in Nat, NEW e \in Nat, NEW x \in Nat
    PROVE  (a + 1) * (e * x) = ((a + 1) * x) * e /\ (a + 1) * x \in Nat
OBVIOUS

LEMMA RowMajorBound ==
    ASSUME NEW m \in Nat, NEW s \in [1 .. m -> Nat], NEW i, IsIndex(i, m, s)
    PROVE  RowMajor(s, i) \in Nat /\ RowMajor(s, i) < numelOf(s)
<1>0. i \in [1 .. m -> Nat] /\ \A d \in 1 .. m : i[d] < s[d]
  BY DEF IsIndex
<1>1. PICK f \in [0 .. m -> Nat] : /\ f[0] = 0 /\ \A n \in 1 .. m : f[n] = f[n - 1] * s[n] + i[n]
                                   /\ RowMajor(s, i) = f[m]
  BY <1>0, RowMajorRun
<1> DEFINE E == Extents(s)
           X == {n \in 0 .. m : (f[n] + 1) * E[m - n] <= E[m]}
<1>2. /\ E[0] = 1 /\ \A n \in 0 .. m : E[n] \in Nat
      /\ \A n \in 1 .. m : E[m - (n - 1)] = E[m - n] * s[n]
      /\ numelOf(s) = E[m]
  BY ExtentsFacts
<1> HIDE DEF E
<1>3. 0 \in X
  <2>1. (0 + 1) * E[m - 0] = E[m] /\ E[m] \in Nat
    BY <1>2
  <2> QED
    BY <1>1, <2>1
<1>4. ASSUME NEW n \in 1 .. m, n - 1 \in X PROVE n \in X
  <2>1. (f[n - 1] + 1) * E[m - (n - 1)] <= E[m] /\ n \in 0 .. m /\ n - 1 \in 0 .. m /\ m - n \in 0 .. m
    BY <1>4
  <2> HIDE DEF X
  <2>2. E[m - (n - 1)] = E[m - n] * s[n] /\ f[n] = f[n - 1] * s[n] + i[n] /\ i[n] < s[n]
    BY <1>0, <1>1, <1>2
  <2>3. f[n - 1] \in Nat /\ E[m - n] \in Nat /\ s[n] \in Nat /\ i[n] \in Nat /\ E[m] \in Nat /\ m \in 0 .. m
    BY <1>0, <1>2, <2>1
  <2>4. f[n] + 1 <= (f[n - 1] + 1) * s[n]
    <3>1. \A a, x \in Nat : (a + 1) * x = a * x + x /\ a * x \in Nat
      OBVIOUS
    <3>2. (f[n - 1] + 1) * s[n] = f[n - 1] * s[n] + s[n] /\ f[n - 1] * s[n] \in Nat
      BY <2>3, <3>1
    <3> DEFINE F == f[n - 1] * s[n]
               G == (f[n - 1] + 1) * s[n]
    <3>3. G = F + s[n] /\ F \in Nat /\ f[n] = F + i[n]
      BY <2>2, <3>2
    <3>4. i[n] < s[n] /\ i[n] \in Nat /\ s[n] \in Nat
      BY <2>2, <2>3
    <3> HIDE DEF F, G
    <3>5. f[n] + 1 <= G
      BY <3>3, <3>4
    <3> QED
      BY <3>5 DEF G
  <2>6. /\ (f[n - 1] + 1) * (E[m - n] * s[n]) = ((f[n - 1] + 1) * s[n]) * E[m - n]
        /\ (f[n - 1] + 1) * s[n] \in Nat
    <3> DEFINE A == f[n - 1]
               G == E[m - n]
               S == s[n]
    <3>1. A \in Nat /\ G \in Nat /\ S \in Nat
      BY <2>3
    <3> HIDE DEF A, G, S
    <3>2. (A + 1) * (G * S) = ((A + 1) * S) * G /\ (A + 1) * S \in Nat
      BY <3>1, Regrouped
    <3> QED
      BY <3>2 DEF A, G, S
  <2>7. f[n] + 1 \in Nat
    BY <2>1
  <2>8. (f[n] + 1) * E[m - n] <= ((f[n - 1] + 1) * s[n]) * E[m - n]
    BY <2>3, <2>4, <2>6, <2>7, Smaller
  <2>9. /\ (f[n] + 1) * E[m - n] \in Nat
        /\ ((f[n - 1] + 1) * s[n]) * E[m - n] \in Nat
    <3>1. \A x, y \in Nat : x * y \in Nat
      OBVIOUS
    <3> QED
      BY <2>3, <2>6, <2>7, <3>1
  <2>10. (f[n] + 1) * E[m - n] <= E[m]
    <3>1. ((f[n - 1] + 1) * s[n]) * E[m - n] <= E[m]
      BY <2>1, <2>2, <2>6
    <3> DEFINE A == (f[n] + 1) * E[m - n]
               B == ((f[n - 1] + 1) * s[n]) * E[m - n]
               C == E[m]
    <3>2. A \in Nat /\ B \in Nat /\ C \in Nat /\ A <= B /\ B <= C
      BY <2>3, <2>8, <2>9, <3>1
    <3> HIDE DEF A, B, C
    <3>3. A <= C
      BY <3>2
    <3> QED
      BY <3>3 DEF A, C
  <2> QED
    BY <2>1, <2>10 DEF X
<1>5. m \in X
  <2> HIDE DEF X
  <2>1. \A n \in 0 .. m : n \in X
    BY <1>3, <1>4, Upward
  <2> QED
    BY <2>1
<1>6. (f[m] + 1) * E[m - m] <= E[m] /\ m - m = 0 /\ f[m] \in Nat /\ E[m] \in Nat
  BY <1>2, <1>5
<1>7. f[m] < E[m]
  BY <1>2, <1>6
<1> QED
  BY <1>1, <1>2, <1>6, <1>7

\* Every position below the number of elements is that of an index.
HasPosition(m, s, pos) == \E i : IsIndex(i, m, s) /\ RowMajor(s, i) = pos

LEMMA RowMajorOnto ==
    ASSUME NEW m \in Nat, NEW s \in [1 .. m -> Nat], NEW pos \in Nat, pos < numelOf(s)
    PROVE  HasPosition(m, s, pos)
<1> DEFINE E == Extents(s)
           Positive == {n \in 0 .. m : E[m - n] > 0}
<1>1. /\ E[0] = 1 /\ \A n \in 0 .. m : E[n] \in Nat
      /\ \A n \in 1 .. m : E[m - (n - 1)] = E[m - n] * s[n]
      /\ numelOf(s) = E[m]
  BY ExtentsFacts
<1> HIDE DEF E
<1>2. \A n \in 0 .. m : E[m - n] > 0
  <2>1. 0 \in Positive
    BY <1>1
  <2>2. ASSUME NEW n \in 1 .. m, n - 1 \in Positive PROVE n \in Positive
    <3>1. E[m - (n - 1)] > 0 /\ n \in 0 .. m /\ m - n \in 0 .. m
      BY <2>2
    <3> HIDE DEF Positive
    <3>2. E[m - n] * s[n] > 0 /\ E[m - n] \in Nat /\ s[n] \in Nat
      BY <1>1, <3>1
    <3>3. E[m - n] # 0
      BY <3>2
    <3> QED
      BY <3>1, <3>2, <3>3 DEF Positive
  <2> HIDE DEF Positive
  <2>3. \A n \in 0 .. m : n \in Positive
    BY <2>1, <2>2, Upward
  <2> QED
    BY <2>3 DEF Positive
<1>3. \A n \in 0 .. m : E[m - n] \in Nat /\ m - n \in 0 .. m
  BY <1>1
<1> DEFINE step == [n \in 1 .. m |-> [x \in Nat |-> x % E[m - n]]]
<1>4. step \in [1 .. m -> [Nat -> Nat]]
  <2>1. ASSUME NEW n \in 1 .. m, NEW x \in Nat PROVE x % E[m - n] \in Nat
    <3>1. E[m - n] \in Nat /\ E[m - n] > 0
      BY <1>2, <1>3
    <3> QED
      BY <3>1, Divided
  <2> QED
    BY <2>1
<1>5. \A n \in 1 .. m, x \in Nat : step[n][x] = x % E[m - n]
  OBVIOUS
<1> HIDE DEF step
<1>6. PICK rem \in [0 .. m -> Nat] : rem[0] = pos /\ \A n \in 1 .. m : rem[n] = step[n][rem[n - 1]]
  <2>1. \E f \in [0 .. m -> Nat] : IsLoop(f, m, pos, step)
    BY <1>4, LoopExists, Zenon
  <2> QED
    BY <2>1 DEF IsLoop
<1> DEFINE i == [d \in 1 .. m |-> rem[d - 1] \div E[m - d]]
<1>7. \A n \in 1 .. m : /\ rem[n - 1] \in Nat /\ rem[n] \in Nat
                        /\ rem[n] = rem[n - 1] % E[m - n]
  <2>1. \A n \in 1 .. m : rem[n - 1] \in Nat /\ rem[n] \in Nat
    OBVIOUS
  <2> QED
    BY <1>5, <1>6, <2>1
<1>8. ASSUME NEW n \in 1 .. m
      PROVE  /\ i[n] \in Nat /\ rem[n] < E[m - n]
             /\ rem[n - 1] = i[n] * E[m - n] + rem[n]
  <2>1. E[m - n] \in Nat /\ E[m - n] > 0 /\ rem[n - 1] \in Nat
    BY <1>2, <1>3, <1>7
  <2>2. i[n] = rem[n - 1] \div E[m - n] /\ rem[n] = rem[n - 1] % E[m - n]
    BY <1>7
  <2> HIDE DEF i
  <2> DEFINE a == rem[n - 1]
             e == E[m - n]
  <2>3. a \in Nat /\ e \in Nat /\ e > 0
    BY <2>1
  <2> HIDE DEF a, e
  <2>4. a \div e \in Nat /\ a % e \in Nat /\ a % e < e /\ a = (a \div e) * e + (a % e)
    BY <2>3, Divided
  <2> QED
    BY <2>2, <2>4, Zenon DEF a, e
<1>9. i \in [1 .. m -> Nat]
  <2>1. i = [d \in 1 .. m |-> i[d]]
    OBVIOUS
  <2> HIDE DEF i
  <2> QED
    BY <1>8, <2>1
<1> HIDE DEF i
<1>10. \A n \in 0 .. m : rem[n] < E[m - n]
  <2> TAKE n \in 0 .. m
  <2>1. CASE n = 0
    BY <1>1, <1>6, <2>1
  <2>2. CASE n # 0
    BY <1>8, <2>2
  <2> QED
    BY <2>1, <2>2
<1>11. ASSUME NEW n \in 1 .. m PROVE i[n] < s[n]
  <2> DEFINE e == E[m - n]
             x == i[n]
             y == s[n]
             a == rem[n - 1]
             b == rem[n]
  <2>1. n - 1 \in 0 .. m /\ n \in 0 .. m
    OBVIOUS
  <2>2. a < E[m - (n - 1)]
    BY <1>10, <2>1
  <2>3. E[m - (n - 1)] = e * y
    BY <1>1
  <2>4. e \in Nat /\ x \in Nat /\ y \in Nat /\ a \in Nat /\ b \in Nat /\ a = x * e + b
    BY <1>3, <1>7, <1>8, <2>1
  <2> HIDE DEF e, x, y, a, b
  <2>5. x * e \in Nat /\ y * e \in Nat /\ e * y = y * e
    BY <2>4
  <2>6. x * e < y * e
    <3> DEFINE P == x * e
               Q == y * e
    <3>1. P \in Nat /\ Q \in Nat /\ a < Q /\ a = P + b /\ b \in Nat
      BY <2>2, <2>3, <2>4, <2>5
    <3> HIDE DEF P, Q
    <3>2. P < Q
      BY <3>1
    <3> QED
      BY <3>2 DEF P, Q
  <2>7. x < y
    <3>1. e \in Nat /\ x \in Nat /\ y \in Nat /\ LessTimes(x, y, e)
      BY <2>4, <2>6 DEF LessTimes
    <3> QED
      BY <3>1, Fits
  <2> QED
    BY <2>7 DEF x, y
<1>12. IsIndex(i, m, s)
  BY <1>9, <1>11 DEF IsIndex
<1> DEFINE c == makeContiguousStrides(s)
           t == [d \in 1 .. m |-> i[d] * c[d]]
           X == {n \in 0 .. m : Sums(t)[n] = pos - rem[n]}
<1>13. c \in [1 .. m -> Int] /\ \A d \in 1 .. m : c[d] = E[m - d]
  BY StridesFacts DEF E
<1>14. RowMajor(s, i) = Total(t)
  BY <1>9, RowMajorIsTotal
<1> HIDE DEF c
<1>15. t \in [1 .. m -> Int] /\ \A d \in 1 .. m : t[d] = i[d] * c[d]
  <2>1. \A d \in 1 .. m : i[d] * c[d] \in Int
    BY <1>9, <1>13
  <2> QED
    BY <2>1
<1> HIDE DEF t
<1>16. 0 \in X
  <2>1. Sums(t)[0] = 0
    BY <1>15, TotalFacts
  <2> QED
    BY <1>6, <2>1
<1>17. ASSUME NEW n \in 1 .. m, n - 1 \in X PROVE n \in X
  <2>1. Sums(t)[n - 1] = pos - rem[n - 1] /\ n \in 0 .. m
    BY <1>17
  <2> HIDE DEF X
  <2>2. Sums(t)[n] = Sums(t)[n - 1] + t[n]
    BY <1>15, TotalFacts
  <2>3. t[n] = i[n] * E[m - n]
    BY <1>13, <1>15
  <2>4. rem[n - 1] = i[n] * E[m - n] + rem[n] /\ rem[n - 1] \in Nat /\ rem[n] \in Nat
    BY <1>7, <1>8
  <2> DEFINE a == i[n] * E[m - n]
  <2>5. a \in Int /\ t[n] = a /\ rem[n - 1] = a + rem[n]
    BY <1>15, <2>3, <2>4
  <2> HIDE DEF a
  <2>6. Sums(t)[n] = pos - rem[n]
    BY <2>1, <2>2, <2>5, <1>7
  <2> QED
    BY <2>1, <2>6 DEF X
<1>18. m \in X
  <2> HIDE DEF X
  <2>1. \A n \in 0 .. m : n \in X
    BY <1>16, <1>17, Upward
  <2> QED
    BY <2>1
<1>19. Sums(t)[m] = pos - rem[m] /\ m \in 0 .. m
  BY <1>18
<1>20. rem[m] = 0
  BY <1>1, <1>10, <1>19
<1>21. Total(t) = pos
  <2>1. Total(t) = Sums(t)[m]
    BY <1>15, TotalFacts
  <2> QED
    BY <1>19, <1>20, <2>1
<1> QED
  BY <1>12, <1>14, <1>21 DEF HasPosition

Replaced(s, k, x) == [s EXCEPT ![k] = x]

\* A factor of one replaced.
LEMMA NumelReplaced ==
    ASSUME NEW m \in Nat, NEW s \in [1 .. m -> Nat], NEW k \in 1 .. m, s[k] = 1, NEW x \in Nat
    PROVE  numelOf(Replaced(s, k, x)) = x * numelOf(s)
<1> DEFINE u == Replaced(s, k, x)
           E == Extents(s)
           F == Extents(u)
           X == {n \in 0 .. m : F[n] = IF m + 1 - n <= k THEN x * E[n] ELSE E[n]}
<1>1. u \in [1 .. m -> Nat] /\ u[k] = x /\ \A d \in 1 .. m : d # k => u[d] = s[d]
  BY DEF Replaced
<1> HIDE DEF u
<1>2. /\ E[0] = 1 /\ \A n \in 0 .. m : E[n] \in Nat
      /\ \A n \in 1 .. m : E[n] = E[n - 1] * s[m + 1 - n]
      /\ numelOf(s) = E[m]
  BY ExtentsFacts
<1>3. /\ F[0] = 1 /\ \A n \in 0 .. m : F[n] \in Nat
      /\ \A n \in 1 .. m : F[n] = F[n - 1] * u[m + 1 - n]
      /\ numelOf(u) = F[m]
  BY <1>1, ExtentsFacts
<1> HIDE DEF E, F
<1>4. 0 \in X
  <2>1. ~ (m + 1 - 0 <= k) /\ 0 \in 0 .. m
    OBVIOUS
  <2> QED
    BY <1>2, <1>3, <2>1
<1>5. ASSUME NEW n \in 1 .. m, n - 1 \in X PROVE n \in X
  <2> DEFINE j == m + 1 - n
             e == E[n - 1]
             y == s[j]
  <2>1. /\ F[n - 1] = IF m + 1 - (n - 1) <= k THEN x * E[n - 1] ELSE E[n - 1]
        /\ n \in 0 .. m /\ n - 1 \in 0 .. m
    BY <1>5
  <2> HIDE DEF X
  <2>2. j \in 1 .. m /\ m + 1 - (n - 1) = j + 1
    OBVIOUS
  <2>3. F[n] = F[n - 1] * u[j] /\ E[n] = e * y
    BY <1>2, <1>3
  <2>4. e \in Nat /\ y \in Nat /\ F[n - 1] = IF j + 1 <= k THEN x * e ELSE e
    BY <1>2, <2>1, <2>2
  <2>5. F[n] = IF j <= k THEN x * E[n] ELSE E[n]
    <3>0. j = k => y = 1
      OBVIOUS
    <3> HIDE DEF j, e, y
    <3>1. CASE j + 1 <= k
      <4>1. j # k /\ j <= k
        BY <2>2, <3>1
      <4>2. F[n] = (x * e) * y
        BY <1>1, <2>2, <2>3, <2>4, <3>1, <4>1 DEF y
      <4>3. (x * e) * y = x * (e * y)
        BY <2>4
      <4> QED
        BY <2>3, <4>1, <4>2, <4>3
    <3>2. CASE j = k
      <4>1. y = 1 /\ ~ (j + 1 <= k) /\ j <= k /\ u[j] = x
        BY <1>1, <2>2, <3>0, <3>2
      <4>2. F[n] = e * x /\ E[n] = e * 1
        BY <2>3, <2>4, <4>1
      <4>3. e * x = x * e /\ e * 1 = e
        BY <2>4
      <4> QED
        BY <4>1, <4>2, <4>3
    <3>3. CASE k < j
      <4>1. j # k /\ ~ (j <= k) /\ ~ (j + 1 <= k)
        BY <2>2, <3>3
      <4>2. F[n] = e * y
        BY <1>1, <2>2, <2>3, <2>4, <4>1 DEF y
      <4> QED
        BY <2>3, <4>1, <4>2
    <3> QED
      BY <2>2, <3>1, <3>2, <3>3
  <2> QED
    BY <2>1, <2>5 DEF X
<1>6. m \in X
  <2> HIDE DEF X
  <2>1. \A n \in 0 .. m : n \in X
    BY <1>4, <1>5, Upward
  <2> QED
    BY <2>1
<1>7. m + 1 - m <= k
  OBVIOUS
<1>8. F[m] = x * E[m]
  BY <1>6, <1>7
<1> QED
  BY <1>2, <1>3, <1>8 DEF u

LEMMA NumelZero ==
    ASSUME NEW m \in Nat, NEW s \in [1 .. m -> Nat], NEW k \in 1 .. m, s[k] = 0
    PROVE  numelOf(s) = 0
<1> DEFINE E == Extents(s)
           X == {n \in 0 .. m : m + 1 - n <= k => E[n] = 0}
<1>1. /\ \A n \in 0 .. m : E[n] \in Nat
      /\ \A n \in 1 .. m : E[n] = E[n - 1] * s[m + 1 - n]
      /\ numelOf(s) = E[m]
  BY ExtentsFacts
<1> HIDE DEF E
<1>2. 0 \in X
  <2>1. ~ (m + 1 - 0 <= k) /\ 0 \in 0 .. m
    OBVIOUS
  <2> QED
    BY <2>1
<1>3. ASSUME NEW n \in 1 .. m, n - 1 \in X PROVE n \in X
  <2> DEFINE j == m + 1 - n
  <2>1. /\ m + 1 - (n - 1) <= k => E[n - 1] = 0
        /\ n \in 0 .. m /\ n - 1 \in 0 .. m
    BY <1>3
  <2> HIDE DEF X
  <2>2. j \in 1 .. m /\ m + 1 - (n - 1) = j + 1 /\ E[n - 1] \in Nat /\ s[j] \in Nat
    BY <1>1, <2>1
  <2>3. E[n] = E[n - 1] * s[j]
    BY <1>1
  <2>4. \A a \in Nat : a * 0 = 0 /\ 0 * a = 0
    OBVIOUS
  <2>5. j <= k => E[n] = 0
    <3> HIDE DEF j
    <3>1. CASE j = k
      BY <2>2, <2>3, <2>4, <3>1
    <3>2. CASE j # k
      <4>1. j <= k => E[n - 1] = 0
        BY <2>1, <2>2, <3>2
      <4> QED
        BY <2>2, <2>3, <2>4, <4>1
    <3> QED
      BY <3>1, <3>2
  <2> QED
    BY <2>1, <2>5 DEF X
<1>4. m \in X
  <2> HIDE DEF X
  <2>1. \A n \in 0 .. m : n \in X
    BY <1>2, <1>3, Upward
  <2> QED
    BY <2>1
<1>5. m + 1 - m <= k
  OBVIOUS
<1> QED
  BY <1>1, <1>4, <1>5

LEMMA NumelPositive ==
    ASSUME NEW m \in Nat, NEW s \in [1 .. m -> Nat], \A d \in 1 .. m : s[d] > 0
    PROVE  numelOf(s) > 0
<1> DEFINE E == Extents(s)
           X == {n \in 0 .. m : E[n] > 0}
<1>1. /\ \A n \in 0 .. m : E[n] \in Nat
      /\ \A n \in 1 .. m : E[n] = E[n - 1] * s[m + 1 - n]
      /\ numelOf(s) = E[m] /\ E[0] = 1
  BY ExtentsFacts
<1> HIDE DEF E
<1>2. 0 \in X
  BY <1>1
<1>3. ASSUME NEW n \in 1 .. m, n - 1 \in X PROVE n \in X
  <2> DEFINE a == E[n - 1]
             b == s[m + 1 - n]
  <2>1. m + 1 - n \in 1 .. m /\ n - 1 \in 0 .. m /\ n \in 0 .. m
    OBVIOUS
  <2>2. a > 0 /\ a \in Nat /\ b \in Nat /\ b > 0 /\ E[n] = a * b
    BY <1>1, <1>3, <2>1
  <2> HIDE DEF X, a, b
  <2>3. a * b > 0
    BY <2>2
  <2> QED
    BY <2>1, <2>2, <2>3 DEF X
<1>4. m \in X
  <2> HIDE DEF X
  <2>1. \A n \in 0 .. m : n \in X
    BY <1>2, <1>3, Upward
  <2> QED
    BY <2>1
<1> QED
  BY <1>1, <1>4

-----------------------------------------------------------------------------
(* Views *)

Views == {v \in [shape : Seq(Nat), strides : Seq(Int), offset : Int] : Len(v.shape) = Len(v.strides)}

LEMMA ViewFacts ==
    ASSUME NEW v \in Views
    PROVE  /\ Len(v.shape) \in Nat
           /\ v.shape \in [1 .. Len(v.shape) -> Nat] /\ DOMAIN v.shape = 1 .. Len(v.shape)
           /\ v.strides \in [1 .. Len(v.shape) -> Int] /\ v.offset \in Int
<1>1. v.shape \in Seq(Nat) /\ v.strides \in Seq(Int) /\ v.offset \in Int
      /\ Len(v.shape) = Len(v.strides)
  BY DEF Views
<1> QED
  BY <1>1, LenProperties

IsViewWith(v, m, s, t, o) ==
    v \in Views /\ v.shape = s /\ v.strides = t /\ v.offset = o /\ Len(v.shape) = m

LEMMA ViewMade ==
    ASSUME NEW m \in Nat, NEW s \in [1 .. m -> Nat], NEW t \in [1 .. m -> Int], NEW o \in Int, NEW v,
           v = [shape |-> s, strides |-> t, offset |-> o]
    PROVE  IsViewWith(v, m, s, t, o)
<1>1. s \in Seq(Nat) /\ Len(s) = m /\ t \in Seq(Int) /\ Len(t) = m
  BY ListOf
<1> QED
  BY <1>1 DEF Views, IsViewWith

Updated(v, s, t) == [v EXCEPT !.shape = s, !.strides = t]

LEMMA ViewUpdated ==
    ASSUME NEW v \in Views, NEW m \in Nat, NEW s \in [1 .. m -> Nat], NEW t \in [1 .. m -> Int], NEW w,
           w = Updated(v, s, t)
    PROVE  IsViewWith(w, m, s, t, v.offset)
<1>1. s \in Seq(Nat) /\ Len(s) = m /\ t \in Seq(Int) /\ Len(t) = m
  BY ListOf
<1>2. v \in [shape : Seq(Nat), strides : Seq(Int), offset : Int]
  BY DEF Views
<1>3. /\ w \in [shape : Seq(Nat), strides : Seq(Int), offset : Int]
      /\ w.shape = s /\ w.strides = t /\ w.offset = v.offset
  BY <1>1, <1>2 DEF Updated
<1> QED
  BY <1>1, <1>3 DEF Views, IsViewWith

LEMMA IndexFacts ==
    ASSUME NEW m \in Nat, NEW s \in [1 .. m -> Nat], NEW i
    PROVE  i \in Indices(s) <=> IsIndex(i, m, s)
<1> DEFINE U == UNION {0 .. s[d] - 1 : d \in 1 .. m}
<1>1. Indices(s) = {idx \in [1 .. m -> U] : \A d \in 1 .. m : idx[d] < s[d]}
  BY DEF Indices
<1>2. ASSUME i \in Indices(s) PROVE IsIndex(i, m, s)
  <2>1. i \in [1 .. m -> U] /\ \A d \in 1 .. m : i[d] < s[d]
    BY <1>1, <1>2
  <2>2. U \subseteq Nat
    OBVIOUS
  <2> HIDE DEF U
  <2>3. i \in [1 .. m -> Nat]
    BY <2>1, <2>2
  <2> QED
    BY <2>1, <2>3 DEF IsIndex
<1>3. ASSUME IsIndex(i, m, s) PROVE i \in Indices(s)
  <2>1. i \in [1 .. m -> Nat] /\ \A d \in 1 .. m : i[d] < s[d]
    BY <1>3 DEF IsIndex
  <2>2. \A d \in 1 .. m : i[d] \in U
    <3> TAKE d \in 1 .. m
    <3>1. i[d] \in 0 .. s[d] - 1
      BY <2>1
    <3> QED
      BY <3>1
  <2> HIDE DEF U
  <2>3. i \in [1 .. m -> U]
    BY <2>1, <2>2
  <2> QED
    BY <1>1, <2>1, <2>3
<1> QED
  BY <1>2, <1>3

\* What each dimension adds to the address of an index.
Terms(v, i) == [d \in 1 .. Len(v.shape) |-> i[d] * v.strides[d]]

LEMMA AddressFacts ==
    ASSUME NEW v \in Views, NEW i \in [1 .. Len(v.shape) -> Int]
    PROVE  /\ Terms(v, i) \in [1 .. Len(v.shape) -> Int]
           /\ \A d \in 1 .. Len(v.shape) : Terms(v, i)[d] = i[d] * v.strides[d]
           /\ Address(v, i) = v.offset + Total(Terms(v, i))
<1> DEFINE m == Len(v.shape)
<1>1. DOMAIN v.shape = 1 .. m /\ v.strides \in [1 .. m -> Int]
  BY ViewFacts
<1>2. \A d \in 1 .. m : i[d] * v.strides[d] \in Int
  BY <1>1
<1>3. Address(v, i) = v.offset + Total(Terms(v, i))
  BY <1>1 DEF Address, Terms
<1> QED
  BY <1>2, <1>3 DEF Terms

\* The view w names, at every index i, the element that v names at From[i].
Derives(v, w, From) ==
    /\ w \in Views
    /\ \A i \in Indices(w.shape) : From[i] \in Indices(v.shape) /\ Address(v, From[i]) = Address(w, i)

Agree(v, i, w, j, q) == \A d \in 1 .. Len(w.shape) : Terms(v, i)[q[d]] = Terms(w, j)[d]

\* Two indices of two views with one offset name one element when the terms of
\* one list the nonzero terms of the other.
LEMMA SameAddress ==
    ASSUME NEW v \in Views, NEW w \in Views, v.offset = w.offset,
           NEW i \in [1 .. Len(v.shape) -> Int], NEW j \in [1 .. Len(w.shape) -> Int], NEW q,
           ListsTerms(Terms(v, i), q, Len(v.shape), Len(w.shape)), Agree(v, i, w, j, q)
    PROVE  Address(v, i) = Address(w, j)
<1> DEFINE m == Len(v.shape)
           n == Len(w.shape)
           t == Terms(v, i)
           u == Terms(w, j)
<1>1. m \in Nat /\ n \in Nat
  BY ViewFacts
<1>2. t \in [1 .. m -> Int] /\ u \in [1 .. n -> Int]
      /\ Address(v, i) = v.offset + Total(t) /\ Address(w, j) = w.offset + Total(u)
  BY AddressFacts
<1>3. ListsTerms(t, q, m, n) /\ \A d \in 1 .. n : t[q[d]] = u[d]
  BY DEF Agree
<1> HIDE DEF m, n, t, u
<1>4. Total(t) = Total(Picked(t, q, n))
  <2>1. t \in [1 .. m -> Int] /\ ListsTerms(t, q, m, n)
    BY <1>2, <1>3
  <2> QED
    BY <1>1, <2>1, TotalAlong
<1>5. Picked(t, q, n) = u
  BY <1>2, <1>3 DEF Picked
<1> QED
  BY <1>2, <1>4, <1>5

-----------------------------------------------------------------------------
(* Transposed, squeezed, unsqueezed and broadcast views *)

\* A permutation takes every value.
LEMMA PermutationOnto ==
    ASSUME NEW m \in Nat, NEW p \in [1 .. m -> 1 .. m], \A d, e \in 1 .. m : p[d] = p[e] => d = e
    PROVE  \A d \in 1 .. m : \E e \in 1 .. m : p[e] = d
<1>1. p \in Injection(1 .. m, 1 .. m)
  BY DEF Injection, IsInjective
<1>2. IsFiniteSet(1 .. m)
  <2>1. 1 \in Int /\ m \in Int
    OBVIOUS
  <2> QED
    BY <2>1, FS_Interval
<1>3. p \in Surjection(1 .. m, 1 .. m)
  BY <1>1, <1>2, FS_Injection
<1> QED
  BY <1>3 DEF Surjection

LEMMA Transposed ==
    ASSUME NEW v \in Views, NEW p \in [1 .. Len(v.shape) -> 1 .. Len(v.shape)],
           \A d, e \in 1 .. Len(v.shape) : p[d] = p[e] => d = e, NEW From,
           From = [i \in Indices(transpose(v, p).shape) |->
                      [d \in 1 .. Len(v.shape) |-> i[CHOOSE e \in 1 .. Len(v.shape) : p[e] = d]]]
    PROVE  Derives(v, transpose(v, p), From)
<1> DEFINE m == Len(v.shape)
           s == [d \in 1 .. m |-> v.shape[p[d]]]
           t == [d \in 1 .. m |-> v.strides[p[d]]]
           w == transpose(v, p)
           back(d) == CHOOSE e \in 1 .. m : p[e] = d
<1>1. /\ m \in Nat /\ v.shape \in [1 .. m -> Nat] /\ v.strides \in [1 .. m -> Int] /\ v.offset \in Int
      /\ p \in [1 .. m -> 1 .. m] /\ \A d, e \in 1 .. m : p[d] = p[e] => d = e
      /\ v \in [shape : Seq(Nat), strides : Seq(Int), offset : Int]
  BY ViewFacts DEF Views
<1>2. From = [i \in Indices(w.shape) |-> [d \in 1 .. m |-> i[back(d)]]]
  OBVIOUS
<1> HIDE DEF m
<1>3. w = Updated(v, s, t)
  <2>1. DOMAIN p = 1 .. m
    BY <1>1
  <2> QED
    BY <2>1 DEF transpose, Updated
<1>4. s \in [1 .. m -> Nat] /\ t \in [1 .. m -> Int]
      /\ \A d \in 1 .. m : s[d] = v.shape[p[d]] /\ t[d] = v.strides[p[d]]
  BY <1>1
<1> HIDE DEF s, t, w
<1>5. w \in Views /\ w.shape = s /\ w.strides = t /\ w.offset = v.offset /\ Len(w.shape) = m
  <2>1. m \in Nat /\ s \in [1 .. m -> Nat] /\ t \in [1 .. m -> Int]
    BY <1>1, <1>4
  <2> QED
    <3>1. IsViewWith(w, m, s, t, v.offset)
      BY <1>3, <2>1, ViewUpdated
    <3> QED
      BY <3>1 DEF IsViewWith
<1>6. \A d \in 1 .. m : back(d) \in 1 .. m /\ p[back(d)] = d
  <2>1. \A d \in 1 .. m : \E e \in 1 .. m : p[e] = d
    BY <1>1, PermutationOnto, Zenon
  <2> QED
    BY <2>1
<1>7. \A d \in 1 .. m : back(p[d]) = d
  <2> TAKE d \in 1 .. m
  <2>1. p[d] \in 1 .. m
    BY <1>1
  <2>2. back(p[d]) \in 1 .. m /\ p[back(p[d])] = p[d]
    BY <1>6, <2>1
  <2> QED
    BY <1>1, <2>2
<1> HIDE DEF back
<1>8. ASSUME NEW i \in Indices(w.shape)
      PROVE  From[i] \in Indices(v.shape) /\ Address(v, From[i]) = Address(w, i)
  <2> DEFINE j == [d \in 1 .. m |-> i[back(d)]]
  <2>1. From[i] = j
    BY <1>2
  <2>2. i \in [1 .. m -> Nat] /\ \A d \in 1 .. m : i[d] < s[d]
    BY <1>1, <1>4, <1>5, IndexFacts DEF IsIndex
  <2>3. j \in [1 .. m -> Nat] /\ \A d \in 1 .. m : j[d] = i[back(d)]
    BY <1>6, <2>2
  <2> HIDE DEF j
  <2>4. \A d \in 1 .. m : j[d] < v.shape[d]
    <3> TAKE d \in 1 .. m
    <3>1. back(d) \in 1 .. m /\ p[back(d)] = d
      BY <1>6
    <3>2. i[back(d)] < s[back(d)] /\ s[back(d)] = v.shape[p[back(d)]]
      BY <1>4, <2>2, <3>1
    <3> QED
      BY <2>3, <3>1, <3>2
  <2>5. j \in Indices(v.shape)
    BY <1>1, <2>3, <2>4, IndexFacts DEF IsIndex
  <2>6. i \in [1 .. Len(w.shape) -> Int] /\ j \in [1 .. Len(v.shape) -> Int]
    BY <1>5, <2>2, <2>3 DEF m
  <2>7. ListsTerms(Terms(v, j), p, Len(v.shape), Len(w.shape))
    <3>1. \A d \in 1 .. m : \E e \in 1 .. m : p[e] = d
      BY <1>6
    <3>2. ListsTerms(Terms(v, j), p, m, m)
      BY <1>1, <3>1 DEF ListsTerms
    <3> QED
      BY <1>5, <3>2 DEF m
  <2>8. Agree(v, j, w, i, p)
    <3> SUFFICES ASSUME NEW d \in 1 .. Len(w.shape) PROVE Terms(v, j)[p[d]] = Terms(w, i)[d]
      BY DEF Agree
    <3>1. d \in 1 .. m /\ p[d] \in 1 .. m
      BY <1>1, <1>5
    <3>2. Terms(v, j)[p[d]] = j[p[d]] * v.strides[p[d]]
      BY <2>6, <3>1, AddressFacts DEF m
    <3>3. Terms(w, i)[d] = i[d] * w.strides[d]
      BY <1>5, <2>6, <3>1, AddressFacts
    <3>4. j[p[d]] = i[d] /\ w.strides[d] = v.strides[p[d]]
      BY <1>4, <1>5, <1>7, <2>3, <3>1
    <3> QED
      BY <3>2, <3>3, <3>4
  <2>9. Address(v, j) = Address(w, i)
    <3>1. w \in Views /\ v.offset = w.offset
      BY <1>5
    <3> QED
      BY <2>6, <2>7, <2>8, <3>1, SameAddress
  <2> QED
    BY <2>1, <2>5, <2>9
<1> QED
  BY <1>5, <1>8 DEF Derives, w

LEMMA Unsqueezed ==
    ASSUME NEW v \in Views, NEW dim \in 1 .. Len(v.shape) + 1, NEW From,
           From = [i \in Indices(unsqueeze(v, dim).shape) |->
                      [d \in 1 .. Len(v.shape) |-> IF d < dim THEN i[d] ELSE i[d + 1]]]
    PROVE  Derives(v, unsqueeze(v, dim), From)
<1> DEFINE m == Len(v.shape)
           x == IF dim <= m THEN v.strides[dim] * v.shape[dim] ELSE 1
           s == [d \in 1 .. m + 1 |-> IF d < dim THEN v.shape[d] ELSE IF d = dim THEN 1 ELSE v.shape[d - 1]]
           t == [d \in 1 .. m + 1 |-> IF d < dim THEN v.strides[d] ELSE IF d = dim THEN x ELSE v.strides[d - 1]]
           w == unsqueeze(v, dim)
           q == [d \in 1 .. m |-> IF d < dim THEN d ELSE d + 1]
<1>1. /\ m \in Nat /\ v.shape \in [1 .. m -> Nat] /\ v.strides \in [1 .. m -> Int] /\ v.offset \in Int
      /\ Len(v.strides) = m /\ dim \in 1 .. m + 1
  BY ViewFacts DEF Views
<1>2. From = [i \in Indices(w.shape) |-> [d \in 1 .. m |-> IF d < dim THEN i[d] ELSE i[d + 1]]]
  OBVIOUS
<1>3. w = Updated(v, s, t)
  BY <1>1 DEF unsqueeze, Inserted, Updated
<1> HIDE DEF m, w
<1>4. x \in Int
  <2>1. dim <= m => dim \in 1 .. m
    BY <1>1
  <2> QED
    BY <1>1, <2>1
<1> HIDE DEF x
<1>5. \A d \in 1 .. m + 1 : (d < dim => d \in 1 .. m) /\ (dim < d => d - 1 \in 1 .. m)
  BY <1>1
<1>6. /\ s \in [1 .. m + 1 -> Nat] /\ t \in [1 .. m + 1 -> Int] /\ m + 1 \in Nat
      /\ s[dim] = 1 /\ dim \in 1 .. m + 1
  BY <1>1, <1>4, <1>5
<1>7. q \in [1 .. m -> 1 .. m + 1] /\ \A d \in 1 .. m : q[d] = IF d < dim THEN d ELSE d + 1
  BY <1>1
<1>8. \A d \in 1 .. m : s[q[d]] = v.shape[d] /\ t[q[d]] = v.strides[d]
  <2> TAKE d \in 1 .. m
  <2>1. CASE d < dim
    BY <1>1, <1>7, <2>1
  <2>2. CASE ~ (d < dim)
    <3>1. q[d] = d + 1 /\ d + 1 \in 1 .. m + 1 /\ ~ (d + 1 < dim) /\ d + 1 # dim /\ (d + 1) - 1 = d
      BY <1>1, <1>7, <2>2
    <3> HIDE DEF q
    <3> QED
      BY <3>1
  <2> QED
    BY <2>1, <2>2
<1>9. \A d \in 1 .. m + 1 : d # dim => \E e \in 1 .. m : q[e] = d
  <2> TAKE d \in 1 .. m + 1
  <2>1. CASE d < dim
    BY <1>5, <1>7, <2>1
  <2>2. CASE dim < d
    <3>1. d - 1 \in 1 .. m /\ ~ (d - 1 < dim) /\ (d - 1) + 1 = d
      BY <1>1, <1>5, <1>6, <2>2
    <3>2. q[d - 1] = d
      BY <1>7, <3>1
    <3> QED
      BY <3>1, <3>2
  <2> QED
    BY <1>6, <2>1, <2>2
<1> HIDE DEF s, t, q
<1>10. \A d, e \in 1 .. m : q[d] = q[e] => d = e
  BY <1>6, <1>7
<1>11. w \in Views /\ w.shape = s /\ w.strides = t /\ w.offset = v.offset /\ Len(w.shape) = m + 1
  <2> DEFINE n == m + 1
  <2>1. n \in Nat /\ s \in [1 .. n -> Nat] /\ t \in [1 .. n -> Int]
    BY <1>6
  <2> HIDE DEF n
  <2>2. IsViewWith(w, n, s, t, v.offset)
    BY <1>3, <2>1, ViewUpdated
  <2> QED
    BY <2>2 DEF n, IsViewWith
<1>12. ASSUME NEW i \in Indices(w.shape)
       PROVE  From[i] \in Indices(v.shape) /\ Address(v, From[i]) = Address(w, i)
  <2> DEFINE j == [d \in 1 .. m |-> IF d < dim THEN i[d] ELSE i[d + 1]]
  <2>1. From[i] = j
    BY <1>2
  <2>2. i \in [1 .. m + 1 -> Nat] /\ \A d \in 1 .. m + 1 : i[d] < s[d]
    BY <1>6, <1>11, IndexFacts DEF IsIndex
  <2>3. \A d \in 1 .. m : j[d] = i[q[d]]
    BY <1>7
  <2>4. j \in [1 .. m -> Nat]
    <3>1. \A d \in 1 .. m : j[d] \in Nat
      <4> TAKE d \in 1 .. m
      <4>1. q[d] \in 1 .. m + 1
        BY <1>7
      <4> HIDE DEF j
      <4> QED
        BY <2>2, <2>3, <4>1
    <3>2. j = [d \in 1 .. m |-> j[d]]
      OBVIOUS
    <3> HIDE DEF j
    <3> QED
      BY <3>1, <3>2
  <2> HIDE DEF j
  <2>5. \A d \in 1 .. m : j[d] < v.shape[d]
    <3> TAKE d \in 1 .. m
    <3>1. q[d] \in 1 .. m + 1
      BY <1>7
    <3>2. i[q[d]] < s[q[d]]
      BY <2>2, <3>1
    <3> QED
      BY <1>8, <2>3, <3>2
  <2>6. j \in Indices(v.shape)
    BY <1>1, <2>4, <2>5, IndexFacts DEF IsIndex
  <2>7. i \in [1 .. Len(w.shape) -> Int] /\ j \in [1 .. Len(v.shape) -> Int]
    BY <1>11, <2>2, <2>4 DEF m
  <2>8. ListsTerms(Terms(w, i), q, Len(w.shape), Len(v.shape))
    <3>1. Terms(w, i)[dim] = 0
      <4>1. Terms(w, i)[dim] = i[dim] * w.strides[dim]
        BY <1>6, <1>11, <2>7, AddressFacts
      <4>2. i[dim] = 0 /\ w.strides[dim] \in Int
        BY <1>6, <1>11, <2>2
      <4>3. \A a \in Int : 0 * a = 0
        OBVIOUS
      <4> QED
        BY <4>1, <4>2, <4>3
    <3>2. ListsTerms(Terms(w, i), q, m + 1, m)
      BY <1>7, <1>9, <1>10, <3>1 DEF ListsTerms
    <3> QED
      BY <1>11, <3>2 DEF m
  <2>9. Agree(w, i, v, j, q)
    <3> SUFFICES ASSUME NEW d \in 1 .. Len(v.shape) PROVE Terms(w, i)[q[d]] = Terms(v, j)[d]
      BY DEF Agree
    <3>1. d \in 1 .. m /\ q[d] \in 1 .. m + 1
      BY <1>7 DEF m
    <3>2. Terms(w, i)[q[d]] = i[q[d]] * w.strides[q[d]]
      BY <1>11, <2>7, <3>1, AddressFacts
    <3>3. Terms(v, j)[d] = j[d] * v.strides[d]
      BY <2>7, <3>1, AddressFacts DEF m
    <3>4. j[d] = i[q[d]] /\ w.strides[q[d]] = v.strides[d]
      BY <1>8, <1>11, <2>3, <3>1
    <3> QED
      BY <3>2, <3>3, <3>4
  <2>10. Address(w, i) = Address(v, j)
    <3>1. w \in Views /\ w.offset = v.offset
      BY <1>11
    <3> QED
      BY <2>7, <2>8, <2>9, <3>1, SameAddress
  <2> QED
    BY <2>1, <2>6, <2>10
<1> QED
  BY <1>11, <1>12 DEF Derives, w

LEMMA Broadcasted ==
    ASSUME NEW v \in Views, NEW shape \in Seq(Int), BroadcastAccepts(v, shape), NEW From,
           From = [i \in Indices(shape) |-> [d \in 1 .. Len(v.shape) |->
                      IF v.shape[d] = 1 THEN 0 ELSE i[d + Len(shape) - Len(v.shape)]]]
    PROVE  Derives(v, broadcastTo(v, shape), From)
<1> DEFINE m == Len(v.shape)
           n == Len(shape)
           old(d) == IF d - (n - m) > 0 THEN v.strides[d - (n - m)] ELSE 0
           t == [d \in 1 .. n |-> IF OldDim(v, shape, d) = shape[d] THEN old(d) ELSE 0]
           w == broadcastTo(v, shape)
           q == [d \in 1 .. m |-> d + (n - m)]
<1>1. /\ m \in Nat /\ v.shape \in [1 .. m -> Nat] /\ v.strides \in [1 .. m -> Int] /\ v.offset \in Int
      /\ n \in Nat /\ m <= n /\ shape \in [1 .. n -> Int] /\ DOMAIN shape = 1 .. n
  BY ViewFacts, LenProperties DEF BroadcastAccepts
<1>2. From = [i \in Indices(shape) |-> [d \in 1 .. m |-> IF v.shape[d] = 1 THEN 0 ELSE i[d + n - m]]]
  OBVIOUS
<1>3. \A d \in 1 .. n : shape[d] >= 0 /\ (OldDim(v, shape, d) = shape[d] \/ OldDim(v, shape, d) = 1)
  BY <1>1 DEF BroadcastAccepts
<1>4. \A d \in 1 .. n : OldDim(v, shape, d) = IF d - (n - m) > 0 THEN v.shape[d - (n - m)] ELSE 1
  BY DEF OldDim, Aligned
<1>5. w = Updated(v, shape, t)
  BY <1>1 DEF broadcastTo, Updated, OldStride, Aligned
<1> HIDE DEF m, n, w
<1>6. shape \in [1 .. n -> Nat]
  BY <1>1, <1>3
<1>7. t \in [1 .. n -> Int]
  <2>1. \A d \in 1 .. n : d - (n - m) > 0 => d - (n - m) \in 1 .. m
    BY <1>1
  <2>2. \A d \in 1 .. n : old(d) \in Int
    BY <1>1, <2>1
  <2> HIDE DEF old
  <2> QED
    BY <2>2
<1>8. q \in [1 .. m -> 1 .. n] /\ \A d \in 1 .. m : q[d] = d + (n - m) /\ d + n - m = q[d]
  BY <1>1
<1>9. \A d \in 1 .. m : /\ OldDim(v, shape, q[d]) = v.shape[d]
                        /\ t[q[d]] = IF v.shape[d] = shape[q[d]] THEN v.strides[d] ELSE 0
  <2> TAKE d \in 1 .. m
  <2>1. q[d] \in 1 .. n /\ q[d] - (n - m) = d /\ d > 0
    BY <1>1, <1>8
  <2> HIDE DEF q
  <2>2. OldDim(v, shape, q[d]) = v.shape[d] /\ old(q[d]) = v.strides[d]
    BY <1>4, <2>1
  <2> HIDE DEF old
  <2> QED
    BY <2>1, <2>2
<1>10. \A d \in 1 .. n : (\A e \in 1 .. m : q[e] # d) => t[d] = 0
  <2> SUFFICES ASSUME NEW d \in 1 .. n, \A e \in 1 .. m : q[e] # d PROVE t[d] = 0
    OBVIOUS
  <2>1. ~ (d - (n - m) > 0)
    <3> SUFFICES ASSUME d - (n - m) > 0 PROVE FALSE
      OBVIOUS
    <3>1. d - (n - m) \in 1 .. m /\ (d - (n - m)) + (n - m) = d
      BY <1>1
    <3> QED
      BY <1>8, <3>1
  <2>2. old(d) = 0
    BY <2>1
  <2> HIDE DEF old
  <2> QED
    BY <2>2
<1> HIDE DEF t, q, old
<1>11. \A d, e \in 1 .. m : q[d] = q[e] => d = e
  BY <1>1, <1>8
<1>12. w \in Views /\ w.shape = shape /\ w.strides = t /\ w.offset = v.offset /\ Len(w.shape) = n
  <2>1. IsViewWith(w, n, shape, t, v.offset)
    BY <1>1, <1>5, <1>6, <1>7, ViewUpdated
  <2> QED
    BY <2>1 DEF IsViewWith
<1>13. ASSUME NEW i \in Indices(w.shape)
       PROVE  From[i] \in Indices(v.shape) /\ Address(v, From[i]) = Address(w, i)
  <2> DEFINE j == [d \in 1 .. m |-> IF v.shape[d] = 1 THEN 0 ELSE i[q[d]]]
  <2>1. From[i] = j
    <3>1. From[i] = [d \in 1 .. m |-> IF v.shape[d] = 1 THEN 0 ELSE i[d + n - m]]
      BY <1>2, <1>12
    <3>2. \A d \in 1 .. m : i[d + n - m] = i[q[d]]
      BY <1>8
    <3> QED
      BY <3>1, <3>2
  <2>2. i \in [1 .. n -> Nat] /\ \A d \in 1 .. n : i[d] < shape[d]
    BY <1>1, <1>6, <1>12, IndexFacts DEF IsIndex
  <2>3. j \in [1 .. m -> Nat] /\ \A d \in 1 .. m : j[d] = IF v.shape[d] = 1 THEN 0 ELSE i[q[d]]
    BY <1>8, <2>2
  <2> HIDE DEF j
  <2>4. ASSUME NEW d \in 1 .. m
        PROVE  j[d] < v.shape[d] /\ j[d] * v.strides[d] = i[q[d]] * t[q[d]]
    <3>1. /\ q[d] \in 1 .. n /\ i[q[d]] \in Nat /\ i[q[d]] < shape[q[d]] /\ v.strides[d] \in Int
          /\ v.shape[d] = shape[q[d]] \/ v.shape[d] = 1
          /\ t[q[d]] = IF v.shape[d] = shape[q[d]] THEN v.strides[d] ELSE 0
      BY <1>1, <1>3, <1>8, <1>9, <2>2
    <3>2. \A a \in Int : 0 * a = 0 /\ a * 0 = 0
      OBVIOUS
    <3>3. CASE v.shape[d] = 1
      <4>1. j[d] = 0
        BY <2>3, <3>3
      <4>2. CASE shape[q[d]] = 1
        <5>1. i[q[d]] = 0 /\ t[q[d]] \in Int
          BY <3>1, <3>3, <4>2
        <5> QED
          BY <3>1, <3>2, <3>3, <4>1, <5>1
      <4>3. CASE shape[q[d]] # 1
        <5>1. t[q[d]] = 0
          BY <3>1, <3>3, <4>3
        <5> QED
          BY <3>1, <3>2, <3>3, <4>1, <5>1
      <4> QED
        BY <4>2, <4>3
    <3>4. CASE v.shape[d] # 1
      <4>1. j[d] = i[q[d]] /\ v.shape[d] = shape[q[d]] /\ t[q[d]] = v.strides[d]
        BY <2>3, <3>1, <3>4
      <4> QED
        BY <3>1, <4>1
    <3> QED
      BY <3>3, <3>4
  <2>5. j \in Indices(v.shape)
    BY <1>1, <2>3, <2>4, IndexFacts DEF IsIndex
  <2>6. i \in [1 .. Len(w.shape) -> Int] /\ j \in [1 .. Len(v.shape) -> Int]
    BY <1>12, <2>2, <2>3 DEF m
  <2>7. \A d \in 1 .. n : Terms(w, i)[d] = i[d] * t[d]
    BY <1>12, <2>6, AddressFacts
  <2>8. ListsTerms(Terms(w, i), q, Len(w.shape), Len(v.shape))
    <3>1. ASSUME NEW d \in 1 .. n, \A e \in 1 .. m : q[e] # d PROVE Terms(w, i)[d] = 0
      <4>1. t[d] = 0 /\ i[d] \in Nat
        BY <1>10, <2>2, <3>1
      <4>2. \A a \in Nat : a * 0 = 0
        OBVIOUS
      <4> QED
        BY <2>7, <4>1, <4>2
    <3>2. ListsTerms(Terms(w, i), q, n, m)
      BY <1>8, <1>11, <3>1 DEF ListsTerms
    <3> QED
      BY <1>12, <3>2 DEF m
  <2>9. Agree(w, i, v, j, q)
    <3> SUFFICES ASSUME NEW d \in 1 .. Len(v.shape) PROVE Terms(w, i)[q[d]] = Terms(v, j)[d]
      BY DEF Agree
    <3>1. d \in 1 .. m /\ q[d] \in 1 .. n
      BY <1>8 DEF m
    <3>2. Terms(v, j)[d] = j[d] * v.strides[d]
      BY <2>6, <3>1, AddressFacts DEF m
    <3> QED
      BY <2>4, <2>7, <3>1, <3>2
  <2>10. Address(w, i) = Address(v, j)
    <3>1. w \in Views /\ w.offset = v.offset
      BY <1>12
    <3> QED
      BY <2>6, <2>8, <2>9, <3>1, SameAddress
  <2> QED
    BY <2>1, <2>5, <2>10
<1> QED
  BY <1>12, <1>13 DEF Derives, w

\* k lists the dimensions up to n that are not in dims.
ListsKept(k, n, dims) ==
    /\ k \in Seq(Nat)
    /\ \A e \in 1 .. Len(k) : k[e] \in 1 .. n /\ k[e] \notin dims
    /\ \A e, f \in 1 .. Len(k) : k[e] = k[f] => e = f
    /\ \A d \in 1 .. n : d \notin dims => \E e \in 1 .. Len(k) : k[e] = d

LEMMA KeptFacts ==
    ASSUME NEW v \in Views, NEW dims
    PROVE  ListsKept(Kept(v, dims), Len(v.shape), dims)
<1> DEFINE m == Len(v.shape)
<1>1. m \in Nat /\ v.shape \in [1 .. m -> Nat]
  BY ViewFacts
<1>2. PICK f \in [0 .. m -> Seq(Nat)] :
        /\ f[0] = << >> /\ \A n \in 1 .. m : f[n] = IF n \in dims THEN f[n - 1] ELSE Append(f[n - 1], n)
        /\ Kept(v, dims) = f[m]
  <2> HIDE DEF m
  <2> QED
    <3>1. KeepsIn(v, m, dims)
      BY <1>1, KeptRun
    <3> QED
      BY <3>1 DEF KeepsIn
<1> HIDE DEF m
<1> DEFINE X == {n \in 0 .. m : ListsKept(f[n], n, dims)}
<1>3. 0 \in X
  <2>1. f[0] = << >> /\ 0 \in 0 .. m
    BY <1>1, <1>2
  <2>2. ListsKept(<< >>, 0, dims)
    BY DEF ListsKept
  <2> QED
    BY <2>1, <2>2
<1>4. ASSUME NEW n \in 1 .. m, n - 1 \in X PROVE n \in X
  <2> DEFINE k == f[n - 1]
  <2>1. ListsKept(k, n - 1, dims) /\ n \in 0 .. m /\ n \in Nat
    BY <1>4
  <2>2. f[n] = IF n \in dims THEN k ELSE Append(k, n)
    BY <1>2
  <2> HIDE DEF X, k
  <2>3. \A d \in 1 .. n - 1 : d \in 1 .. n /\ d # n
    OBVIOUS
  <2>4. \A d \in 1 .. n : d = n \/ d \in 1 .. n - 1
    OBVIOUS
  <2>5. CASE n \in dims
    <3>1. f[n] = k
      BY <2>2, <2>5
    <3>2. ListsKept(k, n, dims)
      BY <2>1, <2>3, <2>4, <2>5 DEF ListsKept
    <3> QED
      BY <2>1, <3>1, <3>2 DEF X
  <2>6. CASE n \notin dims
    <3> DEFINE a == Append(k, n)
               c == Len(k)
    <3>1. /\ k \in Seq(Nat) /\ c \in Nat
          /\ \A e \in 1 .. c : k[e] \in 1 .. n - 1 /\ k[e] \notin dims
          /\ \A e, g \in 1 .. c : k[e] = k[g] => e = g
          /\ \A d \in 1 .. n - 1 : d \notin dims => \E e \in 1 .. c : k[e] = d
      BY <2>1 DEF ListsKept
    <3>2. /\ a \in Seq(Nat) /\ Len(a) = c + 1 /\ a[c + 1] = n
          /\ \A e \in 1 .. c : a[e] = k[e]
      BY <2>1, <3>1
    <3>3. \A e \in 1 .. c + 1 : e = c + 1 \/ e \in 1 .. c
      BY <3>1
    <3>4. c + 1 \in 1 .. c + 1 /\ \A e \in 1 .. c : e \in 1 .. c + 1
      BY <3>1
    <3> HIDE DEF a, c
    <3>5. \A e \in 1 .. c + 1 : a[e] \in 1 .. n /\ a[e] \notin dims
      <4> TAKE e \in 1 .. c + 1
      <4>1. CASE e = c + 1
        BY <2>1, <2>6, <3>2, <4>1
      <4>2. CASE e \in 1 .. c
        BY <2>3, <3>1, <3>2, <4>2
      <4> QED
        BY <3>3, <4>1, <4>2
    <3>6. \A e, g \in 1 .. c + 1 : a[e] = a[g] => e = g
      <4> TAKE e, g \in 1 .. c + 1
      <4>1. \A x \in 1 .. c : a[x] # n
        BY <2>3, <3>1, <3>2
      <4> QED
        BY <3>1, <3>2, <3>3, <4>1
    <3>7. \A d \in 1 .. n : d \notin dims => \E e \in 1 .. c + 1 : a[e] = d
      <4> TAKE d \in 1 .. n
      <4>1. CASE d = n
        BY <3>2, <3>4, <4>1
      <4>2. CASE d \in 1 .. n - 1
        BY <3>1, <3>2, <3>4, <4>2
      <4> QED
        BY <2>4, <4>1, <4>2
    <3>8. ListsKept(a, n, dims)
      BY <3>2, <3>5, <3>6, <3>7 DEF ListsKept
    <3> QED
      BY <2>1, <2>2, <2>6, <3>8 DEF X, a
  <2> QED
    BY <2>5, <2>6
<1>5. m \in X
  <2> HIDE DEF X
  <2>1. \A n \in 0 .. m : n \in X
    BY <1>1, <1>3, <1>4, Upward
  <2> QED
    BY <1>1, <2>1
<1> QED
  BY <1>2, <1>5 DEF m

LEMMA Squeezed ==
    ASSUME NEW v \in Views, NEW dims \in SUBSET {d \in 1 .. Len(v.shape) : v.shape[d] = 1}, NEW From,
           From = [i \in Indices(squeeze(v, dims).shape) |-> [d \in 1 .. Len(v.shape) |->
                      IF d \in dims THEN 0
                      ELSE i[CHOOSE e \in DOMAIN Kept(v, dims) : Kept(v, dims)[e] = d]]]
    PROVE  Derives(v, squeeze(v, dims), From)
<1> DEFINE m == Len(v.shape)
           k == Kept(v, dims)
           n == Len(k)
           s == [d \in 1 .. n |-> v.shape[k[d]]]
           t == [d \in 1 .. n |-> v.strides[k[d]]]
           w == squeeze(v, dims)
           back(d) == CHOOSE e \in 1 .. n : k[e] = d
<1>1. /\ m \in Nat /\ v.shape \in [1 .. m -> Nat] /\ v.strides \in [1 .. m -> Int] /\ v.offset \in Int
      /\ \A d \in dims : d \in 1 .. m /\ v.shape[d] = 1
  BY ViewFacts
<1>2. /\ k \in Seq(Nat) /\ n \in Nat /\ DOMAIN k = 1 .. n
      /\ \A e \in 1 .. n : k[e] \in 1 .. m /\ k[e] \notin dims
      /\ \A e, f \in 1 .. n : k[e] = k[f] => e = f
      /\ \A d \in 1 .. m : d \notin dims => \E e \in 1 .. n : k[e] = d
  <2>1. ListsKept(k, m, dims)
    BY KeptFacts
  <2> HIDE DEF m, k
  <2>2. k \in Seq(Nat) /\ n \in Nat /\ DOMAIN k = 1 .. n
    BY <2>1, LenProperties DEF ListsKept
  <2> QED
    BY <2>1, <2>2 DEF ListsKept
<1>3. From = [i \in Indices(w.shape) |-> [d \in 1 .. m |-> IF d \in dims THEN 0 ELSE i[back(d)]]]
  BY <1>2
<1>4. w = Updated(v, s, t)
  BY <1>2 DEF squeeze, Updated
<1> HIDE DEF m, k, n
<1>5. k \in [1 .. n -> 1 .. m]
  BY <1>2
<1>6. s \in [1 .. n -> Nat] /\ t \in [1 .. n -> Int]
      /\ \A d \in 1 .. n : s[d] = v.shape[k[d]] /\ t[d] = v.strides[k[d]]
  BY <1>1, <1>5
<1> HIDE DEF s, t, w
<1>7. w \in Views /\ w.shape = s /\ w.strides = t /\ w.offset = v.offset /\ Len(w.shape) = n
  <2>1. n \in Nat /\ s \in [1 .. n -> Nat] /\ t \in [1 .. n -> Int]
    BY <1>2, <1>6
  <2>2. IsViewWith(w, n, s, t, v.offset)
    BY <1>4, <2>1, ViewUpdated
  <2> QED
    BY <2>2 DEF IsViewWith
<1>8. \A d \in 1 .. m : d \notin dims => back(d) \in 1 .. n /\ k[back(d)] = d
  BY <1>2
<1>9. \A d \in 1 .. n : back(k[d]) = d
  <2> TAKE d \in 1 .. n
  <2>1. k[d] \in 1 .. m /\ k[d] \notin dims
    BY <1>2
  <2>2. back(k[d]) \in 1 .. n /\ k[back(k[d])] = k[d]
    BY <1>8, <2>1
  <2> QED
    BY <1>2, <2>2
<1> HIDE DEF back
<1>10. ASSUME NEW i \in Indices(w.shape)
      PROVE  From[i] \in Indices(v.shape) /\ Address(v, From[i]) = Address(w, i)
  <2> DEFINE j == [d \in 1 .. m |-> IF d \in dims THEN 0 ELSE i[back(d)]]
  <2>1. From[i] = j
    BY <1>3
  <2>2. i \in [1 .. n -> Nat] /\ \A d \in 1 .. n : i[d] < s[d]
    BY <1>2, <1>6, <1>7, IndexFacts DEF IsIndex
  <2>3. j \in [1 .. m -> Nat] /\ \A d \in 1 .. m : j[d] = IF d \in dims THEN 0 ELSE i[back(d)]
    BY <1>8, <2>2
  <2> HIDE DEF j
  <2>4. \A d \in 1 .. m : j[d] < v.shape[d]
    <3> TAKE d \in 1 .. m
    <3>1. CASE d \in dims
      BY <1>1, <2>3, <3>1
    <3>2. CASE d \notin dims
      <4>1. back(d) \in 1 .. n /\ k[back(d)] = d
        BY <1>8, <3>2
      <4>2. i[back(d)] < s[back(d)] /\ s[back(d)] = v.shape[k[back(d)]]
        BY <1>6, <2>2, <4>1
      <4> QED
        BY <2>3, <3>2, <4>1, <4>2
    <3> QED
      BY <3>1, <3>2
  <2>5. j \in Indices(v.shape)
    BY <1>1, <2>3, <2>4, IndexFacts DEF IsIndex
  <2>6. i \in [1 .. Len(w.shape) -> Int] /\ j \in [1 .. Len(v.shape) -> Int]
    BY <1>7, <2>2, <2>3 DEF m
  <2>7. \A d \in 1 .. m : Terms(v, j)[d] = j[d] * v.strides[d]
    BY <2>6, AddressFacts DEF m
  <2>8. ListsTerms(Terms(v, j), k, Len(v.shape), Len(w.shape))
    <3>1. ASSUME NEW d \in 1 .. m, \A e \in 1 .. n : k[e] # d PROVE Terms(v, j)[d] = 0
      <4>1. d \in dims
        BY <1>2, <3>1
      <4>2. j[d] = 0 /\ v.strides[d] \in Int
        BY <1>1, <2>3, <4>1
      <4>3. \A a \in Int : 0 * a = 0
        OBVIOUS
      <4> QED
        BY <2>7, <4>2, <4>3
    <3>2. ListsTerms(Terms(v, j), k, m, n)
      BY <1>2, <1>5, <3>1 DEF ListsTerms
    <3> QED
      BY <1>7, <3>2 DEF m
  <2>9. Agree(v, j, w, i, k)
    <3> SUFFICES ASSUME NEW d \in 1 .. Len(w.shape) PROVE Terms(v, j)[k[d]] = Terms(w, i)[d]
      BY DEF Agree
    <3>1. d \in 1 .. n /\ k[d] \in 1 .. m /\ k[d] \notin dims
      BY <1>2, <1>7
    <3>2. Terms(w, i)[d] = i[d] * w.strides[d]
      BY <1>7, <2>6, <3>1, AddressFacts
    <3>3. j[k[d]] = i[d] /\ w.strides[d] = v.strides[k[d]]
      BY <1>6, <1>7, <1>9, <2>3, <3>1
    <3> QED
      BY <2>7, <3>1, <3>2, <3>3
  <2>10. Address(v, j) = Address(w, i)
    <3>1. w \in Views /\ v.offset = w.offset
      BY <1>7
    <3> QED
      BY <2>6, <2>8, <2>9, <3>1, SameAddress
  <2> QED
    BY <2>1, <2>5, <2>10
<1> QED
  BY <1>7, <1>10 DEF Derives, w

-----------------------------------------------------------------------------
(* Slices *)

\* Stepping through a dimension stays in it.
LEMMA StepsInside ==
    ASSUME NEW dim \in Nat, NEW start \in Int, NEW size \in Int, NEW step \in Int,
           SliceDimAccepts(dim, start, size, step), NEW x \in Nat, x < size
    PROVE  start + x * step \in Nat /\ start + x * step < dim
<1>1. /\ 0 <= start /\ start < dim /\ size \in Nat /\ step # 0
      /\ step > 0 => start + (size - 1) * step < dim
      /\ ~ (step > 0) => start + (size - 1) * step >= 0
  BY DEF SliceDimAccepts
<1>2. x <= size - 1 /\ size - 1 \in Nat
  BY <1>1
<1> DEFINE last == size - 1
<1>3. last \in Nat /\ x <= last
  BY <1>2
<1>4. CASE step > 0
  <2>1. step \in Nat /\ start + last * step < dim
    BY <1>1, <1>4
  <2> HIDE DEF last
  <2>2. x * step <= last * step /\ x * step \in Nat /\ last * step \in Nat
    <3>1. \A a, b \in Nat : a * b \in Nat
      OBVIOUS
    <3> QED
      BY <1>3, <2>1, <3>1, Smaller
  <2> DEFINE p == x * step
             q == last * step
  <2>3. p \in Nat /\ q \in Nat /\ p <= q /\ start + q < dim
    BY <2>1, <2>2
  <2> HIDE DEF p, q
  <2>4. start + p \in Nat /\ start + p < dim
    BY <1>1, <2>3
  <2> QED
    BY <2>4 DEF p
<1>5. CASE ~ (step > 0)
  <2> DEFINE back == 0 - step
  <2>1. back \in Nat /\ start + last * step >= 0
    BY <1>1, <1>5
  <2> HIDE DEF last
  <2>2. x * step = 0 - x * back /\ last * step = 0 - last * back
    BY <1>3
  <2> HIDE DEF back
  <2>3. x * back <= last * back /\ x * back \in Nat /\ last * back \in Nat
    <3>1. \A a, b \in Nat : a * b \in Nat
      OBVIOUS
    <3> QED
      BY <1>3, <2>1, <3>1, Smaller
  <2> DEFINE p == x * back
             q == last * back
             r == x * step
             u == last * step
  <2>4. p \in Nat /\ q \in Nat /\ p <= q /\ r = 0 - p /\ u = 0 - q /\ start + u >= 0
    BY <2>1, <2>2, <2>3
  <2> HIDE DEF p, q, r, u
  <2>5. start + r \in Nat /\ start + r < dim
    BY <1>1, <2>4
  <2> QED
    BY <2>5 DEF r
<1> QED
  BY <1>4, <1>5

LEMMA Sliced ==
    ASSUME NEW v \in Views,
           NEW starts \in [1 .. Len(v.shape) -> Int], NEW sizes \in [1 .. Len(v.shape) -> Int],
           NEW steps \in [1 .. Len(v.shape) -> Int],
           \A d \in 1 .. Len(v.shape) : SliceDimAccepts(v.shape[d], starts[d], sizes[d], steps[d]),
           NEW From,
           From = [i \in Indices(sizes) |-> [d \in 1 .. Len(v.shape) |-> starts[d] + i[d] * steps[d]]]
    PROVE  Derives(v, slice(v, starts, sizes, steps), From)
<1> DEFINE m == Len(v.shape)
           t == [d \in 1 .. m |-> v.strides[d] * steps[d]]
           b == [d \in 1 .. m |-> starts[d] * v.strides[d]]
           w == slice(v, starts, sizes, steps)
<1>1. /\ m \in Nat /\ v.shape \in [1 .. m -> Nat] /\ v.strides \in [1 .. m -> Int] /\ v.offset \in Int
      /\ DOMAIN v.shape = 1 .. m
      /\ starts \in [1 .. m -> Int] /\ sizes \in [1 .. m -> Int] /\ steps \in [1 .. m -> Int]
  BY ViewFacts
<1>2. w = [shape |-> sizes, strides |-> t, offset |-> v.offset + Total(b)]
  BY <1>1 DEF slice
<1>3. \A d \in 1 .. m : SliceDimAccepts(v.shape[d], starts[d], sizes[d], steps[d])
  OBVIOUS
<1>4. From = [i \in Indices(sizes) |-> [d \in 1 .. m |-> starts[d] + i[d] * steps[d]]]
  OBVIOUS
<1> HIDE DEF m, w
<1>5. sizes \in [1 .. m -> Nat]
  <2>1. \A d \in 1 .. m : sizes[d] >= 0
    BY <1>3 DEF SliceDimAccepts
  <2> QED
    BY <1>1, <2>1
<1>6. /\ t \in [1 .. m -> Int] /\ \A d \in 1 .. m : t[d] = v.strides[d] * steps[d]
      /\ b \in [1 .. m -> Int] /\ \A d \in 1 .. m : b[d] = starts[d] * v.strides[d]
  <2>1. \A x, y \in Int : x * y \in Int
    OBVIOUS
  <2>2. \A d \in 1 .. m : v.strides[d] * steps[d] \in Int /\ starts[d] * v.strides[d] \in Int
    BY <1>1, <2>1
  <2> QED
    BY <2>2
<1> HIDE DEF t, b
<1>7. Total(b) \in Int
  BY <1>1, <1>6, TotalFacts
<1>8. /\ w \in Views /\ w.shape = sizes /\ w.strides = t /\ w.offset = v.offset + Total(b)
      /\ Len(w.shape) = m
  <2> DEFINE o == v.offset + Total(b)
  <2>1. o \in Int /\ w = [shape |-> sizes, strides |-> t, offset |-> o]
    BY <1>1, <1>2, <1>7
  <2> HIDE DEF o
  <2>2. IsViewWith(w, m, sizes, t, o)
    BY <1>1, <1>5, <1>6, <2>1, ViewMade
  <2> QED
    BY <2>2 DEF IsViewWith, o
<1>9. ASSUME NEW i \in Indices(w.shape)
      PROVE  From[i] \in Indices(v.shape) /\ Address(v, From[i]) = Address(w, i)
  <2> DEFINE j == [d \in 1 .. m |-> starts[d] + i[d] * steps[d]]
  <2>1. From[i] = j
    BY <1>4, <1>8
  <2>2. i \in [1 .. m -> Nat] /\ \A d \in 1 .. m : i[d] < sizes[d]
    BY <1>1, <1>5, <1>8, IndexFacts DEF IsIndex
  <2>3. \A d \in 1 .. m : j[d] = starts[d] + i[d] * steps[d]
    OBVIOUS
  <2>4. \A d \in 1 .. m : j[d] \in Nat /\ j[d] < v.shape[d]
    <3> TAKE d \in 1 .. m
    <3>1. /\ v.shape[d] \in Nat /\ starts[d] \in Int /\ sizes[d] \in Int /\ steps[d] \in Int
          /\ i[d] \in Nat /\ i[d] < sizes[d]
      BY <1>1, <2>2
    <3>2. starts[d] + i[d] * steps[d] \in Nat /\ starts[d] + i[d] * steps[d] < v.shape[d]
      BY <1>3, <3>1, StepsInside
    <3> HIDE DEF j
    <3> QED
      BY <2>3, <3>2
  <2>5. j \in [1 .. m -> Nat]
    <3>1. j = [d \in 1 .. m |-> j[d]]
      OBVIOUS
    <3> HIDE DEF j
    <3> QED
      BY <2>4, <3>1
  <2> HIDE DEF j
  <2>6. j \in Indices(v.shape)
    BY <1>1, <2>4, <2>5, IndexFacts DEF IsIndex
  <2>7. i \in [1 .. Len(w.shape) -> Int] /\ j \in [1 .. Len(v.shape) -> Int]
    BY <1>8, <2>2, <2>5 DEF m
  <2> DEFINE p == Terms(v, j)
             q == Terms(w, i)
  <2>8. /\ p \in [1 .. m -> Int] /\ \A d \in 1 .. m : p[d] = j[d] * v.strides[d]
        /\ Address(v, j) = v.offset + Total(p)
    BY <2>7, AddressFacts DEF m
  <2>9. /\ q \in [1 .. m -> Int] /\ \A d \in 1 .. m : q[d] = i[d] * t[d]
        /\ Address(w, i) = w.offset + Total(q)
    BY <1>8, <2>7, AddressFacts
  <2> HIDE DEF p, q
  <2>10. \A d \in 1 .. m : p[d] = b[d] + q[d]
    <3> TAKE d \in 1 .. m
    <3>1. \A x, y, z, u \in Int : (x + y * z) * u = x * u + y * (u * z)
      OBVIOUS
    <3>2. starts[d] \in Int /\ i[d] \in Int /\ steps[d] \in Int /\ v.strides[d] \in Int
      <4>1. i[d] \in Nat /\ starts[d] \in Int /\ steps[d] \in Int
        BY <1>1, <2>2
      <4>2. v.strides[d] \in Int
        BY <1>1
      <4> QED
        BY <4>1, <4>2
    <3>3. (starts[d] + i[d] * steps[d]) * v.strides[d]
            = starts[d] * v.strides[d] + i[d] * (v.strides[d] * steps[d])
      <4> DEFINE x == starts[d]
                 y == i[d]
                 z == steps[d]
                 u == v.strides[d]
      <4>1. x \in Int /\ y \in Int /\ z \in Int /\ u \in Int
        BY <3>2
      <4> HIDE DEF x, y, z, u
      <4>2. (x + y * z) * u = x * u + y * (u * z)
        BY <3>1, <4>1
      <4> QED
        BY <4>2 DEF x, y, z, u
    <3>4. p[d] = (starts[d] + i[d] * steps[d]) * v.strides[d]
      BY <2>3, <2>8
    <3>5. b[d] = starts[d] * v.strides[d] /\ q[d] = i[d] * (v.strides[d] * steps[d])
      BY <1>6, <2>9
    <3> QED
      BY <3>3, <3>4, <3>5, Zenon
  <2>11. p = [d \in 1 .. m |-> b[d] + q[d]]
    BY <2>8, <2>10
  <2>12. Total(p) = Total(b) + Total(q)
    BY <1>1, <1>6, <2>9, <2>11, TotalAdd
  <2>13. Total(q) \in Int
    BY <1>1, <2>9, TotalFacts
  <2>14. Address(v, j) = Address(w, i)
    BY <1>1, <1>7, <1>8, <2>8, <2>9, <2>12, <2>13
  <2> QED
    BY <2>1, <2>6, <2>14
<1> QED
  BY <1>8, <1>9 DEF Derives, w

-----------------------------------------------------------------------------
(* Reshaped views *)

\* A shape that fits has the elements of the view, and no negative size.
LEMMA Resolved ==
    ASSUME NEW v \in Views, NEW shape \in Seq(Int), ShapeFits(v, shape)
    PROVE  /\ reshape(v, shape).shape \in [1 .. Len(shape) -> Nat]
           /\ numelOf(reshape(v, shape).shape) = numelOf(v.shape)
<1> DEFINE n == Len(shape)
           N == numelOf(v.shape)
           K == Known(shape)
           factors == [d \in 1 .. n |-> IF shape[d] \in {-1, 0} THEN 1 ELSE shape[d]]
           s == [d \in 1 .. n |-> IF shape[d] = -1 THEN N \div K ELSE shape[d]]
<1>1. n \in Nat /\ shape \in [1 .. n -> Int] /\ DOMAIN shape = 1 .. n
  BY LenProperties
<1>2. N \in Nat
  BY ViewFacts, ExtentsFacts
<1>3. /\ \A d \in 1 .. n : shape[d] >= -1
      /\ \A d, e \in 1 .. n : shape[d] = -1 /\ shape[e] = -1 => d = e
  BY <1>1 DEF ShapeFits, Inferred
<1>4. reshape(v, shape).shape = s /\ K = numelOf(factors)
  BY <1>1 DEF reshape, Known
<1> HIDE DEF n, N, K
<1>5. /\ factors \in [1 .. n -> Nat] /\ \A d \in 1 .. n : factors[d] > 0
      /\ \A d \in 1 .. n : factors[d] = IF shape[d] \in {-1, 0} THEN 1 ELSE shape[d]
  BY <1>1, <1>3
<1>6. K \in Nat /\ K > 0
  BY <1>1, <1>4, <1>5, ExtentsFacts, NumelPositive
<1>7. s = [d \in 1 .. n |-> s[d]] /\ \A d \in 1 .. n : s[d] = IF shape[d] = -1 THEN N \div K ELSE shape[d]
  OBVIOUS
<1> HIDE DEF s, factors
<1>8. CASE Inferred(shape) = {}
  <2>1. \A d \in 1 .. n : shape[d] # -1 /\ s[d] = shape[d] /\ s[d] \in Nat
    BY <1>1, <1>3, <1>7, <1>8 DEF Inferred
  <2>2. s \in [1 .. n -> Nat]
    BY <1>7, <2>1
  <2>3. N = IF HasZero(shape) THEN 0 ELSE K
    BY <1>8 DEF ShapeFits, N, K
  <2>4. numelOf(s) = N
    <3>1. CASE HasZero(shape)
      <4>1. PICK d \in 1 .. n : shape[d] = 0
        BY <1>1, <3>1 DEF HasZero
      <4>2. numelOf(s) = 0
        BY <1>1, <2>1, <2>2, <4>1, NumelZero
      <4> QED
        BY <2>3, <3>1, <4>2
    <3>2. CASE ~HasZero(shape)
      <4>1. \A d \in 1 .. n : s[d] = factors[d]
        BY <1>1, <1>5, <2>1, <3>2 DEF HasZero
      <4>2. s = factors
        <5> DEFINE r == factors
        <5>1. r = [d \in 1 .. n |-> r[d]] /\ \A d \in 1 .. n : s[d] = r[d]
          BY <1>5, <4>1
        <5> HIDE DEF r
        <5>2. s = r
          BY <1>7, <5>1
        <5> QED
          BY <5>2 DEF r
      <4> QED
        BY <1>4, <2>3, <3>2, <4>2
    <3> QED
      BY <3>1, <3>2
  <2> QED
    BY <1>4, <2>2, <2>4 DEF n, N
<1>9. CASE Inferred(shape) # {}
  <2>1. ~HasZero(shape) /\ N % K = 0
    BY <1>9 DEF ShapeFits, N, K
  <2>2. PICK k \in 1 .. n : shape[k] = -1
    BY <1>1, <1>9 DEF Inferred
  <2> DEFINE x == N \div K
  <2>3. x \in Nat /\ N = x * K
    <3>1. x \in Nat /\ N % K \in Nat /\ N = x * K + (N % K)
      BY <1>2, <1>6, Divided
    <3> DEFINE a == x * K
    <3>2. a \in Nat
      <4>1. \A y, z \in Nat : y * z \in Nat
        OBVIOUS
      <4> QED
        BY <1>6, <3>1, <4>1
    <3>3. N = a + (N % K)
      BY <3>1
    <3> HIDE DEF a
    <3>4. N = a
      BY <2>1, <3>2, <3>3
    <3> QED
      BY <3>1, <3>4 DEF a
  <2> HIDE DEF x
  <2>4. s[k] = x /\ factors[k] = 1
    BY <1>5, <1>7, <2>2 DEF x
  <2>5. \A d \in 1 .. n : d # k => s[d] = factors[d]
    <3> SUFFICES ASSUME NEW d \in 1 .. n, d # k PROVE s[d] = factors[d]
      OBVIOUS
    <3>1. shape[d] # -1 /\ shape[d] # 0
      BY <1>1, <1>3, <2>1, <2>2 DEF HasZero
    <3> QED
      BY <1>5, <1>7, <3>1
  <2>6. s = Replaced(factors, k, x)
    <3> DEFINE u == Replaced(factors, k, x)
    <3>1. u = [d \in 1 .. n |-> u[d]] /\ u[k] = x /\ \A d \in 1 .. n : d # k => u[d] = factors[d]
      BY <1>5, <2>2 DEF Replaced
    <3> HIDE DEF u
    <3>2. \A d \in 1 .. n : s[d] = u[d]
      BY <2>4, <2>5, <3>1
    <3>3. s = u
      BY <1>7, <3>1, <3>2
    <3> QED
      BY <3>3 DEF u
  <2>7. numelOf(s) = x * K
    <3>1. numelOf(Replaced(factors, k, x)) = x * numelOf(factors)
      <4>1. n \in Nat /\ factors \in [1 .. n -> Nat] /\ k \in 1 .. n /\ factors[k] = 1 /\ x \in Nat
        BY <1>1, <1>5, <2>3, <2>4
      <4> QED
        BY <4>1, NumelReplaced
    <3>2. K = numelOf(factors)
      BY <1>4
    <3> QED
      BY <2>6, <3>1, <3>2
  <2>8. s \in [1 .. n -> Nat]
    <3>1. \A d \in 1 .. n : s[d] \in Nat
      BY <1>5, <2>3, <2>4, <2>5
    <3> QED
      BY <1>7, <3>1
  <2> QED
    BY <1>4, <2>3, <2>7, <2>8 DEF n, N
<1> QED
  BY <1>8, <1>9

\* In a contiguous view an index is at its position.
LEMMA ContiguousAddress ==
    ASSUME NEW v \in Views, v.strides = makeContiguousStrides(v.shape), NEW i \in Indices(v.shape)
    PROVE  Address(v, i) = v.offset + RowMajor(v.shape, i)
<1> DEFINE m == Len(v.shape)
           s == v.shape
           t == v.strides
<1>1. m \in Nat /\ s \in [1 .. m -> Nat]
  BY ViewFacts
<1>2. i \in [1 .. m -> Nat]
  BY <1>1, IndexFacts DEF IsIndex
<1>3. Address(v, i) = v.offset + Total(Terms(v, i))
  <2>1. i \in [1 .. m -> Int]
    BY <1>2
  <2> QED
    BY <2>1, AddressFacts
<1>4. Terms(v, i) = [d \in 1 .. m |-> i[d] * makeContiguousStrides(s)[d]]
  BY DEF Terms
<1> HIDE DEF m, s
<1>5. RowMajor(s, i) = Total([d \in 1 .. m |-> i[d] * makeContiguousStrides(s)[d]])
  BY <1>1, <1>2, RowMajorIsTotal
<1> QED
  BY <1>3, <1>4, <1>5, Zenon DEF s

LEMMA Reshaped ==
    ASSUME NEW v \in Views, NEW shape \in Seq(Int), ReshapeAccepts(v, shape), NEW From,
           From = [i \in Indices(reshape(v, shape).shape) |->
                      CHOOSE old \in Indices(v.shape) :
                          RowMajor(v.shape, old) = RowMajor(reshape(v, shape).shape, i)]
    PROVE  Derives(v, reshape(v, shape), From)
<1> DEFINE m == Len(v.shape)
           n == Len(shape)
           w == reshape(v, shape)
           s == w.shape
<1>1. /\ m \in Nat /\ v.shape \in [1 .. m -> Nat] /\ v.offset \in Int
      /\ n \in Nat /\ v.strides = makeContiguousStrides(v.shape) /\ ShapeFits(v, shape)
  BY ViewFacts, LenProperties DEF ReshapeAccepts, isContiguous
<1>2. s \in [1 .. n -> Nat] /\ numelOf(s) = numelOf(v.shape)
  BY <1>1, Resolved
<1>3. w = [shape |-> s, strides |-> makeContiguousStrides(s), offset |-> v.offset]
  BY DEF reshape
<1>4. From = [i \in Indices(s) |->
                CHOOSE old \in Indices(v.shape) : RowMajor(v.shape, old) = RowMajor(s, i)]
  OBVIOUS
<1> HIDE DEF m, n, w, s
<1>5. w \in Views /\ w.shape = s /\ w.strides = makeContiguousStrides(s) /\ w.offset = v.offset
  <2> DEFINE t == makeContiguousStrides(s)
  <2>1. t \in [1 .. n -> Int]
    BY <1>1, <1>2, StridesFacts
  <2>2. w = [shape |-> s, strides |-> t, offset |-> v.offset]
    BY <1>3
  <2> HIDE DEF t
  <2>3. IsViewWith(w, n, s, t, v.offset)
    BY <1>1, <1>2, <2>1, <2>2, ViewMade
  <2> QED
    BY <2>3 DEF IsViewWith, t
<1>6. ASSUME NEW i \in Indices(w.shape)
      PROVE  From[i] \in Indices(v.shape) /\ Address(v, From[i]) = Address(w, i)
  <2>1. i \in Indices(s)
    BY <1>5
  <2>2. RowMajor(s, i) \in Nat /\ RowMajor(s, i) < numelOf(v.shape)
    BY <1>1, <1>2, <2>1, IndexFacts, RowMajorBound
  <2>3. \E old \in Indices(v.shape) : RowMajor(v.shape, old) = RowMajor(s, i)
    <3> DEFINE pos == RowMajor(s, i)
    <3>1. pos \in Nat /\ pos < numelOf(v.shape)
      BY <2>2
    <3> HIDE DEF pos
    <3>2. HasPosition(m, v.shape, pos)
      BY <1>1, <3>1, RowMajorOnto
    <3>2a. PICK old : IsIndex(old, m, v.shape) /\ RowMajor(v.shape, old) = pos
      BY <3>2 DEF HasPosition
    <3>3. old \in Indices(v.shape)
      BY <1>1, <3>2a, IndexFacts
    <3> QED
      BY <3>2a, <3>3 DEF pos
  <2>4. From[i] \in Indices(v.shape) /\ RowMajor(v.shape, From[i]) = RowMajor(s, i)
    BY <1>4, <2>1, <2>3
  <2>5. Address(v, From[i]) = v.offset + RowMajor(v.shape, From[i])
    BY <1>1, <2>4, ContiguousAddress
  <2>6. Address(w, i) = w.offset + RowMajor(w.shape, i)
    BY <1>5, ContiguousAddress
  <2> QED
    BY <1>5, <2>4, <2>5, <2>6
<1> QED
  BY <1>5, <1>6 DEF Derives, w

-----------------------------------------------------------------------------
(* The chain of views *)

\* The layout is well formed, and at every index of it the history has the
\* element the layout addresses.
LayoutInv ==
    /\ layout \in Views /\ viewOps \in Nat
    /\ elements = [i \in Indices(layout.shape) |-> Address(layout, i)]

LEMMA LayoutStarts ==
    ASSUME NEW shape \in Seq(Nat)
    PROVE  /\ contiguous(shape) \in Views
           /\ RowMajorOrder(shape) = [i \in Indices(contiguous(shape).shape) |-> Address(contiguous(shape), i)]
<1> DEFINE n == Len(shape)
           w == contiguous(shape)
           t == makeContiguousStrides(shape)
<1>1. n \in Nat /\ shape \in [1 .. n -> Nat]
  BY LenProperties
<1>2. w = [shape |-> shape, strides |-> t, offset |-> 0]
  BY DEF contiguous
<1> HIDE DEF n, w
<1>3. w \in Views /\ w.shape = shape /\ w.strides = makeContiguousStrides(shape) /\ w.offset = 0
  <2>1. t \in [1 .. n -> Int] /\ 0 \in Int
    BY <1>1, StridesFacts
  <2> HIDE DEF t
  <2>2. IsViewWith(w, n, shape, t, 0)
    BY <1>1, <1>2, <2>1, ViewMade
  <2> QED
    BY <2>2 DEF IsViewWith, t
<1>4. ASSUME NEW i \in Indices(shape) PROVE Address(w, i) = RowMajor(shape, i)
  <2>1. Address(w, i) = w.offset + RowMajor(w.shape, i)
    BY <1>3, ContiguousAddress
  <2>2. i \in [1 .. n -> Nat]
    BY <1>1, IndexFacts DEF IsIndex
  <2>3. RowMajor(shape, i) \in Nat
    BY <1>1, <2>2, RowMajorIsTotal
  <2> QED
    BY <1>3, <2>1, <2>3
<1>5. RowMajorOrder(shape) = [i \in Indices(w.shape) |-> Address(w, i)]
  BY <1>3, <1>4 DEF RowMajorOrder
<1> QED
  BY <1>3, <1>5 DEF w

\* A view that names the elements of the one it is derived from keeps the history.
LEMMA ViewKeeps ==
    ASSUME LayoutInv, NEW new, NEW From, Derives(layout, new, From), View(new, From)
    PROVE  LayoutInv'
<1>1. /\ layout' = new /\ elements' = [idx \in Indices(new.shape) |-> elements[From[idx]]]
      /\ viewOps' = viewOps + 1
  BY DEF View
<1>2. /\ viewOps \in Nat /\ elements = [i \in Indices(layout.shape) |-> Address(layout, i)]
  BY DEF LayoutInv
<1>3. \A i \in Indices(new.shape) : elements[From[i]] = Address(new, i)
  BY <1>2 DEF Derives
<1>4. elements' = [i \in Indices(new.shape) |-> Address(new, i)]
  BY <1>1, <1>3
<1>5. new \in Views /\ viewOps' \in Nat
  BY <1>1, <1>2 DEF Derives
<1> QED
  BY <1>1, <1>4, <1>5 DEF LayoutInv

\* The inductive invariant of a chain of views: the layout is well formed, and
\* the address it gives every index is the element the operations put there.
THEOREM LayoutInvariant == LayoutSpec => []LayoutInv
<1>1. LayoutInit => LayoutInv
  <2> SUFFICES ASSUME LayoutInit PROVE LayoutInv
    OBVIOUS
  <2>1. PICK shape \in Shapes : layout = contiguous(shape) /\ elements = RowMajorOrder(shape)
    BY DEF LayoutInit
  <2>2. shape \in Seq(Nat)
    BY LayoutAssumption
  <2>3. layout \in Views /\ elements = [i \in Indices(layout.shape) |-> Address(layout, i)]
    BY <2>1, <2>2, LayoutStarts
  <2> QED
    BY <2>3 DEF LayoutInv, LayoutInit
<1>2. LayoutInv /\ [LayoutNext]_layoutVars => LayoutInv'
  <2> SUFFICES ASSUME LayoutInv, [LayoutNext]_layoutVars PROVE LayoutInv'
    OBVIOUS
  <2> DEFINE m == Len(layout.shape)
  <2>1. layout \in Views /\ m \in Nat /\ layout.shape \in [1 .. m -> Nat]
    BY ViewFacts DEF LayoutInv
  <2>2. CASE Contiguous
    <3>1. PICK shape \in Shapes : /\ layout' = contiguous(shape) /\ elements' = RowMajorOrder(shape)
                                  /\ viewOps' = 0
      BY <2>2 DEF Contiguous
    <3>2. shape \in Seq(Nat)
      BY LayoutAssumption
    <3>3. layout' \in Views /\ elements' = [i \in Indices(layout'.shape) |-> Address(layout', i)]
      BY <3>1, <3>2, LayoutStarts
    <3> QED
      BY <3>1, <3>3 DEF LayoutInv
  <2>3. CASE Transpose
    <3>1. PICK p \in [1 .. m -> 1 .. m] :
            /\ \A d, e \in 1 .. m : p[d] = p[e] => d = e
            /\ View(transpose(layout, p), [idx \in Indices(transpose(layout, p).shape) |->
                      [d \in 1 .. m |-> idx[CHOOSE e \in 1 .. m : p[e] = d]]])
      BY <2>3 DEF Transpose, rank
    <3> DEFINE From == [idx \in Indices(transpose(layout, p).shape) |->
                          [d \in 1 .. m |-> idx[CHOOSE e \in 1 .. m : p[e] = d]]]
    <3>2. Derives(layout, transpose(layout, p), From)
      BY <2>1, <3>1, Transposed
    <3>3. View(transpose(layout, p), From)
      BY <3>1
    <3> HIDE DEF From
    <3> QED
      BY <3>2, <3>3, ViewKeeps
  <2>4. CASE Slice
    <3> DEFINE Starts(dims, start) == [d \in 1 .. m |-> IF d \in dims THEN start[d] ELSE 0]
               Sizes(dims, size) == [d \in 1 .. m |-> IF d \in dims THEN size[d] ELSE layout.shape[d]]
               Steppings(dims, step) == [d \in 1 .. m |-> IF d \in dims THEN step[d] ELSE 1]
               Accepted(starts, sizes, steps) ==
                   /\ \A d \in 1 .. m : SliceDimAccepts(layout.shape[d], starts[d], sizes[d], steps[d])
                   /\ View(slice(layout, starts, sizes, steps),
                           [idx \in Indices(sizes) |-> [d \in 1 .. m |-> starts[d] + idx[d] * steps[d]]])
    <3>1. PICK dims \in SUBSET (1 .. m) :
            \E start, size \in [dims -> 0 .. MaxExtent], step \in [dims -> Steps] :
               Accepted(Starts(dims, start), Sizes(dims, size), Steppings(dims, step))
      BY <2>4 DEF Slice, rank
    <3>1a. PICK start \in [dims -> 0 .. MaxExtent], size \in [dims -> 0 .. MaxExtent],
                step \in [dims -> Steps] :
               Accepted(Starts(dims, start), Sizes(dims, size), Steppings(dims, step))
      <4> HIDE DEF Accepted, Starts, Sizes, Steppings
      <4> QED
        BY <3>1
    <3> DEFINE starts == [d \in 1 .. m |-> IF d \in dims THEN start[d] ELSE 0]
               sizes == [d \in 1 .. m |-> IF d \in dims THEN size[d] ELSE layout.shape[d]]
               steps == [d \in 1 .. m |-> IF d \in dims THEN step[d] ELSE 1]
               From == [idx \in Indices(sizes) |-> [d \in 1 .. m |-> starts[d] + idx[d] * steps[d]]]
    <3>2. /\ starts \in [1 .. m -> Int] /\ sizes \in [1 .. m -> Int] /\ steps \in [1 .. m -> Int]
      <4> DEFINE old == layout.shape
      <4>1. old \in [1 .. m -> Nat] /\ step \in [dims -> Int] /\ MaxExtent \in Nat
        BY <2>1, LayoutAssumption
      <4> HIDE DEF old, m
      <4>2. /\ \A d \in 1 .. m : (IF d \in dims THEN start[d] ELSE 0) \in Int
            /\ \A d \in 1 .. m : (IF d \in dims THEN step[d] ELSE 1) \in Int
        BY <4>1
      <4>3. \A d \in 1 .. m : (IF d \in dims THEN size[d] ELSE old[d]) \in Int
        BY <4>1
      <4> QED
        BY <4>2, <4>3 DEF old
    <3>3. /\ \A d \in 1 .. m : SliceDimAccepts(layout.shape[d], starts[d], sizes[d], steps[d])
          /\ View(slice(layout, starts, sizes, steps), From)
      BY <3>1a
    <3> HIDE DEF starts, sizes, steps
    <3>4. Derives(layout, slice(layout, starts, sizes, steps), From)
      BY <2>1, <3>2, <3>3, Sliced
    <3> HIDE DEF From
    <3> QED
      BY <3>3, <3>4, ViewKeeps
  <2>5. CASE Reshape
    <3>1. PICK shape \in NewShapes :
            /\ ReshapeAccepts(layout, shape)
            /\ View(reshape(layout, shape), [idx \in Indices(reshape(layout, shape).shape) |->
                      CHOOSE old \in Indices(layout.shape) :
                          RowMajor(layout.shape, old) = RowMajor(reshape(layout, shape).shape, idx)])
      BY <2>5 DEF Reshape
    <3> DEFINE From == [idx \in Indices(reshape(layout, shape).shape) |->
                          CHOOSE old \in Indices(layout.shape) :
                              RowMajor(layout.shape, old) = RowMajor(reshape(layout, shape).shape, idx)]
    <3>2. shape \in Seq(Int)
      BY LayoutAssumption
    <3>3. Derives(layout, reshape(layout, shape), From)
      BY <2>1, <3>1, <3>2, Reshaped
    <3>4. View(reshape(layout, shape), From)
      BY <3>1
    <3> HIDE DEF From
    <3> QED
      BY <3>3, <3>4, ViewKeeps
  <2>6. CASE BroadcastTo
    <3>1. PICK shape \in NewShapes :
            /\ BroadcastAccepts(layout, shape)
            /\ View(broadcastTo(layout, shape), [idx \in Indices(shape) |-> [d \in 1 .. m |->
                      IF layout.shape[d] = 1 THEN 0 ELSE idx[d + Len(shape) - m]]])
      BY <2>6 DEF BroadcastTo, rank
    <3> DEFINE From == [idx \in Indices(shape) |-> [d \in 1 .. m |->
                          IF layout.shape[d] = 1 THEN 0 ELSE idx[d + Len(shape) - m]]]
    <3>2. shape \in Seq(Int)
      BY LayoutAssumption
    <3>3. Derives(layout, broadcastTo(layout, shape), From)
      BY <2>1, <3>1, <3>2, Broadcasted
    <3>4. View(broadcastTo(layout, shape), From)
      BY <3>1
    <3> HIDE DEF From
    <3> QED
      BY <3>3, <3>4, ViewKeeps
  <2>7. CASE Squeeze
    <3>1. PICK dims \in SUBSET {d \in 1 .. m : layout.shape[d] = 1} :
            View(squeeze(layout, dims), [idx \in Indices(squeeze(layout, dims).shape) |->
                   [d \in 1 .. m |-> IF d \in dims THEN 0
                                     ELSE idx[CHOOSE e \in DOMAIN Kept(layout, dims) :
                                                 Kept(layout, dims)[e] = d]]])
      BY <2>7 DEF Squeeze, rank
    <3> DEFINE From == [idx \in Indices(squeeze(layout, dims).shape) |->
                   [d \in 1 .. m |-> IF d \in dims THEN 0
                                     ELSE idx[CHOOSE e \in DOMAIN Kept(layout, dims) :
                                                 Kept(layout, dims)[e] = d]]]
    <3>2. Derives(layout, squeeze(layout, dims), From)
      BY <2>1, Squeezed
    <3>3. View(squeeze(layout, dims), From)
      BY <3>1
    <3> HIDE DEF From
    <3> QED
      BY <3>2, <3>3, ViewKeeps
  <2>8. CASE Unsqueeze
    <3>1. PICK dim \in 1 .. m + 1 :
            View(unsqueeze(layout, dim), [idx \in Indices(unsqueeze(layout, dim).shape) |->
                   [d \in 1 .. m |-> IF d < dim THEN idx[d] ELSE idx[d + 1]]])
      BY <2>8 DEF Unsqueeze, rank
    <3> DEFINE From == [idx \in Indices(unsqueeze(layout, dim).shape) |->
                          [d \in 1 .. m |-> IF d < dim THEN idx[d] ELSE idx[d + 1]]]
    <3>2. Derives(layout, unsqueeze(layout, dim), From)
      BY <2>1, Unsqueezed
    <3>3. View(unsqueeze(layout, dim), From)
      BY <3>1
    <3> HIDE DEF From
    <3> QED
      BY <3>2, <3>3, ViewKeeps
  <2>9. CASE UNCHANGED layoutVars
    BY <2>9 DEF LayoutInv, layoutVars
  <2> QED
    BY <2>2, <2>3, <2>4, <2>5, <2>6, <2>7, <2>8, <2>9 DEF LayoutNext
<1> QED
  BY <1>1, <1>2, PTL DEF LayoutSpec

\* ViewsKeepElements: through any chain of views the layout addresses, for every
\* index, the element that the meaning of the operations puts there.
THEOREM ViewsAlwaysKeepElements == LayoutSpec => []ViewsKeepElements
<1>1. LayoutInv => ViewsKeepElements
  BY DEF LayoutInv, ViewsKeepElements
<1> QED
  BY <1>1, LayoutInvariant, PTL

-----------------------------------------------------------------------------
(* The slot allocator *)

(***************************************************************************)
(* The inductive invariant.  Its parts are about the layers ls of one      *)
(* moment, for the levels lv, as a call splits or merges several layers    *)
(* one after another.                                                      *)
(***************************************************************************)

GoodLevels(lv) == lv \in Seq(Nat) /\ lv # <<>> /\ validateLevels(lv)

\* How many children a slot of layer i has, and their numbers in layer i + 1.
Kids(lv, i) == lv[i] \div lv[i + 1]
Family(lv, i, begin) == begin .. begin + Kids(lv, i) - 1

SlotRecords == [addr : Int, state : {"Free", "InUse", "Split"}, parent : Nat, child : Nat]
Layers == [size : Nat, slots : Seq(SlotRecords), free : Seq(Nat), span : Seq(Nat)]

AreLayers(lv, ls) ==
    ls \in [1 .. Len(lv) -> Layers] /\ \A i \in 1 .. Len(lv) : ls[i].size = lv[i]

\* What the layers say of layer i and of its slot k.
Dom(ls, i) == DOMAIN ls[i].slots
St(ls, i, k) == ls[i].slots[k].state
Ad(ls, i, k) == ls[i].slots[k].addr
Pa(ls, i, k) == ls[i].slots[k].parent
Ch(ls, i, k) == ls[i].slots[k].child
Elems(s) == {s[k] : k \in DOMAIN s}
Fr(ls, i) == Elems(ls[i].free)
Sp(ls, i) == Elems(ls[i].span)
LastFree(ls, i) == Last(ls[i].free)
Once(ls, i) == IsInjective(ls[i].free) /\ IsInjective(ls[i].span)

\* A free list holds slots of its layer, once, and they are free.
FreeLists(lv, ls) ==
    \A i \in 1 .. Len(lv) :
        /\ Once(ls, i)
        /\ \A k \in Fr(ls, i) : k \in Dom(ls, i) /\ St(ls, i, k) = "Free"

\* A family kept for the next split is free, on no free list, and apart from others.
Retired(lv, ls) ==
    \A i \in 1 .. Len(lv) - 1 : \A b \in Sp(ls, i + 1) : \A k \in Family(lv, i, b) :
        /\ k \in Dom(ls, i + 1) /\ St(ls, i + 1, k) = "Free" /\ k \notin Fr(ls, i + 1)
        /\ \A c \in Sp(ls, i + 1) : k \in Family(lv, i, c) => b = c

\* Slot k of layer i + 1 is a child of slot p of layer i, where it belongs.
ChildOf(lv, ls, i, p, k) ==
    /\ k \in Dom(ls, i + 1) /\ Pa(ls, i + 1, k) = p
    /\ Ad(ls, i + 1, k) = Ad(ls, i, p) + (k - Ch(ls, i, p)) * lv[i + 1]
    /\ St(ls, i + 1, k) = "Free" => k \in Fr(ls, i + 1)

\* A split slot has its family, which is not retired.
SplitSlots(lv, ls) ==
    \A i \in 1 .. Len(lv) - 1 : \A p \in Dom(ls, i) : St(ls, i, p) = "Split" =>
        \A k \in Family(lv, i, Ch(ls, i, p)) :
            /\ ChildOf(lv, ls, i, p, k)
            /\ \A b \in Sp(ls, i + 1) : k \notin Family(lv, i, b)

\* The parent that slot k of layer i + 1 names is split, and k one of its children.
HasParent(lv, ls, i, k) ==
    /\ Pa(ls, i + 1, k) \in Dom(ls, i)
    /\ St(ls, i, Pa(ls, i + 1, k)) = "Split"
    /\ k \in Family(lv, i, Ch(ls, i, Pa(ls, i + 1, k)))

\* What is in use, split or on a free list has a parent, except in the first
\* layer; the last layer is not split.
Parents(lv, ls) ==
    /\ \A k \in Dom(ls, 1) : Pa(ls, 1, k) = 0
    /\ \A i \in 1 .. Len(lv) - 1 : \A k \in Dom(ls, i + 1) :
         (St(ls, i + 1, k) # "Free" \/ k \in Fr(ls, i + 1)) => HasParent(lv, ls, i, k)
    /\ \A k \in Dom(ls, Len(lv)) : St(ls, Len(lv), k) # "Split"

Forest(lv, ls) ==
    /\ AreLayers(lv, ls) /\ FreeLists(lv, ls) /\ Retired(lv, ls)
    /\ SplitSlots(lv, ls) /\ Parents(lv, ls)

\* Every split slot but the ones in H has a child that is not free.
FullBut(lv, ls, H) ==
    \A i \in 1 .. Len(lv) - 1 : \A p \in Dom(ls, i) :
        St(ls, i, p) = "Split" /\ << i, p >> \notin H =>
            \E k \in Family(lv, i, Ch(ls, i, p)) : St(ls, i + 1, k) # "Free"

\* Byte x is in slot k of layer i, which is in use or on a free list.
Leaf(ls, i, k) == k \in Dom(ls, i) /\ (St(ls, i, k) = "InUse" \/ k \in Fr(ls, i))
Holds(lv, ls, i, k, x) == Ad(ls, i, k) <= x /\ x < Ad(ls, i, k) + lv[i]

\* The bytes of U, and no others, are in such a slot, and in one only.
Tiles(lv, ls, U) ==
    /\ \A i \in 1 .. Len(lv) : \A k \in Nat : \A x \in Int :
         Leaf(ls, i, k) /\ Holds(lv, ls, i, k, x) => x \in U
    /\ \A x \in Int : x \in U =>
         \E i \in 1 .. Len(lv) : \E k \in Nat : Leaf(ls, i, k) /\ Holds(lv, ls, i, k, x)
    /\ \A i, j \in 1 .. Len(lv) : \A k, m \in Nat : \A x \in Int :
         /\ Leaf(ls, i, k) /\ Holds(lv, ls, i, k, x)
         /\ Leaf(ls, j, m) /\ Holds(lv, ls, j, m, x)
         => i = j /\ k = m

InUse(lv, ls) == {p \in (1 .. Len(lv)) \X Nat : p[2] \in Dom(ls, p[1]) /\ St(ls, p[1], p[2]) = "InUse"}

Reserved(rs) == UNION {r.base .. r.base + r.bytes - 1 : r \in rs}

AreRegions(rs) == IsFiniteSet(rs) /\ rs # {} /\ rs \subseteq [base : Nat, bytes : Nat]

\* Views have slots of their own.
AreViews(lv, ls, views, failures) ==
    /\ IsFiniteSet(InUse(lv, ls)) /\ IsFiniteSet(views) /\ failures \in Nat
    /\ Cardinality(InUse(lv, ls)) = Cardinality(views) + failures
    /\ \A v, w \in views : v.addr = w.addr => v = w
    /\ \A v \in views : \E p \in InUse(lv, ls) : Ad(ls, p[1], p[2]) = v.addr /\ lv[p[1]] >= v.asked

\* The configuration was accepted.
Configured(cfg) == cfg \in SlotConfigs /\ InitializeAccepts(cfg)

SlotsInv ==
    /\ Configured(slotCfg)
    /\ Forest(Levels, layers) /\ FullBut(Levels, layers, {})
    /\ Tiles(Levels, layers, Reserved(regions)) /\ AreRegions(regions)
    /\ AreViews(Levels, layers, slotViews, mapFailures)

-----------------------------------------------------------------------------
(* Sequences without repetitions *)

\* Leaving the last element out of a list without repetitions.
LEMMA FrontElems ==
    ASSUME NEW s \in Seq(Nat), s # <<>>, IsInjective(s)
    PROVE  /\ Front(s) \in Seq(Nat) /\ IsInjective(Front(s))
           /\ Last(s) \in Elems(s) /\ Last(s) \in Nat
           /\ Elems(Front(s)) = Elems(s) \ {Last(s)}
<1>1. Len(s) \in Nat /\ Len(s) # 0 /\ DOMAIN s = 1 .. Len(s)
  BY EmptySeq
<1>0. \A k \in 1 .. Len(s) - 1 : k \in 1 .. Len(s) /\ k # Len(s)
  <2>1. \A n \in Nat : \A k \in 1 .. n - 1 : k \in 1 .. n /\ k # n
    OBVIOUS
  <2> QED
    BY <1>1, <2>1, Zenon
<1>2. /\ Front(s) \in Seq(Nat) /\ Len(Front(s)) = Len(s) - 1
      /\ DOMAIN Front(s) = 1 .. Len(s) - 1
      /\ \A k \in 1 .. Len(s) - 1 : Front(s)[k] = s[k]
  BY <1>1 DEF Front
<1>3. IsInjective(Front(s))
  <2> SUFFICES ASSUME NEW a \in DOMAIN Front(s), NEW b \in DOMAIN Front(s),
                      Front(s)[a] = Front(s)[b]
               PROVE  a = b
    BY DEF IsInjective
  <2>1. a \in DOMAIN s /\ b \in DOMAIN s /\ s[a] = s[b]
    BY <1>0, <1>1, <1>2, Zenon
  <2> QED
    BY <2>1 DEF IsInjective
<1>4. Last(s) = s[Len(s)] /\ Len(s) \in DOMAIN s
  BY <1>1 DEF Last
<1>5. Elems(Front(s)) \subseteq Elems(s) \ {Last(s)}
  <2> SUFFICES ASSUME NEW k \in 1 .. Len(s) - 1 PROVE s[k] \in Elems(s) \ {Last(s)}
    BY <1>2 DEF Elems
  <2>1. k \in DOMAIN s /\ k # Len(s)
    BY <1>0, <1>1, Zenon
  <2> QED
    BY <1>4, <2>1 DEF IsInjective, Elems
<1>6. Elems(s) \ {Last(s)} \subseteq Elems(Front(s))
  <2> SUFFICES ASSUME NEW k \in DOMAIN s, s[k] # Last(s) PROVE s[k] \in Elems(Front(s))
    BY DEF Elems
  <2>1. k \in 1 .. Len(s) - 1
    BY <1>1, <1>4
  <2> QED
    BY <1>2, <2>1 DEF Elems
<1>7. Last(s) \in Elems(s)
  BY <1>4 DEF Elems
<1>8. Last(s) \in Nat
  BY <1>1, <1>4
<1> QED
  BY <1>2, <1>3, <1>5, <1>6, <1>7, <1>8, Zenon

\* Adding an element that was not there.
LEMMA AppendElems ==
    ASSUME NEW s \in Seq(Nat), NEW x \in Nat
    PROVE  /\ Append(s, x) \in Seq(Nat)
           /\ Elems(Append(s, x)) = Elems(s) \cup {x}
           /\ IsInjective(s) /\ x \notin Elems(s) => IsInjective(Append(s, x))
<1>1. /\ Append(s, x) \in Seq(Nat) /\ Len(s) \in Nat /\ DOMAIN s = 1 .. Len(s)
      /\ DOMAIN Append(s, x) = 1 .. Len(s) + 1 /\ Append(s, x)[Len(s) + 1] = x
      /\ \A k \in 1 .. Len(s) : Append(s, x)[k] = s[k]
  BY AppendProperties
<1>2. Elems(Append(s, x)) = Elems(s) \cup {x}
  <2>1. ASSUME NEW k \in 1 .. Len(s) + 1 PROVE Append(s, x)[k] \in Elems(s) \cup {x}
    <3>1. k \in 1 .. Len(s) \/ k = Len(s) + 1
      BY <1>1
    <3> QED
      BY <1>1, <3>1 DEF Elems
  <2>2. ASSUME NEW k \in 1 .. Len(s) PROVE s[k] \in Elems(Append(s, x))
    <3>1. k \in 1 .. Len(s) + 1 /\ Append(s, x)[k] = s[k]
      BY <1>1
    <3> QED
      BY <1>1, <3>1 DEF Elems
  <2>3. Len(s) + 1 \in 1 .. Len(s) + 1
    BY <1>1
  <2>4. x \in Elems(Append(s, x))
    BY <1>1, <2>3 DEF Elems
  <2> QED
    BY <1>1, <2>1, <2>2, <2>4 DEF Elems
<1>3. ASSUME IsInjective(s), x \notin Elems(s) PROVE IsInjective(Append(s, x))
  <2> SUFFICES ASSUME NEW a \in 1 .. Len(s) + 1, NEW b \in 1 .. Len(s) + 1,
                      Append(s, x)[a] = Append(s, x)[b]
               PROVE  a = b
    BY <1>1 DEF IsInjective
  <2>1. (a \in 1 .. Len(s) \/ a = Len(s) + 1) /\ (b \in 1 .. Len(s) \/ b = Len(s) + 1)
    BY <1>1
  <2> QED
    BY <1>1, <1>3, <2>1 DEF IsInjective, Elems
<1> QED
  BY <1>1, <1>2, <1>3

\* Adding the numbers of a whole family, none of which was there.
Longer(s, t, fam) ==
    /\ t \in Seq(Nat) /\ Elems(t) = Elems(s) \cup fam
    /\ IsInjective(s) /\ Elems(s) \cap fam = {} => IsInjective(t)
    /\ fam # {} => t # <<>> /\ Last(t) \in fam

LEMMA ConcatElems ==
    ASSUME NEW s \in Seq(Nat), NEW b \in Nat, NEW c \in Nat, b >= 1, NEW t,
           t = s \o [k \in 1 .. c |-> b + k - 1]
    PROVE  Longer(s, t, b .. b + c - 1)
<1> DEFINE w == [k \in 1 .. c |-> b + k - 1]
<1>1. w \in Seq(Nat) /\ Len(w) = c /\ Len(s) \in Nat /\ DOMAIN s = 1 .. Len(s)
  BY DEF w
<1>2. /\ t \in Seq(Nat) /\ Len(t) = Len(s) + c /\ DOMAIN t = 1 .. Len(s) + c
      /\ \A k \in 1 .. Len(s) + c : t[k] = IF k <= Len(s) THEN s[k] ELSE w[k - Len(s)]
  <2> HIDE DEF w
  <2> QED
    BY <1>1, ConcatProperties DEF w
<1>3. /\ \A k \in 1 .. Len(s) : k \in DOMAIN t /\ t[k] = s[k]
      /\ \A k \in 1 .. c : Len(s) + k \in DOMAIN t /\ t[Len(s) + k] = b + k - 1
      /\ \A k \in DOMAIN t : k \in 1 .. Len(s) \/ (k - Len(s) \in 1 .. c /\ t[k] = b + (k - Len(s)) - 1)
  BY <1>1, <1>2
<1>4. Elems(t) = Elems(s) \cup (b .. b + c - 1)
  <2>1. ASSUME NEW k \in DOMAIN t PROVE t[k] \in Elems(s) \cup (b .. b + c - 1)
    <3>1. CASE k \in 1 .. Len(s)
      BY <1>1, <1>3, <3>1 DEF Elems
    <3>2. CASE k - Len(s) \in 1 .. c /\ t[k] = b + (k - Len(s)) - 1
      <4> DEFINE j == k - Len(s)
      <4>1. j \in 1 .. c /\ t[k] = b + j - 1
        BY <3>2
      <4> HIDE DEF j
      <4> QED
        BY <4>1
    <3> QED
      BY <1>3, <3>1, <3>2
  <2>2. ASSUME NEW k \in DOMAIN s PROVE s[k] \in Elems(t)
    BY <1>1, <1>3 DEF Elems
  <2>3. ASSUME NEW x \in b .. b + c - 1 PROVE x \in Elems(t)
    <3>1. x - b + 1 \in 1 .. c /\ x = b + (x - b + 1) - 1
      OBVIOUS
    <3>2. Len(s) + (x - b + 1) \in DOMAIN t /\ t[Len(s) + (x - b + 1)] = x
      BY <1>3, <3>1
    <3> QED
      BY <3>2 DEF Elems
  <2> QED
    BY <2>1, <2>2, <2>3 DEF Elems
<1>5. ASSUME IsInjective(s), Elems(s) \cap (b .. b + c - 1) = {} PROVE IsInjective(t)
  <2> SUFFICES ASSUME NEW i \in DOMAIN t, NEW j \in DOMAIN t, t[i] = t[j] PROVE i = j
    BY DEF IsInjective
  <2>1. ASSUME NEW k \in DOMAIN t
        PROVE  \/ k \in DOMAIN s /\ t[k] = s[k] /\ t[k] \in Elems(s)
               \/ k \in Int /\ t[k] = b + (k - Len(s)) - 1 /\ t[k] \in b .. b + c - 1
    <3>1. CASE k \in 1 .. Len(s)
      BY <1>1, <1>3, <3>1 DEF Elems
    <3>2. CASE k - Len(s) \in 1 .. c /\ t[k] = b + (k - Len(s)) - 1
      <4>1. k \in Int
        BY <1>1, <1>2
      <4>2. \A n \in 1 .. c : b + n - 1 \in b .. b + c - 1
        OBVIOUS
      <4> QED
        BY <3>2, <4>1, <4>2
    <3> QED
      BY <1>3, <3>1, <3>2
  <2>2. CASE i \in DOMAIN s /\ t[i] = s[i] /\ t[i] \in Elems(s)
    <3>1. j \in DOMAIN s /\ t[j] = s[j]
      BY <1>5, <2>1, <2>2
    <3> QED
      BY <1>5, <2>2, <3>1 DEF IsInjective
  <2>3. CASE i \in Int /\ t[i] = b + (i - Len(s)) - 1 /\ t[i] \in b .. b + c - 1
    <3>1. j \in Int /\ t[j] = b + (j - Len(s)) - 1
      BY <1>5, <2>1, <2>3
    <3> QED
      BY <1>1, <2>3, <3>1
  <2> QED
    BY <2>1, <2>2, <2>3
<1>6. ASSUME c > 0 PROVE t # <<>> /\ Last(t) = b + c - 1
  <2>1. c \in 1 .. c /\ Len(t) = Len(s) + c
    BY <1>2, <1>6
  <2>2. Last(t) = b + c - 1
    BY <1>3, <2>1 DEF Last
  <2>3. t # <<>>
    <3>1. Len(t) # 0
      BY <1>1, <1>6, <2>1
    <3> QED
      BY <1>2, <3>1
  <2> QED
    BY <2>2, <2>3
<1> QED
  <2>1. b .. b + c - 1 # {} => c > 0
    OBVIOUS
  <2>2. c > 0 => b + c - 1 \in b .. b + c - 1
    OBVIOUS
  <2> QED
    BY <1>2, <1>4, <1>5, <1>6, <2>1, <2>2 DEF Longer

\* InOrder numbers the elements of a set.
LEMMA InOrderFacts ==
    ASSUME NEW I \in SUBSET Int, IsFiniteSet(I)
    PROVE  /\ Cardinality(I) \in Nat
           /\ InOrder(I) \in [1 .. Cardinality(I) -> I]
           /\ \A j, k \in 1 .. Cardinality(I) : InOrder(I)[j] = InOrder(I)[k] => j = k
           /\ \A i \in I : \E k \in 1 .. Cardinality(I) : InOrder(I)[k] = i
<1> DEFINE n == Cardinality(I)
           upTo(i) == {j \in I : j <= i}
           r == [i \in I |-> Cardinality(upTo(i))]
           e == InOrder(I)
<1>1. n \in Nat
  BY FS_CardinalityType
<1>2. ASSUME NEW i \in I
      PROVE  IsFiniteSet(upTo(i)) /\ Cardinality(upTo(i)) \in 1 .. n
  <2>1. upTo(i) \in SUBSET I /\ i \in upTo(i)
    OBVIOUS
  <2>2. IsFiniteSet(upTo(i)) /\ Cardinality(upTo(i)) <= n
    BY <2>1, FS_Subset
  <2>3. Cardinality(upTo(i)) \in Nat /\ Cardinality(upTo(i)) # 0
    BY <2>1, <2>2, FS_EmptySet, FS_CardinalityType
  <2> HIDE DEF n, upTo
  <2> QED
    BY <1>1, <2>2, <2>3
<1>3. ASSUME NEW i \in I, NEW j \in I, i < j
      PROVE  Cardinality(upTo(i)) # Cardinality(upTo(j))
  <2>1. \A x \in I : x <= i => x <= j
    BY <1>3
  <2>2. j <= j /\ ~(j <= i)
    BY <1>3
  <2>3. upTo(i) \in SUBSET upTo(j) /\ j \in upTo(j) /\ j \notin upTo(i)
    BY <2>1, <2>2
  <2> QED
    BY <1>2, <2>3, FS_Subset
<1>4. \A i, j \in I : Cardinality(upTo(i)) = Cardinality(upTo(j)) => i = j
  <2>1. \A i, j \in I : i # j => i < j \/ j < i
    OBVIOUS
  <2> HIDE DEF upTo
  <2> QED
    BY <1>3, <2>1
<1>5. r \in Surjection(I, 1 .. n)
  <2>1. r \in Injection(I, 1 .. n)
    <3>1. r \in [I -> 1 .. n] /\ \A i, j \in I : r[i] = r[j] => i = j
      <4> HIDE DEF upTo, n
      <4> QED
        BY <1>2, <1>4
    <3> HIDE DEF r
    <3> QED
      BY <3>1, Fun_IsInj
  <2>2. IsFiniteSet(1 .. n) /\ Cardinality(1 .. n) = n
    <3>1. 1 \in Int /\ n \in Int /\ (IF 1 > n THEN 0 ELSE n - 1 + 1) = n
      BY <1>1
    <3> QED
      BY <3>1, FS_Interval
  <2> HIDE DEF r, n
  <2> QED
    BY <2>1, <2>2, FS_Injection DEF n
<1>6. \A k \in 1 .. n : \E i \in I : Cardinality(upTo(i)) = k
  <2>1. \A k \in 1 .. n : \E i \in I : r[i] = k
    BY <1>5 DEF Surjection
  <2> HIDE DEF upTo, n
  <2> QED
    BY <2>1
<1>7. \A k \in 1 .. n : e[k] \in I /\ Cardinality(upTo(e[k])) = k
  <2>1. e = [k \in 1 .. n |-> CHOOSE i \in I : Cardinality(upTo(i)) = k]
    BY DEF InOrder
  <2> HIDE DEF upTo, n, e
  <2> QED
    BY <1>6, <2>1
<1>8. e \in [1 .. n -> I]
  <2>1. e = [k \in 1 .. n |-> e[k]]
    <3>1. e = [k \in 1 .. n |-> CHOOSE i \in I : Cardinality(upTo(i)) = k]
      BY DEF InOrder
    <3> HIDE DEF upTo, n, e
    <3> QED
      BY <3>1
  <2> HIDE DEF n, e
  <2> QED
    BY <1>7, <2>1
<1> HIDE DEF upTo, n, e
<1>9. \A j, k \in 1 .. n : e[j] = e[k] => j = k
  BY <1>7
<1>10. \A i \in I : \E k \in 1 .. n : e[k] = i
  BY <1>2, <1>4, <1>7
<1> QED
  BY <1>1, <1>8, <1>9, <1>10 DEF n, e

\* What Without leaves: each entry that is not in the set, once.
LEMMA WithoutElems ==
    ASSUME NEW s \in Seq(Nat), NEW out
    PROVE  /\ Without(s, out) \in Seq(Nat)
           /\ Elems(Without(s, out)) = Elems(s) \ out
           /\ IsInjective(s) => IsInjective(Without(s, out))
<1> DEFINE I == {k \in DOMAIN s : s[k] \notin out}
           n == Cardinality(I)
           e == InOrder(I)
           w == Without(s, out)
<1>1. IsFiniteSet(I) /\ I \in SUBSET Int
  <2>1. DOMAIN s = 1 .. Len(s) /\ Len(s) \in Nat /\ 1 \in Int /\ Len(s) \in Int
    OBVIOUS
  <2>2. IsFiniteSet(1 .. Len(s))
    BY <2>1, FS_Interval
  <2> QED
    BY <2>1, <2>2, FS_Subset
<1>2. /\ n \in Nat /\ e \in [1 .. n -> I]
      /\ \A j, k \in 1 .. n : e[j] = e[k] => j = k
      /\ \A i \in I : \E k \in 1 .. n : e[k] = i
  <2> HIDE DEF I
  <2> QED
    BY <1>1, InOrderFacts
<1>3. w = [k \in 1 .. n |-> s[e[k]]]
  BY DEF Without
<1>4. \A i \in I : s[i] \in Nat /\ i \in DOMAIN s /\ s[i] \notin out
  OBVIOUS
<1>5. \A i \in DOMAIN s : s[i] \notin out => i \in I
  OBVIOUS
<1> HIDE DEF I, n, e, w
<1>6. w \in [1 .. n -> Nat] /\ DOMAIN w = 1 .. n
  BY <1>2, <1>3, <1>4
<1>7. \A k \in 1 .. n : w[k] = s[e[k]] /\ e[k] \in I
  BY <1>2, <1>3
<1>8. w \in Seq(Nat)
  BY <1>2, <1>6
<1>9. Elems(w) = Elems(s) \ out
  <2>1. ASSUME NEW k \in 1 .. n PROVE w[k] \in Elems(s) \ out
    BY <1>4, <1>7 DEF Elems
  <2>2. ASSUME NEW i \in DOMAIN s, s[i] \notin out PROVE s[i] \in Elems(w)
    <3>1. PICK k \in 1 .. n : e[k] = i
      BY <1>2, <1>5, <2>2
    <3> QED
      BY <1>6, <1>7, <3>1 DEF Elems
  <2> QED
    BY <1>6, <2>1, <2>2 DEF Elems
<1>10. ASSUME IsInjective(s) PROVE IsInjective(w)
  <2> SUFFICES ASSUME NEW a \in 1 .. n, NEW b \in 1 .. n, w[a] = w[b] PROVE a = b
    BY <1>6 DEF IsInjective
  <2>1. e[a] = e[b]
    BY <1>4, <1>7, <1>10 DEF IsInjective
  <2> QED
    BY <1>2, <2>1
<1> QED
  BY <1>8, <1>9, <1>10 DEF w

-----------------------------------------------------------------------------
(* Levels and the bytes of slots *)

\* Layer i is cut into its children without a rest.
Cuts(lv, i) == Kids(lv, i) \in Nat /\ Kids(lv, i) >= 1 /\ Kids(lv, i) * lv[i + 1] = lv[i]

\* What validateLevels accepts.
LEMMA LevelFacts ==
    ASSUME NEW lv, GoodLevels(lv)
    PROVE  /\ Len(lv) \in Nat /\ Len(lv) >= 1
           /\ \A i \in 1 .. Len(lv) : lv[i] \in Nat /\ lv[i] > 0
           /\ \A i \in 1 .. Len(lv) - 1 : Cuts(lv, i)
<1>1. lv \in Seq(Nat) /\ Len(lv) \in Nat /\ Len(lv) # 0 /\ DOMAIN lv = 1 .. Len(lv)
  BY EmptySeq DEF GoodLevels
<1>2. \A i \in 1 .. Len(lv) : lv[i] \in Nat /\ lv[i] > 0
  BY <1>1 DEF GoodLevels, validateLevels
<1>3. ASSUME NEW i \in 1 .. Len(lv) - 1 PROVE Cuts(lv, i)
  <2>1. i \in 1 .. Len(lv) /\ i + 1 \in 1 .. Len(lv)
    BY <1>1
  <2>2. lv[i] >= lv[i + 1] /\ lv[i] % lv[i + 1] = 0
    BY DEF GoodLevels, validateLevels
  <2> DEFINE a == lv[i]
             c == lv[i + 1]
  <2>3. a \in Nat /\ c \in Nat /\ c > 0 /\ a >= c /\ a % c = 0
    BY <1>2, <2>1, <2>2
  <2> HIDE DEF a, c
  <2>4. a \div c \in Int
    BY <2>3
  <2>5. (a \div c) * c = a
    BY <2>3
  <2>6. a \div c >= 1
    BY <2>3, <2>4, <2>5
  <2>7. a \div c \in Nat
    BY <2>4, <2>6
  <2> QED
    BY <2>5, <2>6, <2>7 DEF Cuts, Kids, a, c
<1> QED
  BY <1>1, <1>2, <1>3

\* Byte x is in the k-th of the pieces of c bytes, numbered from b, that start at a.
Part(a, b, c, k, x) == a + (k - b) * c <= x /\ x < a + (k - b) * c + c

\* The m pieces make up the whole and do not overlap.
Parted(a, b, c, m) ==
    /\ \A x \in Int : a <= x /\ x < a + m * c => \E k \in b .. b + m - 1 : Part(a, b, c, k, x)
    /\ \A x \in Int : \A k \in b .. b + m - 1 : Part(a, b, c, k, x) => a <= x /\ x < a + m * c
    /\ \A x, k, l \in Int : Part(a, b, c, k, x) /\ Part(a, b, c, l, x) => k = l

LEMMA PartsCover ==
    ASSUME NEW a \in Int, NEW b \in Int, NEW c \in Nat, c > 0, NEW m \in Nat
    PROVE  Parted(a, b, c, m)
<1>1. ASSUME NEW x \in Int, a <= x, x < a + m * c
      PROVE  \E k \in b .. b + m - 1 : Part(a, b, c, k, x)
  <2> DEFINE y == x - a
             j == y \div c
  <2>1. y \in Nat /\ y < m * c
    BY <1>1
  <2> HIDE DEF y
  <2>2. j \in Int /\ c * j <= y /\ y < c * j + c
    BY <2>1
  <2> HIDE DEF j
  <2>3. j >= 0
    <3> SUFFICES ASSUME j <= -1 PROVE FALSE
      BY <2>2
    <3>1. c * j <= c * (-1)
      BY <2>2
    <3> QED
      BY <2>1, <2>2, <3>1
  <2>4. j < m
    <3> SUFFICES ASSUME m <= j PROVE FALSE
      BY <2>2
    <3>1. m * c <= c * j
      BY <2>2
    <3> QED
      BY <2>1, <2>2, <3>1
  <2>5. b + j \in b .. b + m - 1 /\ (b + j) - b = j
    BY <2>2, <2>3, <2>4
  <2>6. Part(a, b, c, b + j, x)
    <3>1. j * c = c * j
      BY <2>2
    <3>2. a + j * c <= x /\ x < a + j * c + c
      BY <2>1, <2>2, <3>1 DEF y
    <3> QED
      BY <2>5, <3>2 DEF Part
  <2> QED
    BY <2>5, <2>6
<1>2. ASSUME NEW x \in Int, NEW k \in b .. b + m - 1, Part(a, b, c, k, x)
      PROVE  a <= x /\ x < a + m * c
  <2> DEFINE j == k - b
  <2>1. j \in 0 .. m - 1 /\ a + j * c <= x /\ x < a + j * c + c
    BY <1>2 DEF Part
  <2> HIDE DEF j
  <2>2. j * c \in Nat /\ (j + 1) * c <= m * c /\ (j + 1) * c = j * c + c
    BY <2>1
  <2> QED
    BY <2>1, <2>2
<1>3. ASSUME NEW x \in Int, NEW k \in Int, NEW l \in Int,
             Part(a, b, c, k, x), Part(a, b, c, l, x)
      PROVE  k = l
  <2> DEFINE i == k - b
             j == l - b
  <2>1. /\ i \in Int /\ a + i * c <= x /\ x < a + i * c + c
        /\ j \in Int /\ a + j * c <= x /\ x < a + j * c + c
    BY <1>3 DEF Part
  <2>2. i = j => k = l
    OBVIOUS
  <2> HIDE DEF i, j
  <2>3. i < j => i * c + c <= j * c
    <3> SUFFICES ASSUME i < j PROVE i * c + c <= j * c
      OBVIOUS
    <3>1. (i + 1) * c <= j * c /\ (i + 1) * c = i * c + c
      BY <2>1
    <3> QED
      BY <3>1
  <2>4. j < i => j * c + c <= i * c
    <3> SUFFICES ASSUME j < i PROVE j * c + c <= i * c
      OBVIOUS
    <3>1. (j + 1) * c <= i * c /\ (j + 1) * c = j * c + c
      BY <2>1
    <3> QED
      BY <3>1
  <2>5. i * c \in Int /\ j * c \in Int
    BY <2>1
  <2>6. i = j
    BY <2>1, <2>3, <2>4, <2>5
  <2> QED
    BY <2>2, <2>6
<1> QED
  BY <1>1, <1>2, <1>3 DEF Parted

\* The types of what the layers say.
LEMMA LayerTypes ==
    ASSUME NEW lv, NEW ls, GoodLevels(lv), AreLayers(lv, ls)
    PROVE  \A i \in 1 .. Len(lv) :
             /\ Dom(ls, i) \in SUBSET (Nat \ {0})
             /\ Fr(ls, i) \in SUBSET Nat /\ Sp(ls, i) \in SUBSET Nat
             /\ \A k \in Dom(ls, i) :
                  /\ Ad(ls, i, k) \in Int /\ Pa(ls, i, k) \in Nat /\ Ch(ls, i, k) \in Nat
                  /\ St(ls, i, k) \in {"Free", "InUse", "Split"}
<1> TAKE i \in 1 .. Len(lv)
<1>1. ls[i] \in Layers
  BY DEF AreLayers
<1>2. ls[i].slots \in Seq(SlotRecords) /\ ls[i].free \in Seq(Nat) /\ ls[i].span \in Seq(Nat)
  BY <1>1 DEF Layers
<1>3. DOMAIN ls[i].slots = 1 .. Len(ls[i].slots) /\ Len(ls[i].slots) \in Nat
  BY <1>2
<1>4. Dom(ls, i) \in SUBSET (Nat \ {0})
  BY <1>3 DEF Dom
<1>5. Fr(ls, i) \in SUBSET Nat /\ Sp(ls, i) \in SUBSET Nat
  <2>1. ASSUME NEW s \in Seq(Nat) PROVE Elems(s) \in SUBSET Nat
    BY <2>1 DEF Elems
  <2> QED
    BY <1>2, <2>1, Zenon DEF Fr, Sp
<1>6. ASSUME NEW k \in Dom(ls, i)
      PROVE  /\ Ad(ls, i, k) \in Int /\ Pa(ls, i, k) \in Nat /\ Ch(ls, i, k) \in Nat
             /\ St(ls, i, k) \in {"Free", "InUse", "Split"}
  <2>1. ls[i].slots[k] \in SlotRecords
    BY <1>2 DEF Dom
  <2> QED
    BY <2>1 DEF SlotRecords, Ad, Pa, Ch, St
<1> QED
  BY <1>4, <1>5, <1>6

-----------------------------------------------------------------------------
(* What each operation changes *)

SameSlot(ls, ns, j, k) ==
    /\ St(ns, j, k) = St(ls, j, k) /\ Ad(ns, j, k) = Ad(ls, j, k)
    /\ Pa(ns, j, k) = Pa(ls, j, k) /\ Ch(ns, j, k) = Ch(ls, j, k)

Made(lv, ns) == AreLayers(lv, ns) /\ \A j \in 1 .. Len(lv) : Once(ns, j)

\* Slot idx of layer i is taken off the free list and split into the family b.
SplitEffect(lv, ls, ns, i, idx, b) ==
    LET fam == Family(lv, i, b) IN
    /\ Made(lv, ns)
    /\ \A j \in 1 .. Len(lv) :
         /\ Dom(ns, j) = IF j = i + 1 THEN Dom(ls, j) \cup fam ELSE Dom(ls, j)
         /\ Fr(ns, j) = IF j = i THEN Fr(ls, j) \ {idx}
                        ELSE IF j = i + 1 THEN Fr(ls, j) \cup fam ELSE Fr(ls, j)
         /\ Sp(ns, j) = IF j = i + 1 THEN Sp(ls, j) \ {b} ELSE Sp(ls, j)
         /\ \A k \in Dom(ls, j) :
              ~ (j = i /\ k = idx) /\ ~ (j = i + 1 /\ k \in fam) => SameSlot(ls, ns, j, k)
    /\ St(ns, i, idx) = "Split" /\ Ch(ns, i, idx) = b
    /\ Ad(ns, i, idx) = Ad(ls, i, idx) /\ Pa(ns, i, idx) = Pa(ls, i, idx)
    /\ \A k \in fam :
         /\ St(ns, i + 1, k) = "Free" /\ Pa(ns, i + 1, k) = idx
         /\ Ad(ns, i + 1, k) = Ad(ls, i, idx) + (k - b) * lv[i + 1]
    /\ b \in Sp(ls, i + 1) \/ fam \cap Dom(ls, i + 1) = {}
    /\ ns[i + 1].free # <<>> /\ LastFree(ns, i + 1) \in fam

\* What PopAndSplit does.
LEMMA SplitDone ==
    ASSUME NEW lv, NEW ls, GoodLevels(lv), Forest(lv, ls),
           NEW i \in 1 .. Len(lv) - 1, ls[i].free # <<>>
    PROVE  \E b \in Nat : SplitEffect(lv, ls, PopAndSplit(ls, i), i, LastFree(ls, i), b)
<1>1. ls \in [1 .. Len(lv) -> Layers] /\ \A j \in 1 .. Len(lv) : ls[j] \in Layers /\ ls[j].size = lv[j]
  BY DEF Forest, AreLayers
<1>2. i \in 1 .. Len(lv) /\ i + 1 \in 1 .. Len(lv) /\ i # i + 1
  BY LevelFacts
<1> DEFINE m == [ls EXCEPT ![i].free = Front(@)]
           idx == Last(ls[i].free)
           B == m[i + 1]
           count == Siblings(m, i)
           reuse == B.span # <<>>
           b == IF reuse THEN Last(B.span) ELSE Len(B.slots) + 1
           born == [k \in b .. b + count - 1 |-> NewSlot(m[i].slots[idx].addr + (k - b) * B.size, idx)]
           newSlots == [k \in 1 .. (IF reuse THEN Len(B.slots) ELSE Len(B.slots) + count) |->
                          IF k \in DOMAIN born THEN born[k] ELSE B.slots[k]]
           newFree == B.free \o [k \in 1 .. count |-> b + k - 1]
           newSpan == IF reuse THEN Front(B.span) ELSE B.span
           ns == PopAndSplit(ls, i)
<1>3. /\ DOMAIN m = 1 .. Len(lv)
      /\ m[i] = [ls[i] EXCEPT !.free = Front(ls[i].free)]
      /\ \A j \in 1 .. Len(lv) : j # i => m[j] = ls[j]
  BY <1>1, <1>2
<1>4. m[i].slots = ls[i].slots /\ m[i].size = lv[i] /\ m[i].span = ls[i].span
      /\ m[i].free = Front(ls[i].free) /\ m[i + 1] = ls[i + 1]
  BY <1>1, <1>2, <1>3 DEF Layers
<1>5. B = ls[i + 1] /\ count = Kids(lv, i) /\ B.size = lv[i + 1] /\ B \in Layers
  BY <1>1, <1>2, <1>4 DEF Siblings, Kids
<1>6. ns = [m EXCEPT ![i].slots[idx] = [@ EXCEPT !.state = "Split", !.child = b],
                     ![i + 1] = [B EXCEPT !.slots = newSlots, !.free = newFree, !.span = newSpan]]
  BY DEF PopAndSplit, splitSlot
<1> HIDE DEF m, idx, b, newSlots, newFree, newSpan, ns
<1>7. /\ DOMAIN ns = 1 .. Len(lv)
      /\ ns[i] = [m[i] EXCEPT !.slots[idx] = [@ EXCEPT !.state = "Split", !.child = b]]
      /\ ns[i + 1] = [B EXCEPT !.slots = newSlots, !.free = newFree, !.span = newSpan]
      /\ \A j \in 1 .. Len(lv) : j # i /\ j # i + 1 => ns[j] = ls[j]
  BY <1>2, <1>3, <1>6
<1>8. /\ ls[i].slots \in Seq(SlotRecords) /\ ls[i].free \in Seq(Nat) /\ ls[i].span \in Seq(Nat)
      /\ B.slots \in Seq(SlotRecords) /\ B.free \in Seq(Nat) /\ B.span \in Seq(Nat)
  BY <1>1, <1>2, <1>5 DEF Layers
<1>9. /\ Once(ls, i) /\ \A k \in Fr(ls, i) : k \in Dom(ls, i) /\ St(ls, i, k) = "Free"
      /\ Once(ls, i + 1) /\ \A k \in Fr(ls, i + 1) : k \in Dom(ls, i + 1) /\ St(ls, i + 1, k) = "Free"
  BY <1>2 DEF Forest, FreeLists
<1>10. /\ idx \in Nat /\ idx \in Fr(ls, i) /\ idx \in Dom(ls, i)
       /\ Front(ls[i].free) \in Seq(Nat) /\ IsInjective(Front(ls[i].free))
       /\ Elems(Front(ls[i].free)) = Fr(ls, i) \ {idx}
  BY <1>8, <1>9, FrontElems DEF Once, Fr, idx
<1>11. count \in Nat /\ count >= 1 /\ Cuts(lv, i)
  BY <1>5, LevelFacts DEF Cuts
<1> DEFINE fam == Family(lv, i, b)
           len == Len(B.slots)
<1>12. len \in Nat /\ Dom(ls, i + 1) = 1 .. len /\ DOMAIN B.slots = 1 .. len
  BY <1>5, <1>8 DEF Dom
<1>13. fam = b .. b + count - 1
  BY <1>5 DEF Family
<1> HIDE DEF B, count, reuse, fam, len
<1> DEFINE length == IF reuse THEN len ELSE len + count
<1>14. /\ b \in Nat /\ b >= 1
       /\ newSpan \in Seq(Nat) /\ IsInjective(newSpan) /\ Elems(newSpan) = Sp(ls, i + 1) \ {b}
       /\ b \in Sp(ls, i + 1) \/ fam \cap Dom(ls, i + 1) = {}
       /\ fam \cap Fr(ls, i + 1) = {}
       /\ length \in Nat /\ Dom(ls, i + 1) \cup fam = 1 .. length
  <2>1. CASE reuse
    <3>1. B.span # <<>> /\ b = Last(B.span) /\ newSpan = Front(B.span) /\ IsInjective(B.span)
      BY <1>5, <1>9, <2>1 DEF reuse, b, newSpan, Once
    <3>2. /\ b \in Sp(ls, i + 1) /\ newSpan \in Seq(Nat) /\ IsInjective(newSpan)
          /\ Elems(newSpan) = Sp(ls, i + 1) \ {b}
      BY <1>5, <1>8, <3>1, FrontElems DEF Sp
    <3>3. ASSUME NEW k \in fam
          PROVE  k \in Dom(ls, i + 1) /\ k \notin Fr(ls, i + 1)
      BY <3>2, <3>3 DEF Forest, Retired, fam
    <3>4. b \in Nat
      BY <1>8, <3>1, FrontElems
    <3>5. b \in fam
      BY <1>11, <1>13, <3>4
    <3>6. b >= 1
      BY <1>12, <3>3, <3>5
    <3>7. length \in Nat /\ Dom(ls, i + 1) \cup fam = 1 .. length
      BY <1>12, <2>1, <3>3
    <3> QED
      BY <3>2, <3>3, <3>4, <3>6, <3>7
  <2>2. CASE ~ reuse
    <3>1. b = len + 1 /\ newSpan = B.span /\ B.span = <<>>
      BY <2>2 DEF reuse, b, newSpan, len
    <3>2. IsInjective(newSpan) /\ Elems(newSpan) = {} /\ Sp(ls, i + 1) = {}
      BY <1>5, <3>1 DEF IsInjective, Elems, Sp
    <3>3. fam = len + 1 .. len + count
      BY <1>11, <1>12, <1>13, <3>1
    <3>4. fam \cap Dom(ls, i + 1) = {}
      BY <1>11, <1>12, <3>3
    <3>5. length \in Nat /\ Dom(ls, i + 1) \cup fam = 1 .. length
      BY <1>11, <1>12, <2>2, <3>3
    <3>6. Fr(ls, i + 1) \subseteq Dom(ls, i + 1)
      BY <1>9
    <3> QED
      BY <1>8, <1>12, <3>1, <3>2, <3>4, <3>5, <3>6
  <2> QED
    BY <2>1, <2>2
<1>15. newSlots = [k \in 1 .. length |-> IF k \in fam THEN NewSlot(Ad(ls, i, idx) + (k - b) * lv[i + 1], idx)
                                                  ELSE ls[i + 1].slots[k]]
  <2>1. DOMAIN born = fam /\ \A k \in fam : born[k] = NewSlot(m[i].slots[idx].addr + (k - b) * B.size, idx)
    BY <1>13
  <2>2. newSlots = [k \in 1 .. length |-> IF k \in fam THEN born[k] ELSE B.slots[k]]
    BY <2>1 DEF newSlots, len
  <2> HIDE DEF born
  <2>3. m[i].slots[idx].addr = Ad(ls, i, idx) /\ B.size = lv[i + 1] /\ B.slots = ls[i + 1].slots
    BY <1>4, <1>5 DEF Ad
  <2> QED
    BY <2>1, <2>2, <2>3
<1> HIDE DEF length, born
<1>16. Ad(ls, i, idx) \in Int /\ lv[i + 1] \in Nat /\ ls[i].slots[idx] \in SlotRecords
  <2>1. ls[i].slots[idx] \in SlotRecords
    BY <1>8, <1>10 DEF Dom
  <2> QED
    BY <1>2, <2>1, LevelFacts DEF Ad, SlotRecords
<1>17. newSlots \in Seq(SlotRecords) /\ DOMAIN newSlots = 1 .. length
  <2>1. ASSUME NEW k \in 1 .. length
        PROVE  (IF k \in fam THEN NewSlot(Ad(ls, i, idx) + (k - b) * lv[i + 1], idx)
                ELSE ls[i + 1].slots[k]) \in SlotRecords
    <3>1. CASE k \in fam
      <4>1. (k - b) * lv[i + 1] \in Int
        BY <1>14, <1>16
      <4>2. Ad(ls, i, idx) + (k - b) * lv[i + 1] \in Int
        BY <1>16, <4>1
      <4> QED
        BY <1>10, <3>1, <4>2 DEF NewSlot, SlotRecords
    <3>2. CASE k \notin fam
      <4>1. k \in DOMAIN ls[i + 1].slots
        BY <1>14, <3>2 DEF Dom
      <4> QED
        BY <1>5, <1>8, <3>2, <4>1
    <3> QED
      BY <3>1, <3>2
  <2> QED
    BY <1>14, <1>15, <2>1
<1>18. /\ newFree \in Seq(Nat) /\ IsInjective(newFree)
       /\ Elems(newFree) = Fr(ls, i + 1) \cup fam
       /\ newFree # <<>> /\ Last(newFree) \in fam
  <2>1. newFree = B.free \o [k \in 1 .. count |-> b + k - 1]
    BY DEF newFree
  <2>2. Elems(B.free) = Fr(ls, i + 1) /\ IsInjective(B.free)
    BY <1>5, <1>9 DEF Fr, Once
  <2>3. Longer(B.free, newFree, fam)
    <3>1. B.free \in Seq(Nat) /\ b \in Nat /\ count \in Nat /\ b >= 1
      BY <1>8, <1>11, <1>14
    <3> HIDE DEF newFree
    <3>2. Longer(B.free, newFree, b .. b + count - 1)
      BY <2>1, <3>1, ConcatElems
    <3> QED
      BY <1>13, <3>2
  <2>4. fam # {}
    <3>1. b \in b .. b + count - 1
      BY <1>11, <1>14
    <3> QED
      BY <1>13, <3>1
  <2> QED
    BY <1>14, <2>2, <2>3, <2>4 DEF Longer
<1> DEFINE split == [ls[i].slots EXCEPT ![idx] = [@ EXCEPT !.state = "Split", !.child = b]]
           front == Front(ls[i].free)
           span == ls[i].span
<1>19. split \in Seq(SlotRecords)
  <2>1. [ls[i].slots[idx] EXCEPT !.state = "Split", !.child = b] \in SlotRecords
    BY <1>14, <1>16 DEF SlotRecords
  <2> QED
    BY <1>8, <1>10, <2>1 DEF Dom
<1>20. m[i] = [size |-> lv[i], slots |-> ls[i].slots, free |-> front, span |-> span]
  BY <1>1, <1>2, <1>3 DEF Layers
<1>21. ns[i] = [m[i] EXCEPT !.slots = split]
  BY <1>4, <1>7
<1> HIDE DEF split, front, span
<1>22. ns[i] = [size |-> lv[i], slots |-> split, free |-> front, span |-> span]
  BY <1>20, <1>21
<1>23. front \in Seq(Nat) /\ span \in Seq(Nat) /\ lv[i] \in Nat
  BY <1>2, <1>8, <1>10, LevelFacts DEF front, span
<1>24. /\ ns[i].slots = split /\ ns[i].free = front /\ ns[i].span = span /\ ns[i].size = lv[i]
       /\ ns[i] \in Layers
  BY <1>19, <1>22, <1>23 DEF Layers
<1>25. ns[i + 1] = [size |-> lv[i + 1], slots |-> newSlots, free |-> newFree, span |-> newSpan]
  BY <1>5, <1>7 DEF Layers
<1>26. /\ ns[i + 1].slots = newSlots /\ ns[i + 1].free = newFree /\ ns[i + 1].span = newSpan
       /\ ns[i + 1].size = lv[i + 1] /\ ns[i + 1] \in Layers
  BY <1>14, <1>16, <1>17, <1>18, <1>25 DEF Layers
<1>27. AreLayers(lv, ns)
  <2>1. ASSUME NEW j \in 1 .. Len(lv) PROVE ns[j] \in Layers /\ ns[j].size = lv[j]
    BY <1>1, <1>7, <1>24, <1>26
  <2>2. ns \in [1 .. Len(lv) -> Layers]
    <3>1. ns = [j \in 1 .. Len(lv) |-> ns[j]]
      BY <1>1, <1>6 DEF m
    <3> QED
      BY <2>1, <3>1
  <2> QED
    BY <2>1, <2>2 DEF AreLayers
<1>28. Made(lv, ns)
  <2>1. ASSUME NEW j \in 1 .. Len(lv) PROVE Once(ns, j)
    <3>1. CASE j = i
      BY <1>9, <1>10, <1>24, <3>1 DEF Once, front, span
    <3>2. CASE j = i + 1
      BY <1>14, <1>18, <1>26, <3>2 DEF Once
    <3>3. CASE j # i /\ j # i + 1
      BY <1>7, <3>3 DEF Once, Forest, FreeLists
    <3> QED
      BY <3>1, <3>2, <3>3
  <2> QED
    BY <1>27, <2>1 DEF Made
<1>29. ASSUME NEW j \in 1 .. Len(lv), j # i, j # i + 1
       PROVE  /\ Dom(ns, j) = Dom(ls, j) /\ Fr(ns, j) = Fr(ls, j) /\ Sp(ns, j) = Sp(ls, j)
              /\ \A k \in Dom(ls, j) : SameSlot(ls, ns, j, k)
  BY <1>7, <1>29 DEF Dom, Fr, Sp, SameSlot, St, Ad, Pa, Ch
<1>30. /\ Dom(ns, i) = Dom(ls, i) /\ Fr(ns, i) = Fr(ls, i) \ {idx} /\ Sp(ns, i) = Sp(ls, i)
       /\ \A k \in Dom(ls, i) : k # idx => SameSlot(ls, ns, i, k)
       /\ St(ns, i, idx) = "Split" /\ Ch(ns, i, idx) = b
       /\ Ad(ns, i, idx) = Ad(ls, i, idx) /\ Pa(ns, i, idx) = Pa(ls, i, idx)
  <2>1. /\ DOMAIN split = Dom(ls, i)
        /\ split[idx] = [ls[i].slots[idx] EXCEPT !.state = "Split", !.child = b]
        /\ \A k \in Dom(ls, i) : k # idx => split[k] = ls[i].slots[k]
    BY <1>8, <1>10 DEF split, Dom
  <2>2. /\ split[idx].state = "Split" /\ split[idx].child = b
        /\ split[idx].addr = ls[i].slots[idx].addr /\ split[idx].parent = ls[i].slots[idx].parent
    BY <1>16, <2>1 DEF SlotRecords
  <2>3. Dom(ns, i) = Dom(ls, i) /\ Fr(ns, i) = Fr(ls, i) \ {idx} /\ Sp(ns, i) = Sp(ls, i)
    BY <1>10, <1>24, <2>1 DEF Dom, Fr, Sp, front, span
  <2>4. \A k \in Dom(ls, i) : k # idx => SameSlot(ls, ns, i, k)
    BY <1>24, <2>1 DEF SameSlot, St, Ad, Pa, Ch
  <2> QED
    BY <1>24, <2>2, <2>3, <2>4 DEF St, Ad, Pa, Ch
<1>31. /\ Dom(ns, i + 1) = Dom(ls, i + 1) \cup fam /\ Fr(ns, i + 1) = Fr(ls, i + 1) \cup fam
       /\ Sp(ns, i + 1) = Sp(ls, i + 1) \ {b}
       /\ ns[i + 1].free # <<>> /\ LastFree(ns, i + 1) \in fam
  BY <1>14, <1>17, <1>18, <1>26 DEF Dom, Fr, Sp, LastFree
<1>32. ASSUME NEW k \in fam
       PROVE  /\ St(ns, i + 1, k) = "Free" /\ Pa(ns, i + 1, k) = idx
              /\ Ad(ns, i + 1, k) = Ad(ls, i, idx) + (k - b) * lv[i + 1]
  <2>1. k \in 1 .. length
    BY <1>14
  <2>2. newSlots[k] = NewSlot(Ad(ls, i, idx) + (k - b) * lv[i + 1], idx)
    BY <1>15, <2>1
  <2> QED
    BY <1>26, <2>2 DEF St, Pa, Ad, NewSlot
<1>33. ASSUME NEW k \in Dom(ls, i + 1), k \notin fam
       PROVE  SameSlot(ls, ns, i + 1, k)
  <2>1. k \in 1 .. length
    BY <1>14
  <2>2. newSlots[k] = ls[i + 1].slots[k]
    BY <1>15, <1>33, <2>1
  <2> QED
    BY <1>26, <2>2 DEF SameSlot, St, Ad, Pa, Ch
<1>34. ASSUME NEW j \in 1 .. Len(lv)
       PROVE  /\ Dom(ns, j) = IF j = i + 1 THEN Dom(ls, j) \cup fam ELSE Dom(ls, j)
              /\ Fr(ns, j) = IF j = i THEN Fr(ls, j) \ {idx}
                             ELSE IF j = i + 1 THEN Fr(ls, j) \cup fam ELSE Fr(ls, j)
              /\ Sp(ns, j) = IF j = i + 1 THEN Sp(ls, j) \ {b} ELSE Sp(ls, j)
              /\ \A k \in Dom(ls, j) :
                   ~ (j = i /\ k = idx) /\ ~ (j = i + 1 /\ k \in fam) => SameSlot(ls, ns, j, k)
  BY <1>2, <1>29, <1>30, <1>31, <1>33
<1>35. SplitEffect(lv, ls, ns, i, idx, b)
  BY <1>14, <1>28, <1>30, <1>31, <1>32, <1>34 DEF SplitEffect, fam
<1> QED
  BY <1>14, <1>35 DEF ns, idx, LastFree

-----------------------------------------------------------------------------
(* Splitting keeps the forest *)

\* A family has a member, and the first of its members is its number.
LEMMA FamilyFacts ==
    ASSUME NEW lv, GoodLevels(lv), NEW i \in 1 .. Len(lv) - 1, NEW b \in Nat
    PROVE  b \in Family(lv, i, b) /\ Family(lv, i, b) \in SUBSET Nat
<1>1. Kids(lv, i) \in Nat /\ Kids(lv, i) >= 1
  BY LevelFacts DEF Cuts
<1> QED
  BY <1>1 DEF Family

\* Splitting a free slot leaves every slot in its place.
LEMMA SplitForest ==
    ASSUME NEW lv, NEW ls, NEW ns, GoodLevels(lv), Forest(lv, ls),
           NEW i \in 1 .. Len(lv) - 1, NEW idx \in Fr(ls, i), NEW b \in Nat,
           SplitEffect(lv, ls, ns, i, idx, b)
    PROVE  Forest(lv, ns)
<1> DEFINE L == Len(lv)
           fam == Family(lv, i, b)
<1>1. L \in Nat /\ i \in 1 .. L /\ i + 1 \in 1 .. L /\ i # i + 1 /\ i + 1 # 1
  BY LevelFacts
<1>2. \A j \in 1 .. L - 1 : j \in 1 .. L /\ j + 1 \in 1 .. L /\ j # j + 1 /\ j + 1 # 1
  BY <1>1
<1>3. \A j \in 1 .. L - 1 : j + 1 = i + 1 <=> j = i
  BY <1>1
<1>4. AreLayers(lv, ns) /\ \A j \in 1 .. L : Once(ns, j)
  BY DEF SplitEffect, Made
<1>5. ASSUME NEW j \in 1 .. L
      PROVE  /\ Dom(ns, j) = IF j = i + 1 THEN Dom(ls, j) \cup fam ELSE Dom(ls, j)
             /\ Fr(ns, j) = IF j = i THEN Fr(ls, j) \ {idx}
                            ELSE IF j = i + 1 THEN Fr(ls, j) \cup fam ELSE Fr(ls, j)
             /\ Sp(ns, j) = IF j = i + 1 THEN Sp(ls, j) \ {b} ELSE Sp(ls, j)
             /\ \A k \in Dom(ls, j) :
                  ~ (j = i /\ k = idx) /\ ~ (j = i + 1 /\ k \in fam) => SameSlot(ls, ns, j, k)
  BY DEF SplitEffect
<1>6. /\ St(ns, i, idx) = "Split" /\ Ch(ns, i, idx) = b
      /\ Ad(ns, i, idx) = Ad(ls, i, idx) /\ Pa(ns, i, idx) = Pa(ls, i, idx)
      /\ \A k \in fam :
           /\ St(ns, i + 1, k) = "Free" /\ Pa(ns, i + 1, k) = idx
           /\ Ad(ns, i + 1, k) = Ad(ls, i, idx) + (k - b) * lv[i + 1]
      /\ b \in Sp(ls, i + 1) \/ fam \cap Dom(ls, i + 1) = {}
  BY DEF SplitEffect
<1>7. FreeLists(lv, ls) /\ Retired(lv, ls) /\ SplitSlots(lv, ls) /\ Parents(lv, ls)
  BY DEF Forest
<1>8. idx \in Dom(ls, i) /\ St(ls, i, idx) = "Free"
  BY <1>1, <1>7 DEF FreeLists
<1>9. ASSUME NEW k \in fam, k \in Dom(ls, i + 1)
      PROVE  St(ls, i + 1, k) = "Free" /\ k \notin Fr(ls, i + 1) /\ b \in Sp(ls, i + 1)
  BY <1>6, <1>7, <1>9 DEF Retired
<1> HIDE DEF L, fam
<1>10. FreeLists(lv, ns)
  <2> SUFFICES ASSUME NEW j \in 1 .. L, NEW k \in Fr(ns, j)
               PROVE  k \in Dom(ns, j) /\ St(ns, j, k) = "Free"
    BY <1>4 DEF FreeLists, L
  <2>1. CASE j = i + 1 /\ k \in fam
    BY <1>1, <1>5, <1>6, <2>1
  <2>2. CASE ~ (j = i + 1 /\ k \in fam)
    <3>1. k \in Fr(ls, j) /\ ~ (j = i /\ k = idx)
      BY <1>1, <1>5, <2>2
    <3>2. k \in Dom(ls, j) /\ St(ls, j, k) = "Free"
      BY <1>7, <3>1 DEF FreeLists, L
    <3> QED
      BY <1>5, <2>2, <3>1, <3>2 DEF SameSlot
  <2> QED
    BY <2>1, <2>2
<1>11. Retired(lv, ns)
  <2> SUFFICES ASSUME NEW j \in 1 .. L - 1, NEW c \in Sp(ns, j + 1), NEW k \in Family(lv, j, c)
               PROVE  /\ k \in Dom(ns, j + 1) /\ St(ns, j + 1, k) = "Free" /\ k \notin Fr(ns, j + 1)
                      /\ \A d \in Sp(ns, j + 1) : k \in Family(lv, j, d) => c = d
    BY DEF Retired, L
  <2>1. j + 1 \in 1 .. L /\ j \in 1 .. L
    BY <1>2
  <2>2. Sp(ns, j + 1) \subseteq Sp(ls, j + 1)
    BY <1>5, <2>1
  <2>3. /\ k \in Dom(ls, j + 1) /\ St(ls, j + 1, k) = "Free" /\ k \notin Fr(ls, j + 1)
        /\ \A d \in Sp(ls, j + 1) : k \in Family(lv, j, d) => c = d
    BY <1>7, <2>2 DEF Retired, L
  <2>4. ~ (j + 1 = i /\ k = idx)
    BY <2>3
  <2>5. ~ (j + 1 = i + 1 /\ k \in fam)
    <3> SUFFICES ASSUME j + 1 = i + 1, k \in fam PROVE FALSE
      OBVIOUS
    <3>1. j = i /\ b \in Sp(ls, i + 1)
      BY <1>3, <1>9, <2>3
    <3>2. c = b
      BY <2>3, <3>1 DEF fam
    <3> QED
      BY <1>5, <2>1, <3>1, <3>2
  <2>6. St(ns, j + 1, k) = "Free" /\ k \in Dom(ns, j + 1)
    BY <1>5, <2>1, <2>3, <2>4, <2>5 DEF SameSlot
  <2>7. k \notin Fr(ns, j + 1)
    BY <1>5, <2>1, <2>3, <2>5
  <2> QED
    BY <2>2, <2>3, <2>6, <2>7
<1>12. SplitSlots(lv, ns)
  <2> SUFFICES ASSUME NEW j \in 1 .. L - 1, NEW p \in Dom(ns, j), St(ns, j, p) = "Split",
                      NEW k \in Family(lv, j, Ch(ns, j, p))
               PROVE  /\ ChildOf(lv, ns, j, p, k)
                      /\ \A c \in Sp(ns, j + 1) : k \notin Family(lv, j, c)
    BY DEF SplitSlots, L
  <2>1. j + 1 \in 1 .. L /\ j \in 1 .. L
    BY <1>2
  <2>2. CASE j = i /\ p = idx
    <3>1. k \in fam
      BY <1>6, <2>2 DEF fam
    <3>2. k \in Dom(ns, j + 1) /\ k \in Fr(ns, j + 1)
      BY <1>1, <1>5, <2>1, <2>2, <3>1
    <3>3. ChildOf(lv, ns, j, p, k)
      BY <1>6, <2>2, <3>1, <3>2 DEF ChildOf
    <3>4. ASSUME NEW c \in Sp(ns, j + 1), k \in Family(lv, j, c) PROVE FALSE
      <4>1. c \in Sp(ls, i + 1) /\ c # b
        BY <1>5, <2>1, <2>2
      <4>2. k \in Dom(ls, i + 1)
        BY <1>7, <2>2, <3>4, <4>1 DEF Retired
      <4>3. b \in Sp(ls, i + 1)
        BY <1>9, <3>1, <4>2
      <4> QED
        BY <1>7, <2>2, <3>1, <3>4, <4>1, <4>3 DEF Retired, fam
    <3> QED
      BY <3>3, <3>4
  <2>3. CASE ~ (j = i /\ p = idx)
    <3>1. ~ (j = i + 1 /\ p \in fam)
      BY <1>6, <2>1
    <3>2. p \in Dom(ls, j) /\ SameSlot(ls, ns, j, p)
      BY <1>5, <2>1, <2>3, <3>1
    <3>3. /\ St(ls, j, p) = "Split" /\ Ch(ls, j, p) = Ch(ns, j, p)
          /\ Ad(ls, j, p) = Ad(ns, j, p)
      BY <3>2 DEF SameSlot
    <3>4. ChildOf(lv, ls, j, p, k) /\ \A c \in Sp(ls, j + 1) : k \notin Family(lv, j, c)
      BY <1>7, <3>2, <3>3 DEF SplitSlots, L
    <3>5. k \in Dom(ls, j + 1)
      BY <3>4 DEF ChildOf
    <3>6. ~ (j + 1 = i + 1 /\ k \in fam)
      <4> SUFFICES ASSUME j = i, k \in fam PROVE FALSE
        BY <1>3
      <4>1. b \in Sp(ls, i + 1)
        BY <1>9, <3>5
      <4> QED
        BY <3>4, <4>1 DEF fam
    <3>7. \A c \in Sp(ns, j + 1) : k \notin Family(lv, j, c)
      BY <1>5, <2>1, <3>4
    <3>8. CASE j + 1 = i /\ k = idx
      <4>1. /\ k \in Dom(ns, j + 1) /\ St(ns, j + 1, k) # "Free"
            /\ Pa(ns, j + 1, k) = Pa(ls, j + 1, k) /\ Ad(ns, j + 1, k) = Ad(ls, j + 1, k)
        BY <1>5, <1>6, <2>1, <3>5, <3>8
      <4> QED
        BY <3>3, <3>4, <3>7, <4>1 DEF ChildOf
    <3>9. CASE ~ (j + 1 = i /\ k = idx)
      <4>1. SameSlot(ls, ns, j + 1, k) /\ k \in Dom(ns, j + 1)
        BY <1>5, <2>1, <3>5, <3>6, <3>9
      <4>2. k \in Fr(ls, j + 1) => k \in Fr(ns, j + 1)
        BY <1>5, <2>1, <3>9
      <4> QED
        BY <3>3, <3>4, <3>7, <4>1, <4>2 DEF ChildOf, SameSlot
    <3> QED
      BY <3>8, <3>9
  <2> QED
    BY <2>2, <2>3
<1>13. Parents(lv, ns)
  <2>1. ASSUME NEW k \in Dom(ns, 1) PROVE Pa(ns, 1, k) = 0
    <3>1. 1 \in 1 .. L /\ 1 # i + 1
      BY <1>1
    <3>2. k \in Dom(ls, 1) /\ (~ (1 = i /\ k = idx) => SameSlot(ls, ns, 1, k))
      BY <1>5, <3>1
    <3>3. Pa(ns, 1, k) = Pa(ls, 1, k)
      BY <1>6, <3>2 DEF SameSlot
    <3> QED
      BY <1>7, <3>2, <3>3 DEF Parents
  <2>2. ASSUME NEW j \in 1 .. L - 1, NEW k \in Dom(ns, j + 1),
               St(ns, j + 1, k) # "Free" \/ k \in Fr(ns, j + 1)
        PROVE  HasParent(lv, ns, j, k)
    <3>1. j + 1 \in 1 .. L /\ j \in 1 .. L
      BY <1>2
    <3>2. CASE j + 1 = i + 1 /\ k \in fam
      <4>1. j = i
        BY <1>3, <3>2
      <4>2. idx \in Dom(ns, i)
        BY <1>1, <1>5, <1>8
      <4> QED
        BY <1>6, <3>2, <4>1, <4>2 DEF HasParent, fam
    <3>3. CASE ~ (j + 1 = i + 1 /\ k \in fam)
      <4>1. k \in Dom(ls, j + 1) /\ Pa(ns, j + 1, k) = Pa(ls, j + 1, k)
        BY <1>5, <1>6, <3>1, <3>3 DEF SameSlot
      <4>2. St(ls, j + 1, k) # "Free" \/ k \in Fr(ls, j + 1)
        <5>1. CASE j + 1 = i /\ k = idx
          BY <5>1
        <5>2. CASE ~ (j + 1 = i /\ k = idx)
          BY <1>5, <2>2, <3>1, <3>3, <4>1, <5>2 DEF SameSlot
        <5> QED
          BY <5>1, <5>2
      <4>3. HasParent(lv, ls, j, k)
        BY <1>7, <4>1, <4>2 DEF Parents, L
      <4> DEFINE p == Pa(ls, j + 1, k)
      <4>4. p \in Dom(ls, j) /\ St(ls, j, p) = "Split" /\ k \in Family(lv, j, Ch(ls, j, p))
        BY <4>3 DEF HasParent
      <4>5. ~ (j = i /\ p = idx) /\ ~ (j = i + 1 /\ p \in fam)
        BY <1>8, <1>9, <4>4
      <4>6. SameSlot(ls, ns, j, p) /\ p \in Dom(ns, j)
        BY <1>5, <3>1, <4>4, <4>5
      <4> QED
        BY <4>1, <4>4, <4>6 DEF HasParent, SameSlot
    <3> QED
      BY <3>2, <3>3
  <2>3. ASSUME NEW k \in Dom(ns, L) PROVE St(ns, L, k) # "Split"
    <3>1. L \in 1 .. L /\ L # i
      BY <1>1 DEF L
    <3>2. CASE L = i + 1 /\ k \in fam
      BY <1>6, <3>2
    <3>3. CASE ~ (L = i + 1 /\ k \in fam)
      BY <1>5, <1>7, <3>1, <3>3 DEF SameSlot, Parents, L
    <3> QED
      BY <3>2, <3>3
  <2> QED
    BY <2>1, <2>2, <2>3 DEF Parents, L
<1> QED
  BY <1>4, <1>10, <1>11, <1>12, <1>13 DEF Forest

\* The split slot whose family slot idx of layer k is in, but for the first layer.
Pending(ls, k, idx) == IF k = 1 THEN {} ELSE {<< k - 1, Pa(ls, k, idx) >>}

LEMMA FullWeaker ==
    ASSUME NEW lv, NEW ls, NEW H, FullBut(lv, ls, {})
    PROVE  FullBut(lv, ls, H)
BY DEF FullBut

\* Only the slot just split may have nothing but free children.
LEMMA SplitFull ==
    ASSUME NEW lv, NEW ls, NEW ns, GoodLevels(lv), Forest(lv, ls),
           NEW i \in 1 .. Len(lv) - 1, NEW idx \in Fr(ls, i), NEW b \in Nat,
           SplitEffect(lv, ls, ns, i, idx, b), FullBut(lv, ls, Pending(ls, i, idx))
    PROVE  FullBut(lv, ns, Pending(ns, i + 1, LastFree(ns, i + 1)))
<1> DEFINE L == Len(lv)
           fam == Family(lv, i, b)
<1>1. L \in Nat /\ i \in 1 .. L /\ i + 1 \in 1 .. L /\ i + 1 # 1 /\ (i + 1) - 1 = i
  BY LevelFacts
<1>2. \A j \in 1 .. L - 1 : j \in 1 .. L /\ j + 1 \in 1 .. L /\ (j + 1 = i => j = i - 1 /\ i # 1)
  BY <1>1
<1>3. /\ St(ns, i, idx) = "Split"
      /\ \A k \in fam : St(ns, i + 1, k) = "Free" /\ Pa(ns, i + 1, k) = idx
      /\ LastFree(ns, i + 1) \in fam
      /\ b \in Sp(ls, i + 1) \/ fam \cap Dom(ls, i + 1) = {}
  BY DEF SplitEffect
<1>4. Pending(ns, i + 1, LastFree(ns, i + 1)) = {<< i, idx >>}
  BY <1>1, <1>3 DEF Pending
<1>5. FreeLists(lv, ls) /\ Retired(lv, ls) /\ SplitSlots(lv, ls) /\ Parents(lv, ls)
  BY DEF Forest
<1>6. ASSUME NEW k \in fam, k \in Dom(ls, i + 1)
      PROVE  St(ls, i + 1, k) = "Free"
  BY <1>3, <1>5, <1>6 DEF Retired
<1>7. ASSUME NEW j \in 1 .. L, NEW k \in Dom(ns, j), St(ns, j, k) # "Free", ~ (j = i /\ k = idx)
      PROVE  k \in Dom(ls, j) /\ SameSlot(ls, ns, j, k)
  BY <1>1, <1>3, <1>7 DEF SplitEffect
<1>8. ASSUME NEW j \in 1 .. L, NEW k \in Dom(ls, j), St(ls, j, k) # "Free"
      PROVE  k \in Dom(ns, j) /\ St(ns, j, k) # "Free"
  <2>1. ~ (j = i + 1 /\ k \in fam)
    BY <1>6, <1>8
  <2>2. k \in Dom(ns, j)
    BY DEF SplitEffect
  <2>3. CASE j = i /\ k = idx
    BY <1>3, <2>2, <2>3
  <2>4. CASE ~ (j = i /\ k = idx)
    BY <1>8, <2>1, <2>2, <2>4 DEF SplitEffect, SameSlot
  <2> QED
    BY <2>3, <2>4
<1> HIDE DEF L, fam
<1> SUFFICES ASSUME NEW j \in 1 .. L - 1, NEW p \in Dom(ns, j), St(ns, j, p) = "Split",
                    ~ (j = i /\ p = idx)
             PROVE  \E k \in Family(lv, j, Ch(ns, j, p)) : St(ns, j + 1, k) # "Free"
  <2>1. FullBut(lv, ns, {<< i, idx >>})
    BY DEF FullBut, L
  <2> QED
    BY <1>4, <2>1
<1>9. j \in 1 .. L /\ j + 1 \in 1 .. L /\ (j + 1 = i => j = i - 1 /\ i # 1)
  BY <1>2
<1>10. p \in Dom(ls, j) /\ St(ls, j, p) = "Split" /\ Ch(ns, j, p) = Ch(ls, j, p)
  BY <1>7, <1>9 DEF SameSlot
<1>11. \A k \in Family(lv, j, Ch(ls, j, p)) : k \in Dom(ls, j + 1) /\ Pa(ls, j + 1, k) = p
  BY <1>5, <1>10 DEF SplitSlots, ChildOf, L
<1>12. CASE << j, p >> \in Pending(ls, i, idx)
  <2>1. i # 1 /\ j = i - 1 /\ p = Pa(ls, i, idx)
    BY <1>12 DEF Pending
  <2>2. j + 1 = i
    BY <1>1, <2>1
  <2>3. idx \in Dom(ls, j + 1) /\ idx \in Fr(ls, j + 1)
    BY <1>5, <1>9, <2>2 DEF FreeLists, L
  <2>4. HasParent(lv, ls, j, idx)
    BY <1>5, <2>3 DEF Parents, L
  <2>5. idx \in Family(lv, j, Ch(ls, j, p))
    BY <2>1, <2>2, <2>4 DEF HasParent
  <2> QED
    BY <1>3, <1>10, <2>2, <2>5
<1>13. CASE << j, p >> \notin Pending(ls, i, idx)
  <2>1. PICK k \in Family(lv, j, Ch(ls, j, p)) : St(ls, j + 1, k) # "Free"
    BY <1>10, <1>13 DEF FullBut, L
  <2> QED
    BY <1>8, <1>9, <1>10, <1>11, <2>1
<1> QED
  BY <1>12, <1>13

\* The family has the bytes of the slot that was split.
LEMMA SplitTiles ==
    ASSUME NEW lv, NEW ls, NEW ns, NEW U, GoodLevels(lv), Forest(lv, ls),
           NEW i \in 1 .. Len(lv) - 1, NEW idx \in Fr(ls, i), NEW b \in Nat,
           SplitEffect(lv, ls, ns, i, idx, b), Tiles(lv, ls, U)
    PROVE  Tiles(lv, ns, U) /\ InUse(lv, ns) = InUse(lv, ls)
           /\ \A p \in InUse(lv, ls) : Ad(ns, p[1], p[2]) = Ad(ls, p[1], p[2])
<1> DEFINE L == Len(lv)
           fam == Family(lv, i, b)
           a == Ad(ls, i, idx)
           c == lv[i + 1]
<1>1. L \in Nat /\ i \in 1 .. L /\ i + 1 \in 1 .. L /\ i # i + 1
  BY LevelFacts
<1>2. /\ St(ns, i, idx) = "Split"
      /\ \A k \in fam : St(ns, i + 1, k) = "Free" /\ Ad(ns, i + 1, k) = a + (k - b) * c
      /\ b \in Sp(ls, i + 1) \/ fam \cap Dom(ls, i + 1) = {}
      /\ \A j \in 1 .. L :
           /\ Dom(ns, j) = IF j = i + 1 THEN Dom(ls, j) \cup fam ELSE Dom(ls, j)
           /\ Fr(ns, j) = IF j = i THEN Fr(ls, j) \ {idx}
                          ELSE IF j = i + 1 THEN Fr(ls, j) \cup fam ELSE Fr(ls, j)
           /\ \A k \in Dom(ls, j) :
                ~ (j = i /\ k = idx) /\ ~ (j = i + 1 /\ k \in fam) => SameSlot(ls, ns, j, k)
  BY DEF SplitEffect
<1>3. FreeLists(lv, ls) /\ Retired(lv, ls)
  BY DEF Forest
<1>4. ASSUME NEW k \in fam, k \in Dom(ls, i + 1)
      PROVE  St(ls, i + 1, k) = "Free" /\ k \notin Fr(ls, i + 1)
  BY <1>2, <1>3, <1>4 DEF Retired
<1>5. idx \in Dom(ls, i) /\ St(ls, i, idx) = "Free" /\ Leaf(ls, i, idx)
  BY <1>1, <1>3 DEF FreeLists, Leaf
<1>6. fam \in SUBSET Nat /\ idx \in Nat /\ a \in Int /\ c \in Nat /\ c > 0 /\ Cuts(lv, i)
      /\ \A j \in 1 .. L : Dom(ls, j) \in SUBSET Nat
  BY <1>1, <1>5, FamilyFacts, LevelFacts, LayerTypes DEF Forest
<1> DEFINE Mine(j, k) == j = i + 1 /\ k \in fam
           Old(j, k) == Leaf(ls, j, k) /\ ~ (j = i /\ k = idx)
<1> HIDE DEF L, fam, a, c
<1>7. ASSUME NEW j \in 1 .. L, NEW k \in Nat, Old(j, k)
      PROVE  k \in Dom(ls, j) /\ SameSlot(ls, ns, j, k) /\ Leaf(ns, j, k) /\ ~ Mine(j, k)
  <2>1. k \in Dom(ls, j) /\ ~ (j = i + 1 /\ k \in fam)
    <3>1. k \in Fr(ls, j) => k \in Dom(ls, j)
      BY <1>3 DEF FreeLists, L
    <3> QED
      BY <1>4, <1>7, <3>1 DEF Leaf
  <2>2. SameSlot(ls, ns, j, k)
    BY <1>2, <1>7, <2>1
  <2>3. k \in Fr(ls, j) => k \in Fr(ns, j)
    BY <1>2, <1>7
  <2>4. k \in Dom(ns, j)
    BY <1>2, <2>1
  <2> QED
    BY <1>7, <2>1, <2>2, <2>3, <2>4 DEF Leaf, SameSlot
<1>8. ASSUME NEW k \in fam PROVE Leaf(ns, i + 1, k)
  BY <1>1, <1>2 DEF Leaf
<1>9. ASSUME NEW j \in 1 .. L, NEW k \in Nat, Leaf(ns, j, k), ~ Mine(j, k)
      PROVE  Old(j, k)
  <2>1. (k \in Dom(ls, j) /\ k # idx) \/ j # i
    <3>1. ~ (j = i /\ k = idx)
      BY <1>1, <1>2, <1>9 DEF Leaf
    <3> QED
      BY <1>1, <1>2, <1>9, <3>1 DEF Leaf
  <2>2. k \in Dom(ls, j)
    BY <1>2, <1>9 DEF Leaf
  <2>3. SameSlot(ls, ns, j, k)
    BY <1>2, <1>9, <2>1, <2>2
  <2>4. k \in Fr(ns, j) => k \in Fr(ls, j)
    BY <1>2, <1>9
  <2> QED
    BY <1>9, <2>1, <2>2, <2>3, <2>4 DEF Leaf, SameSlot
<1>10. ASSUME NEW j \in 1 .. L, NEW k \in Nat, NEW x \in Int, Old(j, k)
       PROVE  Holds(lv, ns, j, k, x) <=> Holds(lv, ls, j, k, x)
  BY <1>7, <1>10 DEF Holds, SameSlot
<1>11. ASSUME NEW k \in fam, NEW x \in Int
       PROVE  Holds(lv, ns, i + 1, k, x) <=> Part(a, b, c, k, x)
  BY <1>2 DEF Holds, Part, c
<1>12. /\ \A x \in Int : Holds(lv, ls, i, idx, x) => \E k \in fam : Part(a, b, c, k, x)
       /\ \A x \in Int : \A k \in fam : Part(a, b, c, k, x) => Holds(lv, ls, i, idx, x)
       /\ \A x \in Int : \A k, l \in fam : Part(a, b, c, k, x) /\ Part(a, b, c, l, x) => k = l
  <2> DEFINE m == Kids(lv, i)
  <2>1. m \in Nat /\ m * c = lv[i] /\ fam = b .. b + m - 1
    BY <1>6 DEF Cuts, c, fam, Family
  <2> HIDE DEF m
  <2>2. Parted(a, b, c, m)
    BY <1>6, <2>1, PartsCover
  <2>3. \A x : Holds(lv, ls, i, idx, x) <=> a <= x /\ x < a + m * c
    BY <2>1 DEF Holds, a
  <2>4. \A k \in fam : k \in Int
    BY <1>6
  <2> QED
    BY <2>1, <2>2, <2>3, <2>4 DEF Parted
<1> HIDE DEF Mine, Old
<1>13. Tiles(lv, ns, U)
  <2>0. /\ \A j \in 1 .. L : \A k \in Nat : \A x \in Int :
             Leaf(ls, j, k) /\ Holds(lv, ls, j, k, x) => x \in U
        /\ \A x \in Int : x \in U =>
             \E j \in 1 .. L : \E k \in Nat : Leaf(ls, j, k) /\ Holds(lv, ls, j, k, x)
        /\ \A j, h \in 1 .. L : \A k, m \in Nat : \A x \in Int :
             /\ Leaf(ls, j, k) /\ Holds(lv, ls, j, k, x)
             /\ Leaf(ls, h, m) /\ Holds(lv, ls, h, m, x)
             => j = h /\ k = m
    BY DEF Tiles, L
  <2>1. ASSUME NEW j \in 1 .. L, NEW k \in Nat, NEW x \in Int,
               Leaf(ns, j, k), Holds(lv, ns, j, k, x)
        PROVE  \/ Old(j, k) /\ Leaf(ls, j, k) /\ Holds(lv, ls, j, k, x)
               \/ j = i + 1 /\ k \in fam /\ Part(a, b, c, k, x) /\ Holds(lv, ls, i, idx, x)
    <3>1. CASE Mine(j, k)
      BY <1>11, <1>12, <2>1, <3>1 DEF Mine
    <3>2. CASE ~ Mine(j, k)
      BY <1>9, <1>10, <2>1, <3>2 DEF Old
    <3> QED
      BY <3>1, <3>2
  <2>2. ASSUME NEW j \in 1 .. L, NEW k \in Nat, NEW x \in Int,
               Leaf(ns, j, k), Holds(lv, ns, j, k, x)
        PROVE  x \in U
    BY <1>1, <1>5, <1>6, <2>0, <2>1, <2>2
  <2>3. ASSUME NEW x \in Int, x \in U
        PROVE  \E j \in 1 .. L : \E k \in Nat : Leaf(ns, j, k) /\ Holds(lv, ns, j, k, x)
    <3>1. PICK j \in 1 .. L, k \in Nat : Leaf(ls, j, k) /\ Holds(lv, ls, j, k, x)
      BY <2>0, <2>3
    <3>2. CASE j = i /\ k = idx
      <4>1. PICK l \in fam : Part(a, b, c, l, x)
        BY <1>12, <3>1, <3>2
      <4> QED
        BY <1>1, <1>6, <1>8, <1>11, <4>1
    <3>3. CASE ~ (j = i /\ k = idx)
      BY <1>7, <1>10, <3>1, <3>3 DEF Old
    <3> QED
      BY <3>2, <3>3
  <2>4. ASSUME NEW j \in 1 .. L, NEW h \in 1 .. L, NEW k \in Nat, NEW m \in Nat, NEW x \in Int,
               Leaf(ns, j, k), Holds(lv, ns, j, k, x), Leaf(ns, h, m), Holds(lv, ns, h, m, x)
        PROVE  j = h /\ k = m
    <3>1. /\ \/ Old(j, k) /\ Leaf(ls, j, k) /\ Holds(lv, ls, j, k, x)
             \/ j = i + 1 /\ k \in fam /\ Part(a, b, c, k, x) /\ Holds(lv, ls, i, idx, x)
          /\ \/ Old(h, m) /\ Leaf(ls, h, m) /\ Holds(lv, ls, h, m, x)
             \/ h = i + 1 /\ m \in fam /\ Part(a, b, c, m, x) /\ Holds(lv, ls, i, idx, x)
      BY <2>1, <2>4
    <3>2. CASE Old(j, k) /\ Old(h, m)
      <4>1. Leaf(ls, j, k) /\ Holds(lv, ls, j, k, x) /\ Leaf(ls, h, m) /\ Holds(lv, ls, h, m, x)
        BY <1>7, <1>10, <2>4, <3>2 DEF Old
      <4> QED
        BY <2>0, <4>1, Zenon
    <3>3. CASE ~ Old(j, k) /\ ~ Old(h, m)
      BY <1>12, <3>1, <3>3
    <3>4. CASE Old(j, k) /\ ~ Old(h, m)
      <4>1. Leaf(ls, j, k) /\ Holds(lv, ls, j, k, x) /\ Holds(lv, ls, i, idx, x)
        BY <1>10, <2>4, <3>1, <3>4 DEF Old
      <4>2. j = i /\ k = idx
        BY <1>1, <1>5, <1>6, <2>0, <4>1, Zenon
      <4> QED
        BY <3>4, <4>2 DEF Old
    <3>5. CASE ~ Old(j, k) /\ Old(h, m)
      <4>1. Leaf(ls, h, m) /\ Holds(lv, ls, h, m, x) /\ Holds(lv, ls, i, idx, x)
        BY <1>10, <2>4, <3>1, <3>5 DEF Old
      <4>2. h = i /\ m = idx
        BY <1>1, <1>5, <1>6, <2>0, <4>1, Zenon
      <4> QED
        BY <3>5, <4>2 DEF Old
    <3> QED
      BY <3>2, <3>3, <3>4, <3>5
  <2> QED
    BY <2>2, <2>3, <2>4 DEF Tiles, L
<1>14. ASSUME NEW j \in 1 .. L, NEW k \in Nat
       PROVE  k \in Dom(ns, j) /\ St(ns, j, k) = "InUse" <=> k \in Dom(ls, j) /\ St(ls, j, k) = "InUse"
  <2>1. CASE Mine(j, k)
    BY <1>1, <1>2, <1>4, <2>1 DEF Mine
  <2>2. CASE j = i /\ k = idx
    BY <1>1, <1>2, <1>5, <2>2
  <2>3. CASE ~ Mine(j, k) /\ ~ (j = i /\ k = idx)
    <3>1. k \in Dom(ns, j) <=> k \in Dom(ls, j)
      BY <1>2, <2>3 DEF Mine
    <3>2. k \in Dom(ls, j) => SameSlot(ls, ns, j, k)
      BY <1>2, <2>3 DEF Mine
    <3> QED
      BY <3>1, <3>2 DEF SameSlot
  <2> QED
    BY <2>1, <2>2, <2>3
<1>15. InUse(lv, ns) = InUse(lv, ls)
  <2>1. ASSUME NEW p \in (1 .. L) \X Nat
        PROVE  p[2] \in Dom(ns, p[1]) /\ St(ns, p[1], p[2]) = "InUse"
                 <=> p[2] \in Dom(ls, p[1]) /\ St(ls, p[1], p[2]) = "InUse"
    BY <1>14
  <2> QED
    BY <2>1 DEF InUse, L
<1>16. ASSUME NEW p \in InUse(lv, ls) PROVE Ad(ns, p[1], p[2]) = Ad(ls, p[1], p[2])
  <2>1. /\ p[1] \in 1 .. L /\ p[2] \in Nat /\ p[2] \in Dom(ls, p[1])
        /\ St(ls, p[1], p[2]) = "InUse"
    BY DEF InUse, L
  <2>2. Old(p[1], p[2])
    BY <1>5, <2>1 DEF Old, Leaf
  <2> QED
    BY <1>7, <2>1, <2>2 DEF SameSlot
<1> QED
  BY <1>13, <1>15, <1>16

-----------------------------------------------------------------------------
(* A new reservation *)

\* The first layer gets new root slots, numbered from b, over the bytes from base.
GrowEffect(lv, ls, ns, b, count, base) ==
    LET new == b .. b + count - 1 IN
    /\ Made(lv, ns)
    /\ \A j \in 1 .. Len(lv) :
         /\ Dom(ns, j) = IF j = 1 THEN Dom(ls, j) \cup new ELSE Dom(ls, j)
         /\ Fr(ns, j) = IF j = 1 THEN Fr(ls, j) \cup new ELSE Fr(ls, j)
         /\ Sp(ns, j) = Sp(ls, j)
         /\ \A k \in Dom(ls, j) : SameSlot(ls, ns, j, k)
    /\ new \cap Dom(ls, 1) = {}
    /\ \A k \in new : St(ns, 1, k) = "Free" /\ Pa(ns, 1, k) = 0 /\ Ad(ns, 1, k) = base + (k - b) * lv[1]
    /\ count > 0 => ns[1].free # <<>>

\* What addRegion does.
LEMMA GrowDone ==
    ASSUME NEW lv, NEW ls, GoodLevels(lv), Forest(lv, ls), NEW base \in Nat, NEW bytes \in Nat
    PROVE  \E b \in Nat : GrowEffect(lv, ls, Regioned(ls, base, bytes), b, bytes \div lv[1], base)
<1>1. ls \in [1 .. Len(lv) -> Layers] /\ \A j \in 1 .. Len(lv) : ls[j] \in Layers /\ ls[j].size = lv[j]
  BY DEF Forest, AreLayers
<1>2. 1 \in 1 .. Len(lv) /\ lv[1] \in Nat /\ lv[1] > 0
  BY LevelFacts
<1> DEFINE root == ls[1]
           count == bytes \div root.size
           len == Len(root.slots)
           new == [i \in 1 .. count |-> NewSlot(base + (i - 1) * root.size, 0)]
           newSlots == root.slots \o new
           newFree == root.free \o [i \in 1 .. count |-> Len(root.slots) + i]
           ns == Regioned(ls, base, bytes)
           b == len + 1
           fam == b .. b + count - 1
<1>3. root = [size |-> lv[1], slots |-> root.slots, free |-> root.free, span |-> root.span]
      /\ root.size = lv[1] /\ root.slots \in Seq(SlotRecords) /\ root.free \in Seq(Nat) /\ root.span \in Seq(Nat)
  BY <1>1, <1>2 DEF Layers
<1>4. count \in Nat
  <2>1. \A c \in Nat : c > 0 => bytes \div c \in Nat
    OBVIOUS
  <2> QED
    BY <1>2, <1>3, <2>1
<1>5. len \in Nat /\ b \in Nat /\ b >= 1 /\ Dom(ls, 1) = 1 .. len /\ DOMAIN root.slots = 1 .. len
  BY <1>3 DEF Dom
<1>6. ns = [ls EXCEPT ![1] = [root EXCEPT !.slots = newSlots, !.free = newFree]]
  BY DEF Regioned
<1>7. newFree = root.free \o [k \in 1 .. count |-> b + k - 1]
  <2>1. [i \in 1 .. count |-> len + i] = [k \in 1 .. count |-> b + k - 1]
    <3>1. \A k \in 1 .. count : len + k = b + k - 1
      BY <1>4, <1>5
    <3> QED
      BY <3>1
  <2> QED
    BY <2>1, Zenon
<1>8. \A k \in 1 .. count : base + (k - 1) * root.size \in Int
  <2> TAKE k \in 1 .. count
  <2>1. (k - 1) * root.size \in Int
    BY <1>2, <1>3, <1>4
  <2> QED
    BY <2>1
<1>9. new \in Seq(SlotRecords) /\ Len(new) = count
  <2>1. \A k \in 1 .. count : new[k] \in SlotRecords
    BY <1>8 DEF NewSlot, SlotRecords
  <2>2. new = [k \in 1 .. count |-> new[k]]
    OBVIOUS
  <2> HIDE DEF new
  <2> QED
    BY <1>4, <2>1, <2>2
<1> HIDE DEF root, count, new, newSlots, newFree, ns, len
<1>10. /\ newSlots \in Seq(SlotRecords) /\ Len(newSlots) = len + count
       /\ \A k \in 1 .. len + count : newSlots[k] = IF k <= len THEN root.slots[k] ELSE new[k - len]
  BY <1>3, <1>9, ConcatProperties DEF newSlots, len
<1>11. DOMAIN newSlots = Dom(ls, 1) \cup fam /\ fam \cap Dom(ls, 1) = {}
  <2>1. DOMAIN newSlots = 1 .. len + count
    BY <1>10
  <2>2. 1 .. len + count = (1 .. len) \cup (len + 1 .. len + 1 + count - 1)
    BY <1>4, <1>5
  <2>3. (len + 1 .. len + 1 + count - 1) \cap (1 .. len) = {}
    BY <1>4, <1>5
  <2> QED
    BY <1>5, <2>1, <2>2, <2>3
<1>12. ASSUME NEW k \in fam PROVE newSlots[k] = NewSlot(base + (k - b) * lv[1], 0)
  <2>1. k \in 1 .. len + count /\ ~ (k <= len) /\ k - len \in 1 .. count /\ (k - len) - 1 = k - b
    BY <1>4, <1>5
  <2>2. new[k - len] = NewSlot(base + ((k - len) - 1) * root.size, 0)
    BY <2>1 DEF new
  <2> QED
    BY <1>3, <1>10, <2>1, <2>2
<1>13. ASSUME NEW k \in Dom(ls, 1) PROVE newSlots[k] = ls[1].slots[k]
  <2>1. k \in 1 .. len + count /\ k <= len
    BY <1>4, <1>5
  <2> QED
    BY <1>10, <2>1 DEF root
<1>14. Once(ls, 1) /\ Fr(ls, 1) \subseteq Dom(ls, 1) /\ Elems(root.free) = Fr(ls, 1) /\ IsInjective(root.free)
       /\ IsInjective(root.span) /\ Elems(root.span) = Sp(ls, 1)
  BY <1>2 DEF Forest, FreeLists, Once, Fr, Sp, root
<1>15. Longer(root.free, newFree, fam)
  BY <1>3, <1>4, <1>5, <1>7, ConcatElems
<1>16. newFree \in Seq(Nat) /\ Elems(newFree) = Fr(ls, 1) \cup fam /\ IsInjective(newFree)
  BY <1>11, <1>14, <1>15 DEF Longer
<1>17. count > 0 => newFree # <<>>
  <2> SUFFICES ASSUME count > 0 PROVE newFree # <<>>
    OBVIOUS
  <2>1. b \in fam
    BY <1>4, <1>5
  <2> QED
    BY <1>15, <2>1 DEF Longer
<1>18. /\ ns[1] = [size |-> lv[1], slots |-> newSlots, free |-> newFree, span |-> root.span]
       /\ \A j \in 1 .. Len(lv) : j # 1 => ns[j] = ls[j]
  <2>1. /\ ns[1] = [root EXCEPT !.slots = newSlots, !.free = newFree]
        /\ \A j \in 1 .. Len(lv) : j # 1 => ns[j] = ls[j]
    BY <1>1, <1>2, <1>6 DEF root
  <2> QED
    BY <1>3, <2>1
<1> HIDE DEF fam, b
<1>19. /\ ns[1].slots = newSlots /\ ns[1].free = newFree /\ ns[1].span = root.span
       /\ ns[1].size = lv[1] /\ ns[1] \in Layers
  BY <1>2, <1>3, <1>10, <1>16, <1>18 DEF Layers
<1>20. Made(lv, ns)
  <2>1. ASSUME NEW j \in 1 .. Len(lv) PROVE ns[j] \in Layers /\ ns[j].size = lv[j]
    BY <1>1, <1>18, <1>19
  <2>2. ns \in [1 .. Len(lv) -> Layers]
    <3>1. ns = [j \in 1 .. Len(lv) |-> ns[j]]
      BY <1>1, <1>6
    <3> QED
      BY <2>1, <3>1
  <2>3. ASSUME NEW j \in 1 .. Len(lv) PROVE Once(ns, j)
    <3>1. CASE j = 1
      BY <1>14, <1>16, <1>19, <3>1 DEF Once
    <3>2. CASE j # 1
      BY <1>18, <3>2 DEF Once, Forest, FreeLists
    <3> QED
      BY <3>1, <3>2
  <2> QED
    BY <2>1, <2>2, <2>3 DEF Made, AreLayers
<1>21. ASSUME NEW j \in 1 .. Len(lv)
       PROVE  /\ Dom(ns, j) = IF j = 1 THEN Dom(ls, j) \cup fam ELSE Dom(ls, j)
              /\ Fr(ns, j) = IF j = 1 THEN Fr(ls, j) \cup fam ELSE Fr(ls, j)
              /\ Sp(ns, j) = Sp(ls, j)
              /\ \A k \in Dom(ls, j) : SameSlot(ls, ns, j, k)
  <2>1. CASE j = 1
    BY <1>11, <1>13, <1>14, <1>16, <1>19, <2>1 DEF Dom, Fr, Sp, SameSlot, St, Ad, Pa, Ch
  <2>2. CASE j # 1
    BY <1>18, <2>2 DEF Dom, Fr, Sp, SameSlot, St, Ad, Pa, Ch
  <2> QED
    BY <2>1, <2>2
<1>22. ASSUME NEW k \in fam
       PROVE  St(ns, 1, k) = "Free" /\ Pa(ns, 1, k) = 0 /\ Ad(ns, 1, k) = base + (k - b) * lv[1]
  <2> DEFINE y == base + (k - b) * lv[1]
  <2>1. newSlots[k] = NewSlot(y, 0)
    BY <1>12
  <2> HIDE DEF y
  <2>2. St(ns, 1, k) = "Free" /\ Pa(ns, 1, k) = 0 /\ Ad(ns, 1, k) = y
    BY <1>19, <2>1 DEF St, Pa, Ad, NewSlot
  <2> QED
    BY <2>2 DEF y
<1>23. GrowEffect(lv, ls, ns, b, count, base)
  BY <1>11, <1>17, <1>19, <1>20, <1>21, <1>22 DEF GrowEffect, fam
<1>24. count = bytes \div lv[1]
  BY <1>3 DEF count
<1> QED
  BY <1>5, <1>23, <1>24 DEF ns, b

\* New root slots leave every slot in its place.
LEMMA GrowForest ==
    ASSUME NEW lv, NEW ls, NEW ns, GoodLevels(lv), Forest(lv, ls),
           NEW b \in Nat, NEW count \in Nat, NEW base \in Nat,
           GrowEffect(lv, ls, ns, b, count, base)
    PROVE  Forest(lv, ns) /\ (FullBut(lv, ls, {}) => FullBut(lv, ns, {}))
<1> DEFINE L == Len(lv)
           new == b .. b + count - 1
<1>1. L \in Nat /\ 1 \in 1 .. L /\ \A j \in 1 .. L - 1 : j \in 1 .. L /\ j + 1 \in 1 .. L /\ j + 1 # 1
  BY LevelFacts
<1>2. /\ AreLayers(lv, ns) /\ \A j \in 1 .. L : Once(ns, j)
      /\ \A j \in 1 .. L :
           /\ Dom(ns, j) = IF j = 1 THEN Dom(ls, j) \cup new ELSE Dom(ls, j)
           /\ Fr(ns, j) = IF j = 1 THEN Fr(ls, j) \cup new ELSE Fr(ls, j)
           /\ Sp(ns, j) = Sp(ls, j)
           /\ \A k \in Dom(ls, j) : SameSlot(ls, ns, j, k)
      /\ new \cap Dom(ls, 1) = {}
      /\ \A k \in new : St(ns, 1, k) = "Free" /\ Pa(ns, 1, k) = 0
  BY DEF GrowEffect, Made
<1>3. FreeLists(lv, ls) /\ Retired(lv, ls) /\ SplitSlots(lv, ls) /\ Parents(lv, ls)
  BY DEF Forest
<1> HIDE DEF L, new
<1>4. FreeLists(lv, ns)
  BY <1>2, <1>3 DEF FreeLists, SameSlot, L
<1>5. Retired(lv, ns)
  BY <1>1, <1>2, <1>3 DEF Retired, SameSlot, L
<1>6. ASSUME NEW j \in 1 .. L, NEW p \in Dom(ns, j), St(ns, j, p) # "Free"
      PROVE  p \in Dom(ls, j) /\ SameSlot(ls, ns, j, p)
  BY <1>2, <1>6
<1>7. SplitSlots(lv, ns)
  BY <1>1, <1>2, <1>3, <1>6 DEF SplitSlots, ChildOf, SameSlot, L
<1>8. Parents(lv, ns)
  <2>1. ASSUME NEW k \in Dom(ns, 1) PROVE Pa(ns, 1, k) = 0
    BY <1>1, <1>2, <1>3 DEF Parents, SameSlot
  <2>2. ASSUME NEW j \in 1 .. L - 1, NEW k \in Dom(ns, j + 1),
               St(ns, j + 1, k) # "Free" \/ k \in Fr(ns, j + 1)
        PROVE  HasParent(lv, ns, j, k)
    <3>1. k \in Dom(ls, j + 1) /\ SameSlot(ls, ns, j + 1, k) /\ Fr(ns, j + 1) = Fr(ls, j + 1)
      BY <1>1, <1>2
    <3>2. HasParent(lv, ls, j, k)
      BY <1>3, <2>2, <3>1 DEF Parents, SameSlot, L
    <3> QED
      BY <1>1, <1>2, <3>1, <3>2 DEF HasParent, SameSlot
  <2>3. \A k \in Dom(ns, L) : St(ns, L, k) # "Split"
    <3>1. L \in 1 .. L
      BY <1>1
    <3> QED
      BY <1>3, <1>6, <3>1 DEF Parents, SameSlot, L
  <2> QED
    BY <2>1, <2>2, <2>3 DEF Parents, L
<1>9. FullBut(lv, ls, {}) => FullBut(lv, ns, {})
  <2> SUFFICES ASSUME FullBut(lv, ls, {}), NEW j \in 1 .. L - 1, NEW p \in Dom(ns, j), St(ns, j, p) = "Split"
               PROVE  \E k \in Family(lv, j, Ch(ns, j, p)) : St(ns, j + 1, k) # "Free"
    BY DEF FullBut, L
  <2>1. p \in Dom(ls, j) /\ St(ls, j, p) = "Split" /\ Ch(ns, j, p) = Ch(ls, j, p)
    BY <1>1, <1>6 DEF SameSlot
  <2>2. PICK k \in Family(lv, j, Ch(ls, j, p)) : St(ls, j + 1, k) # "Free"
    BY <2>1 DEF FullBut, L
  <2>3. k \in Dom(ls, j + 1)
    BY <1>3, <2>1 DEF SplitSlots, ChildOf, L
  <2>4. St(ns, j + 1, k) = St(ls, j + 1, k)
    BY <1>1, <1>2, <2>3 DEF SameSlot
  <2> QED
    BY <2>1, <2>2, <2>4
<1> QED
  BY <1>2, <1>4, <1>5, <1>7, <1>8, <1>9 DEF Forest

\* After the reservation the bytes of V are partitioned, and nothing else is in use.
Grown(lv, ls, ns, V) ==
    /\ Tiles(lv, ns, V) /\ InUse(lv, ns) = InUse(lv, ls)
    /\ \A p \in InUse(lv, ls) : Ad(ns, p[1], p[2]) = Ad(ls, p[1], p[2])

\* The bytes of a reservation.
Span(base, bytes) == base .. base + bytes - 1

\* The new slots have the bytes reserved, which are none of those of U.
LEMMA GrowTiles ==
    ASSUME NEW lv, NEW ls, NEW ns, NEW U, NEW bytes \in Nat, GoodLevels(lv), Forest(lv, ls),
           NEW b \in Nat, NEW count \in Nat, NEW base \in Nat, count * lv[1] = bytes,
           GrowEffect(lv, ls, ns, b, count, base), Tiles(lv, ls, U),
           \A x \in Span(base, bytes) : x \notin U
    PROVE  Grown(lv, ls, ns, U \cup Span(base, bytes))
<1> DEFINE L == Len(lv)
           new == b .. b + count - 1
           c == lv[1]
           W == base .. base + bytes - 1
<1>0. Span(base, bytes) = W
  BY DEF Span
<1>1. L \in Nat /\ 1 \in 1 .. L /\ c \in Nat /\ c > 0
  BY LevelFacts
<1>2. /\ \A j \in 1 .. L :
           /\ Dom(ns, j) = IF j = 1 THEN Dom(ls, j) \cup new ELSE Dom(ls, j)
           /\ Fr(ns, j) = IF j = 1 THEN Fr(ls, j) \cup new ELSE Fr(ls, j)
           /\ \A k \in Dom(ls, j) : SameSlot(ls, ns, j, k)
      /\ new \cap Dom(ls, 1) = {}
      /\ \A k \in new : St(ns, 1, k) = "Free" /\ Ad(ns, 1, k) = base + (k - b) * c
  BY DEF GrowEffect
<1>3. FreeLists(lv, ls)
  BY DEF Forest
<1>4. new \in SUBSET Nat
  OBVIOUS
<1>5. /\ \A x \in Int : x \in W => \E k \in new : Part(base, b, c, k, x)
      /\ \A x \in Int : \A k \in new : Part(base, b, c, k, x) => x \in W
      /\ \A x \in Int : \A k, l \in new : Part(base, b, c, k, x) /\ Part(base, b, c, l, x) => k = l
  <2>1. Parted(base, b, c, count)
    <3>1. base \in Int /\ b \in Int
      OBVIOUS
    <3> QED
      BY <1>1, <3>1, PartsCover
  <2>2. \A x \in Int : x \in W <=> base <= x /\ x < base + count * c
    OBVIOUS
  <2>3. \A k \in new : k \in Int
    BY <1>4
  <2> HIDE DEF W
  <2> QED
    BY <2>1, <2>2, <2>3 DEF Parted
<1> HIDE DEF L, new, c, W
<1>6. ASSUME NEW j \in 1 .. L, NEW k \in Nat
      PROVE  Leaf(ns, j, k) <=> Leaf(ls, j, k) \/ (j = 1 /\ k \in new)
  BY <1>1, <1>2, <1>3 DEF Leaf, SameSlot, FreeLists, L
<1>7. ASSUME NEW j \in 1 .. L, NEW k \in Nat, NEW x \in Int, Leaf(ls, j, k)
      PROVE  ~ (j = 1 /\ k \in new) /\ (Holds(lv, ns, j, k, x) <=> Holds(lv, ls, j, k, x))
  <2>1. k \in Dom(ls, j)
    BY <1>7 DEF Leaf
  <2> QED
    BY <1>2, <2>1 DEF Holds, SameSlot
<1>8. ASSUME NEW k \in new, NEW x \in Int
      PROVE  Holds(lv, ns, 1, k, x) <=> Part(base, b, c, k, x)
  BY <1>2 DEF Holds, Part, c
<1>9. /\ \A j \in 1 .. L : \A k \in Nat : \A x \in Int :
           Leaf(ls, j, k) /\ Holds(lv, ls, j, k, x) => x \in U
      /\ \A x \in Int : x \in U =>
           \E j \in 1 .. L : \E k \in Nat : Leaf(ls, j, k) /\ Holds(lv, ls, j, k, x)
      /\ \A j, h \in 1 .. L : \A k, m \in Nat : \A x \in Int :
           /\ Leaf(ls, j, k) /\ Holds(lv, ls, j, k, x)
           /\ Leaf(ls, h, m) /\ Holds(lv, ls, h, m, x)
           => j = h /\ k = m
  BY DEF Tiles, L
<1>10. \A x \in Int : x \in W => x \notin U
  BY <1>0, Zenon
<1>11. ASSUME NEW j \in 1 .. L, NEW k \in Nat, NEW x \in Int,
              Leaf(ns, j, k), Holds(lv, ns, j, k, x)
       PROVE  \/ Leaf(ls, j, k) /\ Holds(lv, ls, j, k, x) /\ x \in U
              \/ j = 1 /\ k \in new /\ Part(base, b, c, k, x) /\ x \in W
  BY <1>5, <1>6, <1>7, <1>8, <1>9, <1>11
<1>12. Tiles(lv, ns, U \cup W)
  <2>1. ASSUME NEW x \in Int, x \in U \cup W
        PROVE  \E j \in 1 .. L : \E k \in Nat : Leaf(ns, j, k) /\ Holds(lv, ns, j, k, x)
    <3>1. CASE x \in U
      <4>1. PICK j \in 1 .. L, k \in Nat : Leaf(ls, j, k) /\ Holds(lv, ls, j, k, x)
        BY <1>9, <3>1
      <4> QED
        BY <1>6, <1>7, <4>1
    <3>2. CASE x \in W
      <4>1. PICK k \in new : Part(base, b, c, k, x)
        BY <1>5, <3>2
      <4> QED
        BY <1>1, <1>4, <1>6, <1>8, <4>1
    <3> QED
      BY <2>1, <3>1, <3>2
  <2>2. ASSUME NEW j \in 1 .. L, NEW h \in 1 .. L, NEW k \in Nat, NEW m \in Nat, NEW x \in Int,
               Leaf(ns, j, k), Holds(lv, ns, j, k, x), Leaf(ns, h, m), Holds(lv, ns, h, m, x)
        PROVE  j = h /\ k = m
    <3>1. CASE x \in U
      <4>1. Leaf(ls, j, k) /\ Holds(lv, ls, j, k, x) /\ Leaf(ls, h, m) /\ Holds(lv, ls, h, m, x)
        BY <1>10, <1>11, <2>2, <3>1
      <4> QED
        BY <1>9, <4>1, Zenon
    <3>2. CASE x \notin U
      BY <1>5, <1>11, <2>2, <3>2
    <3> QED
      BY <3>1, <3>2
  <2>3. ASSUME NEW j \in 1 .. L, NEW k \in Nat, NEW x \in Int,
               Leaf(ns, j, k), Holds(lv, ns, j, k, x)
        PROVE  x \in U \cup W
    BY <1>11, <2>3
  <2> QED
    BY <2>1, <2>2, <2>3 DEF Tiles, L
<1>13. ASSUME NEW j \in 1 .. L, NEW k \in Nat
       PROVE  k \in Dom(ns, j) /\ St(ns, j, k) = "InUse" <=> k \in Dom(ls, j) /\ St(ls, j, k) = "InUse"
  BY <1>2 DEF SameSlot
<1>14. InUse(lv, ns) = InUse(lv, ls)
  <2>1. ASSUME NEW p \in (1 .. L) \X Nat
        PROVE  p[2] \in Dom(ns, p[1]) /\ St(ns, p[1], p[2]) = "InUse"
                 <=> p[2] \in Dom(ls, p[1]) /\ St(ls, p[1], p[2]) = "InUse"
    BY <1>13
  <2> QED
    BY <2>1 DEF InUse, L
<1>15. \A p \in InUse(lv, ls) : Ad(ns, p[1], p[2]) = Ad(ls, p[1], p[2])
  BY <1>2 DEF InUse, SameSlot, L
<1> QED
  BY <1>0, <1>12, <1>14, <1>15 DEF Grown

-----------------------------------------------------------------------------
(* Taking and giving back a slot *)

\* Slot idx of layer t gets the state st, and the free list the elements free.
MarkEffect(lv, ls, ns, t, idx, st, free) ==
    /\ Made(lv, ns)
    /\ \A j \in 1 .. Len(lv) :
         /\ Dom(ns, j) = Dom(ls, j) /\ Sp(ns, j) = Sp(ls, j)
         /\ Fr(ns, j) = IF j = t THEN free ELSE Fr(ls, j)
         /\ \A k \in Dom(ls, j) : ~ (j = t /\ k = idx) => SameSlot(ls, ns, j, k)
    /\ St(ns, t, idx) = st /\ Ad(ns, t, idx) = Ad(ls, t, idx)
    /\ Pa(ns, t, idx) = Pa(ls, t, idx) /\ Ch(ns, t, idx) = Ch(ls, t, idx)

\* A layer with another free list, and other fields in one of its slots.
Relabel(layer, idx, st, ch, free) ==
    [layer EXCEPT !.free = free,
                  !.slots = [layer.slots EXCEPT ![idx] =
                               [layer.slots[idx] EXCEPT !.state = st, !.child = ch]]]

Relabelled(layer, new, idx, st, ch, free) ==
    /\ new \in Layers /\ new.size = layer.size /\ new.free = free /\ new.span = layer.span
    /\ DOMAIN new.slots = DOMAIN layer.slots
    /\ \A k \in DOMAIN layer.slots : k # idx => new.slots[k] = layer.slots[k]
    /\ new.slots[idx].state = st /\ new.slots[idx].child = ch
    /\ new.slots[idx].addr = layer.slots[idx].addr
    /\ new.slots[idx].parent = layer.slots[idx].parent

LEMMA RelabelLayer ==
    ASSUME NEW layer \in Layers, NEW idx \in DOMAIN layer.slots, NEW st \in {"Free", "InUse", "Split"},
           NEW ch \in Nat, NEW free \in Seq(Nat)
    PROVE  Relabelled(layer, Relabel(layer, idx, st, ch, free), idx, st, ch, free)
<1> DEFINE new == Relabel(layer, idx, st, ch, free)
           slots == layer.slots
           slot == [slots[idx] EXCEPT !.state = st, !.child = ch]
           after == [slots EXCEPT ![idx] = slot]
           span == layer.span
           size == layer.size
<1>1. /\ layer = [size |-> size, slots |-> slots, free |-> layer.free, span |-> span]
      /\ slots \in Seq(SlotRecords) /\ span \in Seq(Nat) /\ size \in Nat
  BY DEF Layers
<1>2. new = [layer EXCEPT !.free = free, !.slots = after]
  BY DEF Relabel
<1> HIDE DEF slots
<1>3. slots[idx] \in SlotRecords
  BY <1>1 DEF slots
<1>4. slot \in SlotRecords /\ slot.state = st /\ slot.child = ch /\ slot.addr = slots[idx].addr
      /\ slot.parent = slots[idx].parent
  BY <1>3 DEF SlotRecords, slots
<1>5. /\ after \in Seq(SlotRecords) /\ DOMAIN after = DOMAIN slots
      /\ after[idx] = slot /\ \A k \in DOMAIN slots : k # idx => after[k] = slots[k]
  BY <1>1, <1>4 DEF slots
<1> HIDE DEF after, slot, new
<1>6. new = [size |-> size, slots |-> after, free |-> free, span |-> span]
  BY <1>2 DEF Layers
<1> HIDE DEF size, span
<1>7. new \in Layers /\ new.size = size /\ new.free = free /\ new.span = span /\ new.slots = after
  BY <1>1, <1>5, <1>6 DEF Layers
<1> QED
  BY <1>4, <1>5, <1>7 DEF Relabelled, slots, span, size, new

\* Relabelling one layer is all that MarkEffect allows.
LEMMA MarkLayers ==
    ASSUME NEW lv, NEW ls, NEW ns, GoodLevels(lv), Forest(lv, ls), NEW t \in 1 .. Len(lv),
           NEW idx \in Dom(ls, t), NEW st, NEW f,
           DOMAIN ns = 1 .. Len(lv), ns = [j \in DOMAIN ns |-> ns[j]],
           \A j \in 1 .. Len(lv) : j # t => ns[j] = ls[j],
           IsInjective(f), Relabelled(ls[t], ns[t], idx, st, Ch(ls, t, idx), f)
    PROVE  MarkEffect(lv, ls, ns, t, idx, st, Elems(f))
<1>1. /\ \A j \in 1 .. Len(lv) : Once(ls, j) /\ ls[j] \in Layers /\ ls[j].size = lv[j]
      /\ ns[t] \in Layers /\ ns[t].size = lv[t] /\ ns[t].free = f /\ ns[t].span = ls[t].span
  BY DEF Forest, FreeLists, AreLayers, Relabelled
<1>2. Made(lv, ns)
  <2>1. \A j \in 1 .. Len(lv) : ns[j] \in Layers /\ ns[j].size = lv[j]
    BY <1>1
  <2>2. ns \in [1 .. Len(lv) -> Layers]
    BY <2>1
  <2>3. \A j \in 1 .. Len(lv) : Once(ns, j)
    BY <1>1 DEF Once
  <2> QED
    BY <2>1, <2>2, <2>3 DEF Made, AreLayers
<1>3. ASSUME NEW j \in 1 .. Len(lv)
      PROVE  /\ Dom(ns, j) = Dom(ls, j) /\ Sp(ns, j) = Sp(ls, j)
             /\ Fr(ns, j) = IF j = t THEN Elems(f) ELSE Fr(ls, j)
             /\ \A k \in Dom(ls, j) : ~ (j = t /\ k = idx) => SameSlot(ls, ns, j, k)
  <2>1. CASE j = t
    BY <1>1, <2>1 DEF Dom, Fr, Sp, SameSlot, St, Ad, Pa, Ch, Relabelled
  <2>2. CASE j # t
    BY <2>2 DEF Dom, Fr, Sp, SameSlot, St, Ad, Pa, Ch
  <2> QED
    BY <2>1, <2>2
<1>4. /\ St(ns, t, idx) = st /\ Ad(ns, t, idx) = Ad(ls, t, idx)
      /\ Pa(ns, t, idx) = Pa(ls, t, idx) /\ Ch(ns, t, idx) = Ch(ls, t, idx)
  BY DEF Relabelled, St, Ad, Pa, Ch
<1> QED
  BY <1>2, <1>3, <1>4 DEF MarkEffect

\* What acquireSlot does.
LEMMA TakeDone ==
    ASSUME NEW lv, NEW ls, GoodLevels(lv), Forest(lv, ls), NEW t \in 1 .. Len(lv), ls[t].free # <<>>
    PROVE  /\ LastFree(ls, t) \in Fr(ls, t)
           /\ MarkEffect(lv, ls, acquireSlot(ls, t), t, LastFree(ls, t), "InUse", Fr(ls, t) \ {LastFree(ls, t)})
<1> DEFINE idx == LastFree(ls, t)
           f == Front(ls[t].free)
           ns == acquireSlot(ls, t)
           slot == [ls[t].slots[idx] EXCEPT !.state = "InUse"]
<1>1. /\ ls \in [1 .. Len(lv) -> Layers] /\ ls[t] \in Layers /\ ls[t].size = lv[t] /\ Once(ls, t)
      /\ ls[t].free \in Seq(Nat) /\ ls[t].slots \in Seq(SlotRecords)
  BY DEF Forest, AreLayers, FreeLists, Layers
<1>2. /\ f \in Seq(Nat) /\ IsInjective(f) /\ Elems(f) = Fr(ls, t) \ {idx} /\ idx \in Fr(ls, t)
  BY <1>1, FrontElems DEF Once, Fr, LastFree
<1>3. idx \in Dom(ls, t)
  BY <1>2 DEF Forest, FreeLists
<1>4. ns = [ls EXCEPT ![t] = [ls[t] EXCEPT !.free = f, !.slots[idx].state = "InUse"]]
  BY DEF acquireSlot, LastFree
<1>5. ls[t].slots[idx] \in SlotRecords /\ idx \in DOMAIN ls[t].slots
  BY <1>1, <1>3 DEF Dom
<1>6. Ch(ls, t, idx) \in Nat
  BY <1>5 DEF Ch, SlotRecords
<1> HIDE DEF idx, f, ns
<1>7. /\ DOMAIN ns = 1 .. Len(lv) /\ ns = [j \in DOMAIN ns |-> ns[j]]
      /\ \A j \in 1 .. Len(lv) : j # t => ns[j] = ls[j]
      /\ ns[t] = [ls[t] EXCEPT !.free = f, !.slots[idx].state = "InUse"]
  BY <1>1, <1>4
<1>8. slot = [ls[t].slots[idx] EXCEPT !.state = "InUse", !.child = Ch(ls, t, idx)]
  BY <1>5 DEF SlotRecords, Ch
<1>9. ns[t] = Relabel(ls[t], idx, "InUse", Ch(ls, t, idx), f)
  <2>1. ns[t] = [ls[t] EXCEPT !.free = f, !.slots = [ls[t].slots EXCEPT ![idx] = slot]]
    BY <1>1, <1>7 DEF Layers
  <2> HIDE DEF slot
  <2> QED
    BY <1>8, <2>1 DEF Relabel
<1>10. Relabelled(ls[t], ns[t], idx, "InUse", Ch(ls, t, idx), f)
  <2>1. "InUse" \in {"Free", "InUse", "Split"}
    OBVIOUS
  <2> QED
    BY <1>1, <1>2, <1>5, <1>6, <1>9, <2>1, RelabelLayer
<1>11. MarkEffect(lv, ls, ns, t, idx, "InUse", Elems(f))
  BY <1>2, <1>3, <1>7, <1>10, MarkLayers
<1> QED
  BY <1>2, <1>11 DEF idx, ns

\* What releaseSlot does.
LEMMA GiveDone ==
    ASSUME NEW lv, NEW ls, GoodLevels(lv), Forest(lv, ls), NEW t \in 1 .. Len(lv),
           NEW idx \in Dom(ls, t), St(ls, t, idx) = "InUse"
    PROVE  MarkEffect(lv, ls, releaseSlot(ls, t, idx), t, idx, "Free", Fr(ls, t) \cup {idx})
<1> DEFINE f == Append(ls[t].free, idx)
           ns == releaseSlot(ls, t, idx)
           slot == [ls[t].slots[idx] EXCEPT !.state = "Free"]
<1>1. /\ ls \in [1 .. Len(lv) -> Layers] /\ ls[t] \in Layers /\ ls[t].size = lv[t] /\ Once(ls, t)
      /\ ls[t].free \in Seq(Nat) /\ ls[t].slots \in Seq(SlotRecords)
  BY DEF Forest, AreLayers, FreeLists, Layers
<1>2. idx \in Nat /\ idx \notin Fr(ls, t)
  BY LayerTypes DEF Forest, FreeLists
<1>3. /\ f \in Seq(Nat) /\ IsInjective(f) /\ Elems(f) = Fr(ls, t) \cup {idx}
  BY <1>1, <1>2, AppendElems DEF Once, Fr
<1>4. ns = [ls EXCEPT ![t] = [ls[t] EXCEPT !.free = f, !.slots[idx].state = "Free"]]
  BY DEF releaseSlot
<1>5. ls[t].slots[idx] \in SlotRecords /\ idx \in DOMAIN ls[t].slots
  BY <1>1 DEF Dom
<1>6. Ch(ls, t, idx) \in Nat
  BY <1>5 DEF Ch, SlotRecords
<1> HIDE DEF f, ns
<1>7. /\ DOMAIN ns = 1 .. Len(lv) /\ ns = [j \in DOMAIN ns |-> ns[j]]
      /\ \A j \in 1 .. Len(lv) : j # t => ns[j] = ls[j]
      /\ ns[t] = [ls[t] EXCEPT !.free = f, !.slots[idx].state = "Free"]
  BY <1>1, <1>4
<1>8. slot = [ls[t].slots[idx] EXCEPT !.state = "Free", !.child = Ch(ls, t, idx)]
  BY <1>5 DEF SlotRecords, Ch
<1>9. ns[t] = Relabel(ls[t], idx, "Free", Ch(ls, t, idx), f)
  <2>1. ns[t] = [ls[t] EXCEPT !.free = f, !.slots = [ls[t].slots EXCEPT ![idx] = slot]]
    BY <1>1, <1>7 DEF Layers
  <2> HIDE DEF slot
  <2> QED
    BY <1>8, <2>1 DEF Relabel
<1>10. Relabelled(ls[t], ns[t], idx, "Free", Ch(ls, t, idx), f)
  <2>1. "Free" \in {"Free", "InUse", "Split"}
    OBVIOUS
  <2> QED
    BY <1>1, <1>3, <1>5, <1>6, <1>9, <2>1, RelabelLayer
<1>11. MarkEffect(lv, ls, ns, t, idx, "Free", Elems(f))
  BY <1>3, <1>7, <1>10, MarkLayers
<1> QED
  BY <1>3, <1>11 DEF ns

\* A slot that is taken or given back: it was, and is, in use or on the free list.
Marks(ls, t, idx, st, free) ==
    \/ idx \in Fr(ls, t) /\ st = "InUse" /\ free = Fr(ls, t) \ {idx}
    \/ idx \in Dom(ls, t) /\ St(ls, t, idx) = "InUse" /\ st = "Free" /\ free = Fr(ls, t) \cup {idx}

\* It leaves every slot in its place, and the bytes partitioned.
LEMMA MarkForest ==
    ASSUME NEW lv, NEW ls, NEW ns, NEW U, GoodLevels(lv), Forest(lv, ls), NEW t \in 1 .. Len(lv),
           NEW idx, NEW st, NEW free, Marks(ls, t, idx, st, free),
           MarkEffect(lv, ls, ns, t, idx, st, free), Tiles(lv, ls, U)
    PROVE  Forest(lv, ns) /\ Tiles(lv, ns, U)
<1> DEFINE L == Len(lv)
<1>1. L \in Nat /\ 1 \in 1 .. L /\ \A j \in 1 .. L - 1 : j \in 1 .. L /\ j + 1 \in 1 .. L
  BY LevelFacts
<1>2. /\ AreLayers(lv, ns) /\ \A j \in 1 .. L : Once(ns, j)
      /\ \A j \in 1 .. L :
           /\ Dom(ns, j) = Dom(ls, j) /\ Sp(ns, j) = Sp(ls, j)
           /\ Fr(ns, j) = IF j = t THEN free ELSE Fr(ls, j)
           /\ \A k \in Dom(ls, j) : ~ (j = t /\ k = idx) => SameSlot(ls, ns, j, k)
      /\ St(ns, t, idx) = st
      /\ \A j \in 1 .. L : \A k \in Dom(ls, j) :
           /\ Ad(ns, j, k) = Ad(ls, j, k) /\ Pa(ns, j, k) = Pa(ls, j, k) /\ Ch(ns, j, k) = Ch(ls, j, k)
  BY DEF MarkEffect, Made, SameSlot
<1>3. FreeLists(lv, ls) /\ Retired(lv, ls) /\ SplitSlots(lv, ls) /\ Parents(lv, ls)
  BY DEF Forest
<1>4. /\ idx \in Dom(ls, t) /\ St(ls, t, idx) # "Split" /\ Leaf(ls, t, idx)
      /\ ~ (St(ls, t, idx) = "Free" /\ idx \notin Fr(ls, t))
  BY <1>3 DEF Marks, FreeLists, Leaf
<1> HIDE DEF L
<1>5. ASSUME NEW j \in 1 .. L, NEW k \in Dom(ls, j)
      PROVE  /\ St(ns, j, k) = "Split" <=> St(ls, j, k) = "Split"
             /\ (St(ns, j, k) # "Free" \/ k \in Fr(ns, j)) <=> (St(ls, j, k) # "Free" \/ k \in Fr(ls, j))
             /\ (St(ns, j, k) = "InUse" \/ k \in Fr(ns, j)) <=> (St(ls, j, k) = "InUse" \/ k \in Fr(ls, j))
             /\ (St(ls, j, k) = "Free" /\ k \notin Fr(ls, j)) => SameSlot(ls, ns, j, k)
  <2>1. CASE j = t /\ k = idx
    BY <1>2, <1>4, <2>1 DEF Marks
  <2>2. CASE ~ (j = t /\ k = idx)
    BY <1>2, <2>2 DEF SameSlot, Marks
  <2> QED
    BY <2>1, <2>2
<1>6. ASSUME NEW j \in 1 .. L, NEW k \in Fr(ns, j)
      PROVE  k \in Dom(ns, j) /\ St(ns, j, k) = "Free"
  <2>1. CASE j = t /\ k = idx
    BY <1>2, <1>4, <1>6, <2>1 DEF Marks
  <2>2. CASE ~ (j = t /\ k = idx)
    <3>1. k \in Fr(ls, j)
      BY <1>2, <1>6, <2>2 DEF Marks
    <3>2. k \in Dom(ls, j) /\ St(ls, j, k) = "Free"
      BY <1>3, <3>1 DEF FreeLists, L
    <3> QED
      BY <1>2, <2>2, <3>2 DEF SameSlot
  <2> QED
    BY <2>1, <2>2
<1>7. FreeLists(lv, ns)
  BY <1>2, <1>6 DEF FreeLists, L
<1>8. Retired(lv, ns)
  <2> SUFFICES ASSUME NEW j \in 1 .. L - 1, NEW b \in Sp(ns, j + 1), NEW k \in Family(lv, j, b)
               PROVE  /\ k \in Dom(ns, j + 1) /\ St(ns, j + 1, k) = "Free" /\ k \notin Fr(ns, j + 1)
                      /\ \A c \in Sp(ns, j + 1) : k \in Family(lv, j, c) => b = c
    BY DEF Retired, L
  <2>1. j + 1 \in 1 .. L /\ Sp(ns, j + 1) = Sp(ls, j + 1)
    BY <1>1, <1>2
  <2>2. /\ k \in Dom(ls, j + 1) /\ St(ls, j + 1, k) = "Free" /\ k \notin Fr(ls, j + 1)
        /\ \A c \in Sp(ls, j + 1) : k \in Family(lv, j, c) => b = c
    BY <1>3, <2>1 DEF Retired, L
  <2>3. St(ns, j + 1, k) = "Free" /\ k \notin Fr(ns, j + 1)
    BY <1>5, <2>1, <2>2 DEF SameSlot
  <2> QED
    BY <1>2, <2>1, <2>2, <2>3
<1>9. SplitSlots(lv, ns)
  <2> SUFFICES ASSUME NEW j \in 1 .. L - 1, NEW p \in Dom(ns, j), St(ns, j, p) = "Split",
                      NEW k \in Family(lv, j, Ch(ns, j, p))
               PROVE  ChildOf(lv, ns, j, p, k) /\ \A c \in Sp(ns, j + 1) : k \notin Family(lv, j, c)
    BY DEF SplitSlots, L
  <2>1. j \in 1 .. L /\ j + 1 \in 1 .. L /\ Sp(ns, j + 1) = Sp(ls, j + 1)
    BY <1>1, <1>2
  <2>2. p \in Dom(ls, j) /\ St(ls, j, p) = "Split" /\ Ch(ns, j, p) = Ch(ls, j, p)
    BY <1>2, <1>5, <2>1
  <2>3. ChildOf(lv, ls, j, p, k) /\ \A c \in Sp(ls, j + 1) : k \notin Family(lv, j, c)
    BY <1>3, <2>2 DEF SplitSlots, L
  <2>4. k \in Dom(ls, j + 1)
    BY <2>3 DEF ChildOf
  <2>5. St(ns, j + 1, k) = "Free" => k \in Fr(ns, j + 1)
    BY <1>5, <2>1, <2>3, <2>4 DEF ChildOf
  <2> QED
    BY <1>2, <2>1, <2>2, <2>3, <2>4, <2>5 DEF ChildOf
<1>10. Parents(lv, ns)
  <2>1. ASSUME NEW j \in 1 .. L - 1, NEW k \in Dom(ns, j + 1),
               St(ns, j + 1, k) # "Free" \/ k \in Fr(ns, j + 1)
        PROVE  HasParent(lv, ns, j, k)
    <3>1. j \in 1 .. L /\ j + 1 \in 1 .. L
      BY <1>1
    <3>2. k \in Dom(ls, j + 1) /\ (St(ls, j + 1, k) # "Free" \/ k \in Fr(ls, j + 1))
      BY <1>2, <1>5, <2>1, <3>1
    <3>3. HasParent(lv, ls, j, k)
      BY <1>3, <3>2 DEF Parents, L
    <3> QED
      BY <1>2, <1>5, <3>1, <3>2, <3>3 DEF HasParent
  <2>2. /\ \A k \in Dom(ns, 1) : Pa(ns, 1, k) = 0
        /\ \A k \in Dom(ns, L) : St(ns, L, k) # "Split"
    <3>1. L \in 1 .. L
      BY <1>1
    <3> QED
      BY <1>1, <1>2, <1>3, <1>5, <3>1 DEF Parents, L
  <2> QED
    BY <2>1, <2>2 DEF Parents, L
<1>11. Tiles(lv, ns, U)
  <2>1. ASSUME NEW j \in 1 .. L, NEW k \in Nat
        PROVE  Leaf(ns, j, k) <=> Leaf(ls, j, k)
    BY <1>2, <1>5 DEF Leaf
  <2>2. ASSUME NEW j \in 1 .. L, NEW k \in Nat, NEW x \in Int, Leaf(ls, j, k)
        PROVE  Holds(lv, ns, j, k, x) <=> Holds(lv, ls, j, k, x)
    BY <1>2, <2>2 DEF Leaf, Holds
  <2> QED
    BY <2>1, <2>2 DEF Tiles, L
<1> QED
  BY <1>2, <1>7, <1>8, <1>9, <1>10, <1>11 DEF Forest

\* Taking a slot gives its family one that is not free.
LEMMA TakeFull ==
    ASSUME NEW lv, NEW ls, NEW ns, GoodLevels(lv), Forest(lv, ls), NEW t \in 1 .. Len(lv),
           NEW idx \in Fr(ls, t), MarkEffect(lv, ls, ns, t, idx, "InUse", Fr(ls, t) \ {idx}),
           FullBut(lv, ls, Pending(ls, t, idx))
    PROVE  /\ FullBut(lv, ns, {})
           /\ InUse(lv, ns) = InUse(lv, ls) \cup {<< t, idx >>} /\ << t, idx >> \notin InUse(lv, ls)
           /\ \A p \in InUse(lv, ns) : Ad(ns, p[1], p[2]) = Ad(ls, p[1], p[2])
<1> DEFINE L == Len(lv)
<1>1. L \in Nat /\ t \in 1 .. L
      /\ \A j \in 1 .. L - 1 : j \in 1 .. L /\ j + 1 \in 1 .. L /\ (j = t - 1 <=> j + 1 = t)
  BY LevelFacts
<1>2. /\ \A j \in 1 .. L :
           /\ Dom(ns, j) = Dom(ls, j)
           /\ \A k \in Dom(ls, j) : ~ (j = t /\ k = idx) => SameSlot(ls, ns, j, k)
      /\ St(ns, t, idx) = "InUse"
      /\ \A j \in 1 .. L : \A k \in Dom(ls, j) : Ad(ns, j, k) = Ad(ls, j, k) /\ Ch(ns, j, k) = Ch(ls, j, k)
  BY DEF MarkEffect, SameSlot
<1>3. FreeLists(lv, ls) /\ SplitSlots(lv, ls) /\ Parents(lv, ls)
  BY DEF Forest
<1>4. idx \in Dom(ls, t) /\ St(ls, t, idx) = "Free" /\ idx \in Nat
  BY <1>3, LayerTypes DEF FreeLists, Forest
<1> HIDE DEF L
<1>5. FullBut(lv, ns, {})
  <2> SUFFICES ASSUME NEW j \in 1 .. L - 1, NEW p \in Dom(ns, j), St(ns, j, p) = "Split"
               PROVE  \E k \in Family(lv, j, Ch(ns, j, p)) : St(ns, j + 1, k) # "Free"
    BY DEF FullBut, L
  <2>1. j \in 1 .. L /\ j + 1 \in 1 .. L
    BY <1>1
  <2>2. p \in Dom(ls, j) /\ St(ls, j, p) = "Split" /\ Ch(ns, j, p) = Ch(ls, j, p)
    BY <1>2, <2>1 DEF SameSlot
  <2>3. CASE << j, p >> \in Pending(ls, t, idx)
    <3>1. j = t - 1 /\ p = Pa(ls, t, idx)
      BY <2>3 DEF Pending
    <3>2. j + 1 = t
      BY <1>1, <3>1
    <3>3. HasParent(lv, ls, j, idx)
      BY <1>3, <1>4, <3>2 DEF Parents, L
    <3>4. idx \in Family(lv, j, Ch(ls, j, p))
      BY <3>1, <3>2, <3>3 DEF HasParent
    <3>5. St(ns, j + 1, idx) # "Free"
      BY <1>2, <3>2
    <3> QED
      BY <2>2, <3>4, <3>5
  <2>4. CASE << j, p >> \notin Pending(ls, t, idx)
    <3>1. PICK k \in Family(lv, j, Ch(ls, j, p)) : St(ls, j + 1, k) # "Free"
      BY <2>2, <2>4 DEF FullBut, L
    <3>2. k \in Dom(ls, j + 1)
      BY <1>3, <2>2 DEF SplitSlots, ChildOf, L
    <3>3. St(ns, j + 1, k) # "Free"
      BY <1>2, <1>4, <2>1, <3>1, <3>2 DEF SameSlot
    <3> QED
      BY <2>2, <3>3
  <2> QED
    BY <2>3, <2>4
<1>6. \A p \in (1 .. L) \X Nat :
        p[2] \in Dom(ns, p[1]) /\ St(ns, p[1], p[2]) = "InUse"
          <=> (p[2] \in Dom(ls, p[1]) /\ St(ls, p[1], p[2]) = "InUse") \/ p = << t, idx >>
  <2> TAKE p \in (1 .. L) \X Nat
  <2>1. p[1] \in 1 .. L /\ p[2] \in Nat /\ p = << p[1], p[2] >>
    OBVIOUS
  <2>2. CASE p[1] = t /\ p[2] = idx
    BY <1>1, <1>2, <1>4, <2>1, <2>2
  <2>3. CASE ~ (p[1] = t /\ p[2] = idx)
    BY <1>2, <2>1, <2>3 DEF SameSlot
  <2> QED
    BY <2>2, <2>3
<1>7. << t, idx >> \in (1 .. L) \X Nat /\ << t, idx >> \notin InUse(lv, ls)
  BY <1>1, <1>4 DEF InUse, L
<1>8. InUse(lv, ns) = InUse(lv, ls) \cup {<< t, idx >>}
  BY <1>6, <1>7 DEF InUse, L
<1>9. \A p \in InUse(lv, ns) : Ad(ns, p[1], p[2]) = Ad(ls, p[1], p[2])
  BY <1>2 DEF InUse, L
<1> QED
  BY <1>5, <1>7, <1>8, <1>9

\* Giving a slot back may leave its family with nothing but free ones.
LEMMA GiveFull ==
    ASSUME NEW lv, NEW ls, NEW ns, GoodLevels(lv), Forest(lv, ls), NEW t \in 1 .. Len(lv),
           NEW idx \in Dom(ls, t), St(ls, t, idx) = "InUse",
           MarkEffect(lv, ls, ns, t, idx, "Free", Fr(ls, t) \cup {idx}), FullBut(lv, ls, {})
    PROVE  /\ FullBut(lv, ns, Pending(ns, t, idx)) /\ idx \in Fr(ns, t)
           /\ InUse(lv, ns) = InUse(lv, ls) \ {<< t, idx >>} /\ << t, idx >> \in InUse(lv, ls)
           /\ \A p \in InUse(lv, ns) : Ad(ns, p[1], p[2]) = Ad(ls, p[1], p[2])
<1> DEFINE L == Len(lv)
<1>1. L \in Nat /\ t \in 1 .. L
      /\ \A j \in 1 .. L - 1 : j \in 1 .. L /\ j + 1 \in 1 .. L /\ (j + 1 = t => t # 1 /\ j = t - 1)
  BY LevelFacts
<1>2. /\ \A j \in 1 .. L :
           /\ Dom(ns, j) = Dom(ls, j)
           /\ \A k \in Dom(ls, j) : ~ (j = t /\ k = idx) => SameSlot(ls, ns, j, k)
      /\ St(ns, t, idx) = "Free" /\ idx \in Fr(ns, t)
      /\ \A j \in 1 .. L : \A k \in Dom(ls, j) :
           Ad(ns, j, k) = Ad(ls, j, k) /\ Ch(ns, j, k) = Ch(ls, j, k) /\ Pa(ns, j, k) = Pa(ls, j, k)
  BY DEF MarkEffect, SameSlot
<1>3. SplitSlots(lv, ls)
  BY DEF Forest
<1>4. idx \in Nat
  BY LayerTypes DEF Forest
<1> HIDE DEF L
<1>5. FullBut(lv, ns, Pending(ns, t, idx))
  <2> SUFFICES ASSUME NEW j \in 1 .. L - 1, NEW p \in Dom(ns, j), St(ns, j, p) = "Split",
                      << j, p >> \notin Pending(ns, t, idx)
               PROVE  \E k \in Family(lv, j, Ch(ns, j, p)) : St(ns, j + 1, k) # "Free"
    BY DEF FullBut, L
  <2>1. j \in 1 .. L /\ j + 1 \in 1 .. L
    BY <1>1
  <2>2. p \in Dom(ls, j) /\ St(ls, j, p) = "Split" /\ Ch(ns, j, p) = Ch(ls, j, p)
    BY <1>2, <2>1 DEF SameSlot
  <2>3. PICK k \in Family(lv, j, Ch(ls, j, p)) : St(ls, j + 1, k) # "Free"
    BY <2>2 DEF FullBut, L
  <2>4. k \in Dom(ls, j + 1) /\ Pa(ls, j + 1, k) = p
    BY <1>3, <2>2 DEF SplitSlots, ChildOf, L
  <2>5. ~ (j + 1 = t /\ k = idx)
    <3> SUFFICES ASSUME j + 1 = t, k = idx PROVE FALSE
      OBVIOUS
    <3>1. t # 1 /\ j = t - 1 /\ Pa(ns, t, idx) = p
      BY <1>1, <1>2, <2>4
    <3> QED
      BY <3>1 DEF Pending
  <2>6. St(ns, j + 1, k) # "Free"
    BY <1>2, <2>1, <2>3, <2>4, <2>5 DEF SameSlot
  <2> QED
    BY <2>2, <2>6
<1>6. \A p \in (1 .. L) \X Nat :
        p[2] \in Dom(ns, p[1]) /\ St(ns, p[1], p[2]) = "InUse"
          <=> (p[2] \in Dom(ls, p[1]) /\ St(ls, p[1], p[2]) = "InUse") /\ p # << t, idx >>
  <2> TAKE p \in (1 .. L) \X Nat
  <2>1. p[1] \in 1 .. L /\ p[2] \in Nat /\ p = << p[1], p[2] >>
    OBVIOUS
  <2>2. CASE p[1] = t /\ p[2] = idx
    BY <1>2, <2>1, <2>2
  <2>3. CASE ~ (p[1] = t /\ p[2] = idx)
    BY <1>2, <2>1, <2>3 DEF SameSlot
  <2> QED
    BY <2>2, <2>3
<1>7. << t, idx >> \in (1 .. L) \X Nat /\ << t, idx >> \in InUse(lv, ls)
  BY <1>1, <1>4 DEF InUse, L
<1>8. InUse(lv, ns) = InUse(lv, ls) \ {<< t, idx >>}
  BY <1>6 DEF InUse, L
<1>9. \A p \in InUse(lv, ns) : Ad(ns, p[1], p[2]) = Ad(ls, p[1], p[2])
  BY <1>2 DEF InUse, L
<1> QED
  BY <1>2, <1>5, <1>7, <1>8, <1>9

-----------------------------------------------------------------------------
(* Merging *)

\* The family of slot up of layer i leaves the free list and is kept, and up is free.
MergeEffect(lv, ls, ns, i, up) ==
    LET fam == Family(lv, i, Ch(ls, i, up)) IN
    /\ Made(lv, ns)
    /\ \A j \in 1 .. Len(lv) :
         /\ Dom(ns, j) = Dom(ls, j)
         /\ Fr(ns, j) = IF j = i THEN Fr(ls, j) \cup {up}
                        ELSE IF j = i + 1 THEN Fr(ls, j) \ fam ELSE Fr(ls, j)
         /\ Sp(ns, j) = IF j = i + 1 THEN Sp(ls, j) \cup {Ch(ls, i, up)} ELSE Sp(ls, j)
         /\ \A k \in Dom(ls, j) : ~ (j = i /\ k = up) => SameSlot(ls, ns, j, k)
    /\ St(ns, i, up) = "Free" /\ Ad(ns, i, up) = Ad(ls, i, up) /\ Pa(ns, i, up) = Pa(ls, i, up)

\* What one level of tryMergeUpward does.
LEMMA MergeDone ==
    ASSUME NEW lv, NEW ls, GoodLevels(lv), Forest(lv, ls), NEW i \in 1 .. Len(lv) - 1,
           NEW idx \in Dom(ls, i + 1), NEW up \in Dom(ls, i), Pa(ls, i + 1, idx) = up,
           St(ls, i, up) = "Split"
    PROVE  MergeEffect(lv, ls, Merged(ls, i + 1, idx), i, up)
<1> DEFINE begin == Ch(ls, i, up)
           fam == Family(lv, i, begin)
           layer == ls[i + 1]
           above == ls[i]
           f == Append(above.free, up)
           g == Without(layer.free, fam)
           h == Append(layer.span, begin)
           ns == Merged(ls, i + 1, idx)
           slot == [above.slots[up] EXCEPT !.state = "Free", !.child = 0]
<1>1. /\ i \in 1 .. Len(lv) /\ i + 1 \in 1 .. Len(lv) /\ i # i + 1 /\ (i + 1) - 1 = i
      /\ ls \in [1 .. Len(lv) -> Layers]
      /\ \A j \in 1 .. Len(lv) : ls[j] \in Layers /\ ls[j].size = lv[j] /\ Once(ls, j)
  <2>1. i \in 1 .. Len(lv) /\ i + 1 \in 1 .. Len(lv) /\ i # i + 1 /\ (i + 1) - 1 = i
    BY LevelFacts
  <2> QED
    BY <2>1 DEF Forest, AreLayers, FreeLists
<1>2. /\ above.free \in Seq(Nat) /\ above.slots \in Seq(SlotRecords) /\ above \in Layers
      /\ layer.free \in Seq(Nat) /\ layer.span \in Seq(Nat) /\ layer \in Layers
  BY <1>1 DEF Layers
<1>3. above.slots[up] \in SlotRecords /\ up \in DOMAIN above.slots
  BY <1>2 DEF Dom
<1>4. up \in Nat /\ begin \in Nat /\ up \notin Fr(ls, i)
  BY <1>1, <1>3, LayerTypes DEF Forest, FreeLists
<1>5. begin \in fam /\ begin \notin Sp(ls, i + 1)
  <2>1. begin \in fam
    BY <1>4, FamilyFacts
  <2>2. \A b \in Sp(ls, i + 1) : begin \notin Family(lv, i, b)
    BY <1>1, <2>1 DEF Forest, SplitSlots
  <2> QED
    BY <1>4, <2>1, <2>2
<1>6. /\ f \in Seq(Nat) /\ IsInjective(f) /\ Elems(f) = Fr(ls, i) \cup {up}
  BY <1>1, <1>2, <1>4, AppendElems DEF Once, Fr
<1>7. /\ g \in Seq(Nat) /\ IsInjective(g) /\ Elems(g) = Fr(ls, i + 1) \ fam
  BY <1>1, <1>2, WithoutElems DEF Once, Fr
<1>8. /\ h \in Seq(Nat) /\ IsInjective(h) /\ Elems(h) = Sp(ls, i + 1) \cup {begin}
  BY <1>1, <1>2, <1>4, <1>5, AppendElems DEF Once, Sp
<1>9. Siblings(ls, i) = Kids(lv, i)
  BY <1>1 DEF Siblings, Kids
<1>10. ns = [ls EXCEPT ![i + 1] = [layer EXCEPT !.free = g, !.span = h],
                       ![i] = [above EXCEPT !.free = f,
                                            !.slots[up] = [@ EXCEPT !.state = "Free", !.child = 0]]]
  BY <1>1, <1>9, Zenon DEF Merged, Family, Pa, Ch
<1> HIDE DEF begin, fam, f, g, h, ns
<1>11. /\ DOMAIN ns = 1 .. Len(lv) /\ ns = [j \in DOMAIN ns |-> ns[j]]
       /\ \A j \in 1 .. Len(lv) : j # i /\ j # i + 1 => ns[j] = ls[j]
       /\ ns[i + 1] = [layer EXCEPT !.free = g, !.span = h]
       /\ ns[i] = [above EXCEPT !.free = f, !.slots[up] = [@ EXCEPT !.state = "Free", !.child = 0]]
  BY <1>1, <1>10
<1>12. ns[i + 1] = [size |-> lv[i + 1], slots |-> layer.slots, free |-> g, span |-> h]
  BY <1>1, <1>11 DEF Layers
<1>13. /\ ns[i + 1] \in Layers /\ ns[i + 1].size = lv[i + 1] /\ ns[i + 1].slots = layer.slots
       /\ ns[i + 1].free = g /\ ns[i + 1].span = h
  <2>1. layer.slots \in Seq(SlotRecords) /\ lv[i + 1] \in Nat
    BY <1>1, <1>2, LevelFacts DEF Layers
  <2> QED
    BY <1>7, <1>8, <1>12, <2>1 DEF Layers
<1>14. Relabelled(above, ns[i], up, "Free", 0, f)
  <2>1. ns[i] = [above EXCEPT !.free = f, !.slots = [above.slots EXCEPT ![up] = slot]]
    BY <1>2, <1>11 DEF Layers
  <2> HIDE DEF slot
  <2>2. ns[i] = Relabel(above, up, "Free", 0, f)
    BY <2>1 DEF Relabel, slot
  <2>3. "Free" \in {"Free", "InUse", "Split"} /\ 0 \in Nat
    OBVIOUS
  <2> QED
    BY <1>2, <1>3, <1>6, <2>2, <2>3, RelabelLayer
<1>15. /\ ns[i] \in Layers /\ ns[i].size = lv[i] /\ ns[i].free = f /\ ns[i].span = above.span
  BY <1>1, <1>14 DEF Relabelled
<1>16. Made(lv, ns)
  <2>1. \A j \in 1 .. Len(lv) : ns[j] \in Layers /\ ns[j].size = lv[j]
    BY <1>1, <1>11, <1>13, <1>15
  <2>2. ns \in [1 .. Len(lv) -> Layers]
    BY <1>11, <2>1
  <2>3. \A j \in 1 .. Len(lv) : Once(ns, j)
    BY <1>1, <1>6, <1>7, <1>8, <1>11, <1>13, <1>15 DEF Once
  <2> QED
    BY <2>1, <2>2, <2>3 DEF Made, AreLayers
<1>17. ASSUME NEW j \in 1 .. Len(lv)
       PROVE  /\ Dom(ns, j) = Dom(ls, j)
              /\ Fr(ns, j) = IF j = i THEN Fr(ls, j) \cup {up}
                             ELSE IF j = i + 1 THEN Fr(ls, j) \ fam ELSE Fr(ls, j)
              /\ Sp(ns, j) = IF j = i + 1 THEN Sp(ls, j) \cup {begin} ELSE Sp(ls, j)
              /\ \A k \in Dom(ls, j) : ~ (j = i /\ k = up) => SameSlot(ls, ns, j, k)
  <2>1. CASE j = i
    BY <1>1, <1>6, <1>14, <1>15, <2>1 DEF Dom, Fr, Sp, SameSlot, St, Ad, Pa, Ch, Relabelled
  <2>2. CASE j = i + 1
    BY <1>1, <1>7, <1>8, <1>13, <2>2 DEF Dom, Fr, Sp, SameSlot, St, Ad, Pa, Ch
  <2>3. CASE j # i /\ j # i + 1
    BY <1>11, <2>3 DEF Dom, Fr, Sp, SameSlot, St, Ad, Pa, Ch
  <2> QED
    BY <2>1, <2>2, <2>3
<1>18. St(ns, i, up) = "Free" /\ Ad(ns, i, up) = Ad(ls, i, up) /\ Pa(ns, i, up) = Pa(ls, i, up)
  <2>1. ns[i].slots[up].state = "Free" /\ ns[i].slots[up].addr = above.slots[up].addr
        /\ ns[i].slots[up].parent = above.slots[up].parent
    BY <1>14 DEF Relabelled
  <2> QED
    BY <2>1 DEF St, Ad, Pa
<1>19. MergeEffect(lv, ls, ns, i, up)
  BY <1>16, <1>17, <1>18 DEF MergeEffect, fam, begin
<1> QED
  BY <1>19 DEF ns

\* Merging a family of free slots leaves every slot in its place.
LEMMA MergeForest ==
    ASSUME NEW lv, NEW ls, NEW ns, GoodLevels(lv), Forest(lv, ls), NEW i \in 1 .. Len(lv) - 1,
           NEW up \in Dom(ls, i), St(ls, i, up) = "Split",
           \A k \in Family(lv, i, Ch(ls, i, up)) : St(ls, i + 1, k) = "Free",
           MergeEffect(lv, ls, ns, i, up)
    PROVE  Forest(lv, ns)
<1> DEFINE L == Len(lv)
           begin == Ch(ls, i, up)
           fam == Family(lv, i, begin)
<1>1. /\ L \in Nat /\ i \in 1 .. L /\ i + 1 \in 1 .. L /\ i # i + 1 /\ 1 \in 1 .. L
      /\ \A j \in 1 .. L - 1 : j \in 1 .. L /\ j + 1 \in 1 .. L /\ j # j + 1 /\ (j + 1 = i + 1 => j = i)
  BY LevelFacts
<1>2. /\ AreLayers(lv, ns) /\ \A j \in 1 .. L : Once(ns, j)
      /\ \A j \in 1 .. L :
           /\ Dom(ns, j) = Dom(ls, j)
           /\ Fr(ns, j) = IF j = i THEN Fr(ls, j) \cup {up}
                          ELSE IF j = i + 1 THEN Fr(ls, j) \ fam ELSE Fr(ls, j)
           /\ Sp(ns, j) = IF j = i + 1 THEN Sp(ls, j) \cup {begin} ELSE Sp(ls, j)
           /\ \A k \in Dom(ls, j) : ~ (j = i /\ k = up) => SameSlot(ls, ns, j, k)
           /\ \A k \in Dom(ls, j) : Ad(ns, j, k) = Ad(ls, j, k) /\ Pa(ns, j, k) = Pa(ls, j, k)
      /\ St(ns, i, up) = "Free"
  BY DEF MergeEffect, Made, SameSlot
<1>3. FreeLists(lv, ls) /\ Retired(lv, ls) /\ SplitSlots(lv, ls) /\ Parents(lv, ls)
  BY DEF Forest
<1>4. \A k \in fam : /\ k \in Dom(ls, i + 1) /\ St(ls, i + 1, k) = "Free" /\ Pa(ls, i + 1, k) = up
                     /\ \A b \in Sp(ls, i + 1) : k \notin Family(lv, i, b)
  BY <1>3 DEF SplitSlots, ChildOf
<1> HIDE DEF L, fam, begin
<1>5. ASSUME NEW j \in 1 .. L, NEW k \in Fr(ns, j)
      PROVE  k \in Dom(ns, j) /\ St(ns, j, k) = "Free"
  <2>1. CASE j = i /\ k = up
    BY <1>2, <2>1
  <2>2. CASE ~ (j = i /\ k = up)
    <3>1. k \in Fr(ls, j)
      BY <1>2, <2>2
    <3>2. k \in Dom(ls, j) /\ St(ls, j, k) = "Free"
      BY <1>3, <3>1 DEF FreeLists, L
    <3> QED
      BY <1>2, <2>2, <3>2 DEF SameSlot
  <2> QED
    BY <2>1, <2>2
<1>6. FreeLists(lv, ns)
  BY <1>2, <1>5 DEF FreeLists, L
<1>7. Retired(lv, ns)
  <2> SUFFICES ASSUME NEW j \in 1 .. L - 1, NEW b \in Sp(ns, j + 1), NEW k \in Family(lv, j, b)
               PROVE  /\ k \in Dom(ns, j + 1) /\ St(ns, j + 1, k) = "Free" /\ k \notin Fr(ns, j + 1)
                      /\ \A c \in Sp(ns, j + 1) : k \in Family(lv, j, c) => b = c
    BY DEF Retired, L
  <2>1. j \in 1 .. L /\ j + 1 \in 1 .. L /\ (j + 1 = i + 1 => j = i)
    BY <1>1
  <2>2. CASE j = i /\ b = begin
    <3>1. k \in fam
      BY <2>2 DEF fam
    <3>2. k \in Dom(ls, j + 1) /\ St(ls, j + 1, k) = "Free"
      BY <1>4, <2>2, <3>1
    <3>3. k \in Dom(ns, j + 1) /\ St(ns, j + 1, k) = "Free" /\ k \notin Fr(ns, j + 1)
      BY <1>1, <1>2, <2>1, <2>2, <3>1, <3>2 DEF SameSlot
    <3>4. ASSUME NEW c \in Sp(ns, j + 1), k \in Family(lv, j, c) PROVE b = c
      <4>1. c \notin Sp(ls, i + 1)
        BY <1>4, <2>2, <3>1, <3>4
      <4> QED
        BY <1>2, <2>1, <2>2, <4>1
    <3> QED
      BY <3>3, <3>4
  <2>3. CASE ~ (j = i /\ b = begin)
    <3>1. b \in Sp(ls, j + 1)
      BY <1>2, <2>1, <2>3
    <3>2. /\ k \in Dom(ls, j + 1) /\ St(ls, j + 1, k) = "Free" /\ k \notin Fr(ls, j + 1)
          /\ \A c \in Sp(ls, j + 1) : k \in Family(lv, j, c) => b = c
      BY <1>3, <3>1 DEF Retired, L
    <3>3. ~ (j + 1 = i /\ k = up)
      BY <3>2
    <3>4. k \in Dom(ns, j + 1) /\ St(ns, j + 1, k) = "Free" /\ k \notin Fr(ns, j + 1)
      BY <1>2, <2>1, <3>2, <3>3 DEF SameSlot
    <3>5. ASSUME NEW c \in Sp(ns, j + 1), k \in Family(lv, j, c) PROVE b = c
      <4>1. CASE c \in Sp(ls, j + 1)
        BY <3>2, <3>5, <4>1
      <4>2. CASE c \notin Sp(ls, j + 1)
        <5>1. j = i /\ c = begin
          BY <1>2, <2>1, <4>2
        <5>2. k \in fam
          BY <3>5, <5>1 DEF fam
        <5> QED
          BY <1>4, <3>1, <5>1, <5>2
      <4> QED
        BY <4>1, <4>2
    <3> QED
      BY <3>4, <3>5
  <2> QED
    BY <2>2, <2>3
<1>8. SplitSlots(lv, ns)
  <2> SUFFICES ASSUME NEW j \in 1 .. L - 1, NEW p \in Dom(ns, j), St(ns, j, p) = "Split",
                      NEW k \in Family(lv, j, Ch(ns, j, p))
               PROVE  ChildOf(lv, ns, j, p, k) /\ \A c \in Sp(ns, j + 1) : k \notin Family(lv, j, c)
    BY DEF SplitSlots, L
  <2>1. j \in 1 .. L /\ j + 1 \in 1 .. L /\ (j + 1 = i + 1 => j = i)
    BY <1>1
  <2>2. ~ (j = i /\ p = up)
    BY <1>2
  <2>3. p \in Dom(ls, j) /\ St(ls, j, p) = "Split" /\ Ch(ns, j, p) = Ch(ls, j, p)
    BY <1>2, <2>1, <2>2 DEF SameSlot
  <2>4. ChildOf(lv, ls, j, p, k) /\ \A c \in Sp(ls, j + 1) : k \notin Family(lv, j, c)
    BY <1>3, <2>3 DEF SplitSlots, L
  <2>5. k \in Dom(ls, j + 1) /\ Pa(ls, j + 1, k) = p
    BY <2>4 DEF ChildOf
  <2>6. ~ (j = i /\ k \in fam)
    BY <1>4, <2>2, <2>5
  <2>7. \A c \in Sp(ns, j + 1) : k \notin Family(lv, j, c)
    <3> SUFFICES ASSUME NEW c \in Sp(ns, j + 1), k \in Family(lv, j, c) PROVE FALSE
      OBVIOUS
    <3>1. j = i /\ c = begin
      BY <1>2, <2>1, <2>4
    <3> QED
      BY <2>6, <3>1 DEF fam
  <2>8. St(ns, j + 1, k) = "Free" => k \in Fr(ns, j + 1)
    <3>1. CASE j + 1 = i /\ k = up
      BY <1>2, <2>1, <3>1
    <3>2. CASE ~ (j + 1 = i /\ k = up)
      <4>1. St(ns, j + 1, k) = St(ls, j + 1, k)
        BY <1>2, <2>1, <2>5, <3>2 DEF SameSlot
      <4>2. k \in Fr(ls, j + 1) => k \in Fr(ns, j + 1)
        BY <1>2, <2>1, <2>6
      <4> QED
        BY <2>4, <4>1, <4>2 DEF ChildOf
    <3> QED
      BY <3>1, <3>2
  <2> QED
    BY <1>2, <2>1, <2>3, <2>4, <2>5, <2>7, <2>8 DEF ChildOf
<1>9. Parents(lv, ns)
  <2>1. ASSUME NEW j \in 1 .. L - 1, NEW k \in Dom(ns, j + 1),
               St(ns, j + 1, k) # "Free" \/ k \in Fr(ns, j + 1)
        PROVE  HasParent(lv, ns, j, k)
    <3>1. j \in 1 .. L /\ j + 1 \in 1 .. L /\ (j + 1 = i + 1 => j = i)
      BY <1>1
    <3>2. k \in Dom(ls, j + 1)
      BY <1>2, <3>1
    <3>3. St(ls, j + 1, k) # "Free" \/ k \in Fr(ls, j + 1)
      <4>1. CASE j + 1 = i /\ k = up
        BY <4>1
      <4>2. CASE ~ (j + 1 = i /\ k = up)
        BY <1>2, <2>1, <3>1, <3>2, <4>2 DEF SameSlot
      <4> QED
        BY <4>1, <4>2
    <3>4. HasParent(lv, ls, j, k)
      BY <1>3, <3>2, <3>3 DEF Parents, L
    <3>5. ~ (j = i /\ k \in fam)
      <4> SUFFICES ASSUME j = i, k \in fam PROVE FALSE
        OBVIOUS
      <4>1. St(ns, j + 1, k) = "Free" /\ k \notin Fr(ns, j + 1)
        BY <1>1, <1>2, <1>4, <3>1, <3>2 DEF SameSlot
      <4> QED
        BY <2>1, <4>1
    <3> DEFINE p == Pa(ls, j + 1, k)
    <3>6. p \in Dom(ls, j) /\ St(ls, j, p) = "Split" /\ k \in Family(lv, j, Ch(ls, j, p))
      BY <3>4 DEF HasParent
    <3>7. ~ (j = i /\ p = up)
      BY <3>5, <3>6 DEF fam, begin
    <3>8. SameSlot(ls, ns, j, p) /\ p \in Dom(ns, j) /\ Pa(ns, j + 1, k) = p
      BY <1>2, <3>1, <3>2, <3>6, <3>7
    <3> QED
      BY <3>6, <3>8 DEF HasParent, SameSlot
  <2>2. \A k \in Dom(ns, 1) : Pa(ns, 1, k) = 0
    BY <1>1, <1>2, <1>3 DEF Parents
  <2>3. \A k \in Dom(ns, L) : St(ns, L, k) # "Split"
    <3>1. L \in 1 .. L
      BY <1>1
    <3> QED
      BY <1>2, <1>3, <3>1 DEF Parents, SameSlot, L
  <2> QED
    BY <2>1, <2>2, <2>3 DEF Parents, L
<1> QED
  BY <1>2, <1>6, <1>7, <1>8, <1>9 DEF Forest

\* After a merge only the family of the merged slot may have nothing but free ones.
LEMMA MergeFull ==
    ASSUME NEW lv, NEW ls, NEW ns, GoodLevels(lv), Forest(lv, ls), NEW i \in 1 .. Len(lv) - 1,
           NEW up \in Dom(ls, i), St(ls, i, up) = "Split", NEW idx, Pa(ls, i + 1, idx) = up,
           MergeEffect(lv, ls, ns, i, up), FullBut(lv, ls, Pending(ls, i + 1, idx))
    PROVE  FullBut(lv, ns, Pending(ns, i, up)) /\ up \in Fr(ns, i)
<1> DEFINE L == Len(lv)
<1>1. /\ L \in Nat /\ i \in 1 .. L /\ (i + 1) - 1 = i /\ i + 1 # 1
      /\ \A j \in 1 .. L - 1 : j \in 1 .. L /\ j + 1 \in 1 .. L /\ (j + 1 = i => i # 1 /\ j = i - 1)
  BY LevelFacts
<1>2. /\ \A j \in 1 .. L :
           /\ Dom(ns, j) = Dom(ls, j)
           /\ \A k \in Dom(ls, j) : ~ (j = i /\ k = up) => SameSlot(ls, ns, j, k)
      /\ St(ns, i, up) = "Free" /\ Pa(ns, i, up) = Pa(ls, i, up) /\ up \in Fr(ns, i)
  BY <1>1 DEF MergeEffect
<1>3. SplitSlots(lv, ls)
  BY DEF Forest
<1>4. Pending(ls, i + 1, idx) = {<< i, up >>}
  BY <1>1 DEF Pending
<1> HIDE DEF L
<1>5. FullBut(lv, ns, Pending(ns, i, up))
  <2> SUFFICES ASSUME NEW j \in 1 .. L - 1, NEW p \in Dom(ns, j), St(ns, j, p) = "Split",
                      << j, p >> \notin Pending(ns, i, up)
               PROVE  \E k \in Family(lv, j, Ch(ns, j, p)) : St(ns, j + 1, k) # "Free"
    BY DEF FullBut, L
  <2>1. j \in 1 .. L /\ j + 1 \in 1 .. L /\ (j + 1 = i => i # 1 /\ j = i - 1)
    BY <1>1
  <2>2. ~ (j = i /\ p = up)
    BY <1>2
  <2>3. p \in Dom(ls, j) /\ St(ls, j, p) = "Split" /\ Ch(ns, j, p) = Ch(ls, j, p)
    BY <1>2, <2>1, <2>2 DEF SameSlot
  <2>4. << j, p >> \notin {<< i, up >>}
    BY <2>2
  <2>5. PICK k \in Family(lv, j, Ch(ls, j, p)) : St(ls, j + 1, k) # "Free"
    BY <1>4, <2>3, <2>4 DEF FullBut, L
  <2>6. k \in Dom(ls, j + 1) /\ Pa(ls, j + 1, k) = p
    BY <1>3, <2>3 DEF SplitSlots, ChildOf, L
  <2>7. ~ (j + 1 = i /\ k = up)
    <3> SUFFICES ASSUME j + 1 = i, k = up PROVE FALSE
      OBVIOUS
    <3>1. i # 1 /\ j = i - 1 /\ Pa(ns, i, up) = p
      BY <1>2, <2>1, <2>6
    <3> QED
      BY <3>1 DEF Pending
  <2>8. St(ns, j + 1, k) # "Free"
    BY <1>2, <2>1, <2>5, <2>6, <2>7 DEF SameSlot
  <2> QED
    BY <2>3, <2>8
<1> QED
  BY <1>2, <1>5

\* The merged slot has the bytes of its family.
LEMMA MergeTiles ==
    ASSUME NEW lv, NEW ls, NEW ns, NEW U, GoodLevels(lv), Forest(lv, ls), NEW i \in 1 .. Len(lv) - 1,
           NEW up \in Dom(ls, i), St(ls, i, up) = "Split",
           \A k \in Family(lv, i, Ch(ls, i, up)) : St(ls, i + 1, k) = "Free",
           MergeEffect(lv, ls, ns, i, up), Tiles(lv, ls, U)
    PROVE  Tiles(lv, ns, U) /\ InUse(lv, ns) = InUse(lv, ls)
           /\ \A p \in InUse(lv, ls) : Ad(ns, p[1], p[2]) = Ad(ls, p[1], p[2])
<1> DEFINE L == Len(lv)
           b == Ch(ls, i, up)
           fam == Family(lv, i, b)
           a == Ad(ls, i, up)
           c == lv[i + 1]
<1>1. L \in Nat /\ i \in 1 .. L /\ i + 1 \in 1 .. L /\ i # i + 1
  BY LevelFacts
<1>2. /\ St(ns, i, up) = "Free" /\ Ad(ns, i, up) = a
      /\ \A j \in 1 .. L :
           /\ Dom(ns, j) = Dom(ls, j)
           /\ Fr(ns, j) = IF j = i THEN Fr(ls, j) \cup {up}
                          ELSE IF j = i + 1 THEN Fr(ls, j) \ fam ELSE Fr(ls, j)
           /\ \A k \in Dom(ls, j) : ~ (j = i /\ k = up) => SameSlot(ls, ns, j, k)
  BY DEF MergeEffect
<1>3. FreeLists(lv, ls) /\ SplitSlots(lv, ls)
  BY DEF Forest
<1>4. \A k \in fam : /\ k \in Dom(ls, i + 1) /\ St(ls, i + 1, k) = "Free" /\ k \in Fr(ls, i + 1)
                     /\ Ad(ls, i + 1, k) = a + (k - b) * c
  BY <1>3 DEF SplitSlots, ChildOf
<1>5. ~ Leaf(ls, i, up)
  BY <1>1, <1>3 DEF FreeLists, Leaf
<1>6. /\ b \in Nat /\ fam \in SUBSET Nat /\ up \in Nat /\ a \in Int /\ c \in Nat /\ c > 0 /\ Cuts(lv, i)
      /\ \A j \in 1 .. L : Dom(ls, j) \in SUBSET Nat
  <2>1. AreLayers(lv, ls)
    BY DEF Forest
  <2>2. b \in Nat /\ up \in Nat /\ a \in Int /\ \A j \in 1 .. L : Dom(ls, j) \in SUBSET Nat
    BY <1>1, <2>1, LayerTypes
  <2> QED
    BY <1>1, <2>2, FamilyFacts, LevelFacts
<1> DEFINE Mine(j, k) == j = i + 1 /\ k \in fam
           Whole(j, k) == j = i /\ k = up
<1> HIDE DEF L, fam, a, b, c
<1>7. ASSUME NEW j \in 1 .. L, NEW k \in Nat
      PROVE  Leaf(ns, j, k) <=> (Leaf(ls, j, k) /\ ~ Mine(j, k)) \/ Whole(j, k)
  <2>1. CASE Whole(j, k)
    BY <1>1, <1>2, <2>1 DEF Leaf
  <2>2. CASE Mine(j, k)
    <3>1. k \in Dom(ls, j) /\ SameSlot(ls, ns, j, k) /\ k \notin Fr(ns, j)
      BY <1>1, <1>2, <1>4, <2>2
    <3> QED
      BY <1>1, <1>4, <2>2, <3>1 DEF Leaf, SameSlot
  <2>3. CASE ~ Mine(j, k) /\ ~ Whole(j, k)
    <3>1. /\ k \in Dom(ns, j) <=> k \in Dom(ls, j)
          /\ k \in Fr(ns, j) <=> k \in Fr(ls, j)
          /\ k \in Dom(ls, j) => SameSlot(ls, ns, j, k)
      BY <1>2, <2>3
    <3> QED
      BY <2>3, <3>1 DEF Leaf, SameSlot
  <2> QED
    BY <2>1, <2>2, <2>3
<1>8. ASSUME NEW j \in 1 .. L, NEW k \in Nat, NEW x \in Int, Leaf(ls, j, k)
      PROVE  ~ Whole(j, k) /\ (Holds(lv, ns, j, k, x) <=> Holds(lv, ls, j, k, x))
  <2>1. k \in Dom(ls, j) /\ ~ (j = i /\ k = up)
    BY <1>5, <1>8 DEF Leaf
  <2> QED
    BY <1>2, <2>1 DEF Holds, SameSlot
<1>9. ASSUME NEW k \in fam, NEW x \in Int
      PROVE  Leaf(ls, i + 1, k) /\ (Holds(lv, ls, i + 1, k, x) <=> Part(a, b, c, k, x))
  BY <1>4 DEF Holds, Part, Leaf, c
<1>10. /\ \A x \in Int : Holds(lv, ns, i, up, x) => \E k \in fam : Part(a, b, c, k, x)
       /\ \A x \in Int : \A k \in fam : Part(a, b, c, k, x) => Holds(lv, ns, i, up, x)
  <2> DEFINE m == Kids(lv, i)
  <2>1. m \in Nat /\ m * c = lv[i] /\ fam = b .. b + m - 1
    BY <1>6 DEF Cuts, c, fam, Family
  <2> HIDE DEF m
  <2>2. Parted(a, b, c, m)
    <3>1. b \in Int
      BY <1>6
    <3> QED
      BY <1>6, <2>1, <3>1, PartsCover
  <2>3. \A x : Holds(lv, ns, i, up, x) <=> a <= x /\ x < a + m * c
    BY <1>2, <2>1 DEF Holds
  <2> QED
    BY <2>1, <2>2, <2>3 DEF Parted
<1> HIDE DEF Mine, Whole
<1>11. /\ \A j \in 1 .. L : \A k \in Nat : \A x \in Int :
            Leaf(ls, j, k) /\ Holds(lv, ls, j, k, x) => x \in U
       /\ \A x \in Int : x \in U =>
            \E j \in 1 .. L : \E k \in Nat : Leaf(ls, j, k) /\ Holds(lv, ls, j, k, x)
       /\ \A j, h \in 1 .. L : \A k, m \in Nat : \A x \in Int :
            /\ Leaf(ls, j, k) /\ Holds(lv, ls, j, k, x)
            /\ Leaf(ls, h, m) /\ Holds(lv, ls, h, m, x)
            => j = h /\ k = m
  BY DEF Tiles, L
<1>12. ASSUME NEW j \in 1 .. L, NEW k \in Nat, NEW x \in Int,
              Leaf(ns, j, k), Holds(lv, ns, j, k, x)
       PROVE  \/ ~ Mine(j, k) /\ ~ Whole(j, k) /\ Leaf(ls, j, k) /\ Holds(lv, ls, j, k, x)
              \/ /\ Whole(j, k)
                 /\ \E l \in fam : Leaf(ls, i + 1, l) /\ Holds(lv, ls, i + 1, l, x)
  <2>1. CASE Whole(j, k)
    <3>1. Holds(lv, ns, i, up, x)
      BY <1>12, <2>1 DEF Whole
    <3>2. PICK l \in fam : Part(a, b, c, l, x)
      BY <1>10, <3>1
    <3>3. Leaf(ls, i + 1, l) /\ Holds(lv, ls, i + 1, l, x)
      BY <1>9, <3>2
    <3> QED
      BY <2>1, <3>3
  <2>2. CASE ~ Whole(j, k)
    BY <1>7, <1>8, <1>12, <2>2
  <2> QED
    BY <2>1, <2>2
<1>13. Tiles(lv, ns, U)
  <2>1. ASSUME NEW j \in 1 .. L, NEW k \in Nat, NEW x \in Int, Leaf(ns, j, k), Holds(lv, ns, j, k, x)
        PROVE  x \in U
    BY <1>1, <1>6, <1>11, <1>12, <2>1
  <2>2. ASSUME NEW x \in Int, x \in U
        PROVE  \E j \in 1 .. L : \E k \in Nat : Leaf(ns, j, k) /\ Holds(lv, ns, j, k, x)
    <3>1. PICK j \in 1 .. L, k \in Nat : Leaf(ls, j, k) /\ Holds(lv, ls, j, k, x)
      BY <1>11, <2>2
    <3>2. CASE Mine(j, k)
      <4>1. k \in fam /\ j = i + 1
        BY <3>2 DEF Mine
      <4>2. Holds(lv, ns, i, up, x)
        BY <1>9, <1>10, <3>1, <4>1
      <4>3. Leaf(ns, i, up)
        BY <1>1, <1>6, <1>7 DEF Whole
      <4> QED
        BY <1>1, <1>6, <4>2, <4>3
    <3>3. CASE ~ Mine(j, k)
      BY <1>7, <1>8, <3>1, <3>3
    <3> QED
      BY <3>2, <3>3
  <2>3. ASSUME NEW j \in 1 .. L, NEW h \in 1 .. L, NEW k \in Nat, NEW m \in Nat, NEW x \in Int,
               Leaf(ns, j, k), Holds(lv, ns, j, k, x), Leaf(ns, h, m), Holds(lv, ns, h, m, x)
        PROVE  j = h /\ k = m
    <3>1. CASE ~ Whole(j, k) /\ ~ Whole(h, m)
      <4>1. Leaf(ls, j, k) /\ Holds(lv, ls, j, k, x) /\ Leaf(ls, h, m) /\ Holds(lv, ls, h, m, x)
        BY <1>12, <2>3, <3>1
      <4> QED
        BY <1>11, <4>1, Zenon
    <3>2. CASE Whole(j, k) /\ Whole(h, m)
      BY <3>2 DEF Whole
    <3>3. CASE Whole(j, k) /\ ~ Whole(h, m)
      <4>1. ~ Mine(h, m) /\ Leaf(ls, h, m) /\ Holds(lv, ls, h, m, x)
        BY <1>12, <2>3, <3>3
      <4>2. PICK l \in fam : Leaf(ls, i + 1, l) /\ Holds(lv, ls, i + 1, l, x)
        BY <1>12, <2>3, <3>3
      <4>3. l \in Nat /\ i + 1 = h /\ l = m
        BY <1>1, <1>6, <1>11, <4>1, <4>2, Zenon
      <4> QED
        BY <4>1, <4>2, <4>3 DEF Mine
    <3>4. CASE ~ Whole(j, k) /\ Whole(h, m)
      <4>1. ~ Mine(j, k) /\ Leaf(ls, j, k) /\ Holds(lv, ls, j, k, x)
        BY <1>12, <2>3, <3>4
      <4>2. PICK l \in fam : Leaf(ls, i + 1, l) /\ Holds(lv, ls, i + 1, l, x)
        BY <1>12, <2>3, <3>4
      <4>3. l \in Nat /\ i + 1 = j /\ l = k
        BY <1>1, <1>6, <1>11, <4>1, <4>2, Zenon
      <4> QED
        BY <4>1, <4>2, <4>3 DEF Mine
    <3> QED
      BY <3>1, <3>2, <3>3, <3>4
  <2> QED
    BY <2>1, <2>2, <2>3 DEF Tiles, L
<1>14. ASSUME NEW j \in 1 .. L, NEW k \in Nat
       PROVE  k \in Dom(ns, j) /\ St(ns, j, k) = "InUse" <=> k \in Dom(ls, j) /\ St(ls, j, k) = "InUse"
  BY <1>2 DEF SameSlot
<1>15. InUse(lv, ns) = InUse(lv, ls)
  <2>1. ASSUME NEW p \in (1 .. L) \X Nat
        PROVE  p[2] \in Dom(ns, p[1]) /\ St(ns, p[1], p[2]) = "InUse"
                 <=> p[2] \in Dom(ls, p[1]) /\ St(ls, p[1], p[2]) = "InUse"
    BY <1>14
  <2> QED
    BY <2>1 DEF InUse, L
<1>16. \A p \in InUse(lv, ls) : Ad(ns, p[1], p[2]) = Ad(ls, p[1], p[2])
  BY <1>2 DEF InUse, SameSlot, L
<1> QED
  BY <1>13, <1>15, <1>16

-----------------------------------------------------------------------------
(* Splitting level by level *)

\* What holds when the loop of ensureSlotAvailable reaches layer i, having
\* started from the layers ls: there is a free slot, and only its family may
\* have nothing but free ones.
Descended(lv, ls, ns, U, i) ==
    /\ Forest(lv, ns) /\ Tiles(lv, ns, U) /\ ns[i].free # <<>>
    /\ FullBut(lv, ns, Pending(ns, i, LastFree(ns, i)))
    /\ InUse(lv, ns) = InUse(lv, ls)
    /\ \A p \in InUse(lv, ls) : Ad(ns, p[1], p[2]) = Ad(ls, p[1], p[2])

\* The last entry of a free list is one of its elements.
LEMMA TopFree ==
    ASSUME NEW lv, NEW ls, GoodLevels(lv), Forest(lv, ls), NEW i \in 1 .. Len(lv), ls[i].free # <<>>
    PROVE  LastFree(ls, i) \in Fr(ls, i)
<1>1. ls[i].free \in Seq(Nat) /\ Once(ls, i)
  BY DEF Forest, AreLayers, FreeLists, Layers
<1> QED
  BY <1>1, FrontElems DEF LastFree, Fr, Once

LEMMA DescendStep ==
    ASSUME NEW lv, NEW ls, NEW ns, NEW U, GoodLevels(lv), NEW i \in 1 .. Len(lv) - 1,
           Descended(lv, ls, ns, U, i)
    PROVE  Descended(lv, ls, PopAndSplit(ns, i), U, i + 1)
<1> DEFINE idx == LastFree(ns, i)
           ms == PopAndSplit(ns, i)
<1>1. i \in 1 .. Len(lv)
  BY LevelFacts
<1>2. /\ Forest(lv, ns) /\ Tiles(lv, ns, U) /\ ns[i].free # <<>>
      /\ FullBut(lv, ns, Pending(ns, i, idx))
      /\ InUse(lv, ns) = InUse(lv, ls)
      /\ \A p \in InUse(lv, ls) : Ad(ns, p[1], p[2]) = Ad(ls, p[1], p[2])
  BY DEF Descended
<1>3. PICK b \in Nat : SplitEffect(lv, ns, ms, i, idx, b)
  BY <1>2, SplitDone
<1>4. idx \in Fr(ns, i)
  BY <1>1, <1>2, TopFree
<1> HIDE DEF ms, idx
<1>5. Forest(lv, ms)
  BY <1>2, <1>3, <1>4, SplitForest
<1>6. FullBut(lv, ms, Pending(ms, i + 1, LastFree(ms, i + 1)))
  BY <1>2, <1>3, <1>4, SplitFull
<1>7. Tiles(lv, ms, U) /\ InUse(lv, ms) = InUse(lv, ns)
      /\ \A p \in InUse(lv, ns) : Ad(ms, p[1], p[2]) = Ad(ns, p[1], p[2])
  BY <1>2, <1>3, <1>4, SplitTiles
<1>8. ms[i + 1].free # <<>>
  BY <1>3 DEF SplitEffect
<1>9. Descended(lv, ls, ms, U, i + 1)
  BY <1>2, <1>5, <1>6, <1>7, <1>8 DEF Descended
<1> QED
  BY <1>9 DEF ms

\* f has the layers at each level, from the first of them to the k-th below.
IsDescent(f, ls, from, to) ==
    f = [i \in from .. to |-> IF i = from THEN ls ELSE PopAndSplit(f[i - 1], i - 1)]

LEMMA DescentExists ==
    ASSUME NEW ls, NEW from \in Nat, NEW k \in Nat
    PROVE  \E f : IsDescent(f, ls, from, from + k)
<1> DEFINE X == {n \in Nat : ~ \E f : IsDescent(f, ls, from, from + n)}
<1> SUFFICES ASSUME X # {} PROVE FALSE
  OBVIOUS
<1>1. PICK m \in X : \A n \in X : m <= n
  BY LeastNat
<1>2. m # 0
  <2> DEFINE f == [i \in from .. from + 0 |-> ls]
  <2>1. \A i \in from .. from + 0 : i = from
    OBVIOUS
  <2>2. IsDescent(f, ls, from, from + 0)
    BY <2>1 DEF IsDescent
  <2> HIDE DEF f
  <2> QED
    BY <2>2
<1>3. m \in Nat /\ m - 1 \in Nat /\ m - 1 \notin X
  <2>1. m \in Nat
    BY <1>1
  <2> HIDE DEF X
  <2>2. m - 1 \in Nat /\ ~ (m <= m - 1)
    BY <1>2, <2>1
  <2>3. m - 1 \notin X
    BY <1>1, <2>2, Zenon
  <2> QED
    BY <2>1, <2>2, <2>3
<1> DEFINE to == from + (m - 1)
<1>4. PICK f : IsDescent(f, ls, from, to)
  BY <1>3
<1> DEFINE g == [i \in from .. from + m |-> IF i <= to THEN f[i] ELSE PopAndSplit(f[i - 1], i - 1)]
<1>5. ASSUME NEW i \in from .. from + m
      PROVE  g[i] = IF i = from THEN ls ELSE PopAndSplit(g[i - 1], i - 1)
  <2>1. CASE i = from + m
    <3>1. i # from /\ ~ (i <= to) /\ i - 1 \in from .. from + m /\ i - 1 <= to
      BY <1>3, <2>1
    <3>2. g[i - 1] = f[i - 1] /\ g[i] = PopAndSplit(f[i - 1], i - 1)
      BY <3>1
    <3> HIDE DEF g
    <3> QED
      BY <3>1, <3>2
  <2>2. CASE i # from + m
    <3>1. i \in from .. to /\ i <= to
      BY <1>3, <2>2
    <3>2. g[i] = f[i]
      BY <3>1
    <3>3. f[i] = IF i = from THEN ls ELSE PopAndSplit(f[i - 1], i - 1)
      BY <1>4, <3>1 DEF IsDescent
    <3>4. i # from => i - 1 \in from .. from + m /\ i - 1 <= to
      BY <1>3, <3>1
    <3>5. i # from => g[i - 1] = f[i - 1]
      BY <3>4
    <3> HIDE DEF g
    <3> QED
      BY <3>2, <3>3, <3>5
  <2> QED
    BY <2>1, <2>2
<1>6. g = [i \in from .. from + m |-> g[i]]
  OBVIOUS
<1> HIDE DEF g
<1>7. IsDescent(g, ls, from, from + m)
  BY <1>5, <1>6 DEF IsDescent
<1> QED
  BY <1>1, <1>7

\* Splitting from a layer with a free slot down to the one asked for.
LEMMA Descent ==
    ASSUME NEW lv, NEW ls, NEW as, NEW U, GoodLevels(lv), NEW from \in 1 .. Len(lv),
           NEW target \in from .. Len(lv), Descended(lv, as, ls, U, from)
    PROVE  Descended(lv, as, SplitDown(ls, from, target), U, target)
<1>1. Len(lv) \in Nat /\ from \in Nat /\ target \in Nat /\ from >= 1 /\ target <= Len(lv)
  BY LevelFacts
<1> DEFINE f == CHOOSE f : IsDescent(f, ls, from, target)
<1>2. SplitDown(ls, from, target) = f[target]
  BY DEF SplitDown, IsDescent
<1>3. IsDescent(f, ls, from, target)
  <2>1. target - from \in Nat /\ from + (target - from) = target
    BY <1>1
  <2>2. \E g : IsDescent(g, ls, from, target)
    BY <1>1, <2>1, DescentExists
  <2> QED
    BY <2>2
<1> HIDE DEF f
<1>4. \A i \in from .. target : f[i] = IF i = from THEN ls ELSE PopAndSplit(f[i - 1], i - 1)
  <2> DEFINE F(i) == IF i = from THEN ls ELSE PopAndSplit(f[i - 1], i - 1)
  <2>1. f = [i \in from .. target |-> F(i)]
    BY <1>3 DEF IsDescent
  <2> HIDE DEF F
  <2>2. \A i \in from .. target : f[i] = F(i)
    BY <2>1
  <2> QED
    BY <2>2 DEF F
<1> DEFINE X == {i \in from .. target : ~ Descended(lv, as, f[i], U, i)}
<1>5. X = {}
  <2> SUFFICES ASSUME X # {} PROVE FALSE
    OBVIOUS
  <2>1. X \in SUBSET Nat
    <3>1. \A i \in from .. target : i \in Nat
      BY <1>1
    <3> QED
      BY <3>1, Zenon
  <2>2. PICK m \in X : \A n \in X : m <= n
    BY <2>1, LeastNat
  <2>3. from \in from .. target /\ m \in from .. target
    OBVIOUS
  <2>4. m # from
    BY <1>4, <2>2, <2>3
  <2>5. m - 1 \in from .. target /\ m - 1 \notin X /\ m - 1 \in 1 .. Len(lv) - 1 /\ (m - 1) + 1 = m
    <3> HIDE DEF X
    <3>1. m \in Nat /\ m >= from /\ m <= target
      BY <1>1, <2>3
    <3>2. m - 1 \in from .. target /\ (m - 1) + 1 = m /\ ~ (m <= m - 1)
      BY <1>1, <2>4, <3>1
    <3>3. m - 1 \in 1 .. Len(lv) - 1
      BY <1>1, <2>4, <3>1
    <3>4. m - 1 \notin X
      BY <2>2, <3>2, Zenon
    <3> QED
      BY <3>2, <3>3, <3>4
  <2>6. Descended(lv, as, f[m - 1], U, m - 1)
    BY <2>5
  <2>7. Descended(lv, as, PopAndSplit(f[m - 1], m - 1), U, m)
    BY <2>5, <2>6, DescendStep
  <2>8. f[m] = PopAndSplit(f[m - 1], m - 1)
    BY <1>4, <2>3, <2>4
  <2> QED
    BY <2>2, <2>7, <2>8
<1>6. target \in from .. target
  BY <1>1
<1> QED
  BY <1>2, <1>5, <1>6

-----------------------------------------------------------------------------
(* Merging level by level *)

\* A layer merges when no child of the parent is in use or split.
LEMMA CanMergeMeans ==
    ASSUME NEW lv, NEW ls, GoodLevels(lv), Forest(lv, ls), NEW i \in 1 .. Len(lv) - 1,
           NEW idx \in Fr(ls, i + 1)
    PROVE  /\ idx \in Dom(ls, i + 1) /\ Pa(ls, i + 1, idx) \in Dom(ls, i)
           /\ St(ls, i, Pa(ls, i + 1, idx)) = "Split"
           /\ CanMerge(ls, i + 1, idx) <=>
                \A k \in Family(lv, i, Ch(ls, i, Pa(ls, i + 1, idx))) : St(ls, i + 1, k) = "Free"
<1> DEFINE up == Pa(ls, i + 1, idx)
<1>1. i \in 1 .. Len(lv) /\ i + 1 \in 1 .. Len(lv) /\ (i + 1) - 1 = i
  BY LevelFacts
<1>2. FreeLists(lv, ls) /\ Parents(lv, ls) /\ AreLayers(lv, ls)
  BY DEF Forest
<1>3. idx \in Dom(ls, i + 1) /\ HasParent(lv, ls, i, idx)
  BY <1>1, <1>2 DEF FreeLists, Parents
<1>4. up \in Dom(ls, i) /\ St(ls, i, up) = "Split"
  BY <1>3 DEF HasParent
<1>5. up # 0
  BY <1>1, <1>2, <1>4, LayerTypes
<1>6. ls[i].size = lv[i] /\ ls[i + 1].size = lv[i + 1]
  BY <1>1, <1>2 DEF AreLayers
<1>7. Siblings(ls, i) = Kids(lv, i)
  BY <1>6 DEF Siblings, Kids
<1>8. CanMerge(ls, i + 1, idx) <=>
        /\ up # 0 /\ St(ls, i, up) = "Split"
        /\ allSiblingsFree(ls[i + 1], Ch(ls, i, up), Siblings(ls, i))
  BY <1>1, Zenon DEF CanMerge, Pa, St, Ch
<1>9. allSiblingsFree(ls[i + 1], Ch(ls, i, up), Siblings(ls, i)) <=>
        \A k \in Family(lv, i, Ch(ls, i, up)) : St(ls, i + 1, k) = "Free"
  BY <1>7, Zenon DEF allSiblingsFree, St, Family
<1> QED
  BY <1>3, <1>4, <1>5, <1>8, <1>9, Zenon

\* What holds when the loop of tryMergeUpward reaches layer i, having started
\* from the layers ls: the slot it arrived at is free, and only its family may
\* have nothing but free ones, or the loop has ended and no family has.
Ascended(lv, ls, st, U, i) ==
    /\ st.done \in BOOLEAN
    /\ Forest(lv, st.ls) /\ Tiles(lv, st.ls, U)
    /\ IF st.done THEN FullBut(lv, st.ls, {})
       ELSE st.idx \in Fr(st.ls, i) /\ FullBut(lv, st.ls, Pending(st.ls, i, st.idx))
    /\ InUse(lv, st.ls) = InUse(lv, ls)
    /\ \A p \in InUse(lv, ls) : Ad(st.ls, p[1], p[2]) = Ad(ls, p[1], p[2])

LEMMA AscendStep ==
    ASSUME NEW lv, NEW ls, NEW st, NEW U, GoodLevels(lv), NEW i \in 1 .. Len(lv) - 1,
           Ascended(lv, ls, st, U, i + 1)
    PROVE  Ascended(lv, ls, MergeStep(st, i + 1), U, i)
<1> DEFINE ns == st.ls
           idx == st.idx
           done == st.done
           up == Pa(ns, i + 1, idx)
           ms == Merged(ns, i + 1, idx)
<1>1. /\ Forest(lv, ns) /\ Tiles(lv, ns, U) /\ InUse(lv, ns) = InUse(lv, ls)
      /\ \A p \in InUse(lv, ls) : Ad(ns, p[1], p[2]) = Ad(ls, p[1], p[2])
      /\ done \in BOOLEAN
      /\ done => FullBut(lv, ns, {})
      /\ ~ done => idx \in Fr(ns, i + 1) /\ FullBut(lv, ns, Pending(ns, i + 1, idx))
  BY DEF Ascended
<1>2. i + 1 # 1 /\ (i + 1) - 1 = i /\ i \in 1 .. Len(lv)
  BY LevelFacts
<1>3. CASE done \/ ~ CanMerge(ns, i + 1, idx)
  <2>1. MergeStep(st, i + 1) = [ls |-> ns, idx |-> idx, done |-> TRUE]
    BY <1>3, Zenon DEF MergeStep
  <2>3. FullBut(lv, ns, {})
    <3>1. CASE done
      BY <1>1, <3>1
    <3>2. CASE ~ done
      <4>1. /\ St(ns, i, up) = "Split"
            /\ \E k \in Family(lv, i, Ch(ns, i, up)) : St(ns, i + 1, k) # "Free"
        BY <1>1, <1>3, <3>2, CanMergeMeans
      <4>2. FullBut(lv, ns, {<< i, up >>})
        BY <1>1, <1>2, <3>2 DEF Pending
      <4> HIDE DEF ns, up
      <4> QED
        BY <4>1, <4>2 DEF FullBut
    <3> QED
      BY <3>1, <3>2
  <2> DEFINE after == [ls |-> ns, idx |-> idx, done |-> TRUE]
  <2>4. after.ls = ns /\ after.idx = idx /\ after.done = TRUE
    OBVIOUS
  <2> HIDE DEF ns, idx, done, after
  <2>5. Ascended(lv, ls, after, U, i)
    BY <1>1, <2>3, <2>4 DEF Ascended
  <2> QED
    BY <2>1, <2>5 DEF after
<1>4. CASE ~ (done \/ ~ CanMerge(ns, i + 1, idx))
  <2> DEFINE after == [ls |-> ms, idx |-> up, done |-> FALSE]
  <2>1. MergeStep(st, i + 1) = after
    BY <1>4, Zenon DEF MergeStep, Pa
  <2>2. /\ idx \in Dom(ns, i + 1) /\ up \in Dom(ns, i) /\ St(ns, i, up) = "Split"
        /\ \A k \in Family(lv, i, Ch(ns, i, up)) : St(ns, i + 1, k) = "Free"
    BY <1>1, <1>4, CanMergeMeans
  <2> HIDE DEF ns, idx, done
  <2>3. MergeEffect(lv, ns, ms, i, up)
    BY <1>1, <2>2, MergeDone
  <2>4. after.ls = ms /\ after.idx = up /\ after.done = FALSE
    OBVIOUS
  <2> HIDE DEF ms, after
  <2>0. Pa(ns, i + 1, idx) = up
    OBVIOUS
  <2> HIDE DEF up
  <2>5. Forest(lv, ms)
    BY <1>1, <2>2, <2>3, MergeForest
  <2>6. FullBut(lv, ms, Pending(ms, i, up)) /\ up \in Fr(ms, i)
    BY <1>1, <1>4, <2>0, <2>2, <2>3, MergeFull
  <2>7. Tiles(lv, ms, U) /\ InUse(lv, ms) = InUse(lv, ns)
        /\ \A p \in InUse(lv, ns) : Ad(ms, p[1], p[2]) = Ad(ns, p[1], p[2])
    BY <1>1, <2>2, <2>3, MergeTiles
  <2>9. Ascended(lv, ls, after, U, i)
    BY <1>1, <2>4, <2>5, <2>6, <2>7 DEF Ascended
  <2> QED
    BY <2>1, <2>9
<1> QED
  BY <1>3, <1>4

\* f has the loop's state after each number of levels.
IsAscent(f, ls, layer, idx, k) ==
    f = [n \in 0 .. k |-> IF n = 0 THEN [ls |-> ls, idx |-> idx, done |-> FALSE]
                          ELSE MergeStep(f[n - 1], layer - n + 1)]

LEMMA AscentExists ==
    ASSUME NEW ls, NEW layer, NEW idx, NEW k \in Nat
    PROVE  \E f : IsAscent(f, ls, layer, idx, k)
<1> DEFINE first == [ls |-> ls, idx |-> idx, done |-> FALSE]
           X == {n \in Nat : ~ \E f : IsAscent(f, ls, layer, idx, n)}
<1> SUFFICES ASSUME X # {} PROVE FALSE
  OBVIOUS
<1>1. PICK m \in X : \A n \in X : m <= n
  BY LeastNat
<1>2. m # 0
  <2> DEFINE f == [n \in 0 .. 0 |-> first]
  <2>1. \A n \in 0 .. 0 : n = 0
    OBVIOUS
  <2>2. IsAscent(f, ls, layer, idx, 0)
    BY <2>1 DEF IsAscent
  <2> HIDE DEF f
  <2> QED
    BY <2>2
<1>3. m \in Nat /\ m - 1 \in Nat /\ m - 1 \notin X
  <2>1. m \in Nat
    BY <1>1
  <2> HIDE DEF X
  <2>2. m - 1 \in Nat /\ ~ (m <= m - 1)
    BY <1>2, <2>1
  <2>3. m - 1 \notin X
    BY <1>1, <2>2, Zenon
  <2> QED
    BY <2>1, <2>2, <2>3
<1>4. PICK f : IsAscent(f, ls, layer, idx, m - 1)
  BY <1>3
<1> DEFINE g == [n \in 0 .. m |-> IF n <= m - 1 THEN f[n] ELSE MergeStep(f[n - 1], layer - n + 1)]
<1> HIDE DEF first
<1>5. ASSUME NEW n \in 0 .. m
      PROVE  g[n] = IF n = 0 THEN first ELSE MergeStep(g[n - 1], layer - n + 1)
  <2>1. CASE n = m
    <3>1. n # 0 /\ ~ (n <= m - 1) /\ n - 1 \in 0 .. m /\ n - 1 <= m - 1
      BY <1>3, <2>1
    <3>2. g[n - 1] = f[n - 1] /\ g[n] = MergeStep(f[n - 1], layer - n + 1)
      BY <3>1
    <3> HIDE DEF g
    <3> QED
      BY <3>1, <3>2
  <2>2. CASE n # m
    <3>1. n \in 0 .. m - 1 /\ n <= m - 1
      BY <1>3, <2>2
    <3>2. g[n] = f[n]
      BY <3>1
    <3>3. f[n] = IF n = 0 THEN first ELSE MergeStep(f[n - 1], layer - n + 1)
      BY <1>4, <3>1 DEF IsAscent, first
    <3>4. n # 0 => n - 1 \in 0 .. m /\ n - 1 <= m - 1
      BY <1>3, <3>1
    <3>5. n # 0 => g[n - 1] = f[n - 1]
      BY <3>4
    <3> HIDE DEF g
    <3> QED
      BY <3>2, <3>3, <3>5
  <2> QED
    BY <2>1, <2>2
<1>6. g = [n \in 0 .. m |-> g[n]]
  OBVIOUS
<1> HIDE DEF g
<1>7. IsAscent(g, ls, layer, idx, m)
  BY <1>5, <1>6 DEF IsAscent, first
<1> QED
  BY <1>1, <1>7

\* Merging from the layer of a slot that was given back: no family is left
\* whose slots are all free.
LEMMA Ascent ==
    ASSUME NEW lv, NEW ls, NEW U, GoodLevels(lv), NEW layer \in 1 .. Len(lv), NEW idx \in Fr(ls, layer),
           Forest(lv, ls), Tiles(lv, ls, U), FullBut(lv, ls, Pending(ls, layer, idx))
    PROVE  LET ns == tryMergeUpward(ls, layer, idx)
           IN  /\ Forest(lv, ns) /\ Tiles(lv, ns, U) /\ FullBut(lv, ns, {})
               /\ InUse(lv, ns) = InUse(lv, ls)
               /\ \A p \in InUse(lv, ls) : Ad(ns, p[1], p[2]) = Ad(ls, p[1], p[2])
<1>1. Len(lv) \in Nat /\ layer \in Nat /\ layer >= 1 /\ layer <= Len(lv) /\ layer - 1 \in Nat
  BY LevelFacts
<1> DEFINE first == [ls |-> ls, idx |-> idx, done |-> FALSE]
           f == CHOOSE f : IsAscent(f, ls, layer, idx, layer - 1)
<1>2. tryMergeUpward(ls, layer, idx) = f[layer - 1].ls
  BY DEF tryMergeUpward, IsAscent
<1>3. IsAscent(f, ls, layer, idx, layer - 1)
  <2>1. \E g : IsAscent(g, ls, layer, idx, layer - 1)
    BY <1>1, AscentExists
  <2> QED
    BY <2>1
<1> HIDE DEF f
<1>4. \A n \in 0 .. layer - 1 : f[n] = IF n = 0 THEN first ELSE MergeStep(f[n - 1], layer - n + 1)
  <2> DEFINE F(n) == IF n = 0 THEN first ELSE MergeStep(f[n - 1], layer - n + 1)
  <2>1. f = [n \in 0 .. layer - 1 |-> F(n)]
    BY <1>3 DEF IsAscent
  <2> HIDE DEF F
  <2>2. \A n \in 0 .. layer - 1 : f[n] = F(n)
    BY <2>1
  <2> QED
    BY <2>2 DEF F
<1>5. Ascended(lv, ls, first, U, layer)
  <2>1. first.ls = ls /\ first.idx = idx /\ first.done = FALSE
    OBVIOUS
  <2> HIDE DEF first
  <2> QED
    BY <2>1 DEF Ascended
<1> HIDE DEF first
<1> DEFINE X == {n \in 0 .. layer - 1 : ~ Ascended(lv, ls, f[n], U, layer - n)}
<1>6. X = {}
  <2> SUFFICES ASSUME X # {} PROVE FALSE
    OBVIOUS
  <2>1. X \in SUBSET Nat
    <3>1. \A n \in 0 .. layer - 1 : n \in Nat
      BY <1>1
    <3> QED
      BY <3>1, Zenon
  <2>2. PICK m \in X : \A n \in X : m <= n
    BY <2>1, LeastNat
  <2>3. m \in 0 .. layer - 1 /\ ~ Ascended(lv, ls, f[m], U, layer - m)
    BY <2>2
  <2>4. m # 0
    <3>1. 0 \in 0 .. layer - 1 /\ layer - 0 = layer
      BY <1>1
    <3>2. f[0] = first
      BY <1>4, <3>1
    <3> QED
      BY <1>5, <2>3, <3>1, <3>2
  <2> DEFINE n == m - 1
             i == layer - m
  <2>5. n \in 0 .. layer - 1 /\ ~ (m <= n) /\ i \in 1 .. Len(lv) - 1 /\ layer - n = i + 1 /\ layer - m + 1 = i + 1
    BY <1>1, <2>3, <2>4
  <2>6. n \notin X
    <3> HIDE DEF X, n
    <3> QED
      BY <2>2, <2>5, Zenon
  <2>7. f[m] = MergeStep(f[n], i + 1)
    BY <1>4, <2>3, <2>4, <2>5
  <2> HIDE DEF n, i
  <2>8. Ascended(lv, ls, f[n], U, i + 1)
    BY <2>5, <2>6
  <2>9. Ascended(lv, ls, MergeStep(f[n], i + 1), U, i)
    BY <2>5, <2>8, AscendStep
  <2> QED
    BY <2>3, <2>7, <2>9 DEF i
<1> DEFINE st == f[layer - 1]
<1>7. Ascended(lv, ls, st, U, 1)
  <2>1. layer - 1 \in 0 .. layer - 1 /\ layer - (layer - 1) = 1
    BY <1>1
  <2> QED
    BY <1>6, <2>1
<1> HIDE DEF st
<1>8. FullBut(lv, st.ls, {})
  BY <1>7 DEF Ascended, Pending
<1> QED
  BY <1>2, <1>7, <1>8 DEF Ascended, st

-----------------------------------------------------------------------------
(* The properties follow from the invariant *)

\* The slots that AllSlots numbers.
LEMMA SlotPairs ==
    ASSUME NEW lv, NEW ls, GoodLevels(lv), AreLayers(lv, ls)
    PROVE  /\ \A p : p \in AllSlots(ls) <=>
                p = << p[1], p[2] >> /\ p[1] \in 1 .. Len(lv) /\ p[2] \in Dom(ls, p[1])
           /\ \A p \in AllSlots(ls) : p[1] \in 1 .. Len(lv) /\ p[2] \in Dom(ls, p[1]) /\ p[2] \in Nat
<1>1. DOMAIN ls = 1 .. Len(lv)
  BY DEF AreLayers
<1>2. ASSUME NEW p
      PROVE  p \in AllSlots(ls) <=>
                p = << p[1], p[2] >> /\ p[1] \in 1 .. Len(lv) /\ p[2] \in Dom(ls, p[1])
  <2>1. ASSUME p \in AllSlots(ls)
        PROVE  p = << p[1], p[2] >> /\ p[1] \in 1 .. Len(lv) /\ p[2] \in Dom(ls, p[1])
    <3>1. PICK i \in 1 .. Len(lv) : p \in {i} \X DOMAIN ls[i].slots
      BY <1>1, <2>1 DEF AllSlots
    <3> QED
      BY <3>1 DEF Dom
  <2>2. ASSUME p = << p[1], p[2] >>, p[1] \in 1 .. Len(lv), p[2] \in Dom(ls, p[1])
        PROVE  p \in AllSlots(ls)
    <3>1. p \in {p[1]} \X DOMAIN ls[p[1]].slots
      BY <2>2 DEF Dom
    <3> QED
      BY <1>1, <2>2, <3>1 DEF AllSlots
  <2> QED
    BY <2>1, <2>2
<1>3. \A i \in 1 .. Len(lv) : Dom(ls, i) \in SUBSET Nat
  BY LayerTypes
<1> QED
  BY <1>2, <1>3

\* A slot is busy or available when InUse and Leaf say so, and has the bytes of Holds.
LEMMA SlotSets ==
    ASSUME NEW lv, NEW ls, GoodLevels(lv), AreLayers(lv, ls)
    PROVE  /\ Busy(ls) = InUse(lv, ls)
           /\ \A p : p \in Busy(ls) \cup Available(ls) <=>
                p \in AllSlots(ls) /\ Leaf(ls, p[1], p[2])
           /\ \A p \in AllSlots(ls) : \A x : x \in Bytes(ls, p) <=> x \in Int /\ Holds(lv, ls, p[1], p[2], x)
<1>1. /\ \A p : p \in AllSlots(ls) <=>
                p = << p[1], p[2] >> /\ p[1] \in 1 .. Len(lv) /\ p[2] \in Dom(ls, p[1])
      /\ \A p \in AllSlots(ls) : p[1] \in 1 .. Len(lv) /\ p[2] \in Dom(ls, p[1]) /\ p[2] \in Nat
  BY SlotPairs
<1>2. Busy(ls) = InUse(lv, ls)
  <2>1. ASSUME NEW p \in InUse(lv, ls) PROVE p \in Busy(ls)
    <3>1. p = << p[1], p[2] >> /\ p[1] \in 1 .. Len(lv) /\ p[2] \in Dom(ls, p[1]) /\ St(ls, p[1], p[2]) = "InUse"
      BY DEF InUse
    <3> QED
      BY <1>1, <3>1 DEF Busy, SlotAt, St
  <2>2. ASSUME NEW p \in Busy(ls) PROVE p \in InUse(lv, ls)
    <3>1. p \in AllSlots(ls) /\ St(ls, p[1], p[2]) = "InUse"
      BY DEF Busy, SlotAt, St
    <3>2. p = << p[1], p[2] >> /\ p[1] \in 1 .. Len(lv) /\ p[2] \in Dom(ls, p[1]) /\ p[2] \in Nat
      BY <1>1, <3>1
    <3>3. p \in (1 .. Len(lv)) \X Nat
      BY <3>2
    <3> QED
      BY <3>1, <3>2, <3>3 DEF InUse
  <2> QED
    BY <2>1, <2>2
<1>3. ASSUME NEW p PROVE p \in Busy(ls) \cup Available(ls) <=> p \in AllSlots(ls) /\ Leaf(ls, p[1], p[2])
  <2>1. p \in Busy(ls) <=> p \in AllSlots(ls) /\ St(ls, p[1], p[2]) = "InUse"
    BY DEF Busy, SlotAt, St
  <2>2. p \in Available(ls) <=> p \in AllSlots(ls) /\ p[2] \in Fr(ls, p[1])
    BY DEF Available, Fr, Elems
  <2> QED
    BY <1>1, <2>1, <2>2 DEF Leaf
<1>4. ASSUME NEW p \in AllSlots(ls), NEW x
      PROVE  x \in Bytes(ls, p) <=> x \in Int /\ Holds(lv, ls, p[1], p[2], x)
  <2>1. /\ SlotAt(ls, p).addr = Ad(ls, p[1], p[2]) /\ ls[p[1]].size = lv[p[1]]
        /\ Ad(ls, p[1], p[2]) \in Int /\ lv[p[1]] \in Nat
    <3>1. p[1] \in 1 .. Len(lv) /\ p[2] \in Dom(ls, p[1])
      BY <1>1
    <3>2. ls[p[1]].size = lv[p[1]]
      BY <3>1 DEF AreLayers
    <3>3. SlotAt(ls, p).addr = Ad(ls, p[1], p[2])
      BY DEF SlotAt, Ad
    <3> QED
      BY <3>1, <3>2, <3>3, LayerTypes, LevelFacts
  <2> DEFINE a == Ad(ls, p[1], p[2])
             c == lv[p[1]]
  <2>2. Bytes(ls, p) = a .. a + c - 1
    BY <2>1, Zenon DEF Bytes
  <2>3. Holds(lv, ls, p[1], p[2], x) <=> a <= x /\ x < a + c
    BY DEF Holds
  <2> HIDE DEF a, c
  <2>4. a \in Int /\ c \in Nat
    BY <2>1 DEF a, c
  <2>5. x \in a .. a + c - 1 <=> x \in Int /\ a <= x /\ x < a + c
    BY <2>4
  <2> QED
    BY <2>2, <2>3, <2>5, Zenon
<1> QED
  BY <1>2, <1>3, <1>4

\* A child has bytes of its parent only.
LEMMA ChildInside ==
    ASSUME NEW lv, NEW ls, GoodLevels(lv), Forest(lv, ls), NEW i \in 1 .. Len(lv) - 1,
           NEW p \in Dom(ls, i), St(ls, i, p) = "Split", NEW k \in Family(lv, i, Ch(ls, i, p)),
           NEW x \in Int, Holds(lv, ls, i + 1, k, x)
    PROVE  Holds(lv, ls, i, p, x)
<1> DEFINE a == Ad(ls, i, p)
           b == Ch(ls, i, p)
           c == lv[i + 1]
           m == Kids(lv, i)
<1>1. i \in 1 .. Len(lv) /\ i + 1 \in 1 .. Len(lv) /\ Cuts(lv, i)
  BY LevelFacts
<1>2. Ad(ls, i + 1, k) = a + (k - b) * c
  BY DEF Forest, SplitSlots, ChildOf
<1>3. a \in Int /\ b \in Nat
  BY <1>1, LayerTypes DEF Forest
<1>4. c \in Nat /\ c > 0 /\ m \in Nat /\ m * c = lv[i]
  BY <1>1, LevelFacts DEF Cuts
<1>5. k \in b .. b + m - 1 /\ k \in Int
  BY DEF Family
<1>6. Part(a, b, c, k, x)
  BY <1>2 DEF Holds, Part
<1> HIDE DEF a, b, c, m
<1>7. a <= x /\ x < a + m * c
  <2>1. Parted(a, b, c, m)
    BY <1>3, <1>4, PartsCover
  <2>2. \A y \in Int : \A l \in b .. b + m - 1 : Part(a, b, c, l, y) => a <= y /\ y < a + m * c
    BY <2>1, Zenon DEF Parted
  <2> QED
    BY <1>5, <1>6, <2>2, Zenon
<1> QED
  BY <1>4, <1>7 DEF Holds, a

\* Below a split slot something is in use.
LEMMA SplitUsed ==
    ASSUME NEW lv, NEW ls, GoodLevels(lv), Forest(lv, ls), FullBut(lv, ls, {}),
           NEW i \in 1 .. Len(lv), NEW p \in Dom(ls, i), St(ls, i, p) = "Split"
    PROVE  \E q \in InUse(lv, ls) : \A x \in Int : Holds(lv, ls, q[1], q[2], x) => Holds(lv, ls, i, p, x)
<1> DEFINE L == Len(lv)
           Below(j, k, q) == \A x \in Int : Holds(lv, ls, q[1], q[2], x) => Holds(lv, ls, j, k, x)
           Bad(j, k) == /\ k \in Dom(ls, j) /\ St(ls, j, k) = "Split"
                        /\ ~ \E q \in InUse(lv, ls) : Below(j, k, q)
           X == {n \in Nat : \E j \in 1 .. L : n = L - j /\ \E k \in Dom(ls, j) : Bad(j, k)}
<1>0. L \in Nat /\ L >= 1
  BY LevelFacts
<1> HIDE DEF L
<1> SUFFICES ASSUME Bad(i, p) PROVE FALSE
  OBVIOUS
<1>1. X # {}
  <2>1. i \in 1 .. L
    BY DEF L
  <2>2. L - i \in Nat
    BY <1>0, <2>1
  <2> QED
    BY <2>1, <2>2
<1>2. PICK n \in X : \A o \in X : n <= o
  BY <1>1, LeastNat
<1>3. PICK j \in 1 .. L : n = L - j /\ \E k \in Dom(ls, j) : Bad(j, k)
  BY <1>2
<1>4. PICK k \in Dom(ls, j) : Bad(j, k)
  BY <1>3
<1>5. j # L
  BY <1>4 DEF Forest, Parents, L
<1>6. j \in 1 .. L - 1 /\ j + 1 \in 1 .. L /\ L - (j + 1) \in Nat /\ ~ (n <= L - (j + 1))
  BY <1>0, <1>3, <1>5
<1>7. PICK m \in Family(lv, j, Ch(ls, j, k)) : St(ls, j + 1, m) # "Free"
  BY <1>4, <1>6 DEF FullBut, L
<1>8. m \in Dom(ls, j + 1) /\ \A x \in Int : Holds(lv, ls, j + 1, m, x) => Holds(lv, ls, j, k, x)
  <2>1. m \in Dom(ls, j + 1)
    BY <1>4, <1>6, <1>7 DEF Forest, SplitSlots, ChildOf, L
  <2>2. \A x \in Int : Holds(lv, ls, j + 1, m, x) => Holds(lv, ls, j, k, x)
    BY <1>4, <1>6, <1>7, ChildInside DEF L
  <2> QED
    BY <2>1, <2>2
<1>9. m \in Nat /\ St(ls, j + 1, m) \in {"InUse", "Split"}
  BY <1>6, <1>7, <1>8, LayerTypes DEF Forest, L
<1>10. CASE St(ls, j + 1, m) = "InUse"
  <2>1. << j + 1, m >> \in InUse(lv, ls)
    BY <1>6, <1>8, <1>9, <1>10 DEF InUse, L
  <2>2. Below(j, k, << j + 1, m >>)
    BY <1>8
  <2> HIDE DEF Below
  <2> QED
    BY <1>4, <2>1, <2>2
<1>11. CASE St(ls, j + 1, m) = "Split"
  <2>1. L - (j + 1) \notin X
    <3> HIDE DEF X
    <3> QED
      BY <1>2, <1>6, Zenon
  <2>2. ~ Bad(j + 1, m)
    BY <1>6, <1>8, <2>1
  <2>3. PICK q \in InUse(lv, ls) : Below(j + 1, m, q)
    BY <1>8, <1>11, <2>2
  <2>4. Below(j, k, q)
    BY <1>8, <2>3
  <2> HIDE DEF Below
  <2> QED
    BY <1>4, <2>4
<1> QED
  BY <1>9, <1>10, <1>11

\* What accepting a configuration means for its levels.
LEMMA ConfiguredLevels ==
    ASSUME NEW cfg, Configured(cfg)
    PROVE  /\ GoodLevels(cfg.levels) /\ cfg.initial \in Nat /\ cfg.expand \in Nat
           /\ cfg.initial % cfg.levels[1] = 0 /\ cfg.expand % cfg.levels[1] = 0
BY SlotConfigsAssumption DEF Configured, InitializeAccepts, GoodLevels

\* The invariant says that the reserved memory is partitioned, that views are
\* backed, and that what is split is used.
LEMMA IInvTiles ==
    ASSUME SlotsInv
    PROVE  SlotsTileMemory
<1> DEFINE lv == Levels
           leaves == Busy(layers) \cup Available(layers)
<1>1. /\ Configured(slotCfg) /\ Forest(lv, layers) /\ FullBut(lv, layers, {})
      /\ Tiles(lv, layers, Reserved(regions)) /\ AreRegions(regions)
      /\ AreViews(lv, layers, slotViews, mapFailures)
  BY DEF SlotsInv
<1>2. GoodLevels(lv)
  BY <1>1, ConfiguredLevels DEF Levels
<1> HIDE DEF lv
<1>3. AreLayers(lv, layers) /\ FreeLists(lv, layers)
  BY <1>1 DEF Forest
<1>4. /\ \A p : p \in AllSlots(layers) <=>
                p = << p[1], p[2] >> /\ p[1] \in 1 .. Len(lv) /\ p[2] \in Dom(layers, p[1])
      /\ \A p \in AllSlots(layers) : p[1] \in 1 .. Len(lv) /\ p[2] \in Dom(layers, p[1]) /\ p[2] \in Nat
  BY <1>2, <1>3, SlotPairs
<1>5. /\ Busy(layers) = InUse(lv, layers)
      /\ \A p : p \in leaves <=> p \in AllSlots(layers) /\ Leaf(layers, p[1], p[2])
      /\ \A p \in AllSlots(layers) : \A x :
           x \in Bytes(layers, p) <=> x \in Int /\ Holds(lv, layers, p[1], p[2], x)
  BY <1>2, <1>3, SlotSets
<1>6. DOMAIN layers = 1 .. Len(lv)
  BY <1>3 DEF AreLayers
<1> HIDE DEF leaves
<1>7. \A i \in DOMAIN layers : IsInjective(layers[i].free)
  BY <1>3, <1>6 DEF FreeLists, Once
<1>8. \A p \in Available(layers) : SlotAt(layers, p).state = "Free"
  <2> SUFFICES ASSUME NEW p \in Available(layers) PROVE SlotAt(layers, p).state = "Free"
    OBVIOUS
  <2>1. p \in AllSlots(layers) /\ p[2] \in Fr(layers, p[1])
    BY DEF Available, Fr, Elems
  <2>2. St(layers, p[1], p[2]) = "Free"
    BY <1>3, <1>4, <2>1 DEF FreeLists
  <2> QED
    BY <2>2 DEF St, SlotAt
<1>9. \A p, q \in leaves : p # q => Bytes(layers, p) \cap Bytes(layers, q) = {}
  <2> SUFFICES ASSUME NEW p \in leaves, NEW q \in leaves, NEW x \in Bytes(layers, p), x \in Bytes(layers, q)
               PROVE  p = q
    OBVIOUS
  <2>1. /\ p \in AllSlots(layers) /\ Leaf(layers, p[1], p[2]) /\ Holds(lv, layers, p[1], p[2], x)
        /\ q \in AllSlots(layers) /\ Leaf(layers, q[1], q[2]) /\ Holds(lv, layers, q[1], q[2], x)
        /\ x \in Int
    BY <1>5
  <2>2. p[1] = q[1] /\ p[2] = q[2]
    BY <1>1, <1>4, <2>1 DEF Tiles
  <2>3. p = << p[1], p[2] >> /\ q = << q[1], q[2] >>
    BY <1>4, <2>1
  <2> QED
    BY <2>2, <2>3, Zenon
<1>10. UNION {Bytes(layers, p) : p \in leaves} = UNION {r.base .. r.base + r.bytes - 1 : r \in regions}
  <2>1. ASSUME NEW p \in leaves, NEW x \in Bytes(layers, p) PROVE x \in Reserved(regions)
    <3>1. p \in AllSlots(layers) /\ Leaf(layers, p[1], p[2]) /\ Holds(lv, layers, p[1], p[2], x) /\ x \in Int
      BY <1>5
    <3> QED
      BY <1>1, <1>4, <3>1 DEF Tiles
  <2>2. ASSUME NEW x \in Reserved(regions) PROVE \E p \in leaves : x \in Bytes(layers, p)
    <3>1. x \in Int
      BY <1>1 DEF AreRegions, Reserved
    <3>2. PICK i \in 1 .. Len(lv), k \in Nat : Leaf(layers, i, k) /\ Holds(lv, layers, i, k, x)
      BY <1>1, <3>1 DEF Tiles
    <3> DEFINE p == << i, k >>
    <3>3. p[1] = i /\ p[2] = k
      OBVIOUS
    <3> HIDE DEF p
    <3>4. p = << p[1], p[2] >>
      BY <3>3 DEF p
    <3>5. k \in Dom(layers, i)
      BY <3>2 DEF Leaf
    <3>6. p \in AllSlots(layers)
      BY <1>4, <3>3, <3>4, <3>5
    <3> QED
      BY <1>5, <3>1, <3>2, <3>3, <3>6
  <2> QED
    BY <2>1, <2>2 DEF Reserved
<1>11. LeavesTile
  BY <1>7, <1>8, <1>9, <1>10 DEF LeavesTile, leaves
<1>12. ViewsBacked
  <2>1. ASSUME NEW v \in slotViews
        PROVE  \E p \in Busy(layers) : SlotAt(layers, p).addr = v.addr /\ layers[p[1]].size >= v.asked
    <3>1. PICK p \in InUse(lv, layers) : Ad(layers, p[1], p[2]) = v.addr /\ lv[p[1]] >= v.asked
      BY <1>1 DEF AreViews
    <3>2. p[1] \in 1 .. Len(lv)
      BY DEF InUse
    <3>3. layers[p[1]].size = lv[p[1]]
      BY <1>3, <3>2 DEF AreLayers
    <3>4. SlotAt(layers, p).addr = v.addr
      BY <3>1 DEF SlotAt, Ad
    <3> QED
      BY <1>5, <3>1, <3>3, <3>4
  <2>2. Cardinality(Busy(layers)) = Cardinality(slotViews) + mapFailures
    BY <1>1, <1>5 DEF AreViews
  <2> QED
    BY <2>1, <2>2 DEF ViewsBacked
<1>13. SplitOnlyWhileUsed
  <2> SUFFICES ASSUME NEW p \in AllSlots(layers), SlotAt(layers, p).state = "Split"
               PROVE  \E q \in Busy(layers) : Bytes(layers, q) \subseteq Bytes(layers, p)
    BY DEF SplitOnlyWhileUsed
  <2>1. p[1] \in 1 .. Len(lv) /\ p[2] \in Dom(layers, p[1]) /\ St(layers, p[1], p[2]) = "Split"
    BY <1>4 DEF SlotAt, St
  <2>2. PICK q \in InUse(lv, layers) :
          \A x \in Int : Holds(lv, layers, q[1], q[2], x) => Holds(lv, layers, p[1], p[2], x)
    BY <1>1, <1>2, <2>1, SplitUsed
  <2>3. q \in Busy(layers) /\ q \in AllSlots(layers)
    BY <1>5 DEF Busy
  <2>4. Bytes(layers, q) \subseteq Bytes(layers, p)
    BY <1>5, <2>2, <2>3
  <2> QED
    BY <2>3, <2>4
<1> QED
  BY <1>11, <1>12, <1>13 DEF SlotsTileMemory

-----------------------------------------------------------------------------
(* The first reservation *)

\* A finite set of numbers has a largest one.
LEMMA Bounded ==
    ASSUME NEW S \in SUBSET Nat, IsFiniteSet(S)
    PROVE  \E b \in Nat : \A x \in S : x <= b
<1> DEFINE X == {n \in Nat : \E T \in SUBSET Nat : /\ IsFiniteSet(T) /\ Cardinality(T) = n
                                                  /\ ~ \E b \in Nat : \A x \in T : x <= b}
<1>1. ASSUME X # {} PROVE FALSE
  <2>1. PICK n \in X : \A m \in X : n <= m
    BY <1>1, LeastNat
  <2>2. PICK T \in SUBSET Nat : /\ IsFiniteSet(T) /\ Cardinality(T) = n
                                /\ ~ \E b \in Nat : \A x \in T : x <= b
    BY <2>1
  <2>3. T # {}
    <3>1. 0 \in Nat
      OBVIOUS
    <3> QED
      BY <2>2, <3>1
  <2>4. PICK t \in T : TRUE
    BY <2>3
  <2>5. /\ IsFiniteSet(T \ {t}) /\ Cardinality(T \ {t}) = Cardinality(T) - 1
        /\ Cardinality(T \ {t}) \in Nat
    BY <2>2, FS_RemoveElement, FS_CardinalityType
  <2>6. Cardinality(T \ {t}) \notin X
    <3>1. ~ (n <= Cardinality(T \ {t}))
      BY <2>1, <2>2, <2>5
    <3> HIDE DEF X
    <3> QED
      BY <2>1, <3>1, Zenon
  <2>7. T \ {t} \in SUBSET Nat
    OBVIOUS
  <2>8. PICK b \in Nat : \A x \in T \ {t} : x <= b
    BY <2>5, <2>6, <2>7
  <2>9. \A x \in T : x <= b + t
    <3> SUFFICES ASSUME NEW x \in T PROVE x <= b + t
      OBVIOUS
    <3>1. x \in Nat /\ t \in Nat
      OBVIOUS
    <3>2. x = t \/ x <= b
      BY <2>8
    <3> QED
      BY <3>1, <3>2
  <2>10. b + t \in Nat
    OBVIOUS
  <2> QED
    BY <2>2, <2>9, <2>10
<1>2. Cardinality(S) \in Nat /\ Cardinality(S) \notin X
  BY <1>1, FS_CardinalityType
<1> QED
  BY <1>2

LEMMA MaxOf ==
    ASSUME NEW S \in SUBSET Nat, IsFiniteSet(S), S # {}
    PROVE  Max(S) \in S /\ \A x \in S : x <= Max(S)
<1>1. PICK b \in Nat : \A x \in S : x <= b
  BY Bounded
<1> DEFINE X == {n \in Nat : \E x \in S : n = b - x}
<1>2. X # {}
  <2>1. PICK x \in S : TRUE
    OBVIOUS
  <2>2. b - x \in Nat
    BY <1>1
  <2> QED
    BY <2>2
<1>3. PICK n \in X : \A m \in X : n <= m
  BY <1>2, LeastNat
<1>4. PICK x \in S : n = b - x
  BY <1>3
<1>5. \A y \in S : x >= y
  <2> SUFFICES ASSUME NEW y \in S PROVE x >= y
    OBVIOUS
  <2>1. y \in Nat /\ x \in Nat /\ b - y \in Nat
    BY <1>1
  <2>2. b - y \in X
    BY <2>1
  <2>3. n <= b - y
    BY <1>3, <2>2
  <2> QED
    BY <1>4, <2>1, <2>3
<1>6. Max(S) \in S /\ \A y \in S : Max(S) >= y
  BY <1>5 DEF Max
<1> QED
  BY <1>6

\* A reservation is cut into root slots without a rest.
Whole(bytes, c) == bytes \in Nat /\ bytes > 0 /\ bytes \div c \in Nat /\ bytes \div c > 0 /\ (bytes \div c) * c = bytes

LEMMA WholeRoots ==
    ASSUME NEW bytes \in Nat, NEW c \in Nat, c > 0, bytes % c = 0, bytes > 0
    PROVE  Whole(bytes, c)
<1>1. bytes \div c \in Int
  OBVIOUS
<1>2. (bytes \div c) * c = bytes
  OBVIOUS
<1>3. bytes \div c > 0
  BY <1>1, <1>2
<1>4. bytes \div c \in Nat
  BY <1>1, <1>3
<1> QED
  BY <1>2, <1>3, <1>4 DEF Whole

LEMMA ConfiguredBytes ==
    ASSUME NEW cfg, Configured(cfg), NEW n \in {cfg.initial, cfg.expand}
    PROVE  Whole(IF n = 0 THEN cfg.levels[1] ELSE n, cfg.levels[1])
<1> DEFINE c == cfg.levels[1]
<1>1. GoodLevels(cfg.levels) /\ n \in Nat /\ n % c = 0
  BY ConfiguredLevels
<1>2. c \in Nat /\ c > 0
  <2>1. 1 \in 1 .. Len(cfg.levels)
    BY <1>1, LevelFacts
  <2> QED
    BY <1>1, <2>1, LevelFacts
<1> HIDE DEF c
<1>3. CASE n = 0
  <2>1. c % c = 0
    BY <1>2
  <2>2. Whole(c, c)
    BY <1>2, <2>1, WholeRoots
  <2> QED
    BY <1>3, <2>2 DEF c
<1>4. CASE n # 0
  <2>1. Whole(n, c)
    BY <1>1, <1>2, <1>4, WholeRoots
  <2> QED
    BY <1>4, <2>1 DEF c
<1> QED
  BY <1>3, <1>4

\* Layers without slots.
Empty(lv) == [i \in DOMAIN lv |-> [size |-> lv[i], slots |-> <<>>, free |-> <<>>, span |-> <<>>]]

LEMMA EmptyForest ==
    ASSUME NEW lv, GoodLevels(lv)
    PROVE  /\ Forest(lv, Empty(lv)) /\ FullBut(lv, Empty(lv), {}) /\ Tiles(lv, Empty(lv), {})
           /\ InUse(lv, Empty(lv)) = {}
<1> DEFINE ls == Empty(lv)
           none == <<>>
<1>1. DOMAIN lv = 1 .. Len(lv) /\ Len(lv) \in Nat /\ 1 \in 1 .. Len(lv) /\ Len(lv) \in 1 .. Len(lv)
      /\ \A i \in 1 .. Len(lv) - 1 : i \in 1 .. Len(lv) /\ i + 1 \in 1 .. Len(lv)
  BY LevelFacts DEF GoodLevels
<1>2. ls = [i \in 1 .. Len(lv) |-> [size |-> lv[i], slots |-> none, free |-> none, span |-> none]]
  BY <1>1 DEF Empty
<1>3. none \in Seq(SlotRecords) /\ none \in Seq(Nat) /\ DOMAIN none = {} /\ IsInjective(none) /\ Elems(none) = {}
  BY DEF IsInjective, Elems
<1> HIDE DEF ls, none
<1>4. \A i \in 1 .. Len(lv) : ls[i] = [size |-> lv[i], slots |-> none, free |-> none, span |-> none]
  BY <1>2
<1>5. \A i \in 1 .. Len(lv) : ls[i] \in Layers /\ ls[i].size = lv[i]
                              /\ ls[i].slots = none /\ ls[i].free = none /\ ls[i].span = none
  <2> SUFFICES ASSUME NEW i \in 1 .. Len(lv)
               PROVE  /\ ls[i] \in Layers /\ ls[i].size = lv[i]
                      /\ ls[i].slots = none /\ ls[i].free = none /\ ls[i].span = none
    OBVIOUS
  <2> DEFINE n == lv[i]
  <2>1. n \in Nat
    BY LevelFacts
  <2>2. ls[i] = [size |-> n, slots |-> none, free |-> none, span |-> none]
    BY <1>4
  <2> HIDE DEF n
  <2>3. ls[i].size = n /\ ls[i].slots = none /\ ls[i].free = none /\ ls[i].span = none
    BY <2>2
  <2>4. ls[i] \in Layers
    BY <1>3, <2>1, <2>2 DEF Layers
  <2> QED
    BY <2>3, <2>4 DEF n
<1>6. AreLayers(lv, ls)
  <2>1. ls = [i \in 1 .. Len(lv) |-> ls[i]]
    BY <1>2, <1>4
  <2> QED
    BY <1>5, <2>1 DEF AreLayers
<1>7. \A i \in 1 .. Len(lv) : Dom(ls, i) = {} /\ Fr(ls, i) = {} /\ Sp(ls, i) = {} /\ Once(ls, i)
  BY <1>3, <1>5 DEF Dom, Fr, Sp, Once
<1>8. FreeLists(lv, ls) /\ Retired(lv, ls) /\ SplitSlots(lv, ls) /\ Parents(lv, ls) /\ FullBut(lv, ls, {})
  BY <1>1, <1>7 DEF FreeLists, Retired, SplitSlots, Parents, FullBut
<1>9. Tiles(lv, ls, {})
  BY <1>7 DEF Tiles, Leaf
<1>10. InUse(lv, ls) = {}
  BY <1>7 DEF InUse
<1> QED
  BY <1>6, <1>8, <1>9, <1>10 DEF Forest, ls

LEMMA InitInv ==
    ASSUME SlotInit
    PROVE  SlotsInv
<1> DEFINE lv == Levels
           bytes == IF slotCfg.initial = 0 THEN Levels[1] ELSE slotCfg.initial
           bare == Empty(lv)
<1>1. Configured(slotCfg) /\ slotViews = {} /\ mapFailures = 0 /\ regions = {[base |-> 0, bytes |-> bytes]}
      /\ layers = Regioned(bare, 0, bytes)
  BY DEF SlotInit, Configured, Empty
<1>2. GoodLevels(lv) /\ Whole(bytes, lv[1])
  BY <1>1, ConfiguredLevels, ConfiguredBytes DEF Levels
<1> HIDE DEF bytes, lv, bare
<1>3. Forest(lv, bare) /\ FullBut(lv, bare, {}) /\ Tiles(lv, bare, {}) /\ InUse(lv, bare) = {}
  BY <1>2, EmptyForest DEF bare
<1>4. bytes \in Nat /\ bytes \div lv[1] \in Nat /\ (bytes \div lv[1]) * lv[1] = bytes /\ 0 \in Nat
  BY <1>2 DEF Whole
<1>5. PICK b \in Nat : GrowEffect(lv, bare, layers, b, bytes \div lv[1], 0)
  BY <1>1, <1>2, <1>3, <1>4, GrowDone
<1>6. Forest(lv, layers) /\ FullBut(lv, layers, {})
  BY <1>2, <1>3, <1>4, <1>5, GrowForest
<1>7. Tiles(lv, layers, {} \cup Span(0, bytes)) /\ InUse(lv, layers) = InUse(lv, bare)
  <2>1. Grown(lv, bare, layers, {} \cup Span(0, bytes))
    BY <1>2, <1>3, <1>4, <1>5, GrowTiles
  <2> QED
    BY <2>1 DEF Grown
<1>8. Reserved(regions) = {} \cup Span(0, bytes)
  BY <1>1 DEF Reserved, Span
<1>9. AreRegions(regions)
  <2>1. [base |-> 0, bytes |-> bytes] \in [base : Nat, bytes : Nat]
    BY <1>4
  <2>2. IsFiniteSet(regions) /\ regions # {} /\ regions \subseteq [base : Nat, bytes : Nat]
    BY <1>1, <2>1, FS_Singleton
  <2> QED
    BY <2>2 DEF AreRegions
<1>10. AreViews(lv, layers, slotViews, mapFailures)
  BY <1>1, <1>3, <1>7, FS_EmptySet DEF AreViews
<1> QED
  BY <1>1, <1>6, <1>7, <1>8, <1>9, <1>10 DEF SlotsInv, lv

-----------------------------------------------------------------------------
(* Allocating *)

\* The layer chosen holds the size asked for.
LEMMA PickedLayer ==
    ASSUME NEW size \in Nat, GoodLevels(Levels), pickLayer(size) # 0
    PROVE  pickLayer(size) \in 1 .. Len(Levels) /\ Levels[pickLayer(size)] >= size
<1> DEFINE lv == Levels
           fits == {i \in DOMAIN lv : \A j \in 1 .. i : size <= lv[j]}
           target == pickLayer(size)
<1>1. target = IF fits = {} THEN 0 ELSE Max(fits)
  BY DEF pickLayer
<1>2. DOMAIN lv = 1 .. Len(lv) /\ Len(lv) \in Nat
  BY LevelFacts DEF GoodLevels
<1>3. fits # {} /\ target = Max(fits)
  BY <1>1
<1>4. fits \in SUBSET Nat /\ IsFiniteSet(fits)
  <2>1. IsFiniteSet(1 .. Len(lv)) /\ \A i \in 1 .. Len(lv) : i \in Nat
    BY <1>2, FS_Interval
  <2>2. fits \subseteq 1 .. Len(lv)
    BY <1>2
  <2> QED
    BY <2>1, <2>2, FS_Subset
<1>5. target \in fits
  <2> HIDE DEF fits, target
  <2> QED
    BY <1>3, <1>4, MaxOf
<1>6. target \in 1 .. Len(lv) /\ \A j \in 1 .. target : size <= lv[j]
  BY <1>2, <1>5
<1> HIDE DEF target
<1>7. target \in 1 .. target /\ lv[target] \in Nat
  BY <1>2, <1>6, LevelFacts
<1>8. size <= lv[target]
  BY <1>6, <1>7
<1>9. lv[target] >= size
  BY <1>7, <1>8
<1> QED
  BY <1>6, <1>9 DEF target

\* The next reservation is apart from those there are.
LEMMA NextApart ==
    ASSUME NEW rs, AreRegions(rs)
    PROVE  NextBase(rs) \in Nat /\ \A x \in Reserved(rs) : x \in Int /\ x < NextBase(rs)
<1> DEFINE ends == {r.base + r.bytes + Gap : r \in rs}
<1>1. IsFiniteSet(rs) /\ rs # {} /\ \A r \in rs : r.base \in Nat /\ r.bytes \in Nat
  BY DEF AreRegions
<1>2. ends \in SUBSET Nat /\ ends # {}
  BY <1>1 DEF Gap
<1>3. IsFiniteSet(ends)
  <2> DEFINE f == [r \in rs |-> r.base + r.bytes + Gap]
  <2>1. f \in Surjection(rs, ends)
    BY DEF Surjection
  <2> HIDE DEF f, ends
  <2> QED
    BY <1>1, <2>1, FS_Surjection
<1>4. NextBase(rs) = Max(ends)
  BY DEF NextBase
<1>5. Max(ends) \in ends /\ \A e \in ends : e <= Max(ends)
  <2> HIDE DEF ends
  <2> QED
    BY <1>2, <1>3, MaxOf
<1>6. ASSUME NEW x \in Reserved(rs) PROVE x \in Int /\ x < NextBase(rs)
  <2>1. PICK r \in rs : x \in r.base .. r.base + r.bytes - 1
    BY DEF Reserved
  <2>2. r.base + r.bytes + Gap \in ends
    OBVIOUS
  <2>3. r.base + r.bytes + 1 <= NextBase(rs)
    BY <1>4, <1>5, <2>2 DEF Gap
  <2>4. NextBase(rs) \in Nat /\ r.base \in Nat /\ r.bytes \in Nat
    BY <1>1, <1>2, <1>4, <1>5
  <2> QED
    BY <2>1, <2>3, <2>4
<1> QED
  BY <1>2, <1>4, <1>5, <1>6

\* The reservations after a call for a slot of layer target.
Regions(target) ==
    IF NeedsRegion(target)
    THEN regions \cup {[base |-> NextBase(regions), bytes |-> ExpandBytes]} ELSE regions

\* ensureSlotAvailable makes a slot of the layer free, in whichever way it does.
LEMMA Ensured ==
    ASSUME SlotsInv, NEW target \in 1 .. Len(Levels)
    PROVE  /\ Descended(Levels, layers, ensureSlotAvailable(target), Reserved(Regions(target)), target)
           /\ AreRegions(Regions(target))
<1> DEFINE lv == Levels
           U == Reserved(regions)
<1>1. /\ Configured(slotCfg) /\ Forest(lv, layers) /\ FullBut(lv, layers, {})
      /\ Tiles(lv, layers, U) /\ AreRegions(regions)
  BY DEF SlotsInv
<1>2. GoodLevels(lv)
  BY <1>1, ConfiguredLevels DEF Levels
<1>3. Len(lv) \in Nat /\ 1 \in 1 .. Len(lv) /\ target \in Nat /\ target \in 1 .. Len(lv)
  BY <1>2, LevelFacts
<1> HIDE DEF lv
<1>4. \A i : FullBut(lv, layers, Pending(layers, i, LastFree(layers, i)))
  BY <1>1, FullWeaker
<1>5. ASSUME NEW i \in 1 .. Len(lv), layers[i].free # <<>> PROVE Descended(lv, layers, layers, U, i)
  BY <1>1, <1>4, <1>5 DEF Descended
<1>6. CASE layers[target].free # <<>>
  <2>1. ensureSlotAvailable(target) = layers /\ Regions(target) = regions
    BY <1>6 DEF ensureSlotAvailable, Regions, NeedsRegion
  <2> QED
    BY <1>1, <1>3, <1>5, <1>6, <2>1 DEF lv
<1>7. CASE layers[target].free = <<>> /\ NeedsRegion(target)
  <2> DEFINE base == NextBase(regions)
             bytes == ExpandBytes
             ms == Regioned(layers, base, bytes)
             W == Span(base, bytes)
  <2>1. ensureSlotAvailable(target) = SplitDown(ms, 1, target)
    BY <1>7, Zenon DEF ensureSlotAvailable
  <2>2. Regions(target) = regions \cup {[base |-> base, bytes |-> bytes]}
    BY <1>7 DEF Regions
  <2>3. base \in Nat /\ \A x \in U : x \in Int /\ x < base
    BY <1>1, NextApart
  <2>4. Whole(bytes, lv[1])
    BY <1>1, ConfiguredBytes DEF ExpandBytes, Levels, lv
  <2> HIDE DEF base, bytes
  <2>5. bytes \in Nat /\ bytes \div lv[1] \in Nat /\ bytes \div lv[1] > 0 /\ (bytes \div lv[1]) * lv[1] = bytes
    BY <2>4 DEF Whole
  <2>6. \A x \in W : x \notin U
    BY <2>3 DEF Span
  <2>7. PICK b \in Nat : GrowEffect(lv, layers, ms, b, bytes \div lv[1], base)
    BY <1>1, <1>2, <2>3, <2>5, GrowDone
  <2> HIDE DEF ms
  <2>8. Forest(lv, ms) /\ FullBut(lv, ms, {})
    BY <1>1, <1>2, <2>3, <2>5, <2>7, GrowForest
  <2>9. Tiles(lv, ms, U \cup W) /\ InUse(lv, ms) = InUse(lv, layers)
        /\ \A p \in InUse(lv, layers) : Ad(ms, p[1], p[2]) = Ad(layers, p[1], p[2])
    <3> DEFINE count == bytes \div lv[1]
    <3>1. count \in Nat /\ count * lv[1] = bytes /\ GrowEffect(lv, layers, ms, b, count, base)
      BY <2>5, <2>7
    <3>2. \A x \in Span(base, bytes) : x \notin U
      BY <2>6
    <3>3. Forest(lv, layers) /\ Tiles(lv, layers, U) /\ base \in Nat /\ bytes \in Nat
      BY <1>1, <2>3, <2>5
    <3> HIDE DEF U, count
    <3>4. Grown(lv, layers, ms, U \cup W)
      BY <1>2, <3>1, <3>2, <3>3, GrowTiles
    <3> QED
      BY <3>4 DEF Grown
  <2>10. ms[1].free # <<>>
    BY <2>5, <2>7 DEF GrowEffect
  <2>11. Reserved(Regions(target)) = U \cup W
    <3> DEFINE new == [base |-> base, bytes |-> bytes]
    <3>1. \A rs, r : Reserved(rs \cup {r}) = Reserved(rs) \cup Span(r.base, r.bytes)
      BY DEF Reserved, Span
    <3>2. new.base = base /\ new.bytes = bytes
      OBVIOUS
    <3>3. Regions(target) = regions \cup {new}
      BY <2>2
    <3> HIDE DEF new
    <3> QED
      BY <3>1, <3>2, <3>3, Zenon
  <2>12. FullBut(lv, ms, Pending(ms, 1, LastFree(ms, 1)))
    BY <2>8 DEF Pending
  <2> HIDE DEF U, W
  <2>13. Descended(lv, layers, ms, U \cup W, 1)
    BY <2>8, <2>9, <2>10, <2>12 DEF Descended
  <2>14. Descended(lv, layers, SplitDown(ms, 1, target), U \cup W, target)
    BY <1>2, <1>3, <2>13, Descent
  <2>15. AreRegions(Regions(target))
    <3>1. [base |-> base, bytes |-> bytes] \in [base : Nat, bytes : Nat]
      BY <2>3, <2>5
    <3>2. IsFiniteSet(regions \cup {[base |-> base, bytes |-> bytes]})
      BY <1>1, FS_AddElement DEF AreRegions
    <3> QED
      BY <1>1, <2>2, <3>1, <3>2 DEF AreRegions
  <2> QED
    BY <2>1, <2>11, <2>14, <2>15 DEF lv
<1>8. CASE layers[target].free = <<>> /\ ~ NeedsRegion(target)
  <2> DEFINE from == findParentWithFreeSlot(layers, target)
             free == {i \in 1 .. target - 1 : layers[i].free # <<>>}
  <2>1. ensureSlotAvailable(target) = SplitDown(layers, from, target) /\ Regions(target) = regions
    BY <1>8, Zenon DEF ensureSlotAvailable, Regions
  <2>2. from # 0 /\ from = IF free = {} THEN 0 ELSE Max(free)
    BY <1>8 DEF NeedsRegion, findParentWithFreeSlot
  <2>3. free # {} /\ from = Max(free)
    BY <2>2
  <2>4. free \in SUBSET Nat /\ IsFiniteSet(free)
    <3>0. target - 1 \in Int /\ 1 \in Int
      BY <1>3
    <3>1. IsFiniteSet(1 .. target - 1) /\ \A i \in 1 .. target - 1 : i \in Nat
      BY <3>0, FS_Interval
    <3>2. free \subseteq 1 .. target - 1
      OBVIOUS
    <3> QED
      BY <3>1, <3>2, FS_Subset
  <2>5. from \in free
    <3> HIDE DEF free, from
    <3> QED
      BY <2>3, <2>4, MaxOf
  <2>6. from \in 1 .. target - 1 /\ layers[from].free # <<>>
    BY <2>5
  <2> HIDE DEF from, free, U
  <2>7. from \in 1 .. Len(lv) /\ target \in from .. Len(lv)
    BY <1>3, <2>6
  <2>8. Descended(lv, layers, SplitDown(layers, from, target), U, target)
    BY <1>2, <1>5, <2>6, <2>7, Descent
  <2> QED
    BY <1>1, <2>1, <2>8 DEF lv, U
<1> QED
  BY <1>6, <1>7, <1>8

\* The slot taken was not in use, and is a leaf for which no family is all free.
Taken(lv, ls, ns, ms, U, target, idx) ==
    /\ Forest(lv, ms) /\ Tiles(lv, ms, U) /\ FullBut(lv, ms, {})
    /\ InUse(lv, ms) = InUse(lv, ls) \cup {<< target, idx >>} /\ << target, idx >> \notin InUse(lv, ls)
    /\ \A p \in InUse(lv, ls) : Ad(ms, p[1], p[2]) = Ad(ls, p[1], p[2])
    /\ Ad(ms, target, idx) = Ad(ns, target, idx)

LEMMA Acquire ==
    ASSUME NEW lv, NEW ls, NEW ns, NEW U, GoodLevels(lv), NEW target \in 1 .. Len(lv),
           Descended(lv, ls, ns, U, target)
    PROVE  Taken(lv, ls, ns, acquireSlot(ns, target), U, target, LastFree(ns, target))
<1> DEFINE ms == acquireSlot(ns, target)
           idx == LastFree(ns, target)
<1>1. /\ Forest(lv, ns) /\ Tiles(lv, ns, U) /\ ns[target].free # <<>>
      /\ FullBut(lv, ns, Pending(ns, target, idx))
      /\ InUse(lv, ns) = InUse(lv, ls)
      /\ \A p \in InUse(lv, ls) : Ad(ns, p[1], p[2]) = Ad(ls, p[1], p[2])
  BY DEF Descended
<1>2. idx \in Fr(ns, target) /\ MarkEffect(lv, ns, ms, target, idx, "InUse", Fr(ns, target) \ {idx})
  BY <1>1, TakeDone
<1> HIDE DEF ms, idx
<1>3. Forest(lv, ms) /\ Tiles(lv, ms, U)
  <2>1. Marks(ns, target, idx, "InUse", Fr(ns, target) \ {idx})
    BY <1>2 DEF Marks
  <2> QED
    BY <1>1, <1>2, <2>1, MarkForest
<1>4. /\ FullBut(lv, ms, {})
      /\ InUse(lv, ms) = InUse(lv, ns) \cup {<< target, idx >>} /\ << target, idx >> \notin InUse(lv, ns)
      /\ \A p \in InUse(lv, ms) : Ad(ms, p[1], p[2]) = Ad(ns, p[1], p[2])
  BY <1>1, <1>2, TakeFull
<1>5. Ad(ms, target, idx) = Ad(ns, target, idx)
  BY <1>2 DEF MarkEffect
<1>6. \A p \in InUse(lv, ls) : Ad(ms, p[1], p[2]) = Ad(ls, p[1], p[2])
  BY <1>1, <1>4
<1>7. Taken(lv, ls, ns, ms, U, target, idx)
  BY <1>1, <1>3, <1>4, <1>5, <1>6 DEF Taken
<1> QED
  BY <1>7 DEF ms, idx

\* Two slots in use have different addresses.
LEMMA OneAddress ==
    ASSUME NEW lv, NEW ls, NEW U, GoodLevels(lv), Forest(lv, ls), Tiles(lv, ls, U),
           NEW p \in InUse(lv, ls), NEW q \in InUse(lv, ls), Ad(ls, p[1], p[2]) = Ad(ls, q[1], q[2])
    PROVE  p = q
<1>1. /\ p = << p[1], p[2] >> /\ p[1] \in 1 .. Len(lv) /\ p[2] \in Nat
      /\ q = << q[1], q[2] >> /\ q[1] \in 1 .. Len(lv) /\ q[2] \in Nat
      /\ p[2] \in Dom(ls, p[1]) /\ Leaf(ls, p[1], p[2]) /\ Leaf(ls, q[1], q[2])
  BY DEF InUse, Leaf
<1> DEFINE x == Ad(ls, p[1], p[2])
<1>2. x \in Int
  BY <1>1, LayerTypes DEF Forest
<1>3. lv[p[1]] \in Nat /\ lv[p[1]] > 0 /\ lv[q[1]] \in Nat /\ lv[q[1]] > 0
  BY <1>1, LevelFacts
<1>4. Ad(ls, q[1], q[2]) = x
  OBVIOUS
<1> DEFINE c == lv[p[1]]
           d == lv[q[1]]
<1> HIDE DEF x, c, d
<1>5. x <= x /\ x < x + c /\ x < x + d
  BY <1>2, <1>3 DEF c, d
<1>6. Holds(lv, ls, p[1], p[2], x) /\ Holds(lv, ls, q[1], q[2], x)
  BY <1>4, <1>5, Zenon DEF Holds, x, c, d
<1>7. p[1] = q[1] /\ p[2] = q[2]
  BY <1>1, <1>2, <1>6 DEF Tiles
<1> QED
  BY <1>1, <1>7, Zenon

-----------------------------------------------------------------------------
(* The operations preserve the invariant *)

\* The slots and reservations after taking a slot of layer target.
LEMMA AcquiredDone ==
    ASSUME SlotsInv, NEW target \in 1 .. Len(Levels), Acquired(target), UNCHANGED slotCfg
    PROVE  /\ Levels' = Levels /\ Configured(slotCfg)' /\ AreRegions(regions)'
           /\ Taken(Levels, layers, ensureSlotAvailable(target), layers', Reserved(regions'), target,
                    LastFree(ensureSlotAvailable(target), target))
<1>1. Configured(slotCfg)
  BY DEF SlotsInv
<1>2. Levels' = Levels /\ Configured(slotCfg)'
  BY <1>1 DEF Levels, Configured, InitializeAccepts
<1>3. GoodLevels(Levels)
  BY <1>1, ConfiguredLevels DEF Levels
<1>4. /\ Descended(Levels, layers, ensureSlotAvailable(target), Reserved(Regions(target)), target)
      /\ AreRegions(Regions(target))
  BY Ensured
<1>5. regions' = Regions(target) /\ layers' = acquireSlot(ensureSlotAvailable(target), target)
  BY DEF Acquired, Regions
<1>6. AreRegions(regions)'
  BY <1>4, <1>5 DEF AreRegions
<1>7. Taken(Levels, layers, ensureSlotAvailable(target), acquireSlot(ensureSlotAvailable(target), target),
            Reserved(Regions(target)), target, LastFree(ensureSlotAvailable(target), target))
  BY <1>3, <1>4, Acquire
<1>8. Taken(Levels, layers, ensureSlotAvailable(target), layers', Reserved(regions'), target,
            LastFree(ensureSlotAvailable(target), target))
  BY <1>5, <1>7
<1> QED
  BY <1>2, <1>6, <1>8

\* A slot in use is added, and each view keeps its own.
LEMMA TakenViews ==
    ASSUME NEW lv, NEW ls, NEW ns, NEW ms, NEW U, GoodLevels(lv), NEW target \in 1 .. Len(lv), NEW idx,
           Taken(lv, ls, ns, ms, U, target, idx), NEW views, NEW failures, AreViews(lv, ls, views, failures)
    PROVE  /\ IsFiniteSet(InUse(lv, ms)) /\ IsFiniteSet(views) /\ failures \in Nat
           /\ Cardinality(InUse(lv, ms)) = Cardinality(views) + failures + 1 /\ Cardinality(views) \in Nat
           /\ \A v, w \in views : v.addr = w.addr => v = w
           /\ \A v \in views : \E p \in InUse(lv, ms) :
                /\ Ad(ms, p[1], p[2]) = v.addr /\ lv[p[1]] >= v.asked /\ p # << target, idx >>
<1>1. /\ IsFiniteSet(InUse(lv, ls)) /\ IsFiniteSet(views) /\ failures \in Nat
      /\ Cardinality(InUse(lv, ls)) = Cardinality(views) + failures
      /\ \A v, w \in views : v.addr = w.addr => v = w
      /\ \A v \in views : \E p \in InUse(lv, ls) : Ad(ls, p[1], p[2]) = v.addr /\ lv[p[1]] >= v.asked
  BY DEF AreViews
<1>2. /\ InUse(lv, ms) = InUse(lv, ls) \cup {<< target, idx >>} /\ << target, idx >> \notin InUse(lv, ls)
      /\ \A p \in InUse(lv, ls) : Ad(ms, p[1], p[2]) = Ad(ls, p[1], p[2])
  BY DEF Taken
<1>3. IsFiniteSet(InUse(lv, ms)) /\ Cardinality(InUse(lv, ms)) = Cardinality(InUse(lv, ls)) + 1
  <2> DEFINE P == InUse(lv, ls)
             x == << target, idx >>
  <2>1. IsFiniteSet(P) /\ x \notin P /\ InUse(lv, ms) = P \cup {x}
    BY <1>1, <1>2
  <2> HIDE DEF P, x
  <2>2. IsFiniteSet(P \cup {x}) /\ Cardinality(P \cup {x}) = Cardinality(P) + 1
    BY <2>1, FS_AddElement
  <2> QED
    BY <2>1, <2>2 DEF P
<1>4. Cardinality(views) \in Nat
  BY <1>1, FS_CardinalityType
<1>5. Cardinality(InUse(lv, ms)) = Cardinality(views) + failures + 1
  BY <1>1, <1>3, <1>4
<1>6. ASSUME NEW v \in views
      PROVE  \E p \in InUse(lv, ms) :
                /\ Ad(ms, p[1], p[2]) = v.addr /\ lv[p[1]] >= v.asked /\ p # << target, idx >>
  BY <1>1, <1>2
<1> QED
  BY <1>1, <1>3, <1>4, <1>5, <1>6

LEMMA AllocateInv ==
    ASSUME SlotsInv, NEW size \in SlotSizes, allocate(size)
    PROVE  SlotsInv'
<1> DEFINE lv == Levels
           target == pickLayer(size)
           ns == ensureSlotAvailable(target)
           idx == LastFree(ns, target)
           view == [addr |-> Ad(ns, target, idx), asked |-> size]
<1>1. /\ Configured(slotCfg) /\ AreViews(lv, layers, slotViews, mapFailures)
  BY DEF SlotsInv
<1>2. GoodLevels(lv) /\ size \in Nat
  BY <1>1, ConfiguredLevels, SlotConfigsAssumption DEF Levels
<1>3. target # 0 /\ Acquired(target) /\ UNCHANGED slotCfg /\ UNCHANGED mapFailures
      /\ slotViews' = slotViews \cup {view}
  BY Zenon DEF allocate, Ad, LastFree
<1>4. target \in 1 .. Len(lv) /\ lv[target] >= size
  BY <1>2, <1>3, PickedLayer
<1>5. /\ Levels' = Levels /\ Configured(slotCfg)' /\ AreRegions(regions)'
      /\ Taken(lv, layers, ns, layers', Reserved(regions'), target, idx)
  BY <1>3, <1>4, AcquiredDone
<1>6. view.addr = Ad(ns, target, idx) /\ view.asked = size
  OBVIOUS
<1> HIDE DEF lv, target, ns, idx, view
<1>7. /\ IsFiniteSet(InUse(lv, layers')) /\ IsFiniteSet(slotViews) /\ mapFailures \in Nat
      /\ Cardinality(InUse(lv, layers')) = Cardinality(slotViews) + mapFailures + 1
      /\ Cardinality(slotViews) \in Nat
      /\ \A v, w \in slotViews : v.addr = w.addr => v = w
      /\ \A v \in slotViews : \E p \in InUse(lv, layers') :
           /\ Ad(layers', p[1], p[2]) = v.addr /\ lv[p[1]] >= v.asked /\ p # << target, idx >>
  <2>1. GoodLevels(lv) /\ target \in 1 .. Len(lv)
    BY <1>2, <1>4
  <2>2. Taken(lv, layers, ns, layers', Reserved(regions'), target, idx)
    BY <1>5
  <2>3. AreViews(lv, layers, slotViews, mapFailures)
    BY <1>1
  <2> QED
    BY <2>1, <2>2, <2>3, TakenViews, SMTT(60)
<1>8. /\ Forest(lv, layers') /\ Tiles(lv, layers', Reserved(regions')) /\ FullBut(lv, layers', {})
      /\ << target, idx >> \in InUse(lv, layers') /\ Ad(layers', target, idx) = view.addr
  BY <1>5, <1>6 DEF Taken
<1> DEFINE own == << target, idx >>
<1>9. own[1] = target /\ own[2] = idx
  OBVIOUS
<1> HIDE DEF own
<1>10. own \in InUse(lv, layers') /\ Ad(layers', own[1], own[2]) = view.addr
  BY <1>8, <1>9 DEF own
<1>11. \A v \in slotViews : v.addr # view.addr
  <2> SUFFICES ASSUME NEW v \in slotViews, v.addr = view.addr PROVE FALSE
    OBVIOUS
  <2>1. PICK p \in InUse(lv, layers') : Ad(layers', p[1], p[2]) = v.addr /\ p # own
    BY <1>7 DEF own
  <2>2. p = own
    BY <1>2, <1>8, <1>10, <2>1, OneAddress
  <2> QED
    BY <2>1, <2>2
<1>12. IsFiniteSet(slotViews') /\ Cardinality(slotViews') = Cardinality(slotViews) + 1
  <2>1. view \notin slotViews
    BY <1>11
  <2> QED
    BY <1>3, <1>7, <2>1, FS_AddElement
<1>13. AreViews(lv, layers', slotViews', mapFailures')
  <2>1. mapFailures' \in Nat /\ Cardinality(InUse(lv, layers')) = Cardinality(slotViews') + mapFailures'
    BY <1>3, <1>7, <1>12
  <2>2. \A v, w \in slotViews' : v.addr = w.addr => v = w
    BY <1>3, <1>7, <1>11
  <2>3. \A v \in slotViews' : \E p \in InUse(lv, layers') : Ad(layers', p[1], p[2]) = v.addr /\ lv[p[1]] >= v.asked
    <3>1. lv[own[1]] >= view.asked
      BY <1>4, <1>6, <1>9
    <3> QED
      BY <1>3, <1>7, <1>10, <3>1
  <2> QED
    BY <1>7, <1>12, <2>1, <2>2, <2>3 DEF AreViews
<1>14. Levels' = lv
  BY <1>5 DEF lv
<1> QED
  BY <1>5, <1>8, <1>13, <1>14 DEF SlotsInv

LEMMA AllocateMapThrowsInv ==
    ASSUME SlotsInv, NEW size \in SlotSizes, AllocateMapThrows(size)
    PROVE  SlotsInv'
<1> DEFINE lv == Levels
           target == pickLayer(size)
           ns == ensureSlotAvailable(target)
           idx == LastFree(ns, target)
<1>1. /\ Configured(slotCfg) /\ AreViews(lv, layers, slotViews, mapFailures)
  BY DEF SlotsInv
<1>2. GoodLevels(lv) /\ size \in Nat
  BY <1>1, ConfiguredLevels, SlotConfigsAssumption DEF Levels
<1>3. target # 0 /\ Acquired(target) /\ UNCHANGED slotCfg /\ UNCHANGED slotViews
      /\ mapFailures' = mapFailures + 1
  BY DEF AllocateMapThrows
<1>4. target \in 1 .. Len(lv)
  BY <1>2, <1>3, PickedLayer
<1>5. /\ Levels' = Levels /\ Configured(slotCfg)' /\ AreRegions(regions)'
      /\ Taken(lv, layers, ns, layers', Reserved(regions'), target, idx)
  BY <1>3, <1>4, AcquiredDone
<1> HIDE DEF lv, target, ns, idx
<1>6. /\ IsFiniteSet(InUse(lv, layers')) /\ IsFiniteSet(slotViews) /\ mapFailures \in Nat
      /\ Cardinality(InUse(lv, layers')) = Cardinality(slotViews) + mapFailures + 1
      /\ Cardinality(slotViews) \in Nat
      /\ \A v, w \in slotViews : v.addr = w.addr => v = w
      /\ \A v \in slotViews : \E p \in InUse(lv, layers') :
           /\ Ad(layers', p[1], p[2]) = v.addr /\ lv[p[1]] >= v.asked /\ p # << target, idx >>
  BY <1>1, <1>2, <1>4, <1>5, TakenViews
<1>7. Forest(lv, layers') /\ Tiles(lv, layers', Reserved(regions')) /\ FullBut(lv, layers', {})
  BY <1>5 DEF Taken
<1>8. AreViews(lv, layers', slotViews', mapFailures')
  <2>1. mapFailures' \in Nat /\ Cardinality(InUse(lv, layers')) = Cardinality(slotViews') + mapFailures'
    BY <1>3, <1>6
  <2>2. \A v \in slotViews' : \E p \in InUse(lv, layers') : Ad(layers', p[1], p[2]) = v.addr /\ lv[p[1]] >= v.asked
    BY <1>3, <1>6
  <2> QED
    BY <1>3, <1>6, <2>1, <2>2 DEF AreViews
<1>9. Levels' = lv
  BY <1>5 DEF lv
<1> QED
  BY <1>5, <1>7, <1>8, <1>9 DEF SlotsInv

\* The slot of a view is found by its address, and no other.
LEMMA Found ==
    ASSUME NEW lv, NEW ls, NEW U, GoodLevels(lv), Forest(lv, ls), Tiles(lv, ls, U),
           NEW addr, NEW p \in InUse(lv, ls), Ad(ls, p[1], p[2]) = addr
    PROVE  findSlot(ls, addr) = {p}
<1>1. \A q : q \in findSlot(ls, addr) <=> q \in Busy(ls) /\ Ad(ls, q[1], q[2]) = addr
  BY DEF findSlot, Busy, AllSlots, SlotAt, Ad
<1>2. Busy(ls) = InUse(lv, ls)
  BY SlotSets DEF Forest
<1>3. \A q \in InUse(lv, ls) : Ad(ls, q[1], q[2]) = addr => q = p
  BY OneAddress
<1> QED
  BY <1>1, <1>2, <1>3

LEMMA DeallocateInv ==
    ASSUME SlotsInv, NEW view \in slotViews, deallocate(view)
    PROVE  SlotsInv'
<1> DEFINE lv == Levels
           U == Reserved(regions)
           at == CHOOSE p \in findSlot(layers, view.addr) :
                   \A q \in findSlot(layers, view.addr) : p[1] <= q[1]
           i == at[1]
           idx == at[2]
           rs == releaseSlot(layers, i, idx)
<1>1. /\ Configured(slotCfg) /\ Forest(lv, layers) /\ FullBut(lv, layers, {}) /\ Tiles(lv, layers, U)
      /\ AreRegions(regions) /\ AreViews(lv, layers, slotViews, mapFailures)
  BY DEF SlotsInv
<1>2. GoodLevels(lv)
  BY <1>1, ConfiguredLevels DEF Levels
<1>3. /\ slotViews' = slotViews \ {view} /\ UNCHANGED << slotCfg, regions, mapFailures >>
      /\ layers' = tryMergeUpward(rs, i, idx)
  BY DEF deallocate
<1>4. /\ IsFiniteSet(InUse(lv, layers)) /\ IsFiniteSet(slotViews) /\ mapFailures \in Nat
      /\ Cardinality(InUse(lv, layers)) = Cardinality(slotViews) + mapFailures
      /\ \A v, w \in slotViews : v.addr = w.addr => v = w
      /\ \A v \in slotViews : \E p \in InUse(lv, layers) : Ad(layers, p[1], p[2]) = v.addr /\ lv[p[1]] >= v.asked
  BY <1>1 DEF AreViews
<1> HIDE DEF lv, U
<1>5. PICK p \in InUse(lv, layers) : Ad(layers, p[1], p[2]) = view.addr
  BY <1>4
<1>6. findSlot(layers, view.addr) = {p}
  BY <1>1, <1>2, <1>5, Found
<1>7. p[1] \in Nat
  <2>1. p[1] \in 1 .. Len(lv) /\ Len(lv) \in Nat
    BY <1>2, LevelFacts DEF InUse
  <2> QED
    BY <2>1
<1>8. at = p
  <2>1. \E q \in {p} : \A r \in {p} : q[1] <= r[1]
    BY <1>7
  <2> QED
    BY <1>6, <2>1
<1>9. /\ i \in 1 .. Len(lv) /\ idx \in Dom(layers, i) /\ St(layers, i, idx) = "InUse"
      /\ Ad(layers, i, idx) = view.addr /\ p = << i, idx >>
  <2>1. p = << p[1], p[2] >> /\ p[1] \in 1 .. Len(lv) /\ p[2] \in Dom(layers, p[1])
        /\ St(layers, p[1], p[2]) = "InUse"
    BY DEF InUse
  <2>2. i = p[1] /\ idx = p[2]
    BY <1>8
  <2> HIDE DEF i, idx
  <2> QED
    BY <1>5, <2>1, <2>2, Zenon
<1> HIDE DEF at, i, idx, rs
<1>10. MarkEffect(lv, layers, rs, i, idx, "Free", Fr(layers, i) \cup {idx})
  BY <1>1, <1>2, <1>9, GiveDone DEF rs
<1>11. Forest(lv, rs) /\ Tiles(lv, rs, U)
  <2>1. Marks(layers, i, idx, "Free", Fr(layers, i) \cup {idx})
    BY <1>9 DEF Marks
  <2> QED
    BY <1>1, <1>2, <1>9, <1>10, <2>1, MarkForest
<1>12. /\ FullBut(lv, rs, Pending(rs, i, idx)) /\ idx \in Fr(rs, i)
       /\ InUse(lv, rs) = InUse(lv, layers) \ {<< i, idx >>} /\ << i, idx >> \in InUse(lv, layers)
       /\ \A q \in InUse(lv, rs) : Ad(rs, q[1], q[2]) = Ad(layers, q[1], q[2])
  <2>1. GoodLevels(lv) /\ i \in 1 .. Len(lv) /\ idx \in Dom(layers, i) /\ St(layers, i, idx) = "InUse"
    BY <1>2, <1>9
  <2>2. MarkEffect(lv, layers, rs, i, idx, "Free", Fr(layers, i) \cup {idx})
    BY <1>10
  <2>3. Forest(lv, layers) /\ FullBut(lv, layers, {})
    BY <1>1
  <2> QED
    BY <2>1, <2>2, <2>3, GiveFull, SMTT(60)
<1>13. /\ Forest(lv, layers') /\ Tiles(lv, layers', U) /\ FullBut(lv, layers', {})
       /\ InUse(lv, layers') = InUse(lv, rs)
       /\ \A q \in InUse(lv, rs) : Ad(layers', q[1], q[2]) = Ad(rs, q[1], q[2])
  BY <1>2, <1>3, <1>9, <1>11, <1>12, Ascent
<1>14. /\ InUse(lv, layers') = InUse(lv, layers) \ {p}
       /\ \A q \in InUse(lv, layers') : Ad(layers', q[1], q[2]) = Ad(layers, q[1], q[2])
  BY <1>9, <1>12, <1>13
<1>15. /\ IsFiniteSet(InUse(lv, layers')) /\ IsFiniteSet(slotViews')
       /\ Cardinality(InUse(lv, layers')) = Cardinality(slotViews') + mapFailures'
  <2>1. /\ IsFiniteSet(InUse(lv, layers'))
        /\ Cardinality(InUse(lv, layers')) = Cardinality(InUse(lv, layers)) - 1
    BY <1>4, <1>14, FS_RemoveElement
  <2>2. IsFiniteSet(slotViews') /\ Cardinality(slotViews') = Cardinality(slotViews) - 1
    BY <1>3, <1>4, FS_RemoveElement
  <2>3. Cardinality(slotViews) \in Nat /\ mapFailures' = mapFailures
    BY <1>3, <1>4, FS_CardinalityType
  <2> QED
    BY <1>4, <2>1, <2>2, <2>3
<1>16. ASSUME NEW v \in slotViews'
       PROVE  \E q \in InUse(lv, layers') : Ad(layers', q[1], q[2]) = v.addr /\ lv[q[1]] >= v.asked
  <2>1. v \in slotViews /\ v # view
    BY <1>3
  <2>2. PICK q \in InUse(lv, layers) : Ad(layers, q[1], q[2]) = v.addr /\ lv[q[1]] >= v.asked
    BY <1>4, <2>1
  <2>3. q # p
    BY <1>4, <1>5, <2>1, <2>2
  <2> QED
    BY <1>14, <2>2, <2>3
<1>17. AreViews(lv, layers', slotViews', mapFailures')
  <2>1. mapFailures' \in Nat /\ \A v, w \in slotViews' : v.addr = w.addr => v = w
    BY <1>3, <1>4
  <2> QED
    BY <1>15, <1>16, <2>1 DEF AreViews
<1>18. Levels' = lv /\ Configured(slotCfg)' /\ Reserved(regions') = U /\ AreRegions(regions)'
  BY <1>1, <1>3 DEF Levels, lv, U, Configured, InitializeAccepts
<1> QED
  BY <1>13, <1>17, <1>18 DEF SlotsInv

LEMMA NextInv ==
    ASSUME SlotsInv, [SlotNext]_slotVars
    PROVE  SlotsInv'
<1>1. CASE UNCHANGED slotVars
  <2>1. /\ slotCfg' = slotCfg /\ layers' = layers /\ regions' = regions
        /\ slotViews' = slotViews /\ mapFailures' = mapFailures
    BY <1>1 DEF slotVars
  <2> QED
    BY <2>1 DEF SlotsInv, Levels, Configured, InitializeAccepts
<1>2. CASE SlotNext
  <2>1. ASSUME NEW size \in SlotSizes, allocate(size) PROVE SlotsInv'
    BY <2>1, AllocateInv
  <2>2. ASSUME NEW size \in SlotSizes, AllocateMapThrows(size) PROVE SlotsInv'
    BY <2>2, AllocateMapThrowsInv
  <2>3. ASSUME NEW view \in slotViews, deallocate(view) PROVE SlotsInv'
    BY <2>3, DeallocateInv
  <2> QED
    BY <1>2, <2>1, <2>2, <2>3 DEF SlotNext
<1> QED
  BY <1>1, <1>2

-----------------------------------------------------------------------------
(* Theorems *)

\* Every slot that is in use, split or on a free list of HierarchicalSlotStorage
\* is where its parent puts it, the retired families are nobody's, and views
\* have slots of their own: SlotsInv holds after any sequence of allocate and
\* deallocate, whatever the levels, the sizes and the bounds.
THEOREM SlotsInvariant == SlotSpec => []SlotsInv
<1>1. SlotInit => SlotsInv
  BY InitInv
<1>2. SlotsInv /\ [SlotNext]_slotVars => SlotsInv'
  BY NextInv
<1> QED
  BY <1>1, <1>2, PTL DEF SlotSpec

\* The slots in use and on the free lists are a partition of the reserved
\* memory, every view is a slot in use that is large enough, and a slot stays
\* split only while something below it is in use.
THEOREM SlotsAlwaysTile == SlotSpec => []SlotsTileMemory
<1>1. SlotsInv => SlotsTileMemory
  BY IInvTiles
<1> QED
  BY <1>1, SlotsInvariant, PTL

=============================================================================
