------------------------- MODULE SharedLeaseProofs -------------------------
(***************************************************************************)
(* Proofs about SharedLease, for any number of lease objects, control      *)
(* blocks and payload slots.                                               *)
(*                                                                         *)
(* The inductive invariant says which leases still own their block: a      *)
(* lease is current as long as its control block has not been returned     *)
(* since the lease was issued.  Leases in the middle of a release may lose *)
(* their block to a concurrent release; the live ones and the one being    *)
(* issued never do.                                                        *)
(***************************************************************************)
EXTENDS SharedLease, FiniteSetTheorems, TLAPS

Held(l) == lease[l] # NoLease
Current(l) == Held(l) /\ cb_generation[cbOf(l)] = lease[l].cb.generation
Acquiring(l) == pc[l] \in {"bind", "count"}
Settled(l) == pc[l] \in {"idle", "bind", "count"}

AnyHandle(S) == [ slot : S, generation : Nat ]

TypeInv ==
    /\ category \in {"strong", "shared"}
    /\ strong_count \in [ControlBlock -> Nat]
    /\ weak_count \in [ControlBlock -> Nat]
    /\ payload_handle \in [ControlBlock -> AnyHandle(Payload) \cup {NoHandle}]
    /\ cb_free \subseteq ControlBlock
    /\ cb_generation \in [ControlBlock -> Nat]
    /\ payload_free \subseteq Payload
    /\ payload_generation \in [Payload -> Nat]
    /\ lease \in [Lease -> {NoLease} \cup [ kind : {"strong", "weak"},
                                             cb : AnyHandle(ControlBlock),
                                             payload : AnyHandle(Payload) ]]
    /\ pc \in [Lease -> Steps]
    /\ acquires \in 0 .. MaxAcquires

\* Which leases are current, and what that means for the block's slot.
OnBlock(l) ==
    /\ Held(l) => lease[l].cb.generation <= cb_generation[cbOf(l)]
    /\ Current(l) => cbOf(l) \notin cb_free
    /\ Held(l) /\ Settled(l) => Current(l)
    /\ ~Held(l) => pc[l] = "idle"
    /\ Acquiring(l) => lease[l].kind = "strong"

Blocks == \A l \in Lease : OnBlock(l)

\* The manager issues one lease at a time, on a block nobody else has.
Acquirer ==
    \A l, n \in Lease :
        Acquiring(l) /\ l # n =>
            /\ ~Acquiring(n)
            /\ ~(Current(n) /\ cbOf(n) = cbOf(l))

\* What a release has read of the counts is still true of a block it owns.
ChecksHold(l) ==
    Current(l) =>
        /\ pc[l] \in {"weak_checks_weak", "shutdown_checks_weak", "return_control_block"}
            => strong_count[cbOf(l)] = 0
        /\ pc[l] = "return_control_block" => weak_count[cbOf(l)] = 0

ChecksStable == \A l \in Lease : ChecksHold(l)

\* Somebody is left to return a block that is taken.
Owned == \A c \in ControlBlock \ cb_free : \E l \in Lease : Current(l) /\ cbOf(l) = c

\* The leases of one block were issued for one payload.
SamePayload ==
    \A l, n \in Lease :
        Current(l) /\ Current(n) /\ cbOf(l) = cbOf(n) => lease[l].payload = lease[n].payload

\* A handle that is bound or leased is not ahead of its slot; one that is up to
\* date is bound to one block at most, and its slot is taken.
UpToDate(h) == h.generation = payload_generation[h.slot]

LeasedHandle(l) ==
    Held(l) => lease[l].payload.generation <= payload_generation[lease[l].payload.slot]

BoundHandle(c) ==
    LET h == payload_handle[c] IN
    h # NoHandle =>
        /\ h.generation <= payload_generation[h.slot]
        /\ UpToDate(h) => /\ h.slot \notin payload_free
                          /\ \A d \in ControlBlock : payload_handle[d] = h => d = c

HandleToBind(l) ==
    LET h == lease[l].payload IN
    pc[l] = "bind" =>
        /\ UpToDate(h)
        /\ h.slot \notin payload_free
        /\ \A c \in ControlBlock : payload_handle[c] # h

Payloads ==
    /\ \A l \in Lease : LeasedHandle(l) /\ HandleToBind(l)
    /\ \A c \in ControlBlock : BoundHandle(c)

\* The payload of a block that was never reused, or that has no weak leases.
Fresh(c) == category = "strong" \/ cb_generation[c] = 0

FreshCount(l) ==
    /\ Held(l) /\ Fresh(cbOf(l))
    /\ pc[l] \in {"try_release_payload", "return_payload", "clear_payload"}
    => strong_count[cbOf(l)] = 0

FreshPayload(l) ==
    /\ Held(l) /\ Fresh(cbOf(l))
    /\ Live(l, "strong") \/ pc[l] = "count"
    => Keeps(l)

FreshKeeps == \A l \in Lease : FreshCount(l) /\ FreshPayload(l)

\* StrongControlBlock: one release at a time per block, and the payload slot
\* stays with a lease until that release gives it back.
StrongLease(l) ==
    /\ lease[l].kind = "strong"
    /\ pc[l] \notin {"weak_checks_strong", "weak_checks_weak", "shutdown_checks_weak"}
    /\ Current(l)
    /\ ~Settled(l) => strong_count[cbOf(l)] = 0

StrongPayload(l) ==
    /\ pc[l] \in {"try_release_payload", "return_payload"} => Keeps(l)
    /\ pc[l] \in {"bind", "shutdown_checks_strong", "return_control_block"}
        => payload_handle[cbOf(l)] = NoHandle

OneReleaser ==
    \A l, n \in Lease : ~Settled(l) /\ ~Settled(n) /\ cbOf(l) = cbOf(n) => l = n

FreeUnbound == \A c \in cb_free : payload_handle[c] = NoHandle

Holds(l, q) ==
    /\ Held(l)
    /\ Settled(l) \/ pc[l] \in {"try_release_payload", "return_payload"}
    /\ lease[l].payload = [slot |-> q, generation |-> payload_generation[q]]

PayloadOwned == \A q \in Payload \ payload_free : \E l \in Lease : Holds(l, q)

StrongOnly ==
    category = "strong" =>
        /\ \A l \in Lease : Held(l) => StrongLease(l) /\ StrongPayload(l)
        /\ OneReleaser /\ FreeUnbound /\ PayloadOwned

\* A slot is given back at most once per acquisition.
Generations ==
    /\ \A c \in ControlBlock :
        cb_generation[c] + (IF c \in cb_free THEN 0 ELSE 1) <= acquires
    /\ \A q \in Payload :
        payload_generation[q] + (IF q \in payload_free THEN 0 ELSE 1) <= acquires

IInv ==
    /\ TypeInv /\ Blocks /\ Acquirer /\ CountsExact /\ ChecksStable /\ Owned
    /\ SamePayload /\ Payloads /\ FreshKeeps /\ StrongOnly /\ Generations

-----------------------------------------------------------------------------
(* Types.                                                                  *)

\* What a control block with a payload is bound to.
LEMMA BoundFields ==
    ASSUME TypeInv, NEW c \in ControlBlock, payload_handle[c] # NoHandle
    PROVE  /\ payload_handle[c] \in AnyHandle(Payload)
           /\ payload_handle[c].slot \in Payload
           /\ payload_handle[c].generation \in Nat
BY DEF TypeInv, AnyHandle

\* What a lease object that is not empty holds.
LEMMA HeldFields ==
    ASSUME TypeInv, NEW l \in Lease
    PROVE  /\ Held(l) => /\ lease[l] \in [ kind : {"strong", "weak"},
                                           cb : AnyHandle(ControlBlock),
                                           payload : AnyHandle(Payload) ]
                         /\ lease[l].kind \in {"strong", "weak"}
                         /\ cbOf(l) \in ControlBlock
                         /\ lease[l].cb.generation \in Nat
                         /\ lease[l].payload \in AnyHandle(Payload)
                         /\ lease[l].payload.slot \in Payload
                         /\ lease[l].payload.generation \in Nat
                         /\ lease[l].payload # NoHandle
           /\ ~Held(l) => lease[l].kind = "none"
BY SharedLeaseConstants DEF TypeInv, Held, cbOf, AnyHandle, NoLease, NoHandle

-----------------------------------------------------------------------------
(* The counts, read as statements about lease objects.                     *)

LEMMA Grown ==
    ASSUME NEW S, IsFiniteSet(S), NEW x, x \notin S
    PROVE  Cardinality(S \cup {x}) = Cardinality(S) + 1
BY FS_AddElement

\* Removing one element takes one from the count.
LEMMA Shrunk ==
    ASSUME NEW S, IsFiniteSet(S), NEW x \in S
    PROVE  Cardinality(S \ {x}) = Cardinality(S) - 1
BY FS_RemoveElement

\* The counted sets are finite.
LEMMA CountedFinite ==
    ASSUME NEW c, NEW kind
    PROVE  /\ IsFiniteSet(Counted(c, kind))
           /\ Cardinality(Counted(c, kind)) \in 0 .. Cardinality(Lease)
<1>1. Counted(c, kind) \subseteq Lease
  BY DEF Counted
<1> QED
  BY <1>1, SharedLeaseConstants, FS_Subset, FS_CardinalityType

\* A set of leases that has one member has a second one unless its size is one.
LEMMA Others ==
    ASSUME NEW c, NEW kind
    PROVE  /\ Cardinality(Counted(c, kind)) # 0 => \E l \in Lease : l \in Counted(c, kind)
           /\ \A l \in Counted(c, kind) :
                /\ Cardinality(Counted(c, kind)) > 0
                /\ Cardinality(Counted(c, kind)) # 1 => \E n \in Counted(c, kind) : n # l
<1> DEFINE S == Counted(c, kind)
<1>1. IsFiniteSet(S) /\ Cardinality(S) \in Nat /\ S \subseteq Lease
  BY CountedFinite DEF Counted
<1>2. Cardinality(S) # 0 => \E l \in Lease : l \in S
  BY <1>1, FS_EmptySet
<1>3. ASSUME NEW l \in S PROVE Cardinality(S) > 0
  BY <1>1, <1>3, FS_EmptySet
<1>4. ASSUME NEW l \in S, Cardinality(S) # 1 PROVE \E n \in S : n # l
  <2>1. ASSUME S = {l} PROVE FALSE
    BY <2>1, <1>4, FS_Singleton
  <2> QED
    BY <2>1, <1>4
<1> QED
  BY <1>2, <1>3, <1>4

\* A block's strong count is positive exactly when it has a live strong lease;
\* a live strong lease is the only one when the count is one.
LEMMA StrongCount ==
    ASSUME TypeInv, CountsExact, NEW c \in ControlBlock
    PROVE  /\ strong_count[c] # 0 => \E l \in Lease : Live(l, "strong") /\ cbOf(l) = c
           /\ \A l \in Lease : Live(l, "strong") /\ cbOf(l) = c =>
                /\ strong_count[c] > 0
                /\ strong_count[c] # 1 =>
                    \E n \in Lease : n # l /\ Live(n, "strong") /\ cbOf(n) = c
<1>1. strong_count[c] = Cardinality(Counted(c, "strong"))
  BY DEF CountsExact
<1>2. \A l \in Lease : l \in Counted(c, "strong") <=> Live(l, "strong") /\ cbOf(l) = c
  BY DEF Counted
<1>3. Counted(c, "strong") \subseteq Lease
  BY DEF Counted
<1> QED
  BY <1>1, <1>2, <1>3, Others

\* The same for weak leases.
LEMMA WeakCount ==
    ASSUME TypeInv, CountsExact, NEW c \in ControlBlock
    PROVE  /\ weak_count[c] # 0 => \E l \in Lease : Live(l, "weak") /\ cbOf(l) = c
           /\ \A l \in Lease : Live(l, "weak") /\ cbOf(l) = c =>
                /\ weak_count[c] > 0
                /\ weak_count[c] # 1 =>
                    \E n \in Lease : n # l /\ Live(n, "weak") /\ cbOf(n) = c
<1>1. weak_count[c] = Cardinality(Counted(c, "weak"))
  BY DEF CountsExact
<1>2. \A l \in Lease : l \in Counted(c, "weak") <=> Live(l, "weak") /\ cbOf(l) = c
  BY DEF Counted
<1>3. Counted(c, "weak") \subseteq Lease
  BY DEF Counted
<1> QED
  BY <1>1, <1>2, <1>3, Others

\* The four ways to make a lease from another one: the source is live, a strong
\* lease is only made while the block has one.
Copies(l, n, kind) ==
    /\ Held(l) /\ pc[l] = "idle" /\ lease[l].kind \in {"strong", "weak"}
    /\ CopyAs(l, n, kind)
    /\ kind = "strong" => strong_count[cbOf(l)] > 0
    /\ kind = "weak" => category = "shared" \/ lease[l].kind = "weak"

\* The steps of the system, one case each.
LEMMA NextCases ==
    ASSUME TypeInv, CountsExact, [Next]_vars
    PROVE  \/ \E l \in Lease :
                \/ AcquireSlots(l) \/ TryBindPayload(l) \/ AcquireStrong(l)
                \/ ReleaseStrong(l) \/ ReleaseWeak(l)
                \/ TryReleasePayload(l) \/ ReturnPayload(l) \/ ClearPayload(l)
                \/ WeakChecksStrong(l) \/ WeakChecksWeak(l)
                \/ ShutdownChecksStrong(l) \/ ShutdownChecksWeak(l) \/ ReturnControlBlock(l)
           \/ \E l, n \in Lease, kind \in {"strong", "weak"} : Copies(l, n, kind)
           \/ UNCHANGED vars
<1>1. ASSUME NEW l \in Lease, NEW n \in Lease, CopyStrong(l, n)
      PROVE  Copies(l, n, "strong")
  BY <1>1, HeldFields, StrongCount DEF CopyStrong, Copies, Live, Held, NoLease
<1>2. ASSUME NEW l \in Lease, NEW n \in Lease, CopyWeak(l, n)
      PROVE  Copies(l, n, "weak")
  BY <1>2, HeldFields DEF CopyWeak, Copies, Live, Held, NoLease
<1>3. ASSUME NEW l \in Lease, NEW n \in Lease, WeakFromStrong(l, n)
      PROVE  Copies(l, n, "weak")
  BY <1>3, HeldFields DEF WeakFromStrong, Copies, Live, Held, NoLease
<1>4. ASSUME NEW l \in Lease, NEW n \in Lease, Lock(l, n)
      PROVE  Copies(l, n, "strong")
  BY <1>4, HeldFields DEF Lock, Copies, Live, Held, NoLease
<1> QED
  BY <1>1, <1>2, <1>3, <1>4 DEF Next, ReleaseStep

Counts(a, kind, c) == Live(a, kind) /\ cbOf(a) = c
One(b) == IF b THEN 1 ELSE 0

\* A step of one lease object changes the size of a set of live leases by what
\* the object contributes before and after.
LEMMA CountedChange ==
    ASSUME NEW a \in Lease, NEW c, NEW kind,
           \A m \in Lease : m # a => lease'[m] = lease[m] /\ pc'[m] = pc[m]
    PROVE  Cardinality(Counted(c, kind)') =
             Cardinality(Counted(c, kind)) - One(Counts(a, kind, c)) + One(Counts(a, kind, c)')
<1> DEFINE S == Counted(c, kind)
           T == Counted(c, kind)'
           R == S \ {a}
<1>1. /\ IsFiniteSet(S) /\ Cardinality(S) \in Nat
      /\ IsFiniteSet(R) /\ Cardinality(R) \in Nat
  BY CountedFinite, FS_Subset, FS_CardinalityType
<1>2. R = T \ {a}
  BY DEF Counted, Live, cbOf
<1>3. (a \in S <=> Counts(a, kind, c)) /\ (a \in T <=> Counts(a, kind, c)')
  BY DEF Counted, Counts, Live, cbOf
<1>4. Cardinality(S) = Cardinality(R) + One(Counts(a, kind, c))
  <2>1. CASE a \in S
    BY <1>1, <1>3, <2>1, Shrunk DEF One
  <2>2. CASE a \notin S
    <3>1. Cardinality(R) = Cardinality(S)
      <4>1. R = S
        BY <2>2
      <4> QED
        BY <4>1
    <3>2. One(Counts(a, kind, c)) = 0
      BY <1>3, <2>2 DEF One
    <3> HIDE DEF R, S
    <3> QED
      BY <1>1, <3>1, <3>2
  <2> QED
    BY <2>1, <2>2
<1>5. Cardinality(T) = Cardinality(R) + One(Counts(a, kind, c)')
  <2>1. CASE a \in T
    <3>1. T = R \cup {a} /\ a \notin R
      BY <1>2, <2>1
    <3> QED
      BY <1>1, <1>3, <2>1, <3>1, Grown DEF One
  <2>2. CASE a \notin T
    <3>1. Cardinality(R) = Cardinality(T)
      <4>1. R = T
        BY <1>2, <2>2
      <4> QED
        BY <4>1
    <3>2. One(Counts(a, kind, c)') = 0
      BY <1>3, <2>2 DEF One
    <3> HIDE DEF R, T
    <3> QED
      BY <1>1, <3>1, <3>2
  <2> QED
    BY <2>1, <2>2
<1> QED
  BY <1>1, <1>4, <1>5 DEF One

\* So the counts stay exact when a step of one lease object changes them by that.
LEMMA CountsChange ==
    ASSUME TypeInv, CountsExact, NEW a \in Lease,
           \A m \in Lease : m # a => lease'[m] = lease[m] /\ pc'[m] = pc[m],
           \A c \in ControlBlock :
             /\ strong_count'[c] =
                  strong_count[c] - One(Counts(a, "strong", c)) + One(Counts(a, "strong", c)')
             /\ weak_count'[c] =
                  weak_count[c] - One(Counts(a, "weak", c)) + One(Counts(a, "weak", c)')
    PROVE  CountsExact'
<1>1. ASSUME NEW c \in ControlBlock, NEW kind
      PROVE  Cardinality(Counted(c, kind)') =
               Cardinality(Counted(c, kind)) - One(Counts(a, kind, c)) + One(Counts(a, kind, c)')
  BY CountedChange
<1>2. ASSUME NEW c \in ControlBlock
      PROVE  /\ strong_count'[c] = Cardinality(Counted(c, "strong")')
             /\ weak_count'[c] = Cardinality(Counted(c, "weak")')
  BY <1>1 DEF CountsExact
<1> QED
  BY <1>2 DEF CountsExact

-----------------------------------------------------------------------------
(* Every part of the invariant is kept by every step.                      *)

\* Every step keeps the variables' types.
LEMMA TypeStep ==
    ASSUME TypeInv, Blocks, CountsExact, [Next]_vars
    PROVE  TypeInv'
<1>1. ASSUME NEW l \in Lease, AcquireSlots(l) PROVE TypeInv'
  BY <1>1, SharedLeaseConstants DEF AcquireSlots, counts, Steps, AnyHandle, TypeInv
<1>2. ASSUME NEW l \in Lease, TryBindPayload(l) PROVE TypeInv'
  BY <1>2, HeldFields
  DEF TryBindPayload, CanBindPayload, GoTo, Invalidate, cb_pool, counts, payload_pool,
     fixed, TypeInv, Steps, Blocks, OnBlock
<1>3. ASSUME NEW l \in Lease, AcquireStrong(l) PROVE TypeInv'
  BY <1>3, HeldFields
  DEF AcquireStrong, GoTo, cb_pool, payload_pool, fixed, TypeInv, Steps, Blocks, OnBlock
<1>4. ASSUME NEW l \in Lease, ReleaseStrong(l) PROVE TypeInv'
  BY <1>4, HeldFields
  DEF ReleaseStrong, Live, Decrement, GoTo, Invalidate, cb_pool, payload_pool, fixed,
     TypeInv, Steps, Blocks, OnBlock
<1>5. ASSUME NEW l \in Lease, ReleaseWeak(l) PROVE TypeInv'
  BY <1>5, HeldFields
  DEF ReleaseWeak, Live, Decrement, GoTo, Invalidate, cb_pool, payload_pool, fixed, TypeInv,
     Steps, Blocks, OnBlock
<1>6. ASSUME NEW l \in Lease, TryReleasePayload(l) PROVE TypeInv'
  BY <1>6, HeldFields
  DEF TryReleasePayload, GoTo, counts, cb_pool, payload_pool, fixed, TypeInv, Steps, Blocks,
     OnBlock
<1>7. ASSUME NEW l \in Lease, ReturnPayload(l) PROVE TypeInv'
  BY <1>7, HeldFields
  DEF ReturnPayload, GoTo, counts, cb_pool, payload_pool, fixed, TypeInv, Steps, Blocks,
     OnBlock, AnyHandle, NoHandle
<1>8. ASSUME NEW l \in Lease, ClearPayload(l) PROVE TypeInv'
  BY <1>8, HeldFields
  DEF ClearPayload, GoTo, counts, cb_pool, payload_pool, fixed, TypeInv, Steps, Blocks,
     OnBlock
<1>9. ASSUME NEW l \in Lease, WeakChecksStrong(l) PROVE TypeInv'
  BY <1>9, HeldFields
  DEF WeakChecksStrong, GoTo, counts, cb_pool, payload_pool, fixed, TypeInv, Steps, Blocks,
     OnBlock
<1>10. ASSUME NEW l \in Lease, WeakChecksWeak(l) PROVE TypeInv'
  BY <1>10, HeldFields
  DEF WeakChecksWeak, GoTo, counts, cb_pool, payload_pool, fixed, TypeInv, Steps, Blocks,
     OnBlock
<1>11. ASSUME NEW l \in Lease, ShutdownChecksStrong(l) PROVE TypeInv'
  BY <1>11, HeldFields
  DEF ShutdownChecksStrong, GoTo, Invalidate, counts, cb_pool, payload_pool, fixed, TypeInv,
     Steps, Blocks, OnBlock
<1>12. ASSUME NEW l \in Lease, ShutdownChecksWeak(l) PROVE TypeInv'
  BY <1>12, HeldFields
  DEF ShutdownChecksWeak, GoTo, Invalidate, counts, cb_pool, payload_pool, fixed, TypeInv,
     Steps, Blocks, OnBlock
<1>13. ASSUME NEW l \in Lease, ReturnControlBlock(l) PROVE TypeInv'
  BY <1>13, HeldFields
  DEF ReturnControlBlock, Invalidate, counts, cb_pool, payload_pool, fixed, TypeInv, Steps,
     Blocks, OnBlock
<1>14. ASSUME NEW l \in Lease, NEW n \in Lease, NEW kind \in {"strong", "weak"},
             Copies(l, n, kind)
      PROVE  TypeInv'
  BY <1>14, HeldFields
  DEF Copies, CopyAs, Empty, cb_pool, payload_pool, fixed, TypeInv, Steps, Blocks, OnBlock
<1>15. ASSUME UNCHANGED vars PROVE TypeInv'
  BY <1>15 DEF vars, counts, cb_pool, payload_pool, fixed, TypeInv
<1> QED
  BY <1>1, <1>2, <1>3, <1>4, <1>5, <1>6, <1>7, <1>8, <1>9, <1>10, <1>11, <1>12, <1>13,
     <1>14, <1>15, NextCases

\* Live leases and the one being issued stay current: a block is only returned
\* when no other lease can be settled on it.
LEMMA BlocksStep ==
    ASSUME TypeInv, Blocks, Acquirer, CountsExact, ChecksStable, [Next]_vars
    PROVE  Blocks'
<1>1. ASSUME NEW l \in Lease, AcquireSlots(l) PROVE Blocks'
  BY <1>1, HeldFields
  DEF AcquireSlots, Empty, ManagerIdle, counts, TypeInv, Blocks, OnBlock, Acquiring, Held,
     Current, Settled, cbOf, NoLease
<1>2. ASSUME NEW l \in Lease, TryBindPayload(l) PROVE Blocks'
  BY <1>2, HeldFields
  DEF TryBindPayload, CanBindPayload, GoTo, Invalidate, cb_pool, counts, payload_pool,
     fixed, TypeInv, Blocks, OnBlock, Acquiring, Held, Current, Settled, cbOf, NoLease,
     Acquirer
<1>3. ASSUME NEW l \in Lease, AcquireStrong(l) PROVE Blocks'
  BY <1>3, HeldFields
  DEF AcquireStrong, GoTo, cb_pool, payload_pool, fixed, TypeInv, Blocks, OnBlock,
     Acquiring, Held, Current, Settled, cbOf, NoLease
<1>4. ASSUME NEW l \in Lease, ReleaseStrong(l) PROVE Blocks'
  BY <1>4, HeldFields
  DEF ReleaseStrong, Live, Decrement, GoTo, Invalidate, cb_pool, payload_pool, fixed,
     TypeInv, Blocks, OnBlock, Acquiring, Held, Current, Settled, cbOf, NoLease
<1>5. ASSUME NEW l \in Lease, ReleaseWeak(l) PROVE Blocks'
  BY <1>5, HeldFields
  DEF ReleaseWeak, Live, Decrement, GoTo, Invalidate, cb_pool, payload_pool, fixed, TypeInv,
     Blocks, OnBlock, Acquiring, Held, Current, Settled, cbOf, NoLease
<1>6. ASSUME NEW l \in Lease, TryReleasePayload(l) PROVE Blocks'
  BY <1>6, HeldFields
  DEF TryReleasePayload, GoTo, counts, cb_pool, payload_pool, fixed, TypeInv, Blocks,
     OnBlock, Acquiring, Held, Current, Settled, cbOf, NoLease
<1>7. ASSUME NEW l \in Lease, ReturnPayload(l) PROVE Blocks'
  BY <1>7, HeldFields
  DEF ReturnPayload, GoTo, counts, cb_pool, payload_pool, fixed, TypeInv, Blocks, OnBlock,
     Acquiring, Held, Current, Settled, cbOf, NoLease
<1>8. ASSUME NEW l \in Lease, ClearPayload(l) PROVE Blocks'
  BY <1>8, HeldFields
  DEF ClearPayload, GoTo, counts, cb_pool, payload_pool, fixed, TypeInv, Blocks, OnBlock,
     Acquiring, Held, Current, Settled, cbOf, NoLease
<1>9. ASSUME NEW l \in Lease, WeakChecksStrong(l) PROVE Blocks'
  BY <1>9, HeldFields
  DEF WeakChecksStrong, GoTo, counts, cb_pool, payload_pool, fixed, TypeInv, Blocks,
     OnBlock, Acquiring, Held, Current, Settled, cbOf, NoLease
<1>10. ASSUME NEW l \in Lease, WeakChecksWeak(l) PROVE Blocks'
  BY <1>10, HeldFields
  DEF WeakChecksWeak, GoTo, counts, cb_pool, payload_pool, fixed, TypeInv, Blocks, OnBlock,
     Acquiring, Held, Current, Settled, cbOf, NoLease
<1>11. ASSUME NEW l \in Lease, ShutdownChecksStrong(l) PROVE Blocks'
  BY <1>11, HeldFields
  DEF ShutdownChecksStrong, GoTo, Invalidate, counts, cb_pool, payload_pool, fixed, TypeInv,
     Blocks, OnBlock, Acquiring, Held, Current, Settled, cbOf, NoLease
<1>12. ASSUME NEW l \in Lease, ShutdownChecksWeak(l) PROVE Blocks'
  BY <1>12, HeldFields
  DEF ShutdownChecksWeak, GoTo, Invalidate, counts, cb_pool, payload_pool, fixed, TypeInv,
     Blocks, OnBlock, Acquiring, Held, Current, Settled, cbOf, NoLease
<1>13. ASSUME NEW l \in Lease, ReturnControlBlock(l) PROVE Blocks'
  <2>1. CASE ~Current(l)
    BY <1>13, <2>1, HeldFields
    DEF ReturnControlBlock, Invalidate, counts, cb_pool, payload_pool, fixed, TypeInv,
      Blocks, OnBlock, Acquiring, Held, Current, Settled, cbOf, NoLease
  <2>2. CASE Current(l)
    <3> DEFINE c == cbOf(l)
    <3>1. c \in ControlBlock /\ strong_count[c] = 0 /\ weak_count[c] = 0
      BY <1>13, <2>2, HeldFields DEF ReturnControlBlock, ChecksStable, ChecksHold, Current
    <3>2. ASSUME NEW m \in Lease, m # l, Held(m), cbOf(m) = c, Settled(m) PROVE FALSE
      <4>1. pc[m] # "idle"
        BY <3>1, <3>2, HeldFields, StrongCount, WeakCount DEF Live, TypeInv
      <4>2. Acquiring(m)
        BY <3>2, <4>1 DEF Settled, Acquiring
      <4> QED
        BY <4>2, <3>2, <2>2 DEF Acquirer
    <3> QED
      BY <1>13, <2>2, <3>1, <3>2, HeldFields
      DEF ReturnControlBlock, Invalidate, counts, cb_pool, payload_pool, fixed, TypeInv,
        Blocks, OnBlock, Acquiring, Held, Current, Settled, cbOf, NoLease
  <2> QED
    BY <2>1, <2>2
<1>14. ASSUME NEW l \in Lease, NEW n \in Lease, NEW kind \in {"strong", "weak"},
             Copies(l, n, kind)
      PROVE  Blocks'
  BY <1>14, HeldFields
  DEF Copies, CopyAs, Empty, cb_pool, payload_pool, fixed, TypeInv, Blocks, OnBlock,
     Acquiring, Held, Current, Settled, cbOf, NoLease
<1>15. ASSUME UNCHANGED vars PROVE Blocks'
  BY <1>15
  DEF vars, counts, cb_pool, payload_pool, fixed, Blocks, OnBlock, Acquiring, Held, Current,
     Settled, cbOf
<1> QED
  BY <1>1, <1>2, <1>3, <1>4, <1>5, <1>6, <1>7, <1>8, <1>9, <1>10, <1>11, <1>12, <1>13,
     <1>14, <1>15, NextCases

\* No step lets a second lease hold the block of the one being issued.
LEMMA AcquirerStep ==
    ASSUME TypeInv, Blocks, Acquirer, CountsExact, [Next]_vars
    PROVE  Acquirer'
<1>1. ASSUME NEW l \in Lease, AcquireSlots(l) PROVE Acquirer'
  BY <1>1, HeldFields
  DEF AcquireSlots, Empty, ManagerIdle, counts, TypeInv, Blocks, OnBlock, Acquirer,
     Acquiring, Held, Current, Settled, cbOf, NoLease
<1>2. ASSUME NEW l \in Lease, TryBindPayload(l) PROVE Acquirer'
  BY <1>2, HeldFields
  DEF TryBindPayload, CanBindPayload, GoTo, Invalidate, cb_pool, counts, payload_pool,
     fixed, TypeInv, Blocks, OnBlock, Acquirer, Acquiring, Held, Current, Settled, cbOf,
     NoLease
<1>3. ASSUME NEW l \in Lease, AcquireStrong(l) PROVE Acquirer'
  BY <1>3, HeldFields
  DEF AcquireStrong, GoTo, cb_pool, payload_pool, fixed, TypeInv, Blocks, OnBlock, Acquirer,
     Acquiring, Held, Current, Settled, cbOf, NoLease
<1>4. ASSUME NEW l \in Lease, ReleaseStrong(l) PROVE Acquirer'
  BY <1>4, HeldFields
  DEF ReleaseStrong, Live, Decrement, GoTo, Invalidate, cb_pool, payload_pool, fixed,
     TypeInv, Blocks, OnBlock, Acquirer, Acquiring, Held, Current, Settled, cbOf, NoLease
<1>5. ASSUME NEW l \in Lease, ReleaseWeak(l) PROVE Acquirer'
  BY <1>5, HeldFields
  DEF ReleaseWeak, Live, Decrement, GoTo, Invalidate, cb_pool, payload_pool, fixed, TypeInv,
     Blocks, OnBlock, Acquirer, Acquiring, Held, Current, Settled, cbOf, NoLease
<1>6. ASSUME NEW l \in Lease, TryReleasePayload(l) PROVE Acquirer'
  BY <1>6, HeldFields
  DEF TryReleasePayload, GoTo, counts, cb_pool, payload_pool, fixed, TypeInv, Blocks,
     OnBlock, Acquirer, Acquiring, Held, Current, Settled, cbOf, NoLease
<1>7. ASSUME NEW l \in Lease, ReturnPayload(l) PROVE Acquirer'
  <2>1. /\ pc[l] = "return_payload"
        /\ pc' = [pc EXCEPT ![l] = "clear_payload"] \/ pc' = [pc EXCEPT ![l] = "shutdown_checks_strong"]
        /\ UNCHANGED << lease, strong_count, weak_count, cb_free, cb_generation >>
    BY <1>7 DEF ReturnPayload, GoTo, counts, cb_pool
  <2> QED
    BY <2>1 DEF TypeInv, Acquirer, Acquiring, Held, Current, cbOf
<1>8. ASSUME NEW l \in Lease, ClearPayload(l) PROVE Acquirer'
  BY <1>8, HeldFields
  DEF ClearPayload, GoTo, counts, cb_pool, payload_pool, fixed, TypeInv, Blocks, OnBlock,
     Acquirer, Acquiring, Held, Current, Settled, cbOf, NoLease
<1>9. ASSUME NEW l \in Lease, WeakChecksStrong(l) PROVE Acquirer'
  BY <1>9, HeldFields
  DEF WeakChecksStrong, GoTo, counts, cb_pool, payload_pool, fixed, TypeInv, Blocks,
     OnBlock, Acquirer, Acquiring, Held, Current, Settled, cbOf, NoLease
<1>10. ASSUME NEW l \in Lease, WeakChecksWeak(l) PROVE Acquirer'
  BY <1>10, HeldFields
  DEF WeakChecksWeak, GoTo, counts, cb_pool, payload_pool, fixed, TypeInv, Blocks, OnBlock,
     Acquirer, Acquiring, Held, Current, Settled, cbOf, NoLease
<1>11. ASSUME NEW l \in Lease, ShutdownChecksStrong(l) PROVE Acquirer'
  BY <1>11, HeldFields
  DEF ShutdownChecksStrong, GoTo, Invalidate, counts, cb_pool, payload_pool, fixed, TypeInv,
     Blocks, OnBlock, Acquirer, Acquiring, Held, Current, Settled, cbOf, NoLease
<1>12. ASSUME NEW l \in Lease, ShutdownChecksWeak(l) PROVE Acquirer'
  BY <1>12, HeldFields
  DEF ShutdownChecksWeak, GoTo, Invalidate, counts, cb_pool, payload_pool, fixed, TypeInv,
     Blocks, OnBlock, Acquirer, Acquiring, Held, Current, Settled, cbOf, NoLease
<1>13. ASSUME NEW l \in Lease, ReturnControlBlock(l) PROVE Acquirer'
  BY <1>13, HeldFields
  DEF ReturnControlBlock, Invalidate, counts, cb_pool, payload_pool, fixed, TypeInv, Blocks,
     OnBlock, Acquirer, Acquiring, Held, Current, Settled, cbOf, NoLease
<1>14. ASSUME NEW l \in Lease, NEW n \in Lease, NEW kind \in {"strong", "weak"},
             Copies(l, n, kind)
      PROVE  Acquirer'
  BY <1>14, HeldFields
  DEF Copies, CopyAs, Empty, cb_pool, payload_pool, fixed, TypeInv, Blocks, OnBlock,
     Acquirer, Acquiring, Held, Current, Settled, cbOf, NoLease
<1>15. ASSUME UNCHANGED vars PROVE Acquirer'
  BY <1>15
  DEF vars, counts, cb_pool, payload_pool, fixed, Acquirer, Acquiring, Held, Current, cbOf
<1> QED
  BY <1>1, <1>2, <1>3, <1>4, <1>5, <1>6, <1>7, <1>8, <1>9, <1>10, <1>11, <1>12, <1>13,
     <1>14, <1>15, NextCases

\* No count a release has read as zero is raised again.
LEMMA ChecksStep ==
    ASSUME TypeInv, Blocks, Acquirer, CountsExact, ChecksStable, StrongOnly, [Next]_vars
    PROVE  ChecksStable'
<1>1. ASSUME NEW l \in Lease, AcquireSlots(l) PROVE ChecksStable'
  BY <1>1, HeldFields
  DEF AcquireSlots, Empty, ManagerIdle, counts, TypeInv, Blocks, OnBlock, ChecksStable,
     ChecksHold, Held, Current, Settled, cbOf, NoLease
<1>2. ASSUME NEW l \in Lease, TryBindPayload(l) PROVE ChecksStable'
  BY <1>2, HeldFields
  DEF TryBindPayload, CanBindPayload, GoTo, Invalidate, cb_pool, counts, payload_pool,
     fixed, TypeInv, Blocks, OnBlock, ChecksStable, ChecksHold, Held, Current, Settled,
     cbOf, NoLease
<1>3. ASSUME NEW l \in Lease, AcquireStrong(l) PROVE ChecksStable'
  BY <1>3, HeldFields
  DEF AcquireStrong, GoTo, cb_pool, payload_pool, fixed, TypeInv, Blocks, OnBlock,
     ChecksStable, ChecksHold, Held, Current, Settled, cbOf, NoLease, Acquirer, Acquiring
<1>4. ASSUME NEW l \in Lease, ReleaseStrong(l) PROVE ChecksStable'
  BY <1>4, HeldFields
  DEF ReleaseStrong, Live, Decrement, GoTo, Invalidate, cb_pool, payload_pool, fixed,
     TypeInv, Blocks, OnBlock, ChecksStable, ChecksHold, Held, Current, Settled, cbOf,
     NoLease
<1>5. ASSUME NEW l \in Lease, ReleaseWeak(l) PROVE ChecksStable'
  BY <1>5, HeldFields
  DEF ReleaseWeak, Live, Decrement, GoTo, Invalidate, cb_pool, payload_pool, fixed, TypeInv,
     Blocks, OnBlock, ChecksStable, ChecksHold, Held, Current, Settled, cbOf, NoLease
<1>6. ASSUME NEW l \in Lease, TryReleasePayload(l) PROVE ChecksStable'
  BY <1>6, HeldFields
  DEF TryReleasePayload, GoTo, counts, cb_pool, payload_pool, fixed, TypeInv, Blocks,
     OnBlock, ChecksStable, ChecksHold, Held, Current, Settled, cbOf, NoLease
<1>7. ASSUME NEW l \in Lease, ReturnPayload(l) PROVE ChecksStable'
  <2>1. /\ pc[l] = "return_payload"
        /\ pc' = [pc EXCEPT ![l] = "clear_payload"] \/ pc' = [pc EXCEPT ![l] = "shutdown_checks_strong"]
        /\ UNCHANGED << lease, strong_count, weak_count, cb_free, cb_generation >>
    BY <1>7 DEF ReturnPayload, GoTo, counts, cb_pool
  <2> QED
    BY <2>1 DEF TypeInv, ChecksStable, ChecksHold, Held, Current, cbOf
<1>8. ASSUME NEW l \in Lease, ClearPayload(l) PROVE ChecksStable'
  BY <1>8, HeldFields
  DEF ClearPayload, GoTo, counts, cb_pool, payload_pool, fixed, TypeInv, Blocks, OnBlock,
     ChecksStable, ChecksHold, Held, Current, Settled, cbOf, NoLease
<1>9. ASSUME NEW l \in Lease, WeakChecksStrong(l) PROVE ChecksStable'
  BY <1>9, HeldFields
  DEF WeakChecksStrong, GoTo, counts, cb_pool, payload_pool, fixed, TypeInv, Blocks,
     OnBlock, ChecksStable, ChecksHold, Held, Current, Settled, cbOf, NoLease
<1>10. ASSUME NEW l \in Lease, WeakChecksWeak(l) PROVE ChecksStable'
  BY <1>10, HeldFields
  DEF WeakChecksWeak, GoTo, counts, cb_pool, payload_pool, fixed, TypeInv, Blocks, OnBlock,
     ChecksStable, ChecksHold, Held, Current, Settled, cbOf, NoLease
<1>11. ASSUME NEW l \in Lease, ShutdownChecksStrong(l) PROVE ChecksStable'
  <2>1. category = "strong" /\ Held(l) => weak_count[cbOf(l)] = 0
    BY HeldFields, WeakCount DEF StrongOnly, StrongLease, Live, Held, NoLease
  <2> QED
    BY <1>11, <2>1, HeldFields
    DEF ShutdownChecksStrong, GoTo, Invalidate, counts, cb_pool, payload_pool, fixed,
      TypeInv, Blocks, OnBlock, ChecksStable, ChecksHold, Held, Current, Settled, cbOf, NoLease
<1>12. ASSUME NEW l \in Lease, ShutdownChecksWeak(l) PROVE ChecksStable'
  BY <1>12, HeldFields
  DEF ShutdownChecksWeak, GoTo, Invalidate, counts, cb_pool, payload_pool, fixed, TypeInv,
     Blocks, OnBlock, ChecksStable, ChecksHold, Held, Current, Settled, cbOf, NoLease
<1>13. ASSUME NEW l \in Lease, ReturnControlBlock(l) PROVE ChecksStable'
  BY <1>13, HeldFields
  DEF ReturnControlBlock, Invalidate, counts, cb_pool, payload_pool, fixed, TypeInv, Blocks,
     OnBlock, ChecksStable, ChecksHold, Held, Current, Settled, cbOf, NoLease
<1>14. ASSUME NEW l \in Lease, NEW n \in Lease, NEW kind \in {"strong", "weak"},
             Copies(l, n, kind)
      PROVE  ChecksStable'
  <2> DEFINE c == cbOf(l)
  <2>1. /\ Held(l) /\ Current(l) /\ c \in ControlBlock
        /\ kind = "strong" => strong_count[c] > 0
        /\ kind = "weak" => strong_count[c] > 0 \/ weak_count[c] > 0
    BY <1>14, HeldFields, StrongCount, WeakCount
    DEF Copies, Blocks, OnBlock, Settled, Live
  <2>2. /\ lease' = [lease EXCEPT ![n] = [lease[l] EXCEPT !.kind = kind]]
        /\ pc[n] = "idle" /\ UNCHANGED << pc, cb_generation >>
    BY <1>14 DEF Copies, CopyAs, Empty, cb_pool
  <2>3. /\ kind = "strong" => /\ strong_count' = [strong_count EXCEPT ![c] = @ + 1]
                              /\ UNCHANGED weak_count
        /\ kind = "weak" => /\ weak_count' = [weak_count EXCEPT ![c] = @ + 1]
                            /\ UNCHANGED strong_count
    BY <1>14 DEF Copies, CopyAs
  <2>4. ASSUME NEW m \in Lease PROVE ChecksHold(m)'
    <3>1. CASE m = n
      BY <2>2, <3>1 DEF ChecksHold, Current, TypeInv
    <3>2. CASE m # n
      <4>1. /\ lease'[m] = lease[m] /\ pc'[m] = pc[m]
            /\ Current(m)' => Current(m)
            /\ Held(m) => cbOf(m) \in ControlBlock
        BY <2>2, <3>2, HeldFields DEF TypeInv, Current, Held, cbOf
      <4>2. ChecksHold(m)
        BY DEF ChecksStable
      <4> QED
        BY <2>1, <2>3, <4>1, <4>2 DEF ChecksHold, TypeInv, Current, cbOf
    <3> QED
      BY <3>1, <3>2
  <2> QED
    BY <2>4 DEF ChecksStable
<1>15. ASSUME UNCHANGED vars PROVE ChecksStable'
  BY <1>15
  DEF vars, counts, cb_pool, payload_pool, fixed, ChecksStable, ChecksHold, Held, Current,
     cbOf
<1> QED
  BY <1>1, <1>2, <1>3, <1>4, <1>5, <1>6, <1>7, <1>8, <1>9, <1>10, <1>11, <1>12, <1>13,
     <1>14, <1>15, NextCases

\* A block that is taken keeps a current lease: the last one to go returns it.
LEMMA OwnedStep ==
    ASSUME TypeInv, Blocks, Acquirer, CountsExact, ChecksStable, Owned, [Next]_vars
    PROVE  Owned'
<1>1. ASSUME NEW l \in Lease, AcquireSlots(l) PROVE Owned'
  BY <1>1, HeldFields
  DEF AcquireSlots, Empty, ManagerIdle, counts, TypeInv, Blocks, OnBlock, Owned, Held,
     Current, Settled, cbOf, NoLease
<1>2. ASSUME NEW l \in Lease, TryBindPayload(l) PROVE Owned'
  BY <1>2, HeldFields
  DEF TryBindPayload, CanBindPayload, GoTo, Invalidate, cb_pool, counts, payload_pool,
     fixed, TypeInv, Blocks, OnBlock, Owned, Held, Current, Settled, cbOf, NoLease
<1>3. ASSUME NEW l \in Lease, AcquireStrong(l) PROVE Owned'
  BY <1>3, HeldFields
  DEF AcquireStrong, GoTo, cb_pool, payload_pool, fixed, TypeInv, Blocks, OnBlock, Owned,
     Held, Current, Settled, cbOf, NoLease
<1>4. ASSUME NEW l \in Lease, ReleaseStrong(l) PROVE Owned'
  <2>1. CASE strong_count[cbOf(l)] = 1
    BY <1>4, <2>1
    DEF ReleaseStrong, GoTo, cb_pool, Owned, Held, Current, cbOf
  <2>2. CASE strong_count[cbOf(l)] # 1
    <3>1. /\ Held(l) /\ Live(l, "strong") /\ cbOf(l) \in ControlBlock
          /\ Invalidate(l) /\ UNCHANGED cb_pool
      BY <1>4, <2>2, HeldFields DEF ReleaseStrong, Live, Held, NoLease
    <3>2. PICK n \in Lease : n # l /\ Live(n, "strong") /\ cbOf(n) = cbOf(l)
      BY <1>4, <2>2, <3>1, StrongCount
    <3>3. Current(n)
      BY <3>2, HeldFields DEF Blocks, OnBlock, Settled, Live, Held, NoLease
    <3> QED
      BY <3>1, <3>2, <3>3 DEF Invalidate, cb_pool, Owned, TypeInv, Held, Current, cbOf
  <2> QED
    BY <2>1, <2>2
<1>5. ASSUME NEW l \in Lease, ReleaseWeak(l) PROVE Owned'
  <2>1. CASE weak_count[cbOf(l)] = 1
    BY <1>5, <2>1
    DEF ReleaseWeak, GoTo, cb_pool, Owned, Held, Current, cbOf
  <2>2. CASE weak_count[cbOf(l)] # 1
    <3>1. /\ Held(l) /\ Live(l, "weak") /\ cbOf(l) \in ControlBlock
          /\ Invalidate(l) /\ UNCHANGED cb_pool
      BY <1>5, <2>2, HeldFields DEF ReleaseWeak, Live, Held, NoLease
    <3>2. PICK n \in Lease : n # l /\ Live(n, "weak") /\ cbOf(n) = cbOf(l)
      BY <1>5, <2>2, <3>1, WeakCount
    <3>3. Current(n)
      BY <3>2, HeldFields DEF Blocks, OnBlock, Settled, Live, Held, NoLease
    <3> QED
      BY <3>1, <3>2, <3>3 DEF Invalidate, cb_pool, Owned, TypeInv, Held, Current, cbOf
  <2> QED
    BY <2>1, <2>2
<1>6. ASSUME NEW l \in Lease, TryReleasePayload(l) PROVE Owned'
  BY <1>6 DEF TryReleasePayload, GoTo, cb_pool, Owned, Held, Current, cbOf
<1>7. ASSUME NEW l \in Lease, ReturnPayload(l) PROVE Owned'
  BY <1>7 DEF ReturnPayload, GoTo, cb_pool, Owned, Held, Current, cbOf
<1>8. ASSUME NEW l \in Lease, ClearPayload(l) PROVE Owned'
  BY <1>8 DEF ClearPayload, GoTo, cb_pool, Owned, Held, Current, cbOf
<1>9. ASSUME NEW l \in Lease, WeakChecksStrong(l) PROVE Owned'
  BY <1>9 DEF WeakChecksStrong, GoTo, cb_pool, Owned, Held, Current, cbOf
<1>10. ASSUME NEW l \in Lease, WeakChecksWeak(l) PROVE Owned'
  BY <1>10 DEF WeakChecksWeak, GoTo, cb_pool, Owned, Held, Current, cbOf
<1>11. ASSUME NEW l \in Lease, ShutdownChecksStrong(l) PROVE Owned'
  <2>1. CASE strong_count[cbOf(l)] = 0
    BY <1>11, <2>1
    DEF ShutdownChecksStrong, GoTo, cb_pool, Owned, Held, Current, cbOf
  <2>2. CASE strong_count[cbOf(l)] # 0
    <3>1. /\ Held(l) /\ pc[l] # "idle" /\ cbOf(l) \in ControlBlock
          /\ Invalidate(l) /\ UNCHANGED cb_pool
      BY <1>11, <2>2, HeldFields DEF ShutdownChecksStrong, Blocks, OnBlock
    <3>2. PICK n \in Lease : Live(n, "strong") /\ cbOf(n) = cbOf(l)
      BY <2>2, <3>1, StrongCount
    <3>3. n # l /\ Current(n)
      BY <3>1, <3>2, HeldFields DEF Blocks, OnBlock, Settled, Live, Held, NoLease
    <3> QED
      BY <3>1, <3>2, <3>3 DEF Invalidate, cb_pool, Owned, TypeInv, Held, Current, cbOf
  <2> QED
    BY <2>1, <2>2
<1>12. ASSUME NEW l \in Lease, ShutdownChecksWeak(l) PROVE Owned'
  <2>1. CASE weak_count[cbOf(l)] = 0
    BY <1>12, <2>1
    DEF ShutdownChecksWeak, GoTo, cb_pool, Owned, Held, Current, cbOf
  <2>2. CASE weak_count[cbOf(l)] # 0
    <3>1. /\ Held(l) /\ pc[l] # "idle" /\ cbOf(l) \in ControlBlock
          /\ Invalidate(l) /\ UNCHANGED cb_pool
      BY <1>12, <2>2, HeldFields DEF ShutdownChecksWeak, Blocks, OnBlock
    <3>2. PICK n \in Lease : Live(n, "weak") /\ cbOf(n) = cbOf(l)
      BY <2>2, <3>1, WeakCount
    <3>3. n # l /\ Current(n)
      BY <3>1, <3>2, HeldFields DEF Blocks, OnBlock, Settled, Live, Held, NoLease
    <3> QED
      BY <3>1, <3>2, <3>3 DEF Invalidate, cb_pool, Owned, TypeInv, Held, Current, cbOf
  <2> QED
    BY <2>1, <2>2
<1>13. ASSUME NEW l \in Lease, ReturnControlBlock(l) PROVE Owned'
  BY <1>13, HeldFields
  DEF ReturnControlBlock, Invalidate, counts, cb_pool, payload_pool, fixed, TypeInv, Blocks,
     OnBlock, Owned, Held, Current, Settled, cbOf, NoLease
<1>14. ASSUME NEW l \in Lease, NEW n \in Lease, NEW kind \in {"strong", "weak"},
             Copies(l, n, kind)
      PROVE  Owned'
  BY <1>14, HeldFields
  DEF Copies, CopyAs, Empty, cb_pool, payload_pool, fixed, TypeInv, Blocks, OnBlock, Owned,
     Held, Current, Settled, cbOf, NoLease
<1>15. ASSUME UNCHANGED vars PROVE Owned'
  BY <1>15 DEF vars, counts, cb_pool, payload_pool, fixed, Owned, Held, Current, cbOf
<1> QED
  BY <1>1, <1>2, <1>3, <1>4, <1>5, <1>6, <1>7, <1>8, <1>9, <1>10, <1>11, <1>12, <1>13,
     <1>14, <1>15, NextCases

\* A lease that joins a block was issued for the payload of the others.
LEMMA SamePayloadStep ==
    ASSUME TypeInv, Blocks, Acquirer, CountsExact, SamePayload, [Next]_vars
    PROVE  SamePayload'
<1>1. ASSUME NEW l \in Lease, AcquireSlots(l) PROVE SamePayload'
  BY <1>1, HeldFields
  DEF AcquireSlots, Empty, ManagerIdle, counts, TypeInv, Blocks, OnBlock, SamePayload, Held,
     Current, Settled, cbOf, NoLease
<1>2. ASSUME NEW l \in Lease, TryBindPayload(l) PROVE SamePayload'
  BY <1>2, HeldFields
  DEF TryBindPayload, CanBindPayload, GoTo, Invalidate, cb_pool, counts, payload_pool,
     fixed, TypeInv, Blocks, OnBlock, SamePayload, Held, Current, Settled, cbOf, NoLease
<1>3. ASSUME NEW l \in Lease, AcquireStrong(l) PROVE SamePayload'
  BY <1>3, HeldFields
  DEF AcquireStrong, GoTo, cb_pool, payload_pool, fixed, TypeInv, Blocks, OnBlock,
     SamePayload, Held, Current, Settled, cbOf, NoLease
<1>4. ASSUME NEW l \in Lease, ReleaseStrong(l) PROVE SamePayload'
  BY <1>4, HeldFields
  DEF ReleaseStrong, Live, Decrement, GoTo, Invalidate, cb_pool, payload_pool, fixed,
     TypeInv, Blocks, OnBlock, SamePayload, Held, Current, Settled, cbOf, NoLease
<1>5. ASSUME NEW l \in Lease, ReleaseWeak(l) PROVE SamePayload'
  BY <1>5, HeldFields
  DEF ReleaseWeak, Live, Decrement, GoTo, Invalidate, cb_pool, payload_pool, fixed, TypeInv,
     Blocks, OnBlock, SamePayload, Held, Current, Settled, cbOf, NoLease
<1>6. ASSUME NEW l \in Lease, TryReleasePayload(l) PROVE SamePayload'
  BY <1>6 DEF TryReleasePayload, GoTo, cb_pool, SamePayload, Held, Current, cbOf
<1>7. ASSUME NEW l \in Lease, ReturnPayload(l) PROVE SamePayload'
  BY <1>7 DEF ReturnPayload, GoTo, cb_pool, SamePayload, Held, Current, cbOf
<1>8. ASSUME NEW l \in Lease, ClearPayload(l) PROVE SamePayload'
  BY <1>8 DEF ClearPayload, GoTo, cb_pool, SamePayload, Held, Current, cbOf
<1>9. ASSUME NEW l \in Lease, WeakChecksStrong(l) PROVE SamePayload'
  BY <1>9 DEF WeakChecksStrong, GoTo, cb_pool, SamePayload, Held, Current, cbOf
<1>10. ASSUME NEW l \in Lease, WeakChecksWeak(l) PROVE SamePayload'
  BY <1>10 DEF WeakChecksWeak, GoTo, cb_pool, SamePayload, Held, Current, cbOf
<1>11. ASSUME NEW l \in Lease, ShutdownChecksStrong(l) PROVE SamePayload'
  BY <1>11, HeldFields
  DEF ShutdownChecksStrong, GoTo, Invalidate, counts, cb_pool, payload_pool, fixed, TypeInv,
     Blocks, OnBlock, SamePayload, Held, Current, Settled, cbOf, NoLease
<1>12. ASSUME NEW l \in Lease, ShutdownChecksWeak(l) PROVE SamePayload'
  BY <1>12, HeldFields
  DEF ShutdownChecksWeak, GoTo, Invalidate, counts, cb_pool, payload_pool, fixed, TypeInv,
     Blocks, OnBlock, SamePayload, Held, Current, Settled, cbOf, NoLease
<1>13. ASSUME NEW l \in Lease, ReturnControlBlock(l) PROVE SamePayload'
  BY <1>13, HeldFields
  DEF ReturnControlBlock, Invalidate, counts, cb_pool, payload_pool, fixed, TypeInv, Blocks,
     OnBlock, SamePayload, Held, Current, Settled, cbOf, NoLease
<1>14. ASSUME NEW l \in Lease, NEW n \in Lease, NEW kind \in {"strong", "weak"},
             Copies(l, n, kind)
      PROVE  SamePayload'
  BY <1>14, HeldFields
  DEF Copies, CopyAs, Empty, cb_pool, payload_pool, fixed, TypeInv, Blocks, OnBlock,
     SamePayload, Held, Current, Settled, cbOf, NoLease
<1>15. ASSUME UNCHANGED vars PROVE SamePayload'
  BY <1>15 DEF vars, counts, cb_pool, payload_pool, fixed, SamePayload, Held, Current, cbOf
<1> QED
  BY <1>1, <1>2, <1>3, <1>4, <1>5, <1>6, <1>7, <1>8, <1>9, <1>10, <1>11, <1>12, <1>13,
     <1>14, <1>15, NextCases

\* A payload slot is released through one handle, and once.
LEMMA PayloadsStep ==
    ASSUME TypeInv, Blocks, Acquirer, CountsExact, Payloads, [Next]_vars
    PROVE  Payloads'
<1>1. ASSUME NEW l \in Lease, AcquireSlots(l) PROVE Payloads'
  <2>1. PICK c \in cb_free, q \in payload_free :
          /\ payload_free' = payload_free \ {q}
          /\ lease' = [lease EXCEPT ![l] =
                [ kind |-> "strong",
                  cb |-> [slot |-> c, generation |-> cb_generation[c]],
                  payload |-> [slot |-> q, generation |-> payload_generation[q]] ]]
    BY <1>1 DEF AcquireSlots
  <2>2. /\ pc' = [pc EXCEPT ![l] = "bind"]
        /\ UNCHANGED << payload_handle, payload_generation >>
        /\ \A m \in Lease : pc[m] # "bind"
    BY <1>1 DEF AcquireSlots, ManagerIdle
  <2>3. ASSUME NEW m \in Lease, m # l PROVE LeasedHandle(m)' /\ HandleToBind(m)'
    BY <2>1, <2>2, <2>3 DEF LeasedHandle, HandleToBind, TypeInv, Held, Payloads
  <2>4. LeasedHandle(l)' /\ HandleToBind(l)'
    <3>1. /\ lease'[l].payload = [slot |-> q, generation |-> payload_generation[q]]
          /\ q \in Payload /\ payload_generation[q] \in Nat
      BY <2>1 DEF TypeInv
    <3>2. \A d \in ControlBlock :
            payload_handle[d] # [slot |-> q, generation |-> payload_generation[q]]
      BY <2>1, <3>1, SharedLeaseConstants DEF Payloads, BoundHandle, UpToDate, NoHandle
    <3> QED
      BY <2>1, <2>2, <3>1, <3>2 DEF LeasedHandle, HandleToBind, UpToDate
  <2>5. ASSUME NEW d \in ControlBlock PROVE BoundHandle(d)'
    BY <2>1, <2>2 DEF BoundHandle, UpToDate, Payloads
  <2> QED
    BY <2>3, <2>4, <2>5 DEF Payloads
<1>2. ASSUME NEW l \in Lease, TryBindPayload(l) PROVE Payloads'
  <2> DEFINE b == cbOf(l)
             h == lease[l].payload
  <2>1. /\ Held(l) /\ b \in ControlBlock /\ h \in AnyHandle(Payload) /\ h # NoHandle
        /\ UNCHANGED << payload_free, payload_generation >>
    BY <1>2, HeldFields DEF TryBindPayload, payload_pool, Blocks, OnBlock
  <2>2. ASSUME NEW m \in Lease PROVE LeasedHandle(m)'
    BY <1>2, <2>1 DEF TryBindPayload, GoTo, Invalidate, LeasedHandle, Payloads, TypeInv, Held
  <2>3. CASE CanBindPayload(b)
    <3>1. /\ payload_handle' = [payload_handle EXCEPT ![b] = h]
          /\ pc' = [pc EXCEPT ![l] = "count"] /\ UNCHANGED lease
          /\ \A m \in Lease : m # l => pc[m] # "bind"
          /\ pc[l] = "bind"
      BY <1>2, <2>3 DEF TryBindPayload, GoTo, Acquirer, Acquiring
    <3>2. ASSUME NEW m \in Lease PROVE HandleToBind(m)'
      BY <3>1 DEF HandleToBind, TypeInv
    <3>3. ASSUME NEW d \in ControlBlock PROVE BoundHandle(d)'
      <4>1. /\ UpToDate(h) /\ h.slot \notin payload_free /\ h.generation \in Nat
            /\ \A e \in ControlBlock : payload_handle[e] # h
        BY <2>1, <3>1 DEF Payloads, HandleToBind, AnyHandle
      <4>2. CASE d = b
        BY <2>1, <3>1, <4>1, <4>2 DEF BoundHandle, UpToDate, TypeInv
      <4>3. CASE d # b
        BY <2>1, <3>1, <4>1, <4>3 DEF BoundHandle, UpToDate, TypeInv, Payloads
      <4> QED
        BY <4>2, <4>3
    <3> QED
      BY <2>2, <3>2, <3>3 DEF Payloads
  <2>4. CASE ~CanBindPayload(b)
    <3>1. Invalidate(l) /\ UNCHANGED payload_handle
      BY <1>2, <2>4 DEF TryBindPayload
    <3> QED
      BY <2>1, <2>2, <3>1 DEF Invalidate, HandleToBind, BoundHandle, UpToDate, TypeInv, Payloads
  <2> QED
    BY <2>3, <2>4
<1>3. ASSUME NEW l \in Lease, AcquireStrong(l) PROVE Payloads'
  BY <1>3, HeldFields, BoundFields
  DEF AcquireStrong, GoTo, cb_pool, payload_pool, fixed, TypeInv, Blocks, OnBlock, Payloads,
     LeasedHandle, BoundHandle, HandleToBind, UpToDate, Held, Settled, cbOf, NoLease
<1>4. ASSUME NEW l \in Lease, ReleaseStrong(l) PROVE Payloads'
  BY <1>4, HeldFields, BoundFields
  DEF ReleaseStrong, Live, Decrement, GoTo, Invalidate, cb_pool, payload_pool, fixed,
     TypeInv, Blocks, OnBlock, Payloads, LeasedHandle, BoundHandle, HandleToBind, UpToDate,
     Held, Settled, cbOf, NoLease
<1>5. ASSUME NEW l \in Lease, ReleaseWeak(l) PROVE Payloads'
  BY <1>5, HeldFields, BoundFields
  DEF ReleaseWeak, Live, Decrement, GoTo, Invalidate, cb_pool, payload_pool, fixed, TypeInv,
     Blocks, OnBlock, Payloads, LeasedHandle, BoundHandle, HandleToBind, UpToDate, Held,
     Settled, cbOf, NoLease
<1>6. ASSUME NEW l \in Lease, TryReleasePayload(l) PROVE Payloads'
  BY <1>6, HeldFields, BoundFields
  DEF TryReleasePayload, GoTo, counts, cb_pool, payload_pool, fixed, TypeInv, Blocks,
     OnBlock, Payloads, LeasedHandle, BoundHandle, HandleToBind, UpToDate, Held, Settled,
     cbOf, NoLease
<1>7. ASSUME NEW l \in Lease, ReturnPayload(l) PROVE Payloads'
  <2> DEFINE h == payload_handle[cbOf(l)]
  <2>1. CASE h # NoHandle /\ payload_generation[h.slot] = h.generation
    <3>1. /\ payload_free' = payload_free \cup {h.slot}
          /\ payload_generation' = [payload_generation EXCEPT ![h.slot] = @ + 1]
          /\ pc' = [pc EXCEPT ![l] = "clear_payload"]
          /\ UNCHANGED << lease, payload_handle >>
          /\ Held(l) /\ cbOf(l) \in ControlBlock
      BY <1>7, <2>1, HeldFields DEF ReturnPayload, GoTo, Blocks, OnBlock
    <3>2. h \in AnyHandle(Payload) /\ h.slot \in Payload /\ h.generation \in Nat
      BY <2>1, <3>1, BoundFields
    <3>3. ASSUME NEW m \in Lease PROVE LeasedHandle(m)'
      BY <2>1, <3>1, <3>2, HeldFields DEF LeasedHandle, Payloads, TypeInv, Held
    <3>4. ASSUME NEW m \in Lease PROVE HandleToBind(m)'
      <4>1. CASE m = l
        BY <3>1, <4>1 DEF HandleToBind, TypeInv
      <4>2. CASE m # l /\ pc[m] = "bind"
        <5>1. lease[m].payload \in AnyHandle(Payload) /\ HandleToBind(m)
          BY <4>2, HeldFields DEF Payloads, Blocks, OnBlock
        <5>2. lease[m].payload # h
          BY <4>2, <5>1, <3>1 DEF HandleToBind
        <5>3. lease[m].payload.slot # h.slot
          BY <2>1, <3>2, <4>2, <5>1, <5>2 DEF HandleToBind, UpToDate, AnyHandle
        <5> QED
          BY <3>1, <3>2, <5>1, <5>3, <4>2 DEF HandleToBind, UpToDate, TypeInv, AnyHandle
      <4> QED
        BY <3>1, <4>1, <4>2 DEF HandleToBind, TypeInv
    <3>5. ASSUME NEW d \in ControlBlock PROVE BoundHandle(d)'
      <4>1. CASE payload_handle[d] = NoHandle
        BY <3>1, <4>1 DEF BoundHandle
      <4>2. CASE payload_handle[d] # NoHandle
        BY <2>1, <3>1, <3>2, <4>2, BoundFields DEF BoundHandle, UpToDate, TypeInv, Payloads
      <4> QED
        BY <4>1, <4>2
    <3> QED
      BY <3>3, <3>4, <3>5 DEF Payloads
  <2>2. CASE ~(h # NoHandle /\ payload_generation[h.slot] = h.generation)
    BY <1>7, <2>2
    DEF ReturnPayload, GoTo, payload_pool, Payloads, LeasedHandle, HandleToBind, BoundHandle,
      UpToDate, TypeInv, Held
  <2> QED
    BY <2>1, <2>2
<1>8. ASSUME NEW l \in Lease, ClearPayload(l) PROVE Payloads'
  BY <1>8, HeldFields, BoundFields
  DEF ClearPayload, GoTo, counts, cb_pool, payload_pool, fixed, TypeInv, Blocks, OnBlock,
     Payloads, LeasedHandle, BoundHandle, HandleToBind, UpToDate, Held, Settled, cbOf,
     NoLease
<1>9. ASSUME NEW l \in Lease, WeakChecksStrong(l) PROVE Payloads'
  BY <1>9, HeldFields, BoundFields
  DEF WeakChecksStrong, GoTo, counts, cb_pool, payload_pool, fixed, TypeInv, Blocks,
     OnBlock, Payloads, LeasedHandle, BoundHandle, HandleToBind, UpToDate, Held, Settled,
     cbOf, NoLease
<1>10. ASSUME NEW l \in Lease, WeakChecksWeak(l) PROVE Payloads'
  BY <1>10, HeldFields, BoundFields
  DEF WeakChecksWeak, GoTo, counts, cb_pool, payload_pool, fixed, TypeInv, Blocks, OnBlock,
     Payloads, LeasedHandle, BoundHandle, HandleToBind, UpToDate, Held, Settled, cbOf,
     NoLease
<1>11. ASSUME NEW l \in Lease, ShutdownChecksStrong(l) PROVE Payloads'
  BY <1>11, HeldFields, BoundFields
  DEF ShutdownChecksStrong, GoTo, Invalidate, counts, cb_pool, payload_pool, fixed, TypeInv,
     Blocks, OnBlock, Payloads, LeasedHandle, BoundHandle, HandleToBind, UpToDate, Held,
     Settled, cbOf, NoLease
<1>12. ASSUME NEW l \in Lease, ShutdownChecksWeak(l) PROVE Payloads'
  BY <1>12, HeldFields, BoundFields
  DEF ShutdownChecksWeak, GoTo, Invalidate, counts, cb_pool, payload_pool, fixed, TypeInv,
     Blocks, OnBlock, Payloads, LeasedHandle, BoundHandle, HandleToBind, UpToDate, Held,
     Settled, cbOf, NoLease
<1>13. ASSUME NEW l \in Lease, ReturnControlBlock(l) PROVE Payloads'
  BY <1>13, HeldFields, BoundFields
  DEF ReturnControlBlock, Invalidate, counts, cb_pool, payload_pool, fixed, TypeInv, Blocks,
     OnBlock, Payloads, LeasedHandle, BoundHandle, HandleToBind, UpToDate, Held, Settled,
     cbOf, NoLease
<1>14. ASSUME NEW l \in Lease, NEW n \in Lease, NEW kind \in {"strong", "weak"},
             Copies(l, n, kind)
      PROVE  Payloads'
  BY <1>14, HeldFields, BoundFields
  DEF Copies, CopyAs, Empty, cb_pool, payload_pool, fixed, TypeInv, Blocks, OnBlock,
     Payloads, LeasedHandle, BoundHandle, HandleToBind, UpToDate, Held, Settled, cbOf,
     NoLease
<1>15. ASSUME UNCHANGED vars PROVE Payloads'
  BY <1>15
  DEF vars, counts, cb_pool, payload_pool, fixed, Payloads, LeasedHandle, BoundHandle,
     HandleToBind, UpToDate, Held
<1> QED
  BY <1>1, <1>2, <1>3, <1>4, <1>5, <1>6, <1>7, <1>8, <1>9, <1>10, <1>11, <1>12, <1>13,
     <1>14, <1>15, NextCases

\* Slots are given back no more often than they were acquired.
LEMMA GenerationsStep ==
    ASSUME TypeInv, Blocks, Acquirer, CountsExact, Payloads, Generations, [Next]_vars
    PROVE  Generations'
<1>1. ASSUME NEW l \in Lease, AcquireSlots(l) PROVE Generations'
  BY <1>1, HeldFields, BoundFields
  DEF AcquireSlots, Empty, ManagerIdle, counts, TypeInv, Blocks, OnBlock, Generations, Held,
     Settled, cbOf, NoLease
<1>2. ASSUME NEW l \in Lease, TryBindPayload(l) PROVE Generations'
  BY <1>2, HeldFields, BoundFields
  DEF TryBindPayload, CanBindPayload, GoTo, Invalidate, cb_pool, counts, payload_pool,
     fixed, TypeInv, Blocks, OnBlock, Generations, Held, Settled, cbOf, NoLease, Current
<1>3. ASSUME NEW l \in Lease, AcquireStrong(l) PROVE Generations'
  BY <1>3, HeldFields, BoundFields
  DEF AcquireStrong, GoTo, cb_pool, payload_pool, fixed, TypeInv, Blocks, OnBlock,
     Generations, Held, Settled, cbOf, NoLease
<1>4. ASSUME NEW l \in Lease, ReleaseStrong(l) PROVE Generations'
  BY <1>4, HeldFields, BoundFields
  DEF ReleaseStrong, Live, Decrement, GoTo, Invalidate, cb_pool, payload_pool, fixed,
     TypeInv, Blocks, OnBlock, Generations, Held, Settled, cbOf, NoLease
<1>5. ASSUME NEW l \in Lease, ReleaseWeak(l) PROVE Generations'
  BY <1>5, HeldFields, BoundFields
  DEF ReleaseWeak, Live, Decrement, GoTo, Invalidate, cb_pool, payload_pool, fixed, TypeInv,
     Blocks, OnBlock, Generations, Held, Settled, cbOf, NoLease
<1>6. ASSUME NEW l \in Lease, TryReleasePayload(l) PROVE Generations'
  BY <1>6, HeldFields, BoundFields
  DEF TryReleasePayload, GoTo, counts, cb_pool, payload_pool, fixed, TypeInv, Blocks,
     OnBlock, Generations, Held, Settled, cbOf, NoLease
<1>7. ASSUME NEW l \in Lease, ReturnPayload(l) PROVE Generations'
  BY <1>7, HeldFields, BoundFields
  DEF ReturnPayload, GoTo, counts, cb_pool, payload_pool, fixed, TypeInv, Blocks, OnBlock,
     Generations, Held, Settled, cbOf, NoLease, Payloads, BoundHandle, UpToDate
<1>8. ASSUME NEW l \in Lease, ClearPayload(l) PROVE Generations'
  BY <1>8, HeldFields, BoundFields
  DEF ClearPayload, GoTo, counts, cb_pool, payload_pool, fixed, TypeInv, Blocks, OnBlock,
     Generations, Held, Settled, cbOf, NoLease
<1>9. ASSUME NEW l \in Lease, WeakChecksStrong(l) PROVE Generations'
  BY <1>9, HeldFields, BoundFields
  DEF WeakChecksStrong, GoTo, counts, cb_pool, payload_pool, fixed, TypeInv, Blocks,
     OnBlock, Generations, Held, Settled, cbOf, NoLease
<1>10. ASSUME NEW l \in Lease, WeakChecksWeak(l) PROVE Generations'
  BY <1>10, HeldFields, BoundFields
  DEF WeakChecksWeak, GoTo, counts, cb_pool, payload_pool, fixed, TypeInv, Blocks, OnBlock,
     Generations, Held, Settled, cbOf, NoLease
<1>11. ASSUME NEW l \in Lease, ShutdownChecksStrong(l) PROVE Generations'
  BY <1>11, HeldFields, BoundFields
  DEF ShutdownChecksStrong, GoTo, Invalidate, counts, cb_pool, payload_pool, fixed, TypeInv,
     Blocks, OnBlock, Generations, Held, Settled, cbOf, NoLease
<1>12. ASSUME NEW l \in Lease, ShutdownChecksWeak(l) PROVE Generations'
  BY <1>12, HeldFields, BoundFields
  DEF ShutdownChecksWeak, GoTo, Invalidate, counts, cb_pool, payload_pool, fixed, TypeInv,
     Blocks, OnBlock, Generations, Held, Settled, cbOf, NoLease
<1>13. ASSUME NEW l \in Lease, ReturnControlBlock(l) PROVE Generations'
  BY <1>13, HeldFields, BoundFields
  DEF ReturnControlBlock, Invalidate, counts, cb_pool, payload_pool, fixed, TypeInv, Blocks,
     OnBlock, Generations, Held, Settled, cbOf, NoLease, Current
<1>14. ASSUME NEW l \in Lease, NEW n \in Lease, NEW kind \in {"strong", "weak"},
             Copies(l, n, kind)
      PROVE  Generations'
  BY <1>14, HeldFields, BoundFields
  DEF Copies, CopyAs, Empty, cb_pool, payload_pool, fixed, TypeInv, Blocks, OnBlock,
     Generations, Held, Settled, cbOf, NoLease
<1>15. ASSUME UNCHANGED vars PROVE Generations'
  BY <1>15 DEF vars, counts, cb_pool, payload_pool, fixed, Generations
<1> QED
  BY <1>1, <1>2, <1>3, <1>4, <1>5, <1>6, <1>7, <1>8, <1>9, <1>10, <1>11, <1>12, <1>13,
     <1>14, <1>15, NextCases

\* The counts are exact: every step counts the lease it makes, and discounts the
\* lease it lets go, once.
LEMMA CountsStep ==
    ASSUME TypeInv, Blocks, CountsExact, [Next]_vars
    PROVE  CountsExact'
<1>1. ASSUME NEW l \in Lease, AcquireSlots(l) PROVE CountsExact'
  <2>1. \A m \in Lease : m # l => lease'[m] = lease[m] /\ pc'[m] = pc[m]
    BY <1>1 DEF AcquireSlots, Empty, ManagerIdle, counts, TypeInv
  <2>2. ASSUME NEW c \in ControlBlock
        PROVE  /\ strong_count'[c] = strong_count[c] - One(Counts(l, "strong", c))
                                       + One(Counts(l, "strong", c)')
               /\ weak_count'[c] = weak_count[c] - One(Counts(l, "weak", c))
                                     + One(Counts(l, "weak", c)')
    BY <1>1, HeldFields
    DEF AcquireSlots, Empty, ManagerIdle, counts, TypeInv, Counts, One, Live, Blocks,
       OnBlock, Acquiring, Settled, cbOf, Held, NoLease
  <2> QED
    BY <2>1, <2>2, CountsChange
<1>2. ASSUME NEW l \in Lease, TryBindPayload(l) PROVE CountsExact'
  <2>1. \A m \in Lease : m # l => lease'[m] = lease[m] /\ pc'[m] = pc[m]
    BY <1>2
    DEF TryBindPayload, CanBindPayload, GoTo, Invalidate, cb_pool, counts, payload_pool,
       fixed, TypeInv
  <2>2. ASSUME NEW c \in ControlBlock
        PROVE  /\ strong_count'[c] = strong_count[c] - One(Counts(l, "strong", c))
                                       + One(Counts(l, "strong", c)')
               /\ weak_count'[c] = weak_count[c] - One(Counts(l, "weak", c))
                                     + One(Counts(l, "weak", c)')
    BY <1>2, HeldFields
    DEF TryBindPayload, CanBindPayload, GoTo, Invalidate, cb_pool, counts, payload_pool,
       fixed, TypeInv, Counts, One, Live, Blocks, OnBlock, Acquiring, Settled, cbOf, Held,
       NoLease
  <2> QED
    BY <2>1, <2>2, CountsChange
<1>3. ASSUME NEW l \in Lease, AcquireStrong(l) PROVE CountsExact'
  <2>1. \A m \in Lease : m # l => lease'[m] = lease[m] /\ pc'[m] = pc[m]
    BY <1>3 DEF AcquireStrong, GoTo, cb_pool, payload_pool, fixed, TypeInv
  <2>2. ASSUME NEW c \in ControlBlock
        PROVE  /\ strong_count'[c] = strong_count[c] - One(Counts(l, "strong", c))
                                       + One(Counts(l, "strong", c)')
               /\ weak_count'[c] = weak_count[c] - One(Counts(l, "weak", c))
                                     + One(Counts(l, "weak", c)')
    BY <1>3, HeldFields
    DEF AcquireStrong, GoTo, cb_pool, payload_pool, fixed, TypeInv, Counts, One, Live,
       Blocks, OnBlock, Acquiring, Settled, cbOf, Held, NoLease
  <2> QED
    BY <2>1, <2>2, CountsChange
<1>4. ASSUME NEW l \in Lease, ReleaseStrong(l) PROVE CountsExact'
  <2>1. \A m \in Lease : m # l => lease'[m] = lease[m] /\ pc'[m] = pc[m]
    BY <1>4
    DEF ReleaseStrong, Live, Decrement, GoTo, Invalidate, cb_pool, payload_pool, fixed,
       TypeInv
  <2>2. ASSUME NEW c \in ControlBlock
        PROVE  /\ strong_count'[c] = strong_count[c] - One(Counts(l, "strong", c))
                                       + One(Counts(l, "strong", c)')
               /\ weak_count'[c] = weak_count[c] - One(Counts(l, "weak", c))
                                     + One(Counts(l, "weak", c)')
    BY <1>4, HeldFields, StrongCount
    DEF ReleaseStrong, Live, Decrement, GoTo, Invalidate, cb_pool, payload_pool, fixed,
       TypeInv, Counts, One, Blocks, OnBlock, Acquiring, Settled, cbOf, Held, NoLease
  <2> QED
    BY <2>1, <2>2, CountsChange
<1>5. ASSUME NEW l \in Lease, ReleaseWeak(l) PROVE CountsExact'
  <2>1. \A m \in Lease : m # l => lease'[m] = lease[m] /\ pc'[m] = pc[m]
    BY <1>5
    DEF ReleaseWeak, Live, Decrement, GoTo, Invalidate, cb_pool, payload_pool, fixed,
       TypeInv
  <2>2. ASSUME NEW c \in ControlBlock
        PROVE  /\ strong_count'[c] = strong_count[c] - One(Counts(l, "strong", c))
                                       + One(Counts(l, "strong", c)')
               /\ weak_count'[c] = weak_count[c] - One(Counts(l, "weak", c))
                                     + One(Counts(l, "weak", c)')
    BY <1>5, HeldFields, WeakCount
    DEF ReleaseWeak, Live, Decrement, GoTo, Invalidate, cb_pool, payload_pool, fixed,
       TypeInv, Counts, One, Blocks, OnBlock, Acquiring, Settled, cbOf, Held, NoLease
  <2> QED
    BY <2>1, <2>2, CountsChange
<1>6. ASSUME NEW l \in Lease, TryReleasePayload(l) PROVE CountsExact'
  <2>1. \A m \in Lease : m # l => lease'[m] = lease[m] /\ pc'[m] = pc[m]
    BY <1>6 DEF TryReleasePayload, GoTo, counts, cb_pool, payload_pool, fixed, TypeInv
  <2>2. ASSUME NEW c \in ControlBlock
        PROVE  /\ strong_count'[c] = strong_count[c] - One(Counts(l, "strong", c))
                                       + One(Counts(l, "strong", c)')
               /\ weak_count'[c] = weak_count[c] - One(Counts(l, "weak", c))
                                     + One(Counts(l, "weak", c)')
    BY <1>6, HeldFields
    DEF TryReleasePayload, GoTo, counts, cb_pool, payload_pool, fixed, TypeInv, Counts, One,
       Live, Blocks, OnBlock, Acquiring, Settled, cbOf, Held, NoLease
  <2> QED
    BY <2>1, <2>2, CountsChange
<1>7. ASSUME NEW l \in Lease, ReturnPayload(l) PROVE CountsExact'
  <2>1. \A m \in Lease : m # l => lease'[m] = lease[m] /\ pc'[m] = pc[m]
    BY <1>7 DEF ReturnPayload, GoTo, counts, cb_pool, payload_pool, fixed, TypeInv
  <2>2. ASSUME NEW c \in ControlBlock
        PROVE  /\ strong_count'[c] = strong_count[c] - One(Counts(l, "strong", c))
                                       + One(Counts(l, "strong", c)')
               /\ weak_count'[c] = weak_count[c] - One(Counts(l, "weak", c))
                                     + One(Counts(l, "weak", c)')
    BY <1>7, HeldFields
    DEF ReturnPayload, GoTo, counts, cb_pool, payload_pool, fixed, TypeInv, Counts, One,
       Live, Blocks, OnBlock, Acquiring, Settled, cbOf, Held, NoLease
  <2> QED
    BY <2>1, <2>2, CountsChange
<1>8. ASSUME NEW l \in Lease, ClearPayload(l) PROVE CountsExact'
  <2>1. \A m \in Lease : m # l => lease'[m] = lease[m] /\ pc'[m] = pc[m]
    BY <1>8 DEF ClearPayload, GoTo, counts, cb_pool, payload_pool, fixed, TypeInv
  <2>2. ASSUME NEW c \in ControlBlock
        PROVE  /\ strong_count'[c] = strong_count[c] - One(Counts(l, "strong", c))
                                       + One(Counts(l, "strong", c)')
               /\ weak_count'[c] = weak_count[c] - One(Counts(l, "weak", c))
                                     + One(Counts(l, "weak", c)')
    BY <1>8, HeldFields
    DEF ClearPayload, GoTo, counts, cb_pool, payload_pool, fixed, TypeInv, Counts, One,
       Live, Blocks, OnBlock, Acquiring, Settled, cbOf, Held, NoLease
  <2> QED
    BY <2>1, <2>2, CountsChange
<1>9. ASSUME NEW l \in Lease, WeakChecksStrong(l) PROVE CountsExact'
  <2>1. \A m \in Lease : m # l => lease'[m] = lease[m] /\ pc'[m] = pc[m]
    BY <1>9 DEF WeakChecksStrong, GoTo, counts, cb_pool, payload_pool, fixed, TypeInv
  <2>2. ASSUME NEW c \in ControlBlock
        PROVE  /\ strong_count'[c] = strong_count[c] - One(Counts(l, "strong", c))
                                       + One(Counts(l, "strong", c)')
               /\ weak_count'[c] = weak_count[c] - One(Counts(l, "weak", c))
                                     + One(Counts(l, "weak", c)')
    BY <1>9, HeldFields
    DEF WeakChecksStrong, GoTo, counts, cb_pool, payload_pool, fixed, TypeInv, Counts, One,
       Live, Blocks, OnBlock, Acquiring, Settled, cbOf, Held, NoLease
  <2> QED
    BY <2>1, <2>2, CountsChange
<1>10. ASSUME NEW l \in Lease, WeakChecksWeak(l) PROVE CountsExact'
  <2>1. \A m \in Lease : m # l => lease'[m] = lease[m] /\ pc'[m] = pc[m]
    BY <1>10 DEF WeakChecksWeak, GoTo, counts, cb_pool, payload_pool, fixed, TypeInv
  <2>2. ASSUME NEW c \in ControlBlock
        PROVE  /\ strong_count'[c] = strong_count[c] - One(Counts(l, "strong", c))
                                       + One(Counts(l, "strong", c)')
               /\ weak_count'[c] = weak_count[c] - One(Counts(l, "weak", c))
                                     + One(Counts(l, "weak", c)')
    BY <1>10, HeldFields
    DEF WeakChecksWeak, GoTo, counts, cb_pool, payload_pool, fixed, TypeInv, Counts, One,
       Live, Blocks, OnBlock, Acquiring, Settled, cbOf, Held, NoLease
  <2> QED
    BY <2>1, <2>2, CountsChange
<1>11. ASSUME NEW l \in Lease, ShutdownChecksStrong(l) PROVE CountsExact'
  <2>1. \A m \in Lease : m # l => lease'[m] = lease[m] /\ pc'[m] = pc[m]
    BY <1>11
    DEF ShutdownChecksStrong, GoTo, Invalidate, counts, cb_pool, payload_pool, fixed,
       TypeInv
  <2>2. ASSUME NEW c \in ControlBlock
        PROVE  /\ strong_count'[c] = strong_count[c] - One(Counts(l, "strong", c))
                                       + One(Counts(l, "strong", c)')
               /\ weak_count'[c] = weak_count[c] - One(Counts(l, "weak", c))
                                     + One(Counts(l, "weak", c)')
    BY <1>11, HeldFields
    DEF ShutdownChecksStrong, GoTo, Invalidate, counts, cb_pool, payload_pool, fixed,
       TypeInv, Counts, One, Live, Blocks, OnBlock, Acquiring, Settled, cbOf, Held, NoLease
  <2> QED
    BY <2>1, <2>2, CountsChange
<1>12. ASSUME NEW l \in Lease, ShutdownChecksWeak(l) PROVE CountsExact'
  <2>1. \A m \in Lease : m # l => lease'[m] = lease[m] /\ pc'[m] = pc[m]
    BY <1>12
    DEF ShutdownChecksWeak, GoTo, Invalidate, counts, cb_pool, payload_pool, fixed, TypeInv
  <2>2. ASSUME NEW c \in ControlBlock
        PROVE  /\ strong_count'[c] = strong_count[c] - One(Counts(l, "strong", c))
                                       + One(Counts(l, "strong", c)')
               /\ weak_count'[c] = weak_count[c] - One(Counts(l, "weak", c))
                                     + One(Counts(l, "weak", c)')
    BY <1>12, HeldFields
    DEF ShutdownChecksWeak, GoTo, Invalidate, counts, cb_pool, payload_pool, fixed, TypeInv,
       Counts, One, Live, Blocks, OnBlock, Acquiring, Settled, cbOf, Held, NoLease
  <2> QED
    BY <2>1, <2>2, CountsChange
<1>13. ASSUME NEW l \in Lease, ReturnControlBlock(l) PROVE CountsExact'
  <2>1. \A m \in Lease : m # l => lease'[m] = lease[m] /\ pc'[m] = pc[m]
    BY <1>13
    DEF ReturnControlBlock, Invalidate, counts, cb_pool, payload_pool, fixed, TypeInv
  <2>2. ASSUME NEW c \in ControlBlock
        PROVE  /\ strong_count'[c] = strong_count[c] - One(Counts(l, "strong", c))
                                       + One(Counts(l, "strong", c)')
               /\ weak_count'[c] = weak_count[c] - One(Counts(l, "weak", c))
                                     + One(Counts(l, "weak", c)')
    BY <1>13, HeldFields
    DEF ReturnControlBlock, Invalidate, counts, cb_pool, payload_pool, fixed, TypeInv,
       Counts, One, Live, Blocks, OnBlock, Acquiring, Settled, cbOf, Held, NoLease
  <2> QED
    BY <2>1, <2>2, CountsChange
<1>14. ASSUME NEW l \in Lease, NEW n \in Lease, NEW kind \in {"strong", "weak"},
             Copies(l, n, kind)
      PROVE  CountsExact'
  <2>1. \A m \in Lease : m # n => lease'[m] = lease[m] /\ pc'[m] = pc[m]
    BY <1>14 DEF Copies, CopyAs, Empty, cb_pool, payload_pool, fixed, TypeInv
  <2>2. ASSUME NEW c \in ControlBlock
        PROVE  /\ strong_count'[c] = strong_count[c] - One(Counts(n, "strong", c))
                                       + One(Counts(n, "strong", c)')
               /\ weak_count'[c] = weak_count[c] - One(Counts(n, "weak", c))
                                     + One(Counts(n, "weak", c)')
    BY <1>14, HeldFields
    DEF Copies, CopyAs, Empty, cb_pool, payload_pool, fixed, TypeInv, Counts, One, Live,
       Blocks, OnBlock, Acquiring, Settled, cbOf, Held, NoLease
  <2> QED
    BY <2>1, <2>2, CountsChange
<1>15. ASSUME UNCHANGED vars PROVE CountsExact'
  BY <1>15 DEF vars, counts, cb_pool, payload_pool, fixed, CountsExact, Counted, Live, cbOf
<1> QED
  BY <1>1, <1>2, <1>3, <1>4, <1>5, <1>6, <1>7, <1>8, <1>9, <1>10, <1>11, <1>12, <1>13,
     <1>14, <1>15, NextCases

\* A lease on a fresh block still owns it.
LEMMA FreshCurrent ==
    ASSUME TypeInv, Blocks, StrongOnly, NEW l \in Lease, Held(l), Fresh(cbOf(l))
    PROVE  Current(l)
BY HeldFields DEF Fresh, StrongOnly, StrongLease, Blocks, OnBlock, Current, TypeInv

\* A block that was reused stays reused, and the category is fixed.
LEMMA FreshBefore ==
    ASSUME TypeInv, Blocks, CountsExact, [Next]_vars
    PROVE  /\ category' = category
           /\ \A c \in ControlBlock : Fresh(c)' => Fresh(c)
<1> USE DEF Fresh
<1>1. ASSUME NEW l \in Lease, AcquireSlots(l)
      PROVE  category' = category /\ \A c \in ControlBlock : Fresh(c)' => Fresh(c)
  BY <1>1 DEF AcquireSlots
<1>2. ASSUME NEW l \in Lease, TryBindPayload(l)
      PROVE  category' = category /\ \A c \in ControlBlock : Fresh(c)' => Fresh(c)
  BY <1>2, HeldFields DEF TryBindPayload, cb_pool, fixed, TypeInv, Blocks, OnBlock
<1>3. ASSUME NEW l \in Lease, AcquireStrong(l)
      PROVE  category' = category /\ \A c \in ControlBlock : Fresh(c)' => Fresh(c)
  BY <1>3 DEF AcquireStrong, cb_pool, fixed
<1>4. ASSUME NEW l \in Lease, ReleaseStrong(l)
      PROVE  category' = category /\ \A c \in ControlBlock : Fresh(c)' => Fresh(c)
  BY <1>4 DEF ReleaseStrong, cb_pool, fixed
<1>5. ASSUME NEW l \in Lease, ReleaseWeak(l)
      PROVE  category' = category /\ \A c \in ControlBlock : Fresh(c)' => Fresh(c)
  BY <1>5 DEF ReleaseWeak, cb_pool, fixed
<1>6. ASSUME NEW l \in Lease, TryReleasePayload(l)
      PROVE  category' = category /\ \A c \in ControlBlock : Fresh(c)' => Fresh(c)
  BY <1>6 DEF TryReleasePayload, cb_pool, fixed
<1>7. ASSUME NEW l \in Lease, ReturnPayload(l)
      PROVE  category' = category /\ \A c \in ControlBlock : Fresh(c)' => Fresh(c)
  BY <1>7 DEF ReturnPayload, cb_pool, fixed
<1>8. ASSUME NEW l \in Lease, ClearPayload(l)
      PROVE  category' = category /\ \A c \in ControlBlock : Fresh(c)' => Fresh(c)
  BY <1>8 DEF ClearPayload, cb_pool, fixed
<1>9. ASSUME NEW l \in Lease, WeakChecksStrong(l)
      PROVE  category' = category /\ \A c \in ControlBlock : Fresh(c)' => Fresh(c)
  BY <1>9 DEF WeakChecksStrong, cb_pool, fixed
<1>10. ASSUME NEW l \in Lease, WeakChecksWeak(l)
      PROVE  category' = category /\ \A c \in ControlBlock : Fresh(c)' => Fresh(c)
  BY <1>10 DEF WeakChecksWeak, cb_pool, fixed
<1>11. ASSUME NEW l \in Lease, ShutdownChecksStrong(l)
      PROVE  category' = category /\ \A c \in ControlBlock : Fresh(c)' => Fresh(c)
  BY <1>11 DEF ShutdownChecksStrong, cb_pool, fixed
<1>12. ASSUME NEW l \in Lease, ShutdownChecksWeak(l)
      PROVE  category' = category /\ \A c \in ControlBlock : Fresh(c)' => Fresh(c)
  BY <1>12 DEF ShutdownChecksWeak, cb_pool, fixed
<1>13. ASSUME NEW l \in Lease, ReturnControlBlock(l)
      PROVE  category' = category /\ \A c \in ControlBlock : Fresh(c)' => Fresh(c)
  BY <1>13, HeldFields DEF ReturnControlBlock, cb_pool, fixed, TypeInv, Blocks, OnBlock
<1>14. ASSUME NEW l \in Lease, NEW n \in Lease, NEW kind \in {"strong", "weak"},
             Copies(l, n, kind)
      PROVE  category' = category /\ \A c \in ControlBlock : Fresh(c)' => Fresh(c)
  BY <1>14 DEF Copies, CopyAs, cb_pool, fixed
<1>15. UNCHANGED vars => UNCHANGED << category, cb_generation >>
  BY DEF vars, cb_pool, fixed
<1> QED
  BY <1>1, <1>2, <1>3, <1>4, <1>5, <1>6, <1>7, <1>8, <1>9, <1>10, <1>11, <1>12, <1>13,
     <1>14, <1>15, NextCases

\* A lease keeps its payload through every step that is not a bind, a return or
\* a clearing on its own block.
LEMMA KeepsStable ==
    ASSUME TypeInv, Blocks, CountsExact, Payloads, [Next]_vars,
           NEW k \in Lease, Held(k), Keeps(k), lease'[k] = lease[k],
           \A m \in Lease : TryBindPayload(m) \/ ReturnPayload(m) \/ ClearPayload(m)
                              => cbOf(m) # cbOf(k)
    PROVE  Keeps(k)'
<1> DEFINE h == lease[k].payload
<1>0. /\ cbOf(k) \in ControlBlock /\ h \in AnyHandle(Payload) /\ h # NoHandle
      /\ payload_handle[cbOf(k)] = h
      /\ h.slot \in Payload /\ h.slot \notin payload_free
      /\ payload_generation[h.slot] = h.generation
  BY HeldFields DEF Keeps
<1>1. ASSUME payload_handle'[cbOf(k)] = payload_handle[cbOf(k)],
             payload_generation'[h.slot] = payload_generation[h.slot],
             h.slot \notin payload_free'
      PROVE  Keeps(k)'
  BY <1>0, <1>1 DEF Keeps, cbOf
<1>2. CASE UNCHANGED << payload_handle, payload_pool >>
  BY <1>0, <1>1, <1>2 DEF payload_pool
<1>3. ASSUME NEW l \in Lease, AcquireSlots(l) PROVE Keeps(k)'
  BY <1>0, <1>1, <1>3 DEF AcquireSlots
<1>4. ASSUME NEW l \in Lease, TryBindPayload(l) PROVE Keeps(k)'
  BY <1>0, <1>1, <1>4, HeldFields DEF TryBindPayload, payload_pool, TypeInv
<1>5. ASSUME NEW l \in Lease, ClearPayload(l) PROVE Keeps(k)'
  BY <1>0, <1>1, <1>5, HeldFields DEF ClearPayload, payload_pool, TypeInv
<1>6. ASSUME NEW l \in Lease, ReturnPayload(l) PROVE Keeps(k)'
  <2> DEFINE g == payload_handle[cbOf(l)]
  <2>1. UNCHANGED payload_handle /\ cbOf(l) # cbOf(k) /\ cbOf(l) \in ControlBlock
    BY <1>6, HeldFields DEF ReturnPayload, Blocks, OnBlock
  <2>2. CASE g # NoHandle /\ payload_generation[g.slot] = g.generation
    <3>1. g \in AnyHandle(Payload) /\ g # h
      BY <1>0, <2>1, <2>2, BoundFields DEF Payloads, BoundHandle, UpToDate
    <3>2. g.slot # h.slot
      BY <1>0, <2>2, <3>1 DEF AnyHandle
    <3> QED
      BY <1>0, <1>1, <1>6, <2>1, <2>2, <3>1, <3>2 DEF ReturnPayload, TypeInv, AnyHandle
  <2>3. CASE ~(g # NoHandle /\ payload_generation[g.slot] = g.generation)
    BY <1>2, <1>6, <2>1, <2>3 DEF ReturnPayload
  <2> QED
    BY <2>2, <2>3
<1>7. ASSUME NEW l \in Lease,
             \/ AcquireStrong(l) \/ ReleaseStrong(l) \/ ReleaseWeak(l)
             \/ TryReleasePayload(l) \/ WeakChecksStrong(l) \/ WeakChecksWeak(l)
             \/ ShutdownChecksStrong(l) \/ ShutdownChecksWeak(l) \/ ReturnControlBlock(l)
      PROVE  Keeps(k)'
  BY <1>2, <1>7
  DEF AcquireStrong, ReleaseStrong, ReleaseWeak, TryReleasePayload, WeakChecksStrong,
    WeakChecksWeak, ShutdownChecksStrong, ShutdownChecksWeak, ReturnControlBlock
<1>8. ASSUME NEW l \in Lease, NEW n \in Lease, NEW kind \in {"strong", "weak"},
             Copies(l, n, kind)
      PROVE  Keeps(k)'
  BY <1>2, <1>8 DEF Copies, CopyAs
<1>9. UNCHANGED vars => UNCHANGED << payload_handle, payload_pool >>
  BY DEF vars
<1> QED
  BY <1>2, <1>3, <1>4, <1>5, <1>6, <1>7, <1>8, <1>9, NextCases

\* While a release gives back the payload of a fresh block, nobody can count up.
LEMMA FreshCountStep ==
    ASSUME TypeInv, Blocks, Acquirer, CountsExact, ChecksStable, SamePayload, Payloads, FreshKeeps,
           StrongOnly, [Next]_vars
    PROVE  (\A k \in Lease : FreshCount(k))'
<1>1. ASSUME NEW l \in Lease, AcquireSlots(l) PROVE (\A k \in Lease : FreshCount(k))'
  BY <1>1, HeldFields, FreshBefore
  DEF AcquireSlots, Empty, ManagerIdle, counts, TypeInv, Blocks, OnBlock, FreshKeeps,
     FreshCount, Held, Settled, Live, cbOf, NoLease
<1>2. ASSUME NEW l \in Lease, TryBindPayload(l) PROVE (\A k \in Lease : FreshCount(k))'
  BY <1>2, HeldFields, FreshBefore
  DEF TryBindPayload, CanBindPayload, GoTo, Invalidate, cb_pool, counts, payload_pool,
     fixed, TypeInv, Blocks, OnBlock, FreshKeeps, FreshCount, Held, Settled, Live, cbOf,
     NoLease
<1>3. ASSUME NEW l \in Lease, AcquireStrong(l) PROVE (\A k \in Lease : FreshCount(k))'
  BY <1>3, HeldFields, FreshBefore, FreshCurrent
  DEF AcquireStrong, GoTo, cb_pool, payload_pool, fixed, TypeInv, Blocks, OnBlock,
     FreshKeeps, FreshCount, Held, Settled, Live, cbOf, NoLease, Acquirer, Acquiring
<1>4. ASSUME NEW l \in Lease, ReleaseStrong(l) PROVE (\A k \in Lease : FreshCount(k))'
  BY <1>4, HeldFields, FreshBefore
  DEF ReleaseStrong, Live, Decrement, GoTo, Invalidate, cb_pool, payload_pool, fixed,
     TypeInv, Blocks, OnBlock, FreshKeeps, FreshCount, Held, Settled, cbOf, NoLease
<1>5. ASSUME NEW l \in Lease, ReleaseWeak(l) PROVE (\A k \in Lease : FreshCount(k))'
  BY <1>5, HeldFields, FreshBefore
  DEF ReleaseWeak, Live, Decrement, GoTo, Invalidate, cb_pool, payload_pool, fixed, TypeInv,
     Blocks, OnBlock, FreshKeeps, FreshCount, Held, Settled, cbOf, NoLease
<1>6. ASSUME NEW l \in Lease, TryReleasePayload(l) PROVE (\A k \in Lease : FreshCount(k))'
  BY <1>6, HeldFields, FreshBefore
  DEF TryReleasePayload, GoTo, counts, cb_pool, payload_pool, fixed, TypeInv, Blocks,
     OnBlock, FreshKeeps, FreshCount, Held, Settled, Live, cbOf, NoLease
<1>7. ASSUME NEW l \in Lease, ReturnPayload(l) PROVE (\A k \in Lease : FreshCount(k))'
  BY <1>7, HeldFields, FreshBefore
  DEF ReturnPayload, GoTo, counts, cb_pool, payload_pool, fixed, TypeInv, Blocks, OnBlock,
     FreshKeeps, FreshCount, Held, Settled, Live, cbOf, NoLease
<1>8. ASSUME NEW l \in Lease, ClearPayload(l) PROVE (\A k \in Lease : FreshCount(k))'
  BY <1>8, HeldFields, FreshBefore
  DEF ClearPayload, GoTo, counts, cb_pool, payload_pool, fixed, TypeInv, Blocks, OnBlock,
     FreshKeeps, FreshCount, Held, Settled, Live, cbOf, NoLease
<1>9. ASSUME NEW l \in Lease, WeakChecksStrong(l) PROVE (\A k \in Lease : FreshCount(k))'
  BY <1>9, HeldFields, FreshBefore
  DEF WeakChecksStrong, GoTo, counts, cb_pool, payload_pool, fixed, TypeInv, Blocks,
     OnBlock, FreshKeeps, FreshCount, Held, Settled, Live, cbOf, NoLease
<1>10. ASSUME NEW l \in Lease, WeakChecksWeak(l) PROVE (\A k \in Lease : FreshCount(k))'
  BY <1>10, HeldFields, FreshBefore, FreshCurrent
  DEF WeakChecksWeak, GoTo, counts, cb_pool, payload_pool, fixed, TypeInv, Blocks, OnBlock,
     FreshKeeps, FreshCount, Held, Settled, Live, cbOf, NoLease, ChecksStable, ChecksHold,
     Current
<1>11. ASSUME NEW l \in Lease, ShutdownChecksStrong(l) PROVE (\A k \in Lease : FreshCount(k))'
  BY <1>11, HeldFields, FreshBefore
  DEF ShutdownChecksStrong, GoTo, Invalidate, counts, cb_pool, payload_pool, fixed, TypeInv,
     Blocks, OnBlock, FreshKeeps, FreshCount, Held, Settled, Live, cbOf, NoLease
<1>12. ASSUME NEW l \in Lease, ShutdownChecksWeak(l) PROVE (\A k \in Lease : FreshCount(k))'
  BY <1>12, HeldFields, FreshBefore
  DEF ShutdownChecksWeak, GoTo, Invalidate, counts, cb_pool, payload_pool, fixed, TypeInv,
     Blocks, OnBlock, FreshKeeps, FreshCount, Held, Settled, Live, cbOf, NoLease
<1>13. ASSUME NEW l \in Lease, ReturnControlBlock(l) PROVE (\A k \in Lease : FreshCount(k))'
  BY <1>13, HeldFields, FreshBefore
  DEF ReturnControlBlock, Invalidate, counts, cb_pool, payload_pool, fixed, TypeInv, Blocks,
     OnBlock, FreshKeeps, FreshCount, Held, Settled, Live, cbOf, NoLease
<1>14. ASSUME NEW l \in Lease, NEW n \in Lease, NEW kind \in {"strong", "weak"},
             Copies(l, n, kind)
      PROVE  (\A k \in Lease : FreshCount(k))'
  BY <1>14, HeldFields, FreshBefore
  DEF Copies, CopyAs, Empty, cb_pool, payload_pool, fixed, TypeInv, Blocks, OnBlock,
     FreshKeeps, FreshCount, Held, Settled, Live, cbOf, NoLease
<1>15. ASSUME UNCHANGED vars PROVE (\A k \in Lease : FreshCount(k))'
  BY <1>15
  DEF vars, counts, cb_pool, payload_pool, fixed, FreshKeeps, FreshCount, Fresh, Held, cbOf
<1> QED
  BY <1>1, <1>2, <1>3, <1>4, <1>5, <1>6, <1>7, <1>8, <1>9, <1>10, <1>11, <1>12, <1>13,
     <1>14, <1>15, NextCases

\* A live strong lease on a fresh block keeps its payload.
LEMMA FreshPayloadStep ==
    ASSUME TypeInv, Blocks, Acquirer, CountsExact, ChecksStable, SamePayload, Payloads, FreshKeeps,
           StrongOnly, [Next]_vars
    PROVE  (\A k \in Lease : FreshPayload(k))'
<1>0. ASSUME NEW k \in Lease, Held(k), Fresh(cbOf(k)), Live(k, "strong") \/ pc[k] = "count",
             lease'[k] = lease[k]
      PROVE  Keeps(k)'
  <2>1. Keeps(k) /\ Current(k) /\ cbOf(k) \in ControlBlock
    BY <1>0, FreshCurrent, HeldFields DEF FreshKeeps, FreshPayload
  <2>2. ASSUME NEW m \in Lease, TryBindPayload(m), cbOf(m) = cbOf(k) PROVE FALSE
    BY <1>0, <2>1, <2>2 DEF TryBindPayload, Acquirer, Acquiring, Live
  <2>3. ASSUME NEW m \in Lease, ReturnPayload(m) \/ ClearPayload(m), cbOf(m) = cbOf(k)
        PROVE  FALSE
    <3>1. /\ pc[m] \in {"return_payload", "clear_payload"} /\ m # k
          /\ Held(m)
      BY <1>0, <2>3 DEF ReturnPayload, ClearPayload, Live, Blocks, OnBlock
    <3>2. strong_count[cbOf(k)] = 0 /\ Current(m)
      BY <1>0, <2>3, <3>1, FreshCurrent DEF FreshKeeps, FreshCount
    <3>3. pc[k] # "count"
      BY <2>3, <3>1, <3>2 DEF Acquirer, Acquiring
    <3> QED
      BY <1>0, <2>1, <3>2, <3>3, StrongCount
  <2> QED
    BY <1>0, <2>1, <2>2, <2>3, KeepsStable
<1>1. ASSUME NEW l \in Lease, AcquireSlots(l) PROVE (\A k \in Lease : FreshPayload(k))'
  BY <1>1, <1>0, HeldFields, FreshBefore
  DEF AcquireSlots, Empty, ManagerIdle, counts, TypeInv, Blocks, OnBlock, FreshPayload,
     Held, Live, cbOf, NoLease
<1>2. ASSUME NEW l \in Lease, TryBindPayload(l) PROVE (\A k \in Lease : FreshPayload(k))'
  <2>1. ASSUME NEW k \in Lease, k # l PROVE FreshPayload(k)'
    BY <1>0, <1>2, <2>1, HeldFields, FreshBefore
    DEF TryBindPayload, GoTo, Invalidate, TypeInv, FreshPayload, Held, Live, cbOf, NoLease
  <2>2. CASE CanBindPayload(cbOf(l))
    <3>1. HandleToBind(l) /\ cbOf(l) \in ControlBlock
      BY <1>2, HeldFields DEF TryBindPayload, Payloads, Blocks, OnBlock
    <3>2. /\ payload_handle' = [payload_handle EXCEPT ![cbOf(l)] = lease[l].payload]
          /\ UNCHANGED << lease, payload_free, payload_generation >>
      BY <1>2, <2>2 DEF TryBindPayload, GoTo, payload_pool
    <3>3. Keeps(l)'
      BY <1>2, <3>1, <3>2 DEF TryBindPayload, HandleToBind, UpToDate, Keeps, TypeInv, cbOf
    <3> QED
      BY <2>1, <3>3 DEF FreshPayload
  <2>3. CASE ~CanBindPayload(cbOf(l))
    BY <1>2, <2>1, <2>3 DEF TryBindPayload, Invalidate, FreshPayload, Held, TypeInv
  <2> QED
    BY <2>2, <2>3
<1>3. ASSUME NEW l \in Lease, AcquireStrong(l) PROVE (\A k \in Lease : FreshPayload(k))'
  BY <1>3, <1>0, HeldFields, FreshBefore
  DEF AcquireStrong, GoTo, cb_pool, payload_pool, fixed, TypeInv, Blocks, OnBlock,
     FreshPayload, Held, Live, cbOf, NoLease
<1>4. ASSUME NEW l \in Lease, ReleaseStrong(l) PROVE (\A k \in Lease : FreshPayload(k))'
  BY <1>4, <1>0, HeldFields, FreshBefore
  DEF ReleaseStrong, Live, Decrement, GoTo, Invalidate, cb_pool, payload_pool, fixed,
     TypeInv, Blocks, OnBlock, FreshPayload, Held, cbOf, NoLease
<1>5. ASSUME NEW l \in Lease, ReleaseWeak(l) PROVE (\A k \in Lease : FreshPayload(k))'
  BY <1>5, <1>0, HeldFields, FreshBefore
  DEF ReleaseWeak, Live, Decrement, GoTo, Invalidate, cb_pool, payload_pool, fixed, TypeInv,
     Blocks, OnBlock, FreshPayload, Held, cbOf, NoLease
<1>6. ASSUME NEW l \in Lease, TryReleasePayload(l) PROVE (\A k \in Lease : FreshPayload(k))'
  BY <1>6, <1>0, HeldFields, FreshBefore
  DEF TryReleasePayload, GoTo, counts, cb_pool, payload_pool, fixed, TypeInv, Blocks,
     OnBlock, FreshPayload, Held, Live, cbOf, NoLease
<1>7. ASSUME NEW l \in Lease, ReturnPayload(l) PROVE (\A k \in Lease : FreshPayload(k))'
  BY <1>7, <1>0, HeldFields, FreshBefore
  DEF ReturnPayload, GoTo, counts, cb_pool, payload_pool, fixed, TypeInv, Blocks, OnBlock,
     FreshPayload, Held, Live, cbOf, NoLease
<1>8. ASSUME NEW l \in Lease, ClearPayload(l) PROVE (\A k \in Lease : FreshPayload(k))'
  BY <1>8, <1>0, HeldFields, FreshBefore
  DEF ClearPayload, GoTo, counts, cb_pool, payload_pool, fixed, TypeInv, Blocks, OnBlock,
     FreshPayload, Held, Live, cbOf, NoLease
<1>9. ASSUME NEW l \in Lease, WeakChecksStrong(l) PROVE (\A k \in Lease : FreshPayload(k))'
  BY <1>9, <1>0, HeldFields, FreshBefore
  DEF WeakChecksStrong, GoTo, counts, cb_pool, payload_pool, fixed, TypeInv, Blocks,
     OnBlock, FreshPayload, Held, Live, cbOf, NoLease
<1>10. ASSUME NEW l \in Lease, WeakChecksWeak(l) PROVE (\A k \in Lease : FreshPayload(k))'
  BY <1>10, <1>0, HeldFields, FreshBefore
  DEF WeakChecksWeak, GoTo, counts, cb_pool, payload_pool, fixed, TypeInv, Blocks, OnBlock,
     FreshPayload, Held, Live, cbOf, NoLease
<1>11. ASSUME NEW l \in Lease, ShutdownChecksStrong(l) PROVE (\A k \in Lease : FreshPayload(k))'
  BY <1>11, <1>0, HeldFields, FreshBefore
  DEF ShutdownChecksStrong, GoTo, Invalidate, counts, cb_pool, payload_pool, fixed, TypeInv,
     Blocks, OnBlock, FreshPayload, Held, Live, cbOf, NoLease
<1>12. ASSUME NEW l \in Lease, ShutdownChecksWeak(l) PROVE (\A k \in Lease : FreshPayload(k))'
  BY <1>12, <1>0, HeldFields, FreshBefore
  DEF ShutdownChecksWeak, GoTo, Invalidate, counts, cb_pool, payload_pool, fixed, TypeInv,
     Blocks, OnBlock, FreshPayload, Held, Live, cbOf, NoLease
<1>13. ASSUME NEW l \in Lease, ReturnControlBlock(l) PROVE (\A k \in Lease : FreshPayload(k))'
  BY <1>13, <1>0, HeldFields, FreshBefore
  DEF ReturnControlBlock, Invalidate, counts, cb_pool, payload_pool, fixed, TypeInv, Blocks,
     OnBlock, FreshPayload, Held, Live, cbOf, NoLease
<1>14. ASSUME NEW l \in Lease, NEW n \in Lease, NEW kind \in {"strong", "weak"},
             Copies(l, n, kind)
      PROVE  (\A k \in Lease : FreshPayload(k))'
  <2>1. /\ Held(l) /\ pc[l] = "idle" /\ Current(l) /\ cbOf(l) \in ControlBlock
        /\ Empty(n) /\ pc' = pc
        /\ lease' = [lease EXCEPT ![n] = [lease[l] EXCEPT !.kind = kind]]
    BY <1>14, HeldFields DEF Copies, CopyAs, Blocks, OnBlock, Settled
  <2>2. ASSUME NEW k \in Lease, k # n PROVE FreshPayload(k)'
    BY <1>0, <2>1, <2>2, HeldFields, FreshBefore
    DEF TypeInv, FreshPayload, Held, Live, cbOf, NoLease
  <2>3. ASSUME kind = "strong", Fresh(cbOf(l)) PROVE Keeps(n)'
    <3>1. PICK k \in Lease : Live(k, "strong") /\ cbOf(k) = cbOf(l)
      BY <1>14, <2>1, <2>3, StrongCount DEF Copies, TypeInv
    <3>2. Held(k) /\ Current(k) /\ k # n
      BY <2>1, <3>1 DEF Live, Blocks, OnBlock, Settled, Held, NoLease, Empty
    <3>3. Keeps(k)' /\ lease'[k] = lease[k]
      BY <1>0, <2>1, <2>3, <3>1, <3>2 DEF TypeInv
    <3>4. lease[k].payload = lease[l].payload
      BY <2>1, <3>1, <3>2 DEF SamePayload
    <3>5. lease'[n].payload = lease[l].payload /\ lease'[n].cb = lease[l].cb
      BY <2>1, HeldFields DEF TypeInv
    <3> QED
      BY <3>1, <3>3, <3>4, <3>5 DEF Keeps, cbOf
  <2>4. FreshPayload(n)'
    <3>1. lease'[n].kind = kind /\ cbOf(n)' = cbOf(l) /\ pc'[n] # "count"
      BY <2>1, HeldFields DEF TypeInv, cbOf, Blocks, OnBlock, Held, Empty
    <3> QED
      BY <2>1, <2>3, <3>1, FreshBefore DEF FreshPayload, Live
  <2> QED
    BY <2>2, <2>4
<1>15. ASSUME UNCHANGED vars PROVE (\A k \in Lease : FreshPayload(k))'
  BY <1>15
  DEF vars, counts, cb_pool, payload_pool, fixed, FreshKeeps, FreshPayload, Fresh, Held,
     Live, Keeps, cbOf
<1> QED
  BY <1>1, <1>2, <1>3, <1>4, <1>5, <1>6, <1>7, <1>8, <1>9, <1>10, <1>11, <1>12, <1>13,
     <1>14, <1>15, NextCases

\* StrongControlBlock: leases stay current, and a block under release has no count.
LEMMA StrongLeaseStep ==
    ASSUME TypeInv, Blocks, Acquirer, CountsExact, ChecksStable, SamePayload, Payloads, FreshKeeps,
           StrongOnly, category = "strong", [Next]_vars
    PROVE  (\A k \in Lease : Held(k) => StrongLease(k))'
<1> USE DEF StrongLease
<1>0. (\A k \in Lease : Held(k) => StrongLease(k)) /\ OneReleaser
  BY DEF StrongOnly
<1>1. ASSUME NEW l \in Lease, AcquireSlots(l) PROVE (\A k \in Lease : Held(k) => StrongLease(k))'
  BY <1>1, <1>0, HeldFields
  DEF AcquireSlots, Empty, ManagerIdle, counts, TypeInv, Blocks, OnBlock, Held, Current,
     Settled, cbOf, NoLease
<1>2. ASSUME NEW l \in Lease, TryBindPayload(l) PROVE (\A k \in Lease : Held(k) => StrongLease(k))'
  BY <1>2, <1>0, HeldFields
  DEF TryBindPayload, CanBindPayload, GoTo, Invalidate, cb_pool, counts, payload_pool,
     fixed, TypeInv, Blocks, OnBlock, Held, Current, Settled, cbOf, NoLease, Acquirer,
     Acquiring
<1>3. ASSUME NEW l \in Lease, AcquireStrong(l) PROVE (\A k \in Lease : Held(k) => StrongLease(k))'
  BY <1>3, <1>0, HeldFields
  DEF AcquireStrong, GoTo, cb_pool, payload_pool, fixed, TypeInv, Blocks, OnBlock, Held,
     Current, Settled, cbOf, NoLease, Acquirer, Acquiring
<1>4. ASSUME NEW l \in Lease, ReleaseStrong(l) PROVE (\A k \in Lease : Held(k) => StrongLease(k))'
  BY <1>4, <1>0, HeldFields
  DEF ReleaseStrong, Live, Decrement, GoTo, Invalidate, cb_pool, payload_pool, fixed,
     TypeInv, Blocks, OnBlock, Held, Current, Settled, cbOf, NoLease
<1>5. ASSUME NEW l \in Lease, ReleaseWeak(l) PROVE (\A k \in Lease : Held(k) => StrongLease(k))'
  BY <1>5, <1>0, HeldFields
  DEF ReleaseWeak, Live, Decrement, GoTo, Invalidate, cb_pool, payload_pool, fixed, TypeInv,
     Blocks, OnBlock, Held, Current, Settled, cbOf, NoLease
<1>6. ASSUME NEW l \in Lease, TryReleasePayload(l) PROVE (\A k \in Lease : Held(k) => StrongLease(k))'
  BY <1>6, <1>0, HeldFields
  DEF TryReleasePayload, GoTo, counts, cb_pool, payload_pool, fixed, TypeInv, Blocks,
     OnBlock, Held, Current, Settled, cbOf, NoLease
<1>7. ASSUME NEW l \in Lease, ReturnPayload(l) PROVE (\A k \in Lease : Held(k) => StrongLease(k))'
  BY <1>0, <1>7 DEF ReturnPayload, GoTo, counts, cb_pool, TypeInv, Held, Current, Settled, cbOf
<1>8. ASSUME NEW l \in Lease, ClearPayload(l) PROVE (\A k \in Lease : Held(k) => StrongLease(k))'
  BY <1>8, <1>0, HeldFields
  DEF ClearPayload, GoTo, counts, cb_pool, payload_pool, fixed, TypeInv, Blocks, OnBlock,
     Held, Current, Settled, cbOf, NoLease
<1>9. ASSUME NEW l \in Lease, WeakChecksStrong(l) PROVE (\A k \in Lease : Held(k) => StrongLease(k))'
  BY <1>9, <1>0, HeldFields
  DEF WeakChecksStrong, GoTo, counts, cb_pool, payload_pool, fixed, TypeInv, Blocks,
     OnBlock, Held, Current, Settled, cbOf, NoLease
<1>10. ASSUME NEW l \in Lease, WeakChecksWeak(l) PROVE (\A k \in Lease : Held(k) => StrongLease(k))'
  BY <1>10, <1>0, HeldFields
  DEF WeakChecksWeak, GoTo, counts, cb_pool, payload_pool, fixed, TypeInv, Blocks, OnBlock,
     Held, Current, Settled, cbOf, NoLease
<1>11. ASSUME NEW l \in Lease, ShutdownChecksStrong(l) PROVE (\A k \in Lease : Held(k) => StrongLease(k))'
  BY <1>11, <1>0, HeldFields
  DEF ShutdownChecksStrong, GoTo, Invalidate, counts, cb_pool, payload_pool, fixed, TypeInv,
     Blocks, OnBlock, Held, Current, Settled, cbOf, NoLease
<1>12. ASSUME NEW l \in Lease, ShutdownChecksWeak(l) PROVE (\A k \in Lease : Held(k) => StrongLease(k))'
  BY <1>12, <1>0, HeldFields
  DEF ShutdownChecksWeak, GoTo, Invalidate, counts, cb_pool, payload_pool, fixed, TypeInv,
     Blocks, OnBlock, Held, Current, Settled, cbOf, NoLease
<1>13. ASSUME NEW l \in Lease, ReturnControlBlock(l) PROVE (\A k \in Lease : Held(k) => StrongLease(k))'
  <2>1. ~Settled(l) /\ Held(l) /\ Current(l) /\ cbOf(l) \in ControlBlock /\ strong_count[cbOf(l)] = 0
    BY <1>0, <1>13, HeldFields DEF ReturnControlBlock, Settled, Blocks, OnBlock
  <2>2. ASSUME NEW k \in Lease, Held(k), k # l PROVE cbOf(k) # cbOf(l)
    <3> SUFFICES ASSUME cbOf(k) = cbOf(l) PROVE FALSE
      OBVIOUS
    <3>1. Settled(k)
      BY <1>0, <2>1, <2>2 DEF OneReleaser
    <3>2. pc[k] = "idle"
      BY <2>1, <2>2, <3>1 DEF Settled, Acquirer, Acquiring
    <3> QED
      BY <1>0, <2>1, <2>2, <3>2, StrongCount DEF Live
  <2> QED
    BY <1>0, <1>13, <2>1, <2>2, HeldFields
    DEF ReturnControlBlock, Invalidate, counts, cb_pool, fixed, TypeInv, Held, Current,
      Settled, cbOf, NoLease
<1>14. ASSUME NEW l \in Lease, NEW n \in Lease, NEW kind \in {"strong", "weak"},
             Copies(l, n, kind)
      PROVE  (\A k \in Lease : Held(k) => StrongLease(k))'
  BY <1>14, <1>0, HeldFields
  DEF Copies, CopyAs, Empty, cb_pool, payload_pool, fixed, TypeInv, Blocks, OnBlock, Held,
     Current, Settled, cbOf, NoLease, Live
<1>15. ASSUME UNCHANGED vars PROVE (\A k \in Lease : Held(k) => StrongLease(k))'
  BY <1>15, <1>0
  DEF vars, counts, cb_pool, payload_pool, fixed, Held, Current, Settled, cbOf
<1> QED
  BY <1>1, <1>2, <1>3, <1>4, <1>5, <1>6, <1>7, <1>8, <1>9, <1>10, <1>11, <1>12, <1>13,
     <1>14, <1>15, NextCases

\* StrongControlBlock: a block is under release by one lease at a time.
LEMMA OneReleaserStep ==
    ASSUME TypeInv, Blocks, Acquirer, CountsExact, ChecksStable, SamePayload, Payloads, FreshKeeps,
           StrongOnly, category = "strong", [Next]_vars
    PROVE  OneReleaser'
<1>0. (\A k \in Lease : Held(k) => StrongLease(k)) /\ OneReleaser
  BY DEF StrongOnly
<1>1. ASSUME NEW l \in Lease, AcquireSlots(l) PROVE OneReleaser'
  BY <1>1, <1>0, HeldFields
  DEF AcquireSlots, Empty, ManagerIdle, counts, TypeInv, Blocks, OnBlock, OneReleaser, Held,
     Settled, cbOf, NoLease
<1>2. ASSUME NEW l \in Lease, TryBindPayload(l) PROVE OneReleaser'
  BY <1>2, <1>0, HeldFields
  DEF TryBindPayload, CanBindPayload, GoTo, Invalidate, cb_pool, counts, payload_pool,
     fixed, TypeInv, Blocks, OnBlock, OneReleaser, Held, Settled, cbOf, NoLease
<1>3. ASSUME NEW l \in Lease, AcquireStrong(l) PROVE OneReleaser'
  BY <1>3, <1>0, HeldFields
  DEF AcquireStrong, GoTo, cb_pool, payload_pool, fixed, TypeInv, Blocks, OnBlock,
     OneReleaser, Held, Settled, cbOf, NoLease
<1>4. ASSUME NEW l \in Lease, ReleaseStrong(l) PROVE OneReleaser'
  <2>1. ASSUME NEW k \in Lease, k # l, ~Settled(k), cbOf(k) = cbOf(l), strong_count[cbOf(l)] = 1
        PROVE  FALSE
    BY <1>0, <2>1 DEF StrongLease, Blocks, OnBlock, Settled
  <2> QED
    BY <1>0, <1>4, <2>1
    DEF ReleaseStrong, Live, GoTo, Invalidate, TypeInv, Blocks, OnBlock, OneReleaser, Settled,
      cbOf, NoLease
<1>5. ASSUME NEW l \in Lease, ReleaseWeak(l) PROVE OneReleaser'
  BY <1>5, <1>0, HeldFields
  DEF ReleaseWeak, Live, Decrement, GoTo, Invalidate, cb_pool, payload_pool, fixed, TypeInv,
     Blocks, OnBlock, OneReleaser, Held, Settled, cbOf, NoLease, StrongLease
<1>6. ASSUME NEW l \in Lease, TryReleasePayload(l) PROVE OneReleaser'
  BY <1>6, <1>0, HeldFields
  DEF TryReleasePayload, GoTo, counts, cb_pool, payload_pool, fixed, TypeInv, Blocks,
     OnBlock, OneReleaser, Held, Settled, cbOf, NoLease
<1>7. ASSUME NEW l \in Lease, ReturnPayload(l) PROVE OneReleaser'
  BY <1>7, <1>0, HeldFields
  DEF ReturnPayload, GoTo, counts, cb_pool, payload_pool, fixed, TypeInv, Blocks, OnBlock,
     OneReleaser, Held, Settled, cbOf, NoLease
<1>8. ASSUME NEW l \in Lease, ClearPayload(l) PROVE OneReleaser'
  BY <1>8, <1>0, HeldFields
  DEF ClearPayload, GoTo, counts, cb_pool, payload_pool, fixed, TypeInv, Blocks, OnBlock,
     OneReleaser, Held, Settled, cbOf, NoLease
<1>9. ASSUME NEW l \in Lease, WeakChecksStrong(l) PROVE OneReleaser'
  BY <1>9, <1>0, HeldFields
  DEF WeakChecksStrong, GoTo, counts, cb_pool, payload_pool, fixed, TypeInv, Blocks,
     OnBlock, OneReleaser, Held, Settled, cbOf, NoLease
<1>10. ASSUME NEW l \in Lease, WeakChecksWeak(l) PROVE OneReleaser'
  BY <1>10, <1>0, HeldFields
  DEF WeakChecksWeak, GoTo, counts, cb_pool, payload_pool, fixed, TypeInv, Blocks, OnBlock,
     OneReleaser, Held, Settled, cbOf, NoLease
<1>11. ASSUME NEW l \in Lease, ShutdownChecksStrong(l) PROVE OneReleaser'
  BY <1>11, <1>0, HeldFields
  DEF ShutdownChecksStrong, GoTo, Invalidate, counts, cb_pool, payload_pool, fixed, TypeInv,
     Blocks, OnBlock, OneReleaser, Held, Settled, cbOf, NoLease
<1>12. ASSUME NEW l \in Lease, ShutdownChecksWeak(l) PROVE OneReleaser'
  BY <1>12, <1>0, HeldFields
  DEF ShutdownChecksWeak, GoTo, Invalidate, counts, cb_pool, payload_pool, fixed, TypeInv,
     Blocks, OnBlock, OneReleaser, Held, Settled, cbOf, NoLease
<1>13. ASSUME NEW l \in Lease, ReturnControlBlock(l) PROVE OneReleaser'
  BY <1>13, <1>0, HeldFields
  DEF ReturnControlBlock, Invalidate, counts, cb_pool, payload_pool, fixed, TypeInv, Blocks,
     OnBlock, OneReleaser, Held, Settled, cbOf, NoLease
<1>14. ASSUME NEW l \in Lease, NEW n \in Lease, NEW kind \in {"strong", "weak"},
             Copies(l, n, kind)
      PROVE  OneReleaser'
  BY <1>14, <1>0, HeldFields
  DEF Copies, CopyAs, Empty, cb_pool, payload_pool, fixed, TypeInv, Blocks, OnBlock,
     OneReleaser, Held, Settled, cbOf, NoLease
<1>15. ASSUME UNCHANGED vars PROVE OneReleaser'
  BY <1>15, <1>0 DEF vars, counts, cb_pool, payload_pool, fixed, OneReleaser, Settled, cbOf
<1> QED
  BY <1>1, <1>2, <1>3, <1>4, <1>5, <1>6, <1>7, <1>8, <1>9, <1>10, <1>11, <1>12, <1>13,
     <1>14, <1>15, NextCases

\* Only a bind puts a handle into a control block.
LEMMA HandleChange ==
    ASSUME TypeInv, CountsExact, [Next]_vars, NEW c \in ControlBlock
    PROVE  \/ payload_handle'[c] \in {payload_handle[c], NoHandle}
           \/ \E m \in Lease : TryBindPayload(m) /\ cbOf(m) = c
<1>1. ASSUME NEW l \in Lease, TryBindPayload(l)
      PROVE  payload_handle'[c] = payload_handle[c] \/ cbOf(l) = c
  BY <1>1 DEF TryBindPayload, TypeInv
<1>2. ASSUME NEW l \in Lease, ClearPayload(l)
      PROVE  payload_handle'[c] \in {payload_handle[c], NoHandle}
  BY <1>2 DEF ClearPayload, TypeInv
<1>3. ASSUME NEW l \in Lease,
             \/ AcquireSlots(l) \/ AcquireStrong(l) \/ ReleaseStrong(l) \/ ReleaseWeak(l)
             \/ TryReleasePayload(l) \/ ReturnPayload(l)
             \/ WeakChecksStrong(l) \/ WeakChecksWeak(l)
             \/ ShutdownChecksStrong(l) \/ ShutdownChecksWeak(l) \/ ReturnControlBlock(l)
      PROVE  UNCHANGED payload_handle
  BY <1>3
  DEF AcquireSlots, AcquireStrong, ReleaseStrong, ReleaseWeak, TryReleasePayload,
    ReturnPayload, WeakChecksStrong, WeakChecksWeak, ShutdownChecksStrong,
    ShutdownChecksWeak, ReturnControlBlock
<1>4. ASSUME NEW l \in Lease, NEW n \in Lease, NEW kind \in {"strong", "weak"},
             Copies(l, n, kind)
      PROVE  UNCHANGED payload_handle
  BY <1>4 DEF Copies, CopyAs
<1>5. UNCHANGED vars => UNCHANGED payload_handle
  BY DEF vars
<1> QED
  BY <1>1, <1>2, <1>3, <1>4, <1>5, NextCases

\* StrongControlBlock: a release gives back the payload of its own lease, and
\* leaves the block unbound.
LEMMA StrongPayloadStep ==
    ASSUME TypeInv, Blocks, Acquirer, CountsExact, ChecksStable, SamePayload, Payloads, FreshKeeps,
           StrongOnly, category = "strong", [Next]_vars
    PROVE  (\A k \in Lease : Held(k) => StrongPayload(k))'
<1>0. /\ \A k \in Lease : Held(k) => StrongLease(k) /\ StrongPayload(k)
      /\ OneReleaser /\ FreeUnbound
  BY DEF StrongOnly
<1>1. ASSUME NEW k \in Lease, Held(k), pc[k] \in {"try_release_payload", "return_payload"},
             lease'[k] = lease[k], pc'[k] = pc[k]
      PROVE  Keeps(k)'
  <2>1. Keeps(k) /\ Current(k) /\ ~Settled(k)
    BY <1>0, <1>1 DEF StrongLease, StrongPayload, Settled
  <2>2. ASSUME NEW m \in Lease, TryBindPayload(m) PROVE cbOf(m) # cbOf(k)
    BY <1>1, <2>1, <2>2 DEF TryBindPayload, Acquirer, Acquiring
  <2>3. ASSUME NEW m \in Lease, ReturnPayload(m) \/ ClearPayload(m) PROVE cbOf(m) # cbOf(k)
    <3>1. ~Settled(m)
      BY <2>3 DEF ReturnPayload, ClearPayload, Settled
    <3>2. m # k
      <4>1. ReturnPayload(m) => pc'[m] # "return_payload"
        BY DEF ReturnPayload, GoTo, TypeInv
      <4> QED
        BY <1>1, <2>3, <4>1 DEF ReturnPayload, ClearPayload
    <3> QED
      BY <1>0, <2>1, <3>1, <3>2 DEF OneReleaser
  <2> QED
    BY <1>1, <2>1, <2>2, <2>3, KeepsStable
<1>2. ASSUME NEW k \in Lease, Held(k), lease'[k] = lease[k], pc'[k] = pc[k],
             pc[k] \in {"bind", "shutdown_checks_strong", "return_control_block"}
      PROVE  payload_handle[cbOf(k)]' = NoHandle
  <2>1. payload_handle[cbOf(k)] = NoHandle /\ Current(k) /\ cbOf(k) \in ControlBlock
    BY <1>0, <1>2, HeldFields DEF StrongLease, StrongPayload
  <2>2. ASSUME NEW m \in Lease, TryBindPayload(m), m # k PROVE cbOf(m) # cbOf(k)
    BY <1>2, <2>1, <2>2 DEF TryBindPayload, Acquirer, Acquiring
  <2>3. ~TryBindPayload(k)
    BY <1>2 DEF TryBindPayload, GoTo, Invalidate, TypeInv
  <2> QED
    BY <1>2, <2>1, <2>2, <2>3, HandleChange DEF cbOf
<1>3. ASSUME NEW l \in Lease, AcquireSlots(l) PROVE (\A k \in Lease : Held(k) => StrongPayload(k))'
  <2>1. ASSUME NEW k \in Lease, k # l, Held(k)' PROVE StrongPayload(k)'
    <3>1. lease'[k] = lease[k] /\ pc'[k] = pc[k] /\ Held(k)
      BY <1>3, <2>1 DEF AcquireSlots, Empty, counts, TypeInv, Held
    <3> QED
      BY <1>1, <1>2, <1>3, <2>1, <3>1 DEF StrongPayload
  <2>2. StrongPayload(l)'
    BY <1>3, <1>0 DEF AcquireSlots, StrongPayload, FreeUnbound, TypeInv, cbOf
  <2> QED
    BY <2>1, <2>2
<1>4. ASSUME NEW l \in Lease, TryBindPayload(l) PROVE (\A k \in Lease : Held(k) => StrongPayload(k))'
  <2>1. ASSUME NEW k \in Lease, k # l, Held(k)' PROVE StrongPayload(k)'
    <3>1. lease'[k] = lease[k] /\ pc'[k] = pc[k] /\ Held(k)
      BY <1>4, <2>1
      DEF TryBindPayload, GoTo, Invalidate, cb_pool, counts, payload_pool, fixed, TypeInv,
         Held
    <3> QED
      BY <1>1, <1>2, <1>4, <2>1, <3>1 DEF StrongPayload
  <2>2. Held(l)' => StrongPayload(l)'
    BY <1>4, <1>0, <1>1, <1>2, HeldFields
    DEF TryBindPayload, GoTo, Invalidate, StrongPayload, StrongLease, TypeInv, Blocks, OnBlock, Held, cbOf
  <2> QED
    BY <2>1, <2>2
<1>5. ASSUME NEW l \in Lease, AcquireStrong(l) PROVE (\A k \in Lease : Held(k) => StrongPayload(k))'
  <2>1. ASSUME NEW k \in Lease, k # l, Held(k)' PROVE StrongPayload(k)'
    <3>1. lease'[k] = lease[k] /\ pc'[k] = pc[k] /\ Held(k)
      BY <1>5, <2>1 DEF AcquireStrong, GoTo, cb_pool, payload_pool, fixed, TypeInv, Held
    <3> QED
      BY <1>1, <1>2, <1>5, <2>1, <3>1 DEF StrongPayload
  <2>2. StrongPayload(l)'
    BY <1>5, <1>0, <1>1, <1>2, HeldFields
    DEF AcquireStrong, GoTo, StrongPayload, StrongLease, TypeInv, Blocks, OnBlock, Held, cbOf
  <2> QED
    BY <2>1, <2>2
<1>6. ASSUME NEW l \in Lease, ReleaseStrong(l) PROVE (\A k \in Lease : Held(k) => StrongPayload(k))'
  <2>1. ASSUME NEW k \in Lease, k # l, Held(k)' PROVE StrongPayload(k)'
    <3>1. lease'[k] = lease[k] /\ pc'[k] = pc[k] /\ Held(k)
      BY <1>6, <2>1
      DEF ReleaseStrong, Live, GoTo, Invalidate, cb_pool, payload_pool, fixed, TypeInv, Held
    <3> QED
      BY <1>1, <1>2, <1>6, <2>1, <3>1 DEF StrongPayload
  <2>2. Held(l)' => StrongPayload(l)'
    <3>1. Held(l) /\ Keeps(l) /\ UNCHANGED << payload_handle, payload_pool >>
      BY <1>6, HeldFields DEF ReleaseStrong, Live, FreshKeeps, FreshPayload, Fresh, Held, NoLease
    <3>2. lease'[l] \in {lease[l], NoLease} /\ pc'[l] \in {"idle", "try_release_payload"}
      BY <1>6 DEF ReleaseStrong, GoTo, Invalidate, TypeInv
    <3> QED
      BY <3>1, <3>2 DEF StrongPayload, Keeps, cbOf, payload_pool, Held
  <2> QED
    BY <2>1, <2>2
<1>7. ASSUME NEW l \in Lease, ReleaseWeak(l) PROVE (\A k \in Lease : Held(k) => StrongPayload(k))'
  <2>1. ASSUME NEW k \in Lease, k # l, Held(k)' PROVE StrongPayload(k)'
    <3>1. lease'[k] = lease[k] /\ pc'[k] = pc[k] /\ Held(k)
      BY <1>7, <2>1
      DEF ReleaseWeak, Live, GoTo, Invalidate, cb_pool, payload_pool, fixed, TypeInv, Held
    <3> QED
      BY <1>1, <1>2, <1>7, <2>1, <3>1 DEF StrongPayload
  <2>2. Held(l)' => StrongPayload(l)'
    BY <1>7, <1>0, <1>1, <1>2, HeldFields
    DEF ReleaseWeak, GoTo, Invalidate, StrongPayload, StrongLease, TypeInv, Blocks, OnBlock, Held, cbOf
  <2> QED
    BY <2>1, <2>2
<1>8. ASSUME NEW l \in Lease, TryReleasePayload(l) PROVE (\A k \in Lease : Held(k) => StrongPayload(k))'
  <2>1. ASSUME NEW k \in Lease, k # l, Held(k)' PROVE StrongPayload(k)'
    <3>1. lease'[k] = lease[k] /\ pc'[k] = pc[k] /\ Held(k)
      BY <1>8, <2>1
      DEF TryReleasePayload, GoTo, counts, cb_pool, payload_pool, fixed, TypeInv, Held
    <3> QED
      BY <1>1, <1>2, <1>8, <2>1, <3>1 DEF StrongPayload
  <2>2. StrongPayload(l)'
    <3>1. Held(l) /\ Keeps(l) /\ payload_handle[cbOf(l)] # NoHandle
      BY <1>8, <1>0, HeldFields DEF TryReleasePayload, StrongPayload, Keeps, Blocks, OnBlock
    <3>2. pc'[l] = "return_payload" /\ UNCHANGED << lease, payload_handle, payload_pool >>
      BY <1>8, <3>1 DEF TryReleasePayload, GoTo, TypeInv
    <3> QED
      BY <3>1, <3>2 DEF StrongPayload, Keeps, cbOf, payload_pool
  <2> QED
    BY <2>1, <2>2
<1>9. ASSUME NEW l \in Lease, ReturnPayload(l) PROVE (\A k \in Lease : Held(k) => StrongPayload(k))'
  <2>1. ASSUME NEW k \in Lease, k # l, Held(k)' PROVE StrongPayload(k)'
    <3>1. lease'[k] = lease[k] /\ pc'[k] = pc[k] /\ Held(k)
      BY <1>9, <2>1
      DEF ReturnPayload, GoTo, counts, cb_pool, payload_pool, fixed, TypeInv, Held
    <3> QED
      BY <1>1, <1>2, <1>9, <2>1, <3>1 DEF StrongPayload
  <2>2. StrongPayload(l)'
    <3>1. Held(l) /\ Keeps(l) /\ lease[l].payload # NoHandle
      BY <1>9, <1>0, HeldFields DEF ReturnPayload, StrongPayload, Blocks, OnBlock
    <3>2. pc'[l] = "clear_payload"
      BY <1>9, <3>1 DEF ReturnPayload, GoTo, TypeInv, Keeps
    <3> QED
      BY <3>2 DEF StrongPayload
  <2> QED
    BY <2>1, <2>2
<1>10. ASSUME NEW l \in Lease, ClearPayload(l) PROVE (\A k \in Lease : Held(k) => StrongPayload(k))'
  <2>1. ASSUME NEW k \in Lease, k # l, Held(k)' PROVE StrongPayload(k)'
    <3>1. lease'[k] = lease[k] /\ pc'[k] = pc[k] /\ Held(k)
      BY <1>10, <2>1
      DEF ClearPayload, GoTo, counts, cb_pool, payload_pool, fixed, TypeInv, Held
    <3> QED
      BY <1>1, <1>2, <1>10, <2>1, <3>1 DEF StrongPayload
  <2>2. StrongPayload(l)'
    BY <1>10, HeldFields DEF ClearPayload, GoTo, StrongPayload, TypeInv, Blocks, OnBlock, cbOf
  <2> QED
    BY <2>1, <2>2
<1>11. ASSUME NEW l \in Lease, WeakChecksStrong(l) PROVE (\A k \in Lease : Held(k) => StrongPayload(k))'
  <2>1. ASSUME NEW k \in Lease, k # l, Held(k)' PROVE StrongPayload(k)'
    <3>1. lease'[k] = lease[k] /\ pc'[k] = pc[k] /\ Held(k)
      BY <1>11, <2>1
      DEF WeakChecksStrong, GoTo, counts, cb_pool, payload_pool, fixed, TypeInv, Held
    <3> QED
      BY <1>1, <1>2, <1>11, <2>1, <3>1 DEF StrongPayload
  <2>2. StrongPayload(l)'
    BY <1>11, <1>0, <1>1, <1>2, HeldFields
    DEF WeakChecksStrong, GoTo, StrongPayload, StrongLease, TypeInv, Blocks, OnBlock, Held, cbOf
  <2> QED
    BY <2>1, <2>2
<1>12. ASSUME NEW l \in Lease, WeakChecksWeak(l) PROVE (\A k \in Lease : Held(k) => StrongPayload(k))'
  <2>1. ASSUME NEW k \in Lease, k # l, Held(k)' PROVE StrongPayload(k)'
    <3>1. lease'[k] = lease[k] /\ pc'[k] = pc[k] /\ Held(k)
      BY <1>12, <2>1
      DEF WeakChecksWeak, GoTo, counts, cb_pool, payload_pool, fixed, TypeInv, Held
    <3> QED
      BY <1>1, <1>2, <1>12, <2>1, <3>1 DEF StrongPayload
  <2>2. StrongPayload(l)'
    BY <1>12, <1>0, <1>1, <1>2, HeldFields
    DEF WeakChecksWeak, GoTo, StrongPayload, StrongLease, TypeInv, Blocks, OnBlock, Held, cbOf
  <2> QED
    BY <2>1, <2>2
<1>13. ASSUME NEW l \in Lease, ShutdownChecksStrong(l) PROVE (\A k \in Lease : Held(k) => StrongPayload(k))'
  <2>1. ASSUME NEW k \in Lease, k # l, Held(k)' PROVE StrongPayload(k)'
    <3>1. lease'[k] = lease[k] /\ pc'[k] = pc[k] /\ Held(k)
      BY <1>13, <2>1
      DEF ShutdownChecksStrong, GoTo, Invalidate, counts, cb_pool, payload_pool, fixed,
         TypeInv, Held
    <3> QED
      BY <1>1, <1>2, <1>13, <2>1, <3>1 DEF StrongPayload
  <2>2. Held(l)' => StrongPayload(l)'
    BY <1>13, <1>0, <1>1, <1>2, HeldFields
    DEF ShutdownChecksStrong, GoTo, Invalidate, StrongPayload, StrongLease, TypeInv, Blocks, OnBlock, Held, cbOf
  <2> QED
    BY <2>1, <2>2
<1>14. ASSUME NEW l \in Lease, ShutdownChecksWeak(l) PROVE (\A k \in Lease : Held(k) => StrongPayload(k))'
  <2>1. ASSUME NEW k \in Lease, k # l, Held(k)' PROVE StrongPayload(k)'
    <3>1. lease'[k] = lease[k] /\ pc'[k] = pc[k] /\ Held(k)
      BY <1>14, <2>1
      DEF ShutdownChecksWeak, GoTo, Invalidate, counts, cb_pool, payload_pool, fixed,
         TypeInv, Held
    <3> QED
      BY <1>1, <1>2, <1>14, <2>1, <3>1 DEF StrongPayload
  <2>2. Held(l)' => StrongPayload(l)'
    BY <1>14, <1>0, <1>1, <1>2, HeldFields
    DEF ShutdownChecksWeak, GoTo, Invalidate, StrongPayload, StrongLease, TypeInv, Blocks, OnBlock, Held, cbOf
  <2> QED
    BY <2>1, <2>2
<1>15. ASSUME NEW l \in Lease, ReturnControlBlock(l) PROVE (\A k \in Lease : Held(k) => StrongPayload(k))'
  <2>1. ASSUME NEW k \in Lease, k # l, Held(k)' PROVE StrongPayload(k)'
    <3>1. lease'[k] = lease[k] /\ pc'[k] = pc[k] /\ Held(k)
      BY <1>15, <2>1
      DEF ReturnControlBlock, Invalidate, counts, cb_pool, payload_pool, fixed, TypeInv,
         Held
    <3> QED
      BY <1>1, <1>2, <1>15, <2>1, <3>1 DEF StrongPayload
  <2>2. Held(l)' => StrongPayload(l)'
    BY <1>15, <1>0, <1>1, <1>2, HeldFields
    DEF ReturnControlBlock, GoTo, Invalidate, StrongPayload, StrongLease, TypeInv, Blocks, OnBlock, Held, cbOf
  <2> QED
    BY <2>1, <2>2
<1>16. ASSUME NEW l \in Lease, NEW n \in Lease, NEW kind \in {"strong", "weak"},
             Copies(l, n, kind)
      PROVE  (\A k \in Lease : Held(k) => StrongPayload(k))'
  <2>1. ASSUME NEW k \in Lease, k # n, Held(k)' PROVE StrongPayload(k)'
    <3>1. lease'[k] = lease[k] /\ pc'[k] = pc[k] /\ Held(k)
      BY <1>16, <2>1 DEF Copies, CopyAs, Empty, cb_pool, payload_pool, fixed, TypeInv, Held
    <3> QED
      BY <1>1, <1>2, <1>16, <2>1, <3>1 DEF StrongPayload
  <2>2. StrongPayload(n)'
    BY <1>16 DEF Copies, CopyAs, Empty, StrongPayload, Blocks, OnBlock, Held
  <2> QED
    BY <2>1, <2>2
<1>17. ASSUME UNCHANGED vars PROVE (\A k \in Lease : Held(k) => StrongPayload(k))'
  BY <1>17, <1>0
  DEF vars, counts, cb_pool, payload_pool, fixed, StrongPayload, Held, Keeps, cbOf
<1> QED
  BY <1>3, <1>4, <1>5, <1>6, <1>7, <1>8, <1>9, <1>10, <1>11, <1>12, <1>13, <1>14, <1>15,
     <1>16, <1>17, NextCases

\* StrongControlBlock: a block in the freelist is bound to nothing.
LEMMA FreeUnboundStep ==
    ASSUME TypeInv, Blocks, Acquirer, CountsExact, ChecksStable, SamePayload, Payloads, FreshKeeps,
           StrongOnly, category = "strong", [Next]_vars
    PROVE  FreeUnbound'
<1>0. /\ \A k \in Lease : Held(k) => StrongLease(k) /\ StrongPayload(k)
      /\ FreeUnbound
  BY DEF StrongOnly
<1>1. ASSUME NEW c \in cb_free, c \in cb_free' PROVE payload_handle'[c] = NoHandle
  <2>1. payload_handle[c] = NoHandle /\ c \in ControlBlock
    BY <1>0 DEF FreeUnbound, TypeInv
  <2>2. ASSUME NEW m \in Lease, TryBindPayload(m) PROVE cbOf(m) # c
    BY <2>2 DEF TryBindPayload, Blocks, OnBlock, Settled
  <2> QED
    BY <2>1, <2>2, HandleChange
<1>2. ASSUME NEW l \in Lease, AcquireSlots(l) PROVE FreeUnbound'
  BY <1>2, <1>1 DEF AcquireSlots, Empty, ManagerIdle, counts, FreeUnbound
<1>3. ASSUME NEW l \in Lease, TryBindPayload(l) PROVE FreeUnbound'
  <2>1. Held(l) /\ payload_handle[cbOf(l)] = NoHandle
    BY <1>0, <1>3 DEF TryBindPayload, Blocks, OnBlock, StrongPayload
  <2> QED
    BY <1>1, <1>3, <2>1 DEF TryBindPayload, cb_pool, FreeUnbound
<1>4. ASSUME NEW l \in Lease, AcquireStrong(l) PROVE FreeUnbound'
  BY <1>4, <1>1 DEF AcquireStrong, GoTo, cb_pool, payload_pool, fixed, FreeUnbound
<1>5. ASSUME NEW l \in Lease, ReleaseStrong(l) PROVE FreeUnbound'
  BY <1>5, <1>1
  DEF ReleaseStrong, Live, Decrement, GoTo, Invalidate, cb_pool, payload_pool, fixed,
     FreeUnbound
<1>6. ASSUME NEW l \in Lease, ReleaseWeak(l) PROVE FreeUnbound'
  BY <1>6, <1>1
  DEF ReleaseWeak, Live, Decrement, GoTo, Invalidate, cb_pool, payload_pool, fixed,
     FreeUnbound
<1>7. ASSUME NEW l \in Lease, TryReleasePayload(l) PROVE FreeUnbound'
  BY <1>7, <1>1
  DEF TryReleasePayload, GoTo, counts, cb_pool, payload_pool, fixed, FreeUnbound
<1>8. ASSUME NEW l \in Lease, ReturnPayload(l) PROVE FreeUnbound'
  BY <1>8, <1>1 DEF ReturnPayload, GoTo, counts, cb_pool, payload_pool, fixed, FreeUnbound
<1>9. ASSUME NEW l \in Lease, ClearPayload(l) PROVE FreeUnbound'
  BY <1>9, <1>1 DEF ClearPayload, GoTo, counts, cb_pool, payload_pool, fixed, FreeUnbound
<1>10. ASSUME NEW l \in Lease, WeakChecksStrong(l) PROVE FreeUnbound'
  BY <1>10, <1>1
  DEF WeakChecksStrong, GoTo, counts, cb_pool, payload_pool, fixed, FreeUnbound
<1>11. ASSUME NEW l \in Lease, WeakChecksWeak(l) PROVE FreeUnbound'
  BY <1>11, <1>1 DEF WeakChecksWeak, GoTo, counts, cb_pool, payload_pool, fixed, FreeUnbound
<1>12. ASSUME NEW l \in Lease, ShutdownChecksStrong(l) PROVE FreeUnbound'
  BY <1>12, <1>1
  DEF ShutdownChecksStrong, GoTo, Invalidate, counts, cb_pool, payload_pool, fixed,
     FreeUnbound
<1>13. ASSUME NEW l \in Lease, ShutdownChecksWeak(l) PROVE FreeUnbound'
  BY <1>13, <1>1
  DEF ShutdownChecksWeak, GoTo, Invalidate, counts, cb_pool, payload_pool, fixed,
     FreeUnbound
<1>14. ASSUME NEW l \in Lease, ReturnControlBlock(l) PROVE FreeUnbound'
  <2>1. Held(l) /\ payload_handle[cbOf(l)] = NoHandle
    BY <1>0, <1>14 DEF ReturnControlBlock, Blocks, OnBlock, StrongPayload
  <2> QED
    BY <1>1, <1>14, <2>1 DEF ReturnControlBlock, cb_pool, FreeUnbound
<1>15. ASSUME NEW l \in Lease, NEW n \in Lease, NEW kind \in {"strong", "weak"},
             Copies(l, n, kind)
      PROVE  FreeUnbound'
  BY <1>15, <1>1 DEF Copies, CopyAs, Empty, cb_pool, payload_pool, fixed, FreeUnbound
<1>16. ASSUME UNCHANGED vars PROVE FreeUnbound'
  BY <1>16, <1>0 DEF vars, counts, cb_pool, payload_pool, fixed, FreeUnbound
<1> QED
  BY <1>2, <1>3, <1>4, <1>5, <1>6, <1>7, <1>8, <1>9, <1>10, <1>11, <1>12, <1>13, <1>14,
     <1>15, <1>16, NextCases

\* StrongControlBlock: a payload slot that is taken still has a lease.
LEMMA PayloadOwnedStep ==
    ASSUME TypeInv, Blocks, Acquirer, CountsExact, ChecksStable, SamePayload, Payloads, FreshKeeps,
           StrongOnly, category = "strong", [Next]_vars
    PROVE  PayloadOwned'
<1>0. /\ \A k \in Lease : Held(k) => StrongLease(k) /\ StrongPayload(k)
      /\ PayloadOwned
  BY DEF StrongOnly
<1>1. ASSUME NEW a \in Lease,
             \A m \in Lease : m # a => lease'[m] = lease[m] /\ pc'[m] = pc[m],
             UNCHANGED payload_pool,
             \A q \in Payload : Holds(a, q) => Holds(a, q)' \/ \E m \in Lease : m # a /\ Holds(m, q)
      PROVE  PayloadOwned'
  BY <1>0, <1>1 DEF PayloadOwned, Holds, Held, Settled, payload_pool
<1>2. ASSUME NEW l \in Lease, AcquireSlots(l) PROVE PayloadOwned'
  <2>1. PICK c \in cb_free, p \in payload_free :
          /\ payload_free' = payload_free \ {p}
          /\ lease' = [lease EXCEPT ![l] =
                [ kind |-> "strong",
                  cb |-> [slot |-> c, generation |-> cb_generation[c]],
                  payload |-> [slot |-> p, generation |-> payload_generation[p]] ]]
    BY <1>2 DEF AcquireSlots
  <2>2. pc' = [pc EXCEPT ![l] = "bind"] /\ UNCHANGED payload_generation /\ ~Held(l)
    BY <1>2 DEF AcquireSlots, Empty, Held
  <2>3. Holds(l, p)'
    BY <2>1, <2>2 DEF Holds, Held, Settled, TypeInv, NoLease
  <2>4. ASSUME NEW q \in Payload \ payload_free PROVE \E k \in Lease : Holds(k, q)'
    BY <1>0, <2>1, <2>2 DEF PayloadOwned, Holds, Held, Settled, TypeInv
  <2> QED
    BY <2>1, <2>3, <2>4 DEF PayloadOwned
<1>3. ASSUME NEW l \in Lease, TryBindPayload(l) PROVE PayloadOwned'
  <2>1. /\ \A m \in Lease : m # l => lease'[m] = lease[m] /\ pc'[m] = pc[m]
        /\ UNCHANGED payload_pool
    BY <1>3 DEF TryBindPayload, GoTo, Invalidate, TypeInv
  <2>2. CanBindPayload(cbOf(l))
    <3>1. pc[l] = "bind" /\ Held(l) /\ cbOf(l) \in ControlBlock
      BY <1>3, HeldFields DEF TryBindPayload, Blocks, OnBlock
    <3>2. ASSUME NEW m \in Lease, cbOf(m) = cbOf(l), Held(m), pc[m] = "idle" PROVE FALSE
      BY <3>1, <3>2 DEF Acquirer, Acquiring, Blocks, OnBlock, Settled
    <3>3. strong_count[cbOf(l)] = 0 /\ weak_count[cbOf(l)] = 0
      BY <3>1, <3>2, StrongCount, WeakCount DEF Live, Held, NoLease
    <3> QED
      BY <1>0, <3>1, <3>3 DEF CanBindPayload, StrongPayload
  <2>3. lease'[l] = lease[l] /\ pc'[l] = "count"
    BY <1>3, <2>2 DEF TryBindPayload, GoTo, TypeInv
  <2> QED
    BY <1>1, <2>1, <2>3 DEF Holds, Held, Settled, payload_pool
<1>4. ASSUME NEW l \in Lease, AcquireStrong(l) PROVE PayloadOwned'
  <2>1. /\ \A m \in Lease : m # l => lease'[m] = lease[m] /\ pc'[m] = pc[m]
        /\ UNCHANGED payload_pool
    BY <1>4 DEF AcquireStrong, GoTo, Invalidate, TypeInv
  <2>2. lease'[l] = lease[l] /\ pc'[l] = "idle"
    BY <1>4 DEF AcquireStrong, GoTo, TypeInv
  <2> QED
    BY <1>1, <2>1, <2>2 DEF Holds, Held, Settled, payload_pool
<1>5. ASSUME NEW l \in Lease, ReleaseStrong(l) PROVE PayloadOwned'
  <2>1. /\ \A m \in Lease : m # l => lease'[m] = lease[m] /\ pc'[m] = pc[m]
        /\ UNCHANGED payload_pool
    BY <1>5 DEF ReleaseStrong, GoTo, Invalidate, TypeInv
  <2>2. Held(l) /\ Live(l, "strong") /\ Current(l) /\ cbOf(l) \in ControlBlock
    BY <1>5, HeldFields DEF ReleaseStrong, Live, Blocks, OnBlock, Settled, Held, NoLease
  <2>3. CASE strong_count[cbOf(l)] = 1
    <3>1. lease'[l] = lease[l] /\ pc'[l] = "try_release_payload"
      BY <1>5, <2>3 DEF ReleaseStrong, GoTo, TypeInv
    <3> QED
      BY <1>1, <2>1, <3>1 DEF Holds, Held, payload_pool
  <2>4. CASE strong_count[cbOf(l)] # 1
    <3>1. PICK n \in Lease : n # l /\ Live(n, "strong") /\ cbOf(n) = cbOf(l)
      BY <2>2, <2>4, StrongCount
    <3>2. Held(n) /\ Settled(n) /\ Current(n)
      BY <3>1, HeldFields DEF Live, Blocks, OnBlock, Settled, Held, NoLease
    <3>3. lease[n].payload = lease[l].payload
      BY <2>2, <3>1, <3>2 DEF SamePayload
    <3> QED
      BY <1>1, <2>1, <3>1, <3>2, <3>3 DEF Holds
  <2> QED
    BY <2>3, <2>4
<1>6. ASSUME NEW l \in Lease, ReleaseWeak(l) PROVE PayloadOwned'
  BY <1>0, <1>6 DEF ReleaseWeak, Live, StrongLease, Held, NoLease
<1>7. ASSUME NEW l \in Lease, TryReleasePayload(l) PROVE PayloadOwned'
  <2>1. /\ \A m \in Lease : m # l => lease'[m] = lease[m] /\ pc'[m] = pc[m]
        /\ UNCHANGED payload_pool
    BY <1>7 DEF TryReleasePayload, GoTo, Invalidate, TypeInv
  <2>2. Held(l) /\ payload_handle[cbOf(l)] # NoHandle
    BY <1>0, <1>7, HeldFields DEF TryReleasePayload, StrongPayload, Keeps, Blocks, OnBlock
  <2>3. lease'[l] = lease[l] /\ pc'[l] = "return_payload"
    BY <1>7, <2>2 DEF TryReleasePayload, GoTo, TypeInv
  <2> QED
    BY <1>1, <2>1, <2>3 DEF Holds, Held, payload_pool
<1>8. ASSUME NEW l \in Lease, ReturnPayload(l) PROVE PayloadOwned'
  <2> DEFINE h == lease[l].payload
  <2>1. Held(l) /\ Keeps(l) /\ h # NoHandle /\ h.slot \in Payload
    BY <1>0, <1>8, HeldFields DEF ReturnPayload, StrongPayload, Blocks, OnBlock
  <2>2. /\ payload_free' = payload_free \cup {h.slot}
        /\ payload_generation' = [payload_generation EXCEPT ![h.slot] = @ + 1]
        /\ pc' = [pc EXCEPT ![l] = "clear_payload"] /\ UNCHANGED lease
    BY <1>8, <2>1 DEF ReturnPayload, GoTo, Keeps
  <2>3. ASSUME NEW q \in Payload \ payload_free' PROVE \E k \in Lease : Holds(k, q)'
    <3>1. PICK k \in Lease : Holds(k, q)
      BY <1>0, <2>2 DEF PayloadOwned
    <3>2. k # l
      BY <2>2, <3>1 DEF Holds
    <3> QED
      BY <2>2, <3>1, <3>2 DEF Holds, Held, Settled, TypeInv
  <2> QED
    BY <2>3 DEF PayloadOwned
<1>9. ASSUME NEW l \in Lease, ClearPayload(l) PROVE PayloadOwned'
  BY <1>9, <1>1, HeldFields
  DEF ClearPayload, GoTo, counts, cb_pool, payload_pool, fixed, TypeInv, Holds, Held,
     Settled, NoLease, Blocks, OnBlock
<1>10. ASSUME NEW l \in Lease, WeakChecksStrong(l) PROVE PayloadOwned'
  BY <1>10, <1>1, HeldFields
  DEF WeakChecksStrong, GoTo, counts, cb_pool, payload_pool, fixed, TypeInv, Holds, Held,
     Settled, NoLease, Blocks, OnBlock
<1>11. ASSUME NEW l \in Lease, WeakChecksWeak(l) PROVE PayloadOwned'
  BY <1>11, <1>1, HeldFields
  DEF WeakChecksWeak, GoTo, counts, cb_pool, payload_pool, fixed, TypeInv, Holds, Held,
     Settled, NoLease, Blocks, OnBlock
<1>12. ASSUME NEW l \in Lease, ShutdownChecksStrong(l) PROVE PayloadOwned'
  BY <1>12, <1>1, HeldFields
  DEF ShutdownChecksStrong, GoTo, Invalidate, counts, cb_pool, payload_pool, fixed, TypeInv,
     Holds, Held, Settled, NoLease, Blocks, OnBlock
<1>13. ASSUME NEW l \in Lease, ShutdownChecksWeak(l) PROVE PayloadOwned'
  BY <1>13, <1>1, HeldFields
  DEF ShutdownChecksWeak, GoTo, Invalidate, counts, cb_pool, payload_pool, fixed, TypeInv,
     Holds, Held, Settled, NoLease, Blocks, OnBlock
<1>14. ASSUME NEW l \in Lease, ReturnControlBlock(l) PROVE PayloadOwned'
  BY <1>14, <1>1, HeldFields
  DEF ReturnControlBlock, Invalidate, counts, cb_pool, payload_pool, fixed, TypeInv, Holds,
     Held, Settled, NoLease, Blocks, OnBlock
<1>15. ASSUME NEW l \in Lease, NEW n \in Lease, NEW kind \in {"strong", "weak"},
             Copies(l, n, kind)
      PROVE  PayloadOwned'
  BY <1>15, <1>1, HeldFields
  DEF Copies, CopyAs, Empty, cb_pool, payload_pool, fixed, TypeInv, Holds, Held, Settled,
     NoLease, Blocks, OnBlock
<1>16. ASSUME UNCHANGED vars PROVE PayloadOwned'
  BY <1>16, <1>0
  DEF vars, counts, cb_pool, payload_pool, fixed, PayloadOwned, Holds, Held, Settled
<1> QED
  BY <1>2, <1>3, <1>4, <1>5, <1>6, <1>7, <1>8, <1>9, <1>10, <1>11, <1>12, <1>13, <1>14,
     <1>15, <1>16, NextCases

-----------------------------------------------------------------------------
(* The invariant, and what it implies.                                     *)

\* The members of a fresh manager satisfy the invariant.
LEMMA InitInv == Init => IInv
<1> SUFFICES ASSUME Init PROVE IInv
  OBVIOUS
<1>1. \A l \in Lease : ~Held(l) /\ pc[l] = "idle" /\ lease[l].kind = "none"
  BY DEF Init, Held, NoLease
<1>2. TypeInv
  BY SharedLeaseConstants DEF Init, TypeInv, Steps
<1>3. CountsExact
  <2>1. ASSUME NEW c \in ControlBlock, NEW kind \in {"strong", "weak"}
        PROVE  Cardinality(Counted(c, kind)) = 0
    <3>1. Counted(c, kind) = {}
      BY <1>1 DEF Counted, Live
    <3> QED
      BY <3>1, FS_EmptySet
  <2> QED
    BY <2>1 DEF Init, CountsExact
<1>4. Blocks /\ Acquirer /\ ChecksStable /\ SamePayload
  BY <1>1 DEF Blocks, OnBlock, Acquirer, Acquiring, ChecksStable, ChecksHold, SamePayload, Current
<1>5. Owned /\ Generations
  BY SharedLeaseConstants DEF Init, Owned, Generations
<1>6. Payloads
  BY <1>1 DEF Init, Payloads, LeasedHandle, HandleToBind, BoundHandle
<1>7. FreshKeeps
  BY <1>1 DEF FreshKeeps, FreshCount, FreshPayload
<1>8. StrongOnly
  BY <1>1 DEF Init, StrongOnly, OneReleaser, Settled, FreeUnbound, PayloadOwned
<1> QED
  BY <1>2, <1>3, <1>4, <1>5, <1>6, <1>7, <1>8 DEF IInv

\* Every step keeps the invariant.
LEMMA StepInv == IInv /\ [Next]_vars => IInv'
<1> SUFFICES ASSUME IInv, [Next]_vars PROVE IInv'
  OBVIOUS
<1> USE DEF IInv
<1>1. TypeInv' /\ Blocks' /\ Acquirer' /\ CountsExact' /\ ChecksStable' /\ Owned'
  BY TypeStep, BlocksStep, AcquirerStep, CountsStep, ChecksStep, OwnedStep
<1>2. SamePayload' /\ Payloads' /\ Generations'
  BY SamePayloadStep, PayloadsStep, GenerationsStep
<1>3. FreshKeeps'
  BY FreshCountStep, FreshPayloadStep DEF FreshKeeps
<1>4. StrongOnly'
  <2> SUFFICES ASSUME category' = "strong"
               PROVE  /\ \A l \in Lease : Held(l)' => StrongLease(l)' /\ StrongPayload(l)'
                      /\ OneReleaser' /\ FreeUnbound' /\ PayloadOwned'
    BY DEF StrongOnly
  <2>1. category = "strong"
    BY FreshBefore
  <2> QED
    BY <2>1, StrongLeaseStep, StrongPayloadStep, OneReleaserStep, FreeUnboundStep, PayloadOwnedStep
<1> QED
  BY <1>1, <1>2, <1>3, <1>4

\* Whatever copies, promotions and releases run concurrently, every reachable
\* state of the control blocks satisfies the inductive invariant.
THEOREM InvariantHolds == Spec => []IInv
<1> QED
  BY InitInv, StepInv, PTL DEF Spec

\* Counts are bounded by the lease objects and generations by the leases issued:
\* neither counter of a control block can run away.
THEOREM TypeCorrect == Spec => []TypeOK
<1>1. IInv => TypeOK
  <2> SUFFICES ASSUME IInv PROVE TypeOK
    OBVIOUS
  <2> USE DEF IInv
  <2>1. /\ strong_count \in [ControlBlock -> 0 .. Cardinality(Lease)]
        /\ weak_count \in [ControlBlock -> 0 .. Cardinality(Lease)]
    <3>1. \A c \in ControlBlock : /\ strong_count[c] \in 0 .. Cardinality(Lease)
                                  /\ weak_count[c] \in 0 .. Cardinality(Lease)
      BY CountedFinite DEF CountsExact
    <3> QED
      BY <3>1 DEF TypeInv
  <2>2. /\ \A c \in ControlBlock : cb_generation[c] \in 0 .. MaxAcquires
        /\ \A q \in Payload : payload_generation[q] \in 0 .. MaxAcquires
    BY SharedLeaseConstants DEF Generations, TypeInv
  <2>3. payload_handle \in [ControlBlock -> Handle(Payload) \cup {NoHandle}]
    <3>1. ASSUME NEW c \in ControlBlock, payload_handle[c] # NoHandle
          PROVE  payload_handle[c] \in Handle(Payload)
      BY <3>1, <2>2, BoundFields, SharedLeaseConstants
      DEF Payloads, BoundHandle, Handle, AnyHandle
    <3> QED
      BY <3>1 DEF TypeInv
  <2>4. lease \in [Lease -> {NoLease} \cup [ kind : {"strong", "weak"},
                                             cb : Handle(ControlBlock),
                                             payload : Handle(Payload) ]]
    <3>1. ASSUME NEW l \in Lease, Held(l)
          PROVE  lease[l].cb \in Handle(ControlBlock) /\ lease[l].payload \in Handle(Payload)
      BY <3>1, <2>2, HeldFields, SharedLeaseConstants
      DEF Payloads, LeasedHandle, Blocks, OnBlock, Handle, AnyHandle, cbOf
    <3>2. ASSUME NEW l \in Lease, Held(l)
          PROVE  lease[l] \in [ kind : {"strong", "weak"},
                                cb : Handle(ControlBlock), payload : Handle(Payload) ]
      BY <3>1, <3>2, HeldFields
    <3> QED
      BY <3>2 DEF TypeInv, Held
  <2> QED
    BY <2>1, <2>3, <2>4 DEF TypeInv, TypeOK
<1> QED
  BY <1>1, InvariantHolds, PTL

\* No count is lost or invented: strong.h and shared.h count exactly the live
\* lease objects, for any number of threads.
THEOREM CountsAlwaysExact == Spec => []CountsExact
<1>1. IInv => CountsExact
  BY DEF IInv
<1> QED
  BY <1>1, InvariantHolds, PTL

\* The control block of a live lease is never in its pool's freelist, nor was it
\* since the lease was issued, whoever releases it concurrently.
THEOREM LeasedBlocksStay == Spec => []LeasedBlockNotFree
<1>1. IInv => LeasedBlockNotFree
  BY HeldFields DEF IInv, LeasedBlockNotFree, Blocks, OnBlock, Held, Settled, Current, NoLease
<1> QED
  BY <1>1, InvariantHolds, PTL

\* A strong lease keeps its payload: always with StrongControlBlock, and with
\* SharedControlBlock until the block is reused.
THEOREM PayloadsKept == Spec => []StrongKeepsPayloadUntilReuse
<1>1. ASSUME IInv, NEW l \in Lease, Live(l, "strong"),
             category = "strong" \/ lease[l].cb.generation = 0
      PROVE  Keeps(l)
  <2>1. Held(l) /\ Current(l)
    BY <1>1 DEF IInv, Blocks, OnBlock, Settled, Live, Held, NoLease
  <2> QED
    BY <1>1, <2>1 DEF IInv, FreshKeeps, FreshPayload, Fresh, Current
<1>2. IInv => StrongKeepsPayloadUntilReuse
  BY <1>1 DEF StrongKeepsPayloadUntilReuse
<1> QED
  BY <1>2, InvariantHolds, PTL

\* Whoever was last, some release returns the control block: none is taken when
\* no lease is left.
THEOREM BlocksComeBack == Spec => []BlocksReturned
<1>1. IInv => BlocksReturned
  BY DEF IInv, BlocksReturned, Quiescent, Empty, Owned, Current, Held, TypeInv
<1> QED
  BY <1>1, InvariantHolds, PTL

\* With StrongControlBlock the last release gives every payload slot back.
THEOREM PayloadsComeBack == Spec => []StrongPayloadsReturned
<1>1. IInv => StrongPayloadsReturned
  BY DEF IInv, StrongPayloadsReturned, Quiescent, Empty, StrongOnly, PayloadOwned, Holds, Held,
    TypeInv
<1> QED
  BY <1>1, InvariantHolds, PTL
=============================================================================
