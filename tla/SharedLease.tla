---------------------------- MODULE SharedLease ----------------------------
(***************************************************************************)
(* The reference counts of a lease control block under concurrency:        *)
(* StrongLease and WeakLease objects (base/lease/strong_lease.h,           *)
(* weak_lease.h) of different threads on shared control blocks             *)
(* (base/lease/control_block/strong.h and shared.h).                       *)
(*                                                                         *)
(* A lease object is used by one thread, so a lease is the unit of         *)
(* concurrency: its release runs in the atomic steps of the code (each     *)
(* load, each successful compare-exchange, each access to the payload      *)
(* binding, each call into a pool), interleaved with every other lease.    *)
(* A failed compare-exchange has no effect and is not a step.              *)
(*                                                                         *)
(* The two pools are the template parameter PoolT.  Their calls are atomic *)
(* here (a pool behind a lock): what is checked is the counting protocol   *)
(* itself.  Generations are not wrapped here; SlotPool treats the wrap.    *)
(***************************************************************************)
EXTENDS Integers, FiniteSets

CONSTANTS
    Lease,         \* lease objects
    ControlBlock,  \* slots of the control block pool
    Payload,       \* slots of the payload pool
    MaxAcquires,   \* bound on the leases the manager issues
    None           \* no control block, no payload

ASSUME SharedLeaseConstants ==
    /\ IsFiniteSet(Lease)
    /\ MaxAcquires \in Nat
    /\ None \notin ControlBlock \cup Payload

VARIABLES
    category,                  \* "strong": StrongControlBlock, "shared": SharedControlBlock
    strong_count, weak_count,  \* per control block
    payload_handle,            \* per control block: the bound payload handle
    cb_free, cb_generation,    \* the control block pool
    payload_free, payload_generation,  \* the payload pool
    lease,                     \* the lease objects
    pc,                        \* where each lease object is in its operation
    acquires                   \* leases issued so far

counts == << strong_count, weak_count >>
cb_pool == << cb_free, cb_generation >>
payload_pool == << payload_free, payload_generation >>
fixed == << category, acquires >>  \* what every step but AcquireSlots leaves alone
vars == << counts, payload_handle, cb_pool, payload_pool, lease, pc, fixed >>

\* A handle: slot and generation.
Handle(S) == [ slot : S, generation : 0 .. MaxAcquires ]
NoHandle == [ slot |-> None, generation |-> 0 ]

\* A lease object: its control block and handle, and the payload it was issued
\* for (history).
NoLease == [ kind |-> "none", cb |-> NoHandle, payload |-> NoHandle ]

Steps == { "idle", "bind", "count", "try_release_payload", "return_payload",
           "weak_checks_strong", "weak_checks_weak", "clear_payload",
           "shutdown_checks_strong", "shutdown_checks_weak", "return_control_block" }

TypeOK ==
    /\ category \in {"strong", "shared"}
    /\ strong_count \in [ControlBlock -> 0 .. Cardinality(Lease)]
    /\ weak_count \in [ControlBlock -> 0 .. Cardinality(Lease)]
    /\ payload_handle \in [ControlBlock -> Handle(Payload) \cup {NoHandle}]
    /\ cb_free \subseteq ControlBlock
    /\ cb_generation \in [ControlBlock -> Nat]
    /\ payload_free \subseteq Payload
    /\ payload_generation \in [Payload -> Nat]
    /\ lease \in [Lease -> {NoLease} \cup [ kind : {"strong", "weak"},
                                             cb : Handle(ControlBlock),
                                             payload : Handle(Payload) ]]
    /\ pc \in [Lease -> Steps]
    /\ acquires \in 0 .. MaxAcquires

Init ==
    /\ category \in {"strong", "shared"}
    /\ strong_count = [c \in ControlBlock |-> 0]
    /\ weak_count = [c \in ControlBlock |-> 0]
    /\ payload_handle = [c \in ControlBlock |-> NoHandle]
    /\ cb_free = ControlBlock
    /\ cb_generation = [c \in ControlBlock |-> 0]
    /\ payload_free = Payload
    /\ payload_generation = [q \in Payload |-> 0]
    /\ lease = [l \in Lease |-> NoLease]
    /\ pc = [l \in Lease |-> "idle"]
    /\ acquires = 0

Empty(l) == lease[l] = NoLease
Live(l, kind) == lease[l].kind = kind /\ pc[l] = "idle"
cbOf(l) == lease[l].cb.slot

GoTo(l, step) == pc' = [pc EXCEPT ![l] = step] /\ UNCHANGED lease

\* releaseStrong and releaseWeak never take a count below zero.
Decrement(n) == IF n > 0 THEN n - 1 ELSE 0

\* invalidate(): the lease object lets go of its control block.
Invalidate(l) ==
    /\ lease' = [lease EXCEPT ![l] = NoLease]
    /\ pc' = [pc EXCEPT ![l] = "idle"]

-----------------------------------------------------------------------------
(* The manager issues a strong lease (PoolManager::acquireLeaseImpl): one   *)
(* call at a time, but concurrent with the releases of other leases.        *)

ManagerIdle == \A l \in Lease : pc[l] \notin {"bind", "count"}

AcquireSlots(l) ==
    /\ ManagerIdle
    /\ Empty(l)
    /\ acquires < MaxAcquires
    /\ \E c \in cb_free, q \in payload_free :
        /\ cb_free' = cb_free \ {c}
        /\ payload_free' = payload_free \ {q}
        /\ lease' = [lease EXCEPT ![l] =
                [ kind |-> "strong",
                  cb |-> [slot |-> c, generation |-> cb_generation[c]],
                  payload |-> [slot |-> q, generation |-> payload_generation[q]] ]]
    /\ pc' = [pc EXCEPT ![l] = "bind"]
    /\ acquires' = acquires + 1
    /\ UNCHANGED << counts, payload_handle, cb_generation, payload_generation, category >>

CanBindPayload(c) ==
    payload_handle[c] = NoHandle /\ strong_count[c] = 0 /\ weak_count[c] = 0

\* tryBindPayload; on failure the control block goes back and the call throws,
\* with the payload slot still taken.
TryBindPayload(l) ==
    /\ pc[l] = "bind"
    /\ \/ /\ CanBindPayload(cbOf(l))
          /\ payload_handle' = [payload_handle EXCEPT ![cbOf(l)] = lease[l].payload]
          /\ GoTo(l, "count")
          /\ UNCHANGED cb_pool
       \/ /\ ~CanBindPayload(cbOf(l))
          /\ cb_free' = cb_free \cup {cbOf(l)}
          /\ cb_generation' = [cb_generation EXCEPT ![cbOf(l)] = @ + 1]
          /\ Invalidate(l)
          /\ UNCHANGED payload_handle
    /\ UNCHANGED << counts, payload_pool, fixed >>

AcquireStrong(l) ==
    /\ pc[l] = "count"
    /\ strong_count' = [strong_count EXCEPT ![cbOf(l)] = @ + 1]
    /\ GoTo(l, "idle")
    /\ UNCHANGED << weak_count, payload_handle, cb_pool, payload_pool, fixed >>

-----------------------------------------------------------------------------
(* Copies and promotion: one read-modify-write of a count, while the source *)
(* lease is not being released by its own thread.                           *)

\* Fault: the copy takes the control block over without counting itself.
CopyUncounted(l, n, kind) ==
    /\ Empty(n) /\ pc[n] = "idle"
    /\ lease' = [lease EXCEPT ![n] = [lease[l] EXCEPT !.kind = kind]]
    /\ UNCHANGED << counts, payload_handle, cb_pool, payload_pool, pc, fixed >>

CopyAs(l, n, kind) ==
    /\ Empty(n) /\ pc[n] = "idle"
    /\ lease' = [lease EXCEPT ![n] = [lease[l] EXCEPT !.kind = kind]]
    /\ IF kind = "strong"
       THEN /\ strong_count' = [strong_count EXCEPT ![cbOf(l)] = @ + 1]
            /\ UNCHANGED weak_count
       ELSE /\ weak_count' = [weak_count EXCEPT ![cbOf(l)] = @ + 1]
            /\ UNCHANGED strong_count
    /\ UNCHANGED << payload_handle, cb_pool, payload_pool, pc, fixed >>

CopyStrong(l, n) == Live(l, "strong") /\ CopyAs(l, n, "strong")

CopyWeak(l, n) == Live(l, "weak") /\ CopyAs(l, n, "weak")

WeakFromStrong(l, n) ==
    category = "shared" /\ Live(l, "strong") /\ CopyAs(l, n, "weak")

\* Fault: an expired weak lease is promoted.
LockExpired(l, n) == Live(l, "weak") /\ CopyAs(l, n, "strong")

\* WeakLease::lock: tryPromoteWeakToStrong succeeds while the count is not zero.
Lock(l, n) ==
    /\ Live(l, "weak")
    /\ strong_count[cbOf(l)] > 0
    /\ CopyAs(l, n, "strong")

-----------------------------------------------------------------------------
(* StrongLease::release.                                                    *)

\* Fault: the count after the decrement is taken for the one before it.
ReleaseStrongOffByOne(l) ==
    /\ Live(l, "strong")
    /\ strong_count' = [strong_count EXCEPT ![cbOf(l)] = Decrement(@)]
    /\ IF strong_count'[cbOf(l)] = 1 THEN GoTo(l, "try_release_payload") ELSE Invalidate(l)
    /\ UNCHANGED << weak_count, payload_handle, cb_pool, payload_pool, fixed >>

ReleaseStrong(l) ==
    /\ Live(l, "strong")
    /\ strong_count' = [strong_count EXCEPT ![cbOf(l)] = Decrement(@)]
    /\ IF strong_count[cbOf(l)] = 1 THEN GoTo(l, "try_release_payload") ELSE Invalidate(l)
    /\ UNCHANGED << weak_count, payload_handle, cb_pool, payload_pool, fixed >>

\* tryReleasePayload: nothing to do when the handle is invalid.
TryReleasePayload(l) ==
    /\ pc[l] = "try_release_payload"
    /\ GoTo(l, IF payload_handle[cbOf(l)] = NoHandle
               THEN "shutdown_checks_strong" ELSE "return_payload")
    /\ UNCHANGED << counts, payload_handle, cb_pool, payload_pool, fixed >>

\* payload_pool_->release(payload_handle_): the binding is read again here.  A
\* cleared one has a null pool pointer (the block is cleared, nothing is
\* returned); a stale one is refused by the pool and stays bound.
ReturnPayload(l) ==
    LET h == payload_handle[cbOf(l)]
        accepted == h # NoHandle /\ payload_generation[h.slot] = h.generation
    IN  /\ pc[l] = "return_payload"
        /\ \/ /\ accepted
              /\ payload_free' = payload_free \cup {h.slot}
              /\ payload_generation' = [payload_generation EXCEPT ![h.slot] = @ + 1]
              /\ GoTo(l, "clear_payload")
           \/ /\ ~accepted
              /\ GoTo(l, "shutdown_checks_strong")
              /\ UNCHANGED payload_pool
        /\ UNCHANGED << counts, payload_handle, cb_pool, fixed >>

ClearPayload(l) ==
    /\ pc[l] = "clear_payload"
    /\ payload_handle' = [payload_handle EXCEPT ![cbOf(l)] = NoHandle]
    /\ GoTo(l, "shutdown_checks_strong")
    /\ UNCHANGED << counts, cb_pool, payload_pool, fixed >>

-----------------------------------------------------------------------------
(* WeakLease::release: the last weak lease clears the binding when          *)
(* canShutdown() (two loads) says that no lease is left.                    *)

\* Fault: the last weak lease leaves the control block to the strong ones.
ReleaseWeakNoReturn(l) ==
    /\ Live(l, "weak")
    /\ weak_count' = [weak_count EXCEPT ![cbOf(l)] = Decrement(@)]
    /\ Invalidate(l)
    /\ UNCHANGED << strong_count, payload_handle, cb_pool, payload_pool, fixed >>

ReleaseWeak(l) ==
    /\ Live(l, "weak")
    /\ weak_count' = [weak_count EXCEPT ![cbOf(l)] = Decrement(@)]
    /\ IF weak_count[cbOf(l)] = 1 THEN GoTo(l, "weak_checks_strong") ELSE Invalidate(l)
    /\ UNCHANGED << strong_count, payload_handle, cb_pool, payload_pool, fixed >>

WeakChecksStrong(l) ==
    /\ pc[l] = "weak_checks_strong"
    /\ GoTo(l, IF strong_count[cbOf(l)] = 0
               THEN "weak_checks_weak" ELSE "shutdown_checks_strong")
    /\ UNCHANGED << counts, payload_handle, cb_pool, payload_pool, fixed >>

WeakChecksWeak(l) ==
    /\ pc[l] = "weak_checks_weak"
    /\ GoTo(l, IF weak_count[cbOf(l)] = 0
               THEN "clear_payload" ELSE "shutdown_checks_strong")
    /\ UNCHANGED << counts, payload_handle, cb_pool, payload_pool, fixed >>

-----------------------------------------------------------------------------
(* Both kinds: when canShutdown() holds, the control block goes back to its *)
(* pool, which refuses a handle of an old generation.                       *)

ShutdownChecksStrong(l) ==
    /\ pc[l] = "shutdown_checks_strong"
    /\ IF strong_count[cbOf(l)] # 0
       THEN Invalidate(l)
       ELSE GoTo(l, IF category = "shared" THEN "shutdown_checks_weak" ELSE "return_control_block")
    /\ UNCHANGED << counts, payload_handle, cb_pool, payload_pool, fixed >>

\* Fault: only the strong count decides.
ShutdownIgnoresWeak(l) ==
    /\ pc[l] = "shutdown_checks_weak"
    /\ GoTo(l, "return_control_block")
    /\ UNCHANGED << counts, payload_handle, cb_pool, payload_pool, fixed >>

ShutdownChecksWeak(l) ==
    /\ pc[l] = "shutdown_checks_weak"
    /\ IF weak_count[cbOf(l)] # 0 THEN Invalidate(l) ELSE GoTo(l, "return_control_block")
    /\ UNCHANGED << counts, payload_handle, cb_pool, payload_pool, fixed >>

ReturnControlBlock(l) ==
    /\ pc[l] = "return_control_block"
    /\ IF cb_generation[cbOf(l)] = lease[l].cb.generation
       THEN /\ cb_free' = cb_free \cup {cbOf(l)}
            /\ cb_generation' = [cb_generation EXCEPT ![cbOf(l)] = @ + 1]
       ELSE UNCHANGED cb_pool
    /\ Invalidate(l)
    /\ UNCHANGED << counts, payload_handle, payload_pool, fixed >>

-----------------------------------------------------------------------------
ReleaseStep(l) ==
    \/ TryReleasePayload(l) \/ ReturnPayload(l) \/ ClearPayload(l)
    \/ WeakChecksStrong(l) \/ WeakChecksWeak(l)
    \/ ShutdownChecksStrong(l) \/ ShutdownChecksWeak(l) \/ ReturnControlBlock(l)

Next ==
    \/ \E l \in Lease :
        \/ AcquireSlots(l) \/ TryBindPayload(l) \/ AcquireStrong(l)
        \/ ReleaseStrong(l) \/ ReleaseWeak(l) \/ ReleaseStep(l)
    \/ \E l, n \in Lease :
        CopyStrong(l, n) \/ CopyWeak(l, n) \/ WeakFromStrong(l, n) \/ Lock(l, n)

Spec == Init /\ [][Next]_vars

-----------------------------------------------------------------------------
Counted(c, kind) == { l \in Lease : Live(l, kind) /\ cbOf(l) = c }

\* No count is lost or invented by concurrent copies, promotions and releases:
\* a control block counts exactly the lease objects that refer to it.
CountsExact ==
    \A c \in ControlBlock :
        /\ strong_count[c] = Cardinality(Counted(c, "strong"))
        /\ weak_count[c] = Cardinality(Counted(c, "weak"))

\* A control block that a lease refers to is not in its pool's freelist, and
\* has not been there since the lease was issued: nobody else can get it.
LeasedBlockNotFree ==
    \A l \in Lease :
        lease[l].kind # "none" /\ pc[l] = "idle" =>
            /\ cbOf(l) \notin cb_free
            /\ cb_generation[cbOf(l)] = lease[l].cb.generation

Keeps(l) ==
    LET h == lease[l].payload IN
    /\ payload_handle[cbOf(l)] = h
    /\ h.slot \notin payload_free
    /\ payload_generation[h.slot] = h.generation

\* strong_lease.h: "Strong count prevents payload destruction while active."  A
\* strong lease finds the payload it was issued for behind its control block,
\* and the payload slot is not free and was never released in between.
StrongKeepsPayload == \A l \in Lease : Live(l, "strong") => Keeps(l)

\* The same, as far as it holds: always for StrongControlBlock, whatever copies
\* and releases run concurrently, and for a SharedControlBlock with its weak
\* leases and promotions until the block is reused for another payload.
StrongKeepsPayloadUntilReuse ==
    \A l \in Lease :
        Live(l, "strong") /\ (category = "strong" \/ lease[l].cb.generation = 0) => Keeps(l)

Quiescent == \A l \in Lease : Empty(l)

\* lease-design.md: when both counts are zero the control block returns to its
\* pool.  Whoever was last, some release sees both zeros and returns it.
BlocksReturned == Quiescent => cb_free = ControlBlock

\* strong.h: the last strong release gives the payload back to its pool, once:
\* with no lease left, no payload slot is taken.
StrongPayloadsReturned == category = "strong" /\ Quiescent => payload_free = Payload
=============================================================================
