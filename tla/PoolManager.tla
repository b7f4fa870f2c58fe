---------------------------- MODULE PoolManager ----------------------------
(***************************************************************************)
(* PoolManager<Traits> (base/manager/pool_manager.h): a payload pool, a    *)
(* pool of control blocks, and the leases that tie a payload to a control  *)
(* block.  One thread; every action is one whole call, with everything it  *)
(* calls in the pools, the control block and the binding mixin.            *)
(*                                                                         *)
(* Bindable says whether the payload pool has the mixin                    *)
(* WithControlBlockBinding, which remembers the control block of each      *)
(* payload.  The managers of the repository use pools without it.          *)
(*                                                                         *)
(* The client is a manager of the repository.  Each calls ensureConfigured *)
(* before it asks for a payload, which is the guard "configured" of the    *)
(* actions on payload slots; and each forgets its payload handles when it  *)
(* shuts down: the generations restart, and the code could not tell them   *)
(* from new ones.                                                          *)
(***************************************************************************)
EXTENDS Integers, Sequences, FiniteSets

CONSTANTS
    Lease,              \* lease objects
    PayloadGenMod, CbGenMod,  \* generation values of payload and block handles
    PayloadLimit, CbLimit,    \* largest number of slots of each pool
    PayloadGrowth, CbGrowth,  \* growth chunk sizes
    DestroyOnRelease,   \* trait of the payload pool
    Bindable,           \* the payload pool is a WithControlBlockBinding
    Weak,               \* the control block is a SharedControlBlock
    Reacquire,          \* clients ask for a lease on a payload that has one
    BlockSizes          \* block sizes passed to configure

ASSUME PoolManagerConstants ==
    /\ IsFiniteSet(Lease)
    /\ {PayloadGenMod, CbGenMod} \subseteq Nat \ {0}
    /\ {PayloadLimit, CbLimit} \subseteq Nat
    /\ {DestroyOnRelease, Bindable, Weak, Reacquire} \subseteq BOOLEAN
    /\ BlockSizes \subseteq Nat \ {0}
    /\ {PayloadGrowth, CbGrowth} \subseteq Nat \ {0}

P == INSTANCE SlotPoolOps WITH GenMod <- PayloadGenMod, InvalidIndex <- PayloadLimit
C == INSTANCE SlotPoolOps WITH GenMod <- CbGenMod, InvalidIndex <- CbLimit,
                               DestroyOnRelease <- FALSE

VARIABLES
    configured, payload_block_size, control_block_block_size,
    payload_pool, control_block_pool,
    bound,    \* per payload slot: the handle of its control block
    cb,       \* per control block slot: the counts and the bound payload
    lease,    \* the lease objects
    known     \* payload handles the clients have been given

config == << configured, payload_block_size, control_block_block_size >>
vars == << config, payload_pool, control_block_pool, bound, cb, lease, known >>

NoHandle == [ index |-> -1, generation |-> 0 ]
NoLease == [ kind |-> "none", cb |-> NoHandle, payload |-> NoHandle ]
FreshBlock == [ strong |-> 0, weak |-> 0, payload |-> NoHandle ]

Init ==
    /\ configured = FALSE /\ payload_block_size = 0 /\ control_block_block_size = 0
    /\ payload_pool = P!EmptyPool
    /\ control_block_pool = C!EmptyPool
    /\ bound = [i \in 0 .. -1 |-> NoHandle]
    /\ cb = [i \in 0 .. -1 |-> FreshBlock]
    /\ lease = [l \in Lease |-> NoLease]
    /\ known = {}

-----------------------------------------------------------------------------
(* Growing the arrays that follow a pool's size.                           *)

\* syncBoundControlBlocks.
ResizeBound(n) == [i \in 0 .. (n - 1) |-> IF i \in DOMAIN bound THEN bound[i] ELSE NoHandle]

ResizeBlocks(n) == [i \in 0 .. (n - 1) |-> IF i \in DOMAIN cb THEN cb[i] ELSE FreshBlock]

\* A control block pool resized and its new blocks created, which cannot fail.
GrownBlocks(n) ==
    C!CreateRange(C!Resize(control_block_pool, n), control_block_pool.size .. (n - 1),
                  0 .. (n - 1))

CanTeardown == \A i \in DOMAIN cb : cb[i].strong = 0

CanShutdown == \A i \in DOMAIN cb : cb[i].strong = 0 /\ cb[i].weak = 0

-----------------------------------------------------------------------------
(* Configuration.                                                          *)

\* configureImpl.  A call that throws half way keeps what it has done so far:
\* the payload pool is changed before the control block pool is looked at.
Configure(payloads, payload_bs, blocks, block_bs) ==
    LET reset == configured /\ payload_bs # payload_block_size
        pool1 == IF reset THEN P!EmptyPool ELSE payload_pool
        resized == P!CanResize(pool1, payloads)
        checked == resized /\ (control_block_block_size \notin {0, block_bs} => CanShutdown)
        done == checked /\ C!CanResize(control_block_pool, blocks)
    IN  /\ payload_block_size \notin {0, payload_bs} => CanTeardown
        /\ payload_block_size' = payload_bs
        /\ payload_pool' = IF resized THEN P!Resize(pool1, payloads) ELSE pool1
        /\ known' = IF reset THEN {} ELSE known
        /\ bound' = IF reset
                    THEN [i \in DOMAIN payload_pool'.created |-> NoHandle]
                    ELSE ResizeBound(payload_pool'.size)
        /\ control_block_block_size' = IF checked THEN block_bs ELSE control_block_block_size
        /\ control_block_pool' = IF done THEN GrownBlocks(blocks) ELSE control_block_pool
        /\ cb' = IF done THEN ResizeBlocks(blocks) ELSE cb
        /\ configured' = (configured \/ done)
        /\ UNCHANGED lease

\* shutdown: the payload pool is cleared once no strong lease is left; then a
\* weak lease makes the call throw, with the manager still configured.
Shutdown ==
    /\ configured
    /\ CanTeardown
    /\ payload_pool' = P!EmptyPool
    /\ bound' = [i \in 0 .. -1 |-> NoHandle]
    /\ known' = {}
    /\ control_block_pool' = IF CanShutdown THEN C!EmptyPool ELSE control_block_pool
    /\ cb' = IF CanShutdown THEN [i \in 0 .. -1 |-> FreshBlock] ELSE cb
    /\ configured' = ~CanShutdown
    /\ UNCHANGED << payload_block_size, control_block_block_size, lease >>

-----------------------------------------------------------------------------
(* Payload slots.                                                          *)

CreateAllPayloads(ok) ==
    /\ configured
    /\ payload_pool' = P!CreateRange(payload_pool, P!Slots(payload_pool), ok)
    /\ UNCHANGED << config, control_block_pool, bound, cb, lease, known >>

EmplacePayload(h) ==
    /\ configured
    /\ P!CanEmplace(payload_pool, h)
    /\ payload_pool' = P!SetCreated(payload_pool, h, TRUE)
    /\ UNCHANGED << config, control_block_pool, bound, cb, lease, known >>

\* The handle of the top slot of the freelist goes to the client.
HandOut(pool) ==
    /\ payload_pool' = P!Take(pool)
    /\ known' = known \cup { P!MakeHandle(pool, P!Top(pool)) }

\* acquirePayloadOrGrowAndCreate.  When a new payload cannot be created the call
\* throws and the pool stays grown.
AcquirePayloadOrGrowAndCreate(ok) ==
    LET n == payload_pool.size + PayloadGrowth
        new == payload_pool.size .. (n - 1)
        grown == P!Resize(payload_pool, n)
        created == P!CreateRange(grown, new, ok)
    IN  /\ configured
        /\ \/ /\ P!CanTake(payload_pool, TRUE)
              /\ HandOut(payload_pool)
              /\ bound' = bound
           \/ /\ ~P!CanTake(payload_pool, TRUE)
              /\ P!CanResize(payload_pool, n)
              /\ bound' = ResizeBound(n)
              /\ \/ P!AllCreated(grown, new, ok) /\ HandOut(created)
                 \/ /\ ~P!AllCreated(grown, new, ok)
                    /\ payload_pool' = created
                    /\ UNCHANGED known
        /\ UNCHANGED << config, control_block_pool, cb, lease >>

ReserveUncreatedPayloadOrGrow ==
    LET n == payload_pool.size + PayloadGrowth IN
    /\ configured
    /\ \/ /\ P!CanTake(payload_pool, FALSE)
          /\ HandOut(payload_pool)
          /\ bound' = bound
       \/ /\ ~P!CanTake(payload_pool, FALSE)
          /\ P!CanResize(payload_pool, n)
          /\ HandOut(P!Resize(payload_pool, n))
          /\ bound' = ResizeBound(n)
    /\ UNCHANGED << config, control_block_pool, cb, lease >>

-----------------------------------------------------------------------------
(* Leases.                                                                 *)

Count(block, kind, d) ==
    IF kind = "strong" THEN [block EXCEPT !.strong = @ + d] ELSE [block EXCEPT !.weak = @ + d]

\* Fault: the control block of a payload is never found again.
HasNoBound(h) == FALSE

\* The pool's control block for payload h, when it still is the one it was bound to.
HasBound(h) ==
    Bindable /\ bound[h.index] # NoHandle /\ C!IsValid(control_block_pool, bound[h.index])

Leased(h) == \E i \in DOMAIN cb : cb[i].payload = h /\ cb[i].strong + cb[i].weak > 0

CanBindPayload(block) == block.payload = NoHandle /\ block.strong = 0 /\ block.weak = 0

\* Fault: the new lease on the existing control block is not counted.
LeaseBoundUncounted(l, h, kind) ==
    /\ HasBound(h)
    /\ lease' = [lease EXCEPT ![l] = [ kind |-> kind, cb |-> bound[h.index], payload |-> h ]]
    /\ UNCHANGED << cb, control_block_pool, bound >>

\* acquireLeaseImpl on the existing control block.
LeaseBound(l, h, kind) ==
    LET c == bound[h.index] IN
    /\ HasBound(h)
    /\ cb' = [cb EXCEPT ![c.index] = Count(@, kind, 1)]
    /\ lease' = [lease EXCEPT ![l] = [ kind |-> kind, cb |-> c, payload |-> h ]]
    /\ UNCHANGED << control_block_pool, bound >>

\* acquireLeaseImpl on a new control block.  tryBindPayload may refuse it: then
\* the block goes back to its pool, a stale binding is already removed, and the
\* call throws.
LeaseNew(l, h, kind) ==
    LET grow == ~C!CanTake(control_block_pool, TRUE)
        n == control_block_pool.size + CbGrowth
        pool == IF grow THEN GrownBlocks(n) ELSE control_block_pool
        blocks == IF grow THEN ResizeBlocks(n) ELSE cb
        c == C!MakeHandle(pool, C!Top(pool))
        bind == CanBindPayload(blocks[c.index])
    IN  /\ ~HasBound(h)
        /\ grow => C!CanResize(control_block_pool, n)
        /\ control_block_pool' = IF bind THEN C!Take(pool) ELSE C!Release(C!Take(pool), c)
        /\ cb' = IF bind
                 THEN [blocks EXCEPT ![c.index] = Count([FreshBlock EXCEPT !.payload = h], kind, 1)]
                 ELSE blocks
        /\ bound' = [bound EXCEPT ![h.index] = IF Bindable /\ bind THEN c ELSE NoHandle]
        /\ lease' = IF bind
                    THEN [lease EXCEPT ![l] = [ kind |-> kind, cb |-> c, payload |-> h ]]
                    ELSE lease

\* acquireLeaseImpl when the control block pool is used up and at its limit: the
\* call throws, and a stale binding is already removed.
NoBlockLeft(h) ==
    /\ ~HasBound(h)
    /\ ~C!CanTake(control_block_pool, TRUE)
    /\ ~C!CanResize(control_block_pool, control_block_pool.size + CbGrowth)
    /\ bound' = [bound EXCEPT ![h.index] = NoHandle]
    /\ UNCHANGED << control_block_pool, cb, lease >>

AcquireLease(l, h, kind) ==
    /\ configured
    /\ lease[l] = NoLease
    /\ Reacquire \/ ~Leased(h)
    /\ P!IsCreated(payload_pool, h)
    /\ LeaseBound(l, h, kind) \/ LeaseNew(l, h, kind) \/ NoBlockLeft(h)
    /\ UNCHANGED << config, payload_pool, known >>

\* Fault: an expired weak lease is promoted.
CanAlwaysDerive(l, kind) == TRUE

\* A copy; a weak lease from a strong one; WeakLease::lock while a strong lease
\* is left.
CanDerive(l, kind) ==
    \/ lease[l].kind = kind
    \/ lease[l].kind = "strong" /\ kind = "weak" /\ Weak
    \/ lease[l].kind = "weak" /\ kind = "strong" /\ cb[lease[l].cb.index].strong > 0

DeriveLease(l, n, kind) ==
    LET c == lease[l].cb.index IN
    /\ lease[l] # NoLease /\ lease[n] = NoLease
    /\ CanDerive(l, kind)
    /\ cb' = [cb EXCEPT ![c] = Count(@, kind, 1)]
    /\ lease' = [lease EXCEPT ![n] = [lease[l] EXCEPT !.kind = kind]]
    /\ UNCHANGED << config, payload_pool, control_block_pool, bound, known >>

\* Fault: the weak leases do not keep the control block.
IdleWithWeak(block) == block.strong = 0

\* canShutdown.
Idle(block) == block.strong = 0 /\ block.weak = 0

\* releaseStrong and releaseWeak on the last lease of the kind.  The last strong
\* one asks the payload pool to take the payload back, which unbinds it and may
\* refuse it; a refused payload stays in the control block.
ReturnedPayload(block) == block.payload # NoHandle /\ P!CanRelease(payload_pool, block.payload)

ReleaseLease(l) ==
    LET kind == lease[l].kind
        c == lease[l].cb
        block == Count(cb[c.index], kind, -1)
        idle == Idle(block)
        lastStrong == kind = "strong" /\ block.strong = 0
        lastWeak == kind = "weak" /\ block.weak = 0
        returned == lastStrong /\ ReturnedPayload(block)
        h == block.payload
    IN  /\ lease[l] # NoLease
        /\ payload_pool' = IF returned THEN P!Release(payload_pool, h) ELSE payload_pool
        /\ bound' = IF lastStrong /\ P!IsValid(payload_pool, h)
                    THEN [bound EXCEPT ![h.index] = NoHandle] ELSE bound
        /\ cb' = [cb EXCEPT ![c.index] =
                    IF returned \/ (lastWeak /\ idle) THEN [block EXCEPT !.payload = NoHandle]
                                                      ELSE block]
        /\ control_block_pool' =
                IF (lastStrong \/ lastWeak) /\ idle /\ C!CanRelease(control_block_pool, c)
                THEN C!Release(control_block_pool, c) ELSE control_block_pool
        /\ lease' = [lease EXCEPT ![l] = NoLease]
        /\ UNCHANGED << config, known >>

-----------------------------------------------------------------------------
Kinds == IF Weak THEN {"strong", "weak"} ELSE {"strong"}

Next ==
    \/ \E payloads \in 0 .. PayloadLimit, blocks \in 0 .. CbLimit,
          payload_bs, block_bs \in BlockSizes :
            Configure(payloads, payload_bs, blocks, block_bs)
    \/ Shutdown
    \/ \E ok \in SUBSET P!Slots(payload_pool) : CreateAllPayloads(ok)
    \/ \E ok \in SUBSET (payload_pool.size .. (payload_pool.size + PayloadGrowth - 1)) :
            AcquirePayloadOrGrowAndCreate(ok)
    \/ ReserveUncreatedPayloadOrGrow
    \/ \E h \in known : EmplacePayload(h)
    \/ \E l \in Lease, h \in known, kind \in Kinds : AcquireLease(l, h, kind)
    \/ \E l, n \in Lease, kind \in Kinds : DeriveLease(l, n, kind)
    \/ \E l \in Lease : ReleaseLease(l)

Spec == Init /\ [][Next]_vars

-----------------------------------------------------------------------------
Handles(n, gens) == [ index : 0 .. (n - 1), generation : 0 .. (gens - 1) ]

TypeOK ==
    /\ configured \in BOOLEAN
    /\ payload_block_size \in BlockSizes \cup {0}
    /\ control_block_block_size \in BlockSizes \cup {0}
    /\ P!IsPool(payload_pool)
    /\ C!IsPool(control_block_pool)
    /\ bound \in [P!Slots(payload_pool) -> Handles(CbLimit, CbGenMod) \cup {NoHandle}]
    /\ cb \in [C!Slots(control_block_pool) ->
                [ strong : Nat, weak : Nat,
                  payload : Handles(PayloadLimit, PayloadGenMod) \cup {NoHandle} ]]
    /\ lease \in [Lease -> {NoLease} \cup
                    [ kind : Kinds, cb : Handles(CbLimit, CbGenMod),
                      payload : Handles(PayloadLimit, PayloadGenMod) ]]
    /\ known \subseteq Handles(PayloadLimit, PayloadGenMod)

Free(pool, i) == \E k \in 1 .. Len(pool.freelist) : pool.freelist[k] = i

\* A control block counts exactly the leases on it, through reuse of the block,
\* refused releases and reconfiguration.
CountsExact ==
    \A i \in DOMAIN cb :
        /\ cb[i].strong = Cardinality({ l \in Lease : lease[l].kind = "strong" /\ lease[l].cb.index = i })
        /\ cb[i].weak = Cardinality({ l \in Lease : lease[l].kind = "weak" /\ lease[l].cb.index = i })

\* strong_lease.h: "Strong count prevents payload destruction while active."  A
\* strong lease leads to the payload it was acquired for, which is constructed
\* and which the pool gives to nobody else.
StrongKeepsPayload ==
    \A l \in Lease : lease[l].kind = "strong" =>
        /\ cb[lease[l].cb.index].payload = lease[l].payload
        /\ P!IsCreated(payload_pool, lease[l].payload)
        /\ ~Free(payload_pool, lease[l].payload.index)

\* A control block on the freelist can be bound again, so that acquireLeaseImpl
\* never throws "control block binding failed".
FreeBlocksBindable ==
    \A i \in DOMAIN cb : Free(control_block_pool, i) => CanBindPayload(cb[i])

\* A control block is on the freelist exactly when no lease refers to it.
BlocksReturned ==
    \A i \in DOMAIN cb : Free(control_block_pool, i) <=> cb[i].strong + cb[i].weak = 0

\* The one-to-one tracking of payload and control block: no payload is bound to
\* two control blocks that have strong leases.
OneBlockPerPayload ==
    \A i, j \in DOMAIN cb :
        cb[i].strong > 0 /\ cb[j].strong > 0 /\ cb[i].payload = cb[j].payload => i = j

=============================================================================
