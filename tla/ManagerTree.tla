---------------------------- MODULE ManagerTree ----------------------------
(***************************************************************************)
(* What the resource managers of the three executions have in common.  A   *)
(* manager is a PoolManager over payloads that may embed managers of their *)
(* own: a CUDA device embeds the manager of its contexts, a context those  *)
(* of its buffers, streams, events and modules.  The managers form a tree: *)
(*                                                                         *)
(*   a manager is a path  << "cuda_device", 0, "cuda_context" >>,          *)
(*   a payload is a path  << "cuda_device", 0, "cuda_context", 1 >>.       *)
(*                                                                         *)
(* The operators map a state to a state.  A state s is a record:           *)
(*   mgrs    the configured managers: path -> pool, requests and cache     *)
(*   holds   the strong leases: who holds which payload, through which     *)
(*           control block, and what it asked for                          *)
(*   native  payloads whose platform object is live                        *)
(*   leaked  payloads dropped without the release of their platform object *)
(*   failed  payloads whose creation threw after making a platform object  *)
(*   misordered  platform objects released after one they were made from   *)
(*   status  "ok", "throw" (an exception leaves the call) or "terminate"   *)
(*           (an exception met a noexcept function)                        *)
(***************************************************************************)
EXTENDS Integers, Sequences, SequencesExt, FiniteSetsExt, Functions

CONSTANTS
    Payload,   \* per class: the embedded managers, in the order they are
               \* configured and reset, and whether there is a platform object
    Manager,   \* per class: pool, generations, registry, who checks creation
    Capacity,  \* payload slots of a configured manager
    Growth     \* payload growth chunk size

FS == INSTANCE FixedSlotStoreOps
SP(c) == INSTANCE SlotPoolOps WITH GenMod <- Manager[c].generations, InvalidIndex <- 2^16,
                                   DestroyOnRelease <- Manager[c].destroy_on_release

Slot(mp, i) == Append(mp, i)
Embedded(o, c) == Append(o, c)
ManagerOf(o) == Front(o)
ClassOf(o) == o[Len(o) - 1]

Throw(s) == [s EXCEPT !.status = "throw"]

\* The payloads a payload lies in.
Enclosing(o) == { SubSeq(o, 1, 2 * k) : k \in 1 .. (Len(o) \div 2 - 1) }

-----------------------------------------------------------------------------
(* The payload pool of a manager, of either kind.                          *)

NewManager(c, n) ==
    LET empty == SP(c)!EmptyPool
    IN  [ pool |-> IF Manager[c].pool = "fixed" THEN FS!StoreResize(empty, n)
                   ELSE SP(c)!Resize(empty, n),
          request |-> << >>, cache |-> [k \in {} |-> 0] ]

PoolOf(s, mp) == s.mgrs[mp].pool

IsFixed(mp) == Manager[Last(mp)].pool = "fixed"

Grow(s, mp) ==
    LET p == PoolOf(s, mp)
        n == p.size + Growth
    IN  [s EXCEPT !.mgrs[mp].pool = IF IsFixed(mp) THEN FS!StoreResize(p, n)
                                    ELSE SP(Last(mp))!Resize(p, n)]

CanTake(s, mp, wanted) ==
    IF IsFixed(mp) THEN FS!CanTakeSlot(PoolOf(s, mp), wanted)
    ELSE SP(Last(mp))!CanTake(PoolOf(s, mp), wanted)

TakenSlot(s, mp, wanted) ==
    IF IsFixed(mp) THEN FS!SlotTaken(PoolOf(s, mp), wanted)
    ELSE SP(Last(mp))!Top(PoolOf(s, mp))

Take(s, mp) ==
    IF IsFixed(mp) THEN s ELSE [s EXCEPT !.mgrs[mp].pool = SP(Last(mp))!Take(@)]

Created(s, o) == PoolOf(s, ManagerOf(o)).created[Last(o)]

-----------------------------------------------------------------------------
(* Leases.                                                                 *)

UserHolder(u) == << "user", u >>
Registry(mp) == << "registry", mp >>
Object(o) == << "object", o >>

HoldsOf(s, who) == { h \in s.holds : h.who = who }
HoldsIn(s, mp) == { h \in s.holds : ManagerOf(h.obj) = mp }

FreshBlock(s) == Min((1 .. (Cardinality(s.holds) + 1)) \ { h.block : h \in s.holds })

\* acquireStrongLease: always a new control block, as none of these pools
\* remembers the block of a payload.
Lease(s, who, o, want) ==
    IF ~Created(s, o) THEN Throw(s)
    ELSE [s EXCEPT !.holds = @ \cup
            {[ who |-> who, obj |-> o, want |-> want, block |-> FreshBlock(s),
               generation |-> PoolOf(s, ManagerOf(o)).generations[Last(o)] ]}]

\* The copy of a lease shares its control block.
CopyLease(s, h, who, want) ==
    [s EXCEPT !.holds = @ \cup {[h EXCEPT !.who = who, !.want = want]}]

\* What the registry of a manager holds of a payload.  The lookup is by slot.
Registered(s, o) == { h \in HoldsOf(s, Registry(ManagerOf(o))) : h.obj = o }

\* LeaseLifetimeRegistry: get, or acquireStrongLease and set.
LeaseRegistered(s, who, o, want) ==
    IF Registered(s, o) # {} THEN CopyLease(s, CHOOSE h \in Registered(s, o) : TRUE, who, want)
    ELSE LET s1 == Lease(s, Registry(ManagerOf(o)), o, want)
         IN  IF s1.status # "ok" THEN s1
             ELSE CopyLease(s1, CHOOSE h \in Registered(s1, o) : TRUE, who, want)

LeaseFor(s, who, o, want) ==
    IF Manager[ClassOf(o)].registry THEN LeaseRegistered(s, who, o, want)
    ELSE Lease(s, who, o, want)

Newest(hs) == CHOOSE h \in hs : \A k \in hs : k.block <= h.block

-----------------------------------------------------------------------------
(* Teardown.                                                               *)

RECURSIVE Drop(_, _), Destroy(_, _, _), Shutdown(_, _)

\* The leases are dropped in the order in which they were taken: the newest last.
DropAll(s, hs) == MapThenFoldSet(LAMBDA h, t : Drop(t, h), s, LAMBDA h : h, Newest, hs)

\* A lease is dropped.  The last one of its control block gives the payload
\* back to its pool.
Drop(s, h) ==
    LET s1 == [s EXCEPT !.holds = @ \ {h}]
        mp == ManagerOf(h.obj)
        c == Last(mp)
        handle == [index |-> Last(h.obj), generation |-> h.generation]
        last == \A k \in s1.holds : k.block # h.block
    IN  IF last /\ ~IsFixed(mp) /\ mp \in DOMAIN s.mgrs /\ SP(c)!CanRelease(PoolOf(s, mp), handle)
        THEN LET s2 == IF Manager[c].destroy_on_release THEN Destroy(s1, h.obj, TRUE) ELSE s1
             IN  [s2 EXCEPT !.mgrs[mp].pool = SP(c)!Release(@, handle)]
        ELSE s1

\* An exception that leaves a shutdown called from reset() or clear(), which
\* are noexcept, ends the process.
Noexcept(s) == IF s.status = "throw" THEN [s EXCEPT !.status = "terminate"] ELSE s

\* The platform object of o is released.
ReleaseNative(s, o) ==
    [ s EXCEPT !.native = @ \ {o},
               !.misordered = IF \E e \in Enclosing(o) : Payload[ClassOf(e)].native /\ e \notin s.native
                              THEN @ \cup {o} ELSE @ ]

\* The embedded managers are shut down, in the order of the payload's reset.
ResetEmbedded(s, o) ==
    FoldLeft(LAMBDA t, d : Noexcept(Shutdown(t, Embedded(o, d))), s, Payload[ClassOf(o)].reset)

DropHoldsOf(s, who) == DropAll(s, HoldsOf(s, who))

\* Fault: the platform object goes first.
DestroyOwnFirst(s, o, ops) ==
    DropHoldsOf(ResetEmbedded(IF o \in s.native /\ ops THEN ReleaseNative(s, o) ELSE s, o), Object(o))

\* The platform object.  Without ops (the destructor of a payload that was never
\* created) it is forgotten.
ReleaseOwn(s, o, ops) ==
    IF s.status # "ok" \/ o \notin s.native THEN s
    ELSE IF ops THEN ReleaseNative(s, o)
    ELSE [s EXCEPT !.native = @ \ {o}, !.leaked = @ \cup {o}]

\* Traits::destroy, that is reset(ops): the embedded managers, the leases the
\* payload holds, its platform object.
Destroy(s, o, ops) == ReleaseOwn(DropHoldsOf(ResetEmbedded(s, o), Object(o)), o, ops)

\* Fault: the leases are not looked at.
AnyLeaseAllowed(s, mp) == TRUE

\* checkCanTeardownOrThrow.
CanTeardown(s, mp) == HoldsIn(s, mp) = {}

\* LeaseLifetimeRegistry::clear.
ClearRegistry(s, mp) == DropHoldsOf(s, Registry(mp))

DestroySlots(s, mp) ==
    IF ~CanTeardown(s, mp) THEN Throw(s)
    ELSE FoldLeft(LAMBDA t, i : Destroy(t, Slot(mp, i), PoolOf(s, mp).created[i]), s,
                  [k \in 1 .. PoolOf(s, mp).size |-> k - 1])

Unconfigure(s, mp) ==
    IF s.status # "ok" THEN s ELSE [s EXCEPT !.mgrs = Restrict(@, DOMAIN @ \ {mp})]

\* shutdown: the registry is cleared before the leases are counted, and stays
\* cleared when the call throws.
Shutdown(s, mp) ==
    IF s.status # "ok" \/ mp \notin DOMAIN s.mgrs THEN s
    ELSE Unconfigure(DestroySlots(ClearRegistry(s, mp), mp), mp)

-----------------------------------------------------------------------------
(* Creation.  "fail" is the set of classes whose platform object cannot be *)
(* made in this call.                                                      *)

RECURSIVE Create(_, _, _, _), Configure(_, _, _, _)

CreateRange(s, mp, range, req, fail) ==
    FoldLeft(LAMBDA t, i : IF t.status = "ok" THEN Create(t, Slot(mp, i), req, fail) ELSE t, s, range)

\* createRange and createAll answer whether all were made.
AllCreatedOrThrow(s, mp, range) ==
    IF s.status = "ok" /\ \E k \in DOMAIN range : ~PoolOf(s, mp).created[range[k]]
    THEN Throw(s) ELSE s

MakeNative(s, o) == IF Payload[ClassOf(o)].native THEN [s EXCEPT !.native = @ \cup {o}] ELSE s

ConfigureEmbedded(s, o, fail) ==
    FoldLeft(LAMBDA t, d : IF t.status = "ok" THEN Configure(t, Embedded(o, d), Capacity, fail) ELSE t,
             s, Payload[ClassOf(o)].configure)

\* The slot is created, unless its creation threw.
MarkCreated(s, o, req) ==
    IF s.status # "ok" THEN [s EXCEPT !.failed = @ \cup ({o} \cap s.native)]
    ELSE [s EXCEPT !.mgrs[ManagerOf(o)].pool.created[Last(o)] = TRUE,
                   !.mgrs[ManagerOf(o)].request = (Last(o) :> req) @@ @]

\* emplace: Traits::create makes the platform object and configures the
\* embedded managers; false leaves the slot as it was, and an exception leaves
\* the payload half made.
Create(s, o, req, fail) ==
    IF ClassOf(o) \in fail THEN s
    ELSE MarkCreated(ConfigureEmbedded(MakeNative(s, o), o, fail), o, req)

NewSlots(s, mp, n) ==
    IF s.status # "ok" THEN s ELSE [s EXCEPT !.mgrs = (mp :> NewManager(Last(mp), n)) @@ @]

\* configure: shutdown, n slots and, in the managers that make their payloads
\* at once, a payload in each.
Configure(s, mp, n, fail) ==
    LET slots == [k \in 1 .. n |-> k - 1]
        CreateAll(t) == IF t.status = "ok" /\ Manager[Last(mp)].eager
                        THEN CreateRange(t, mp, slots, "none", fail) ELSE t
        Check(t) == IF Manager[Last(mp)].checks_create_all THEN AllCreatedOrThrow(t, mp, slots) ELSE t
    IN  Check(CreateAll(NewSlots(Shutdown(s, mp), mp, n)))

-----------------------------------------------------------------------------
(* Acquisition.                                                            *)

\* acquirePayloadOrGrowAndCreate: whatever payload is on top of the freelist will
\* do, whoever it was made for.
GrownAndCreated(s, mp, req, fail) ==
    LET range == [k \in 1 .. Growth |-> PoolOf(s, mp).size + k - 1]
    IN  IF CanTake(s, mp, TRUE) THEN s
        ELSE AllCreatedOrThrow(CreateRange(Grow(s, mp), mp, range, req, fail), mp, range)

LeaseTop(s, who, mp, req) ==
    IF s.status # "ok" THEN s
    ELSE IF ~CanTake(s, mp, TRUE) THEN Throw(s)
    ELSE LeaseFor(Take(s, mp), who, Slot(mp, TakenSlot(s, mp, TRUE)), req)

AcquirePlain(s, who, mp, req, fail) == LeaseTop(GrownAndCreated(s, mp, req, fail), who, mp, req)

LeaseBuilt(s, who, o, req) ==
    IF s.status # "ok" THEN s
    ELSE IF ~Created(s, o) THEN Throw(s)
    ELSE LeaseFor(s, who, o, req)

\* reserveUncreatedPayloadOrGrow, before the slot is taken.
GrownForReserve(s, mp) == IF CanTake(s, mp, FALSE) THEN s ELSE Grow(s, mp)

\* reserveUncreatedPayloadOrGrow, and Build(s, o) to make the payload.  A slot
\* taken from a freelist is not given back when that fails.
AcquireFresh(s, who, mp, req, Build(_, _)) ==
    LET s1 == GrownForReserve(s, mp)
        o == Slot(mp, TakenSlot(s1, mp, FALSE))
    IN  IF ~CanTake(s1, mp, FALSE) THEN Throw(s1)
        ELSE LeaseBuilt(Build(Take(s1, mp), o), who, o, req)

\* Fault: the key is cached before its payload is made.
CacheAlways(s, mp, key, i) == [s EXCEPT !.mgrs[mp].cache = (key :> i) @@ @]

\* key_to_index_.emplace, once the payload is there.
CacheKey(s, mp, key, i) ==
    IF ~PoolOf(s, mp).created[i] THEN s
    ELSE [s EXCEPT !.mgrs[mp].cache = (key :> i) @@ @]

\* The cache rebuilds its handle from the index, with generation 0.
AliveCached(s, mp, i) ==
    PoolOf(s, mp).created[i] /\ PoolOf(s, mp).generations[i] = 0

\* acquire(key): the payload of the key, made when there is none.
AcquireKeyed(s, who, mp, key, fail) ==
    LET cache == s.mgrs[mp].cache
        Build(t, o) == CacheKey(Create(t, o, key, fail), mp, key, Last(o))
    IN  IF key \notin DOMAIN cache THEN AcquireFresh(s, who, mp, key, Build)
        ELSE IF ~AliveCached(s, mp, cache[key]) THEN Throw(s)
        ELSE LeaseFor(s, who, Slot(mp, cache[key]), key)

\* acquire of any manager but the devices'.
Acquire(s, who, mp, req, fail) ==
    IF Manager[Last(mp)].keyed THEN AcquireKeyed(s, who, mp, req, fail)
    ELSE AcquirePlain(s, who, mp, req, fail)

\* acquire(handle) of a device, and of the other managers with a registry.
AcquireHandle(s, who, o, want) == LeaseRegistered(s, who, o, want)
=============================================================================
