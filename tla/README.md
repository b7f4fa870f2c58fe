# Verification of orteaf

TLA+ models of orteaf, from the slot pools and leases every resource manager is
built on, over the managers, device memory and the ordering of GPU kernels, to the
generators of its type and device tables. TLC checks the models on small instances;
TLAPS proves all the invariants of the slot pools, leases, pool managers, kernel
ordering, the segregated memory pool, the slot allocator, the containers, the tensor
layout, the kernel registry and the kernel calls for every size, and of the generators
for all documents.

Paths below are relative to `src/orteaf/include/orteaf/internal/` unless they
start with `src/`.

## The system

orteaf is a tensor library with CPU, CUDA and Metal (MPS) back ends. Its core is
the management of expensive objects (buffers, streams, events, fences, heaps,
libraries, pipelines, storages, tensor implementations): each kind has a manager,
and each manager is built from the same parts.

| Component | State | Operations | What must hold |
|---|---|---|---|
| Slot pool (`base/pool/slot_pool.h`) | payloads, generations, created flags, freelist | resize, createRange, acquire, reserve, emplace, destroy, release, clear | a slot has one owner; none is lost; an old handle is rejected |
| Control blocks, leases (`base/lease/`) | atomic strong and weak counts, the bound payload handle; lease objects | bind, copy, weak from strong, promote, release | a strong lease keeps its payload; the last lease returns the control block, once |
| Pool manager (`base/manager/pool_manager.h`, `base/pool/with_control_block_binding.h`) | two pools, the binding payload -> control block, configuration | configure, shutdown, create, acquire with growth, lease by handle | the above across reconfiguration, refused calls and reuse; one control block per payload |
| Fixed slot store (`base/pool/fixed_slot_store.h`) | payloads and created flags in order, no freelist | emplace, acquire, reserve, clear | a device is made once and destroyed once |
| Lease lifetime registries (`base/manager/*lifetime_registry.h`) | a lease per slot, or a queue of leases with a head | set, push, releaseReady, clear, waitUntilReady | a fence is not free before its work is done |
| MPS kernel synchronisation (`execution/mps/resource/`, `kernel/mps/mps_kernel_session.h`) | command buffers, fences, fence tokens of storages, reuse tokens of buffers | begin, wait, update tokens, commit; maintenance | conflicting kernels keep their order; nobody waits for ever |
| MPS, CUDA, CPU managers (`execution/*/manager/`), storages, tensors (`storage/`, `tensor/`) | a tree of pool managers, caches by key, leases among them | configure, acquire, release, shutdown, create, view | nothing outlives what it was made from; teardown leaves nothing |
| Segregated memory pool (`execution/allocator/pool/`, `policies/`) | freelists per size class, chunks with used and pending counts, pending and ready queues | allocate, deallocate, releaseChunk | no block is given out while in use on the GPU; a chunk is released only when all its blocks are back |
| Hierarchical slot allocator (`execution/allocator/lowlevel/`) | layers of slots in states free, in use, split | allocate, deallocate, split, merge | regions disjoint; merge undoes split |
| Kernel registry (`kernel/registry/`) | three tiers, LRU order | register, lookup, prefetch, evict | bounded tiers; a registered kernel is found |
| Kernel calls (`kernel/core/`, `kernel/param/`, `kernel/schema/`) | packed keys, argument lists | resolve, bind, extract, run | the most specific kernel, with the operands it was given |
| Tensor layout (`src/orteaf/include/orteaf/extension/tensor/layout/`) | shape, strides, offset | transpose, slice, reshape, broadcast, squeeze | a view names the elements it should |
| Containers (`base/*_vector.h`) | inline or heap storage, size, capacity | growth, insertion, move, swap | elements constructed once, storage owned once |
| Code generators (`src/tools/codegen/`), types, devices, architectures, operators | YAML documents, generated tables | validate, number, write; look up | what the tables answer is what the documents say |
| Contexts, platform wrappers, diagnostics | | | not modelled, see below |

How they interact: a manager calls its `PoolManager`, which calls the two
`SlotPool`s. A lease object holds a pointer to its control block and to the
control block pool; the control block holds the payload's handle and a pointer to
the payload pool. So a release, on whatever thread the lease object lives, runs
in the control block and in both pools without going through the manager. A payload
may embed managers of its own, and those hold leases on each other's payloads: a
kernel base on pipelines, a storage on a buffer, a tensor on a storage.

What is hard here: counts are atomic but the binding of a control block is not,
and releases of strong and weak leases meet in it; handles are recycled, told
apart by generations of 8 or 32 bits that wrap; calls of several steps (configure,
shutdown, acquire with growth) throw half way; created and uncreated slots
share one freelist; the GPU runs beside the host and is ordered by fences that are
themselves recycled; and generators number the same things independently of each
other. `PROJECT.json` lists each of these under "hazards".

## Modules

| Module | Models |
|---|---|
| `SlotPoolOps` | `SlotPool<Traits>`: the operations as operators on a pool value. Reused by `PoolManager` twice, for payloads and for control blocks |
| `SlotPool` | one pool and its clients, who may call with handles that they gave back |
| `ExclusiveSlots` | the abstract specification: a slot is free or has one owner |
| `SlotPoolOpsProofs` | what the operators of a pool do to its arrays |
| `SharedLease`, `SharedLeaseProofs` | `SharedControlBlock`, `StrongControlBlock`, `StrongLease`, `WeakLease` on several threads; its theorems |
| `PoolManager`, `PoolManagerProofs` | `PoolManager<Traits>` with both pools, the leases and the binding mixin, one call at a time; its theorems |
| `SegregatePool`, `SegregatePoolProofs` | `SegregatePool` with its policies: size classes, chunks, deferred reuse, large allocations; its theorems |
| `DisjointBuffers` | the abstract specification: regions that overlap neither another client's nor unfinished device work's |
| `MpsKernelSync`, `MpsKernelSyncProofs` | kernel sessions on several Metal queues, with tokens, fences and the FIFO registries; its theorems |
| `FixedSlotStoreOps`, `ManagerTree` | the other pool, and what all resource managers do, as operators on a state: a tree of managers, leases and platform objects. `SlotPoolOps` is instantiated per manager |
| `ManagerKinds` | how the managers of the three executions differ, one record per class |
| `ExecutionManagers` | an execution with all its managers, storages and tensors, and their users: the composition of the three above |
| `DTypeCatalog`, `OpCatalog`, `DeviceCatalog`, `IdCatalog` | each generator as a predicate on documents and a function from documents to tables, and the lookups of the headers; detection of architectures |
| `Codegen` | the build that runs them: dependencies, edits, writes that fail |
| `KernelRegistry`, `SlotAllocator`, `TensorLayout`, `VectorStorage`, `KernelCall` | five sequential structures, each on its own |
| `StructuresProofs` | the theorems about `KernelRegistry`, `KernelCall` and `VectorStorage` |
| `SequentialProofs` | the theorems about `SlotPool`, `TensorLayout` and `SlotAllocator` |
| `CodegenProofs` | the theorems about `Codegen` and the catalogs |
| `MC...` | the instances for TLC: bounds and symmetry. `MCStructures` checks the five structures in one run, one moving in each behaviour |

An operator marked "Fault" is a variant of the operation after it with a plausible
mistake in it. Nothing uses these; each property of a run has been seen to fail
when one of them takes the place of the operation.

### SlotPool

`pool` is the four parallel arrays of the class. `held`, `stale` and `releases`
are history: which handles are out, which were given back, and how often each
slot was released. One action per operation: `Grow` (resize), `CreateAll`,
`AcquireCreated`, `ReserveUncreated`, `Emplace`, `Destroy`, `ReleaseSlot`,
`Clear`. A call that throws or returns false changes nothing and is no step, except
`createRange`, which goes on after a failure: its input is the set of slots whose
creation succeeds. A client may present a handle that it gave back, up to
`StaleWindow` releases of the slot later. The generation field has `GenMod` values
and wraps. What depends on the index type only is `InvalidIndex`, the largest size.

The scan of `tryAcquireCreated` and `tryReserveUncreated` pops the last entry of
the freelist and pushes an unsuitable one back at the same end, so that it looks
at one entry only; `CanTake` says so.

### SharedLease

An operation of a lease object is split at every access to shared memory: the
atomic counts, the unsynchronised binding, the two pools. `pc[l]` is the step at
which lease object `l` is; lease objects are used by one thread each. Control
blocks of both kinds are covered by the variable `category`, chosen at the start.
The manager issues leases one at a time, concurrently with releases. A CAS loop is
one step, since a failed iteration changes nothing; the loads that come after it
are steps of their own. `Handle` generations do not wrap here.

Assumptions: memory is sequentially consistent (the counts use acquire/release,
the binding plain accesses; weaker orders could only add behaviours); and the
calls of the two pools are atomic, as if each pool were behind a lock. `SlotPool`
has no lock of its own, so this is what a caller must provide.

### PoolManager

One action per public operation, with all it calls: `Configure`, `Shutdown`,
`CreateAllPayloads`, `EmplacePayload`, `AcquirePayloadOrGrowAndCreate`,
`ReserveUncreatedPayloadOrGrow`, `AcquireLease`, `DeriveLease` (copies, weak from
strong, lock), `ReleaseLease`. `configure` and `shutdown` may throw after they have
changed part of the state; the action then has that partial effect. `AcquireLease`
has the three outcomes of `acquireLeaseImpl`: the control block the payload is bound
to, a new one (or a refused one, given back), none left.

Constants choose the variant: `Bindable` (the mixin `WithControlBlockBinding`),
`Weak` (shared or strong control blocks), `DestroyOnRelease`, and `Reacquire`
(whether a client asks for a lease on a payload that has one). The managers in the
repository use strong control blocks without the mixin; storages and tensor
implementations are destroyed on release.

Left out: payload contents, the setters of a single growth chunk size (constants
here), `reserve`, and moves of lease objects.

### SegregatePool

The composition of `src/tests/internal/execution/allocator/pool/segregate_pool_test.cpp`:
`FastFreePolicy`, `DirectResourceLargeAllocPolicy`, `DirectChunkLocatorPolicy`,
`DeferredReusePolicy`, `HostStackFreelistPolicy`. `chunks` and `entries` are the two
tables with their lists of free slots, `stacks` the free lists by class,
`pending_queue` and `ready_queue` the queues of the reuse policy. `backed` is what
the resource has handed out, `live` what clients hold, `busy` the regions that
unfinished device work uses. `allocate` is four actions, one per outcome
(`AllocateFromList`, `AllocateExpanding`, `AllocateFails`, `AllocateLarge`), and the
first three begin with all of `processPendingReuses` (`Drained`); `deallocate` is
two. Where the code filters a list, `Kept` lists what stays by position, in order.
`releaseChunk` runs its whole loop; that each removal leaves a stack in reverse
order is kept, because it decides which block is given out next. `flushPending` is a
loop with the device running beside it.

Assumed of the outside: a client frees what it holds, once, with the size it asked
for (the code checks nothing); a block's reuse token stands for all device work
submitted on the block; the resource does not hand out memory that unfinished work
still uses, which matters for large blocks, given back without any wait.
`processPendingReuses` and `flushPending` take no lock, and here no other call runs
beside them.

### MpsKernelSync

`cbs` are the command buffers in the order made, with what they use and what they
wait for; `fences` the `MpsFenceHazard` payloads; `registry` one
`FifoLeaseLifetimeRegistry` per queue with its head and compaction; `storages` hold
the `MpsFenceToken`, `buffers` the `MpsReuseToken`. A kernel function is four steps:
`Begin`, `WaitDependencies`, `UpdateTokens` (or `UpdateTokensThrows`: there is no
fence, and the destructor commits all the same) and `Finish`. Between them run the
GPU, the maintenance calls (`ReleaseReady`, `WaitUntilReady`, `ClearRefused`,
`CheckFenceToken`) and, between sessions, `Build` and `Drop` of storages.

Assumed: one session at a time (a session lives in one kernel function, and the
lifetime managers take no lock); a queue completes in the order of commits and an
`MTLFence` wait is for the latest update encoded before it (Metal). A kernel whose
tokens could not be updated is `tracked = FALSE`, and nothing is claimed of it: it
runs without a fence that later kernels could wait for. Neither is order claimed
between storages that had one buffer in succession: a recycled buffer starts with an
empty fence token, and across queues nothing waits.

### ManagerTree, ManagerKinds, ExecutionManagers

A manager is a path in the tree of devices; the state has the configured managers
with their pools, requests and caches, the strong leases with their holders, and the
platform objects that are live. The actions are the calls of the API: configure and
shut down an execution or `TensorApi`, acquire from any manager (by handle or by
key), release, create a storage, a tensor or a view. Each runs all that the call runs,
including what embedded managers do when a payload is made or reset, and a platform
call inside may fail. The managers of devices, and on MPS those of fences, queues and
events, make all their payloads in `configure`; when a fence, a queue or an event of a
device cannot be made, the exception leaves a device half made, with the managers before it
configured, for the next shutdown to release (`ConfigureFailures`). An exception that
leaves a `noexcept` function ends the process (`terminated`).

Releases here are atomic, as in `PoolManager`: what concurrent releases do is
`SharedLease`'s subject. A platform object whose own creation threw after it was
made is in `failed`; `ShutdownReleasesEverything` says nothing of it, because its
payload never came to exist.

### Code generators

A document is a record; an absent key is `Missing`, a node of the wrong kind
`Malformed`. A generator validates all before it writes anything, so that it is a
predicate (`...Accepted`) and a function (`...Def`, `...Tables`); the 64-bit masks
are sets of bits, `MaskBits` of them. `Codegen` runs the eight commands of
`src/CMakeLists.txt` with their dependencies; edits come between builds, and each of
the two writes of a command may fail. A failed command runs again, since make removes
the output of one (`.DELETE_ON_ERROR`), and ninja compares the older output. What is checked is what a program compiled
against the tables is told, through the lookups of `dtype.h`, `ops.h`,
`architecture.h` and `device.h`, against the documents; `FilesMatchDocuments`,
which the other properties rest on and `CodegenProofs` proves, says of the build that what it
leaves does not depend on what happened before. `Document` says what is
true of every parsed document, accepted or not: where a sequence belongs there is a
sequence, nothing, or a node of another kind, and a number likewise (`SequenceNode`,
`NumberNode`). A negative number in a `detect` block is no criterion, because the tables
use `-1` for none (`gen_architectures` accepts it).

### The structures

`KernelRegistry` has the tiers and both LRU lists; a demotion may throw in the middle
of an eviction, which drops the key looked up and leaves the victim in main memory,
on no list: after `n` failures main memory may hold `n + 1` entries whatever its
capacity. `SlotAllocator` has the layers of `HierarchicalSlotStorage`, with a map
call that throws after the slot was taken; its loops down and up the levels are
recursive functions of the level. `TensorLayout` carries along, for every
index of a view, the element that the meaning of the operations puts there; `MaxExtent`
and `MaxSliced` bound what is asked of `slice` (at most one dimension not taken whole,
so that chains stay checkable; the proof has no such bound). The layout it starts from
has no negative size, as `contiguous` demands (`LayoutAssumption`).
`VectorStorage` has the cells of a vector's storage, raw or constructed, beside the
sequence a plain container would hold. Two constants choose whether clients make calls
that lose elements (see the findings): `ResizeSpilled`, resize of a `SmallVector` whose
elements are on the heap to a size that fits inline, and `ShrinkInline`, `shrinkToFit` of
one whose elements are inline. Both are left out of `structures`; `small_vector_resize`
makes both and shows the first. An element constructed over a live one
from itself keeps its value or is `Lost`, as its move constructor has it: any of them may be.

`KernelCall` packs keys (fields of 12, 16, 16, 8 and 8 bits in the code, of 1 or 2
here: `Width`), resolves requests over the fallback of architectures (`Ancestor` is the
n-th parent, `Fallback` the chain up to the generic one), and binds
tensors into `KernelArgs`. Storages and parameters are two lists that are searched
from the front; `OperandsTogether` needs that a client does not clear one of them
alone and binds again, which the code does not prevent (`halfCleared`). Shapes and
strides are bound as views: that a tensor outlives the call is its caller's duty and
is not modelled.

## Runs

| Run | Checks | Bounds and why they are enough |
|---|---|---|
| `slot_pool` | exclusivity, no lost slot, stale handles rejected, refinement of `ExclusiveSlots` | 3 slots, 3 generation values, 4 releases per slot: the field wraps, the pool grows in several ways, and a stale handle meets its slot free, taken and wrapped |
| `shared_lease` | exact counts, leased blocks not free, blocks and payloads returned, strong leases keep payloads | 3 lease objects, 2 control blocks, 2 payloads, 3 leases issued: three operations in progress at once, and a block reused while an old release still runs |
| `shared_lease_reuse` | "Strong count prevents payload destruction" with shared control blocks (violated) | 1 control block, 2 leases issued |
| `pool_manager_bound` | the same across the manager's calls, one control block per payload, free blocks can be bound | 3 leases, 2 payloads, 2 control blocks, two block sizes (so that configure resets), each slot reused once |
| `pool_manager_reacquire` | a lease by the handle of a leased payload, without the mixin (violated) | 2 payloads, 2 control blocks |
| `segregate_pool` | blocks partition the chunks, counts exact, one size per list, everything given back in the end, refinement of `DisjointBuffers`, a flush returns | 2 buffers, blocks of 4 and 8 with minimum 3, maximum 7 and chunk size 6 (none fits the next), requests in both classes and a large one: chunk slots, large slots and buffers are reused in other roles, and two chunks of one class share a list |
| `mps_kernel_sync` | conflicting kernels ordered, free fences idle, both tokens cover the work, committed command buffers complete | 2 queues, 2 fences, 2 storages on 1 buffer, 3 kernels: a fence is recycled while a third kernel refers to its update, both queues meet in one token, and fences run out |
| `catalogs` | tables and headers say what the documents say, across generators | over 100 legal and illegal edits, 2 in a row, masks of 4 bits: an edit of one document meets an edit of another, and the numbers of dtypes reach the width of a mask |
| `managers` | leased payloads live, teardown inside out and complete, keys find their payload, an unused execution shuts down | each of the 3 executions with all its managers, 1 device, 2 users, pools of 1 growing by 1, 4/4/3 acquisitions (CPU/CUDA/MPS), 1 failing platform call, in `configure` as well: a payload is released, reused and still embedded in another's teardown |
| `managers_request` | a buffer is as large as was asked for (violated) | CPU, 2 users |
| `structures` | the five invariants of the structures | registry: 4 keys, capacities (2,3), (3,2), (0,0), 2 failing demotions; slots: levels 4-2-1, 2-2-1, 3-1, 3 views, 2 regions, 1 failing map; layouts: rank up to 3, chains of 3; vectors: N = 2, blocks of 1 and 2, up to 4 elements; calls: 4 kernels, a chain of 3 architectures, 2 tensors, 2 operands |
| `small_vector_resize` | "size_ is the number of constructed elements" (violated) | as above |

The violated ones are disagreements between the code and its comments, or defects:

* The last strong and the last weak lease of a shared control block, released on
  two threads: the weak release clears the binding and returns the block, the block
  is bound again, and the strong release, still on its way, returns the payload of
  the new strong lease. `shared.h` asks for the binding methods to be serialized
  externally, but it is the releases themselves that call them. No manager in the
  repository hands out weak leases today. With strong control blocks the property
  holds, and `StrongKeepsPayloadUntilReuse` states as much.
* Without the binding mixin, two leases acquired by the same handle have two control
  blocks, and the first to go returns the payload under the other.
  `CudaStreamManager::acquire(handle)` is such a call.
* `acquire(size)` of a buffer manager may answer a buffer that was made for a smaller
  request: a released buffer stays created, and only creation looks at the size.
* `SmallVector::resize` to at most N elements, while the vector is on the heap with
  room to spare, gives the heap array back without moving the elements out of it.

Behaviours the models have as the code has them, without a run of their own:
`reserveUncreated` finds an uncreated slot only on top of the freelist; `shutdown` of
a pool manager clears the payloads before a weak lease makes it throw;
`SmallVector::shrinkToFit` of a vector whose elements are inline already (`small_vector.h:357`)
constructs each over the live one, from a move of itself, and destroys none. A number stays
what it is, a lease may give itself away; with `ShrinkInline` TRUE, `VectorsHoldElements` fails
two calls from the start. Only tests call `shrinkToFit` today, on vectors that are on the heap.

Liveness and fairness. `FlushEnds`: `flushPending` is the one loop that waits for
somebody else. The loop goes on (`FlushStep`; it sleeps and looks again, holding
nothing), and the device, when it has work, ends some of it in time (`Complete`);
nothing is submitted meanwhile, since the caller is in the loop. `CommittedCompletes`:
a kernel function that was entered returns (its steps wait for nobody), and the GPU
runs a command buffer whose predecessors and fences are done (`GpuRun`); nothing is
assumed of the maintenance calls. The other operations are finite sequences of steps
of their caller. That the last release returns what it should is stated on the states
without a lease (`BlocksReturned`, `StrongPayloadsReturned`), which needs no fairness.
Deadlock checking is off where a bound lets the system stop: issued leases, command
buffers, edits, acquisitions, or a process that terminated.

## Proofs

For each component that is proved about, one inductive invariant is stated; every
action is shown to keep it, and the properties the runs check follow from it. All
constants are arbitrary, within the named assumptions of the module that declares
them; TLC evaluates these on every run. The invariants of the slot pool,
the leases, the pool manager, the kernel sessions and the registry have been checked by
TLC on small instances as well.

| Module | Proved (the property of the run where there is one) | Hypotheses |
|---|---|---|
| `SequentialProofs` (slot pool) | `TypeCorrectness`, `Exclusion` (`HeldExclusively`), `NoDuplicateFreeSlot`, `NoLeakedSlot` (`NoSlotLost`), `StaleHandlesRejected` (`StaleRejected`), `Refinement` (`ImplementsExclusiveSlots`) | `StaleWindow <= GenMod` |
| `SharedLeaseProofs` | `CountsAlwaysExact`, `LeasedBlocksStay` (`LeasedBlockNotFree`), `PayloadsKept` (`StrongKeepsPayloadUntilReuse`), `BlocksComeBack` (`BlocksReturned`), `PayloadsComeBack` (`StrongPayloadsReturned`), `TypeCorrect` | none |
| `PoolManagerProofs` | `CountsExactAlways`, `StrongKeepsPayloadAlways`, `FreeBlocksBindableAlways`, `BlocksReturnedAlways`, `OneBlockPerPayloadAlways`, `TypesAlways` | `Bindable \/ ~Reacquire`, `[]GenerationsFit` |
| `MpsKernelSyncProofs` | `KernelsOrdered` (`ConflictsOrdered`), `FreeFencesReusable` (`FreeFencesIdle`), `ReuseTokensCover`, `FenceTokensCover`, `TypeCorrect` | none |
| `SegregatePoolProofs` | `PartitionChunks` (`BlocksPartitionChunks`), `ExactCounts` (`CountsExact`), `UniformStacks` (`StacksUniform`), `ReleasingReturnsAll` (`ReleaseReturnsAll`), `PoolImplementsDisjointBuffers` (`ImplementsDisjointBuffers`) | none |
| `SequentialProofs` (slot allocator) | `SlotsAlwaysTile` (`SlotsTileMemory`) | none |
| `StructuresProofs` | `TiersAlwaysConsistent` (`RegistryTiersConsistent`), `CallsAlwaysConsistent` (`CallsConsistent`), `VectorsAlwaysHold` (`VectorsHoldElements`) | `~ResizeSpilled` and `~ShrinkInline`, for the vectors |
| `SequentialProofs` (tensor layout) | `ViewsAlwaysKeepElements` (`ViewsKeepElements`) | none |
| `CodegenProofs` | `BuildsMatchDocuments`, `OpsAlwaysDescribe` (`OpsDescribeDocument`), `PromotionAlwaysConsistent` (`PromotionAndCastsConsistent`), `DevicesAlwaysNamed` (`DevicesNameTheirArchitecture`), `FallbackAlwaysReaches` (`FallbackReachesGeneric`), `DetectionAlwaysFollows` (`DetectionFollowsDocument`) | none |

The hypotheses are what the code rests on, and each is needed.
`StaleWindow <= GenMod`: a client that presents a handle `GenMod` or more releases
after it gave it back has it accepted, and then all properties of the pool fail; for
control blocks that is 256 releases. `Bindable \/ ~Reacquire`: the run
`pool_manager_reacquire` shows what happens without it. `GenerationsFit` is the same
limit as the first, for a manager: a payload slot is not released `PayloadGenMod` times
between two clears, because clients may keep a handle that long, and where a binding may
outlive its control block, which needs the mixin and weak leases, neither is a control
block. The limit is 2^32 releases for buffers and storages and only 2^8 for streams,
contexts, events, fences, graphs, modules and functions of CUDA (`uint8_t` generations).
The handles of devices, and of heaps, libraries, functions and kernel bases of MPS, have no
generation; with them `GenerationsFit` holds of no slot, so the theorems say nothing of
those managers, which the runs of `ExecutionManagers` check. The managers of the
repository do not bind with weak leases, so for their control blocks, of 8-bit
generations, nothing is assumed. `~ResizeSpilled`: the client does not resize a
`SmallVector` whose elements are on the heap to a larger size within N; `~ShrinkInline`:
nor does it shrink one whose elements are inline. Both calls lose elements, as said
under the runs. The named assumptions on
constants restrict what a generator or an initializer checks before the code here runs:
identifiers fit their fields (`KernelsFit`, `RequestsFit`), the parents of architectures
have no cycle (`AncestryEnds`: `gen_architectures` refuses one, and
`FallbackAlwaysReaches` shows it of its tables), sizes are not
negative and block sizes not zero.

**SlotPool.** `HeldExclusively` is not inductive alone: a release by a stale handle
that `isValid` accepts would break it. `IInv` adds `GenerationsTrack`: the
generation of a slot is its number of releases modulo `GenMod`, a held handle is of
the current epoch and a stale one of an earlier epoch. From it and the lemma
`ModWindow` (two counts less than `m` apart differ modulo `m`) follows
`PresentedIsHeld`: of the handles clients present, `isValid` accepts only those
they hold. So every successful release moves a slot from `held` to the freelist,
every acquisition the other way, and growth adds slots to the freelist only. The
refinement maps `free` to the entries of the freelist and `owned` to the indices of
held handles; each action is one step of `ExclusiveSlots` or none.

**SharedLease.** The lemma behind everything is which lease objects still own their
control block: a lease is *current* while the block has not been returned since the
lease was issued. A lease in the middle of its release may cease to be current, because
a concurrent release returns the block; one that is idle or being issued never does
(`Blocks`). What a release has read of the counts stays true of a block it owns
(`ChecksStable`), since nobody who could raise a count from zero is left; and whoever is
last is current (`Owned`), so that a block is returned once and not lost. With strong
control blocks one release is in progress per block (`OneReleaser`), and it keeps the
payload until it gives it back (`PayloadOwned`). For shared ones the same is proved
until the block is reused (`FreshKeeps`); after that it is false, see the run
`shared_lease_reuse`.

**PoolManager.** The invariant relates the four tables. A lease is on a control block
of its generation, bound to its payload or to none (`LeasesOnBlocks`); a block with
strong leases is bound to a payload that is constructed and not free, and the mixin
points back to it (`StrongBlocksBound`); what else the mixin remembers is out of date
by its generation (`BoundTracks`), so that `isValid` unmasks it; the payload handles of
clients are at most as new as their slots (`KnownHeld`), so that a lease by handle
cannot reach a free payload. `StrongKeepsPayload` follows from the first two. That the
payload pool refuses no payload of a last strong lease, and that `tryBindPayload` refuses
no block from the freelist, come out on the way (`ReleaseStep`, `LeaseNewStep`): both
error paths of the code are unreachable. The lemmas about the pools are those of
`SlotPoolOpsProofs`, instantiated twice.

**MpsKernelSync.** A command buffer *covers* an earlier one when its completion implies
the other's: on one queue because a queue is first-in first-out, across queues because
both write one storage and are ordered already. A token forgets fences; the invariant
says that for every kernel it forgot and that is not done it keeps a covering fence
(`ReadsCovered`, `WritesCovered`, `HazardsCover`). So waiting for the fences of a token
waits for every conflicting kernel (`WaitsCover`), which makes the order of conflicting
kernels inductive. That the fence is still the one of that kernel rests on
`FencesBound` and `RegistriesInOrder`: a registry holds a lease on every fence whose
last update is not done, in the order of the updates, so that `releaseReady`, which
looks for the last ready entry, releases finished ones only.

**KernelRegistry.** An eviction from the cache trusts the cache's own list; so
`CacheMostRecent` needs that this list is in the order of the lookups
(`CacheLruFollowsRecent`). The lemmas `PushEffect`, `UnlinkEffect`, `TouchEffect` and
`PopEffect` say what the list operations do to the order of two keys. The capacities
hold because an entry that is on no list was left there by a failure of its own.

**SegregatePool.** `IInv` is about the tables (`Tables`: free slots are listed once, and
every live chunk and large entry has a buffer of its own), the blocks (`Blocks`: queued,
held and stacked blocks are distinct and are exactly the cut of the live chunks, of the
size of their class, and the two counters of a chunk count them), what clients hold
(`AreHeld`, `EntriesHeld`) and the device (`WorkIsOwned`: work on memory the pool has is
on a block that is held or waits in `pending_queue`). The last part is what makes the
refinement work: a block gets to a stack, from where it is given out, only when its work
is complete, and a chunk is given back only when none of its blocks is held or waits.
`Blocks` is a statement about values, so that it is proved of the state between the drain
of the queues and the rest of the call, then of each way the call goes on. That
`sizeClassToBlockSize` is increasing and fits a request to its class rests on the lemma
that `2^n` is the number of subsets of `1 .. n`. The refinement maps the regions clients
hold and those the device uses; two held blocks do not overlap (`HeldApart`) because
blocks of one chunk are at multiples of its size.

**SlotAllocator.** A split slot and its family of children name each other, and the
family lies in the slot (`Forest`); retired families, kept for reuse, are free and on no
list. `Tiles` says of every byte that it is in exactly one slot that is in use or on a
free list, if it is reserved, and in none otherwise. `FullBut(..., H)` says that a split slot
has a child that is not free, except the slots in `H`: between calls `H` is empty; inside
`allocate` it is the parent of the slot about to be split or taken, inside `deallocate`
the one `tryMergeUpward` looks at next. The recursion up and down the levels keeps these by induction on
the level, made with the least level at which it would fail.

**KernelCall.** The kernel that runs is the first in the chain of architectures whose key
is registered; the table is keyed by `make` (`TableKeyed`), and packing is injective because
the fields do not reach into each other (unpacking a sum of digits). `MostSpecific`
and `OperandsTogether` speak of the last call only; that the next one is right too rests on
`StoragesFollow` and `LayoutsFollow`: both lists of a `KernelArgs` find first, for every
operand, what was bound first since the last clear, so that they agree with each other.

**VectorStorage.** `VectorInv` says of every cell below the capacity whether it is raw:
those below `size_` are the elements, all others are raw (`HoldsExactly`); and where the
class keeps its array and how many blocks it owns (`IsStored`). Construction over a
constructed cell, a read of a raw one, a double free or a leak would each contradict it.
A range constructed or destroyed by a loop is described by what it does to each cell
(`ConstructEffect`).

**TensorLayout.** `LayoutInv`: the layout is well formed, and what the history has at every
index is `Address` of it. Each operation gives a layout `new` and a map from its indices to
those of the old one, and must satisfy `Address(old, From[i]) = Address(new, i)` (`Derives`).
`TotalAlong` says that a sum depends on its nonzero terms only, not on their order:
this is transpose, squeeze, unsqueeze and broadcast (whose new dimensions have stride 0).
For slice the sum is linear (`TotalAdd`). For reshape the address in a contiguous view is
the position in row-major order (Horner's rule against the sum over the strides);
positions are below the number of elements and each one is that of an index
(`RowMajorBound`, `RowMajorOnto`), and an inferred size gives the new shape as many elements
as the old one (`NumelReplaced`). It follows that a view never leaves the storage of the
tensor it was derived from.

**Codegen.** `BuildInv`: a file that is not due is what its generator makes of the
documents as they are, because the command is due as soon as one it reads is edited
(`OnlyDepends`), and between its two writes a command has the first file right. So after
a complete build (`Built`) all documents were accepted and all tables are functions of
them, and the other theorems are about those functions. Names: `IndexOf` finds a name at
its number when the names differ, which is what each generator checks. Lists: with
`OffsetsOf`, what is between two offsets of a concatenation is the list that was put there
(`slice`, `Between`). Architectures: those of an execution are consecutive and in the order of
the document, with the generic one first, so that the local number of `gen_devices` plus
the offset of `gen_architectures` is the right one (`DevicesAlwaysNamed`). Parents: a walk
that visits more architectures than there are visits one twice, and the check for cycles
excludes that. Detection: a host meets the criteria in the tables if and only if it meets those of
the document, and the loops look at every candidate. The assumptions are on what a
document can be (`DocumentsAssumption`), on the values that stand for none
(`MissingAssumption`, `NoParentAssumption`, `SectionsAssumption`) and on hosts being of an
execution there is a detection for (`HostsAssumption`).

The library's induction theorems cannot be used, as they take an operator. Induction over
numbers is done from the least counterexample (`LeastNat`, from the well-foundedness of
finite sets), which is also how the recursive functions are shown to exist (`RunExists`,
`LoopExists`).

Only model-checked, and why:

* `FlushEnds` and `CommittedCompletes`: liveness.
* `ExecutionManagers` and `ManagerTree`: creation and teardown are mutually recursive
  operators over the tree of managers, which tlapm does not reason about.
* The four violations.

## Not modelled

* Dense slot allocation: `allocateDense` ends in a function without a body; the
  superseded `hierarchical_slot_allocator_old.h`.
* The free list kept in device memory: its links are written by GPU code.
* Platform wrappers (Metal, CUDA, the C allocator): external; in the models they
  succeed, fail, or complete later. Argument setters and dispatch of `MpsKernelBase`
  pass values to Metal and change no state.
* Diagnostics; execution contexts (a thread-local value saved and restored by scoped
  guards); registries and type-erased leases that dispatch on a type.
* Payload contents, statistics, 64-bit overflow of tensor sizes, exceptions of element
  operations in containers, memory orders weaker than sequential consistency.

## Plan

The components the plan named are modelled, checked and, but for the managers, proved.
What is left, in the order of its worth:

1. `ExecutionManagers`: teardown stated by the set of payloads below a manager, instead of
   by the recursion that visits them; then `LeasedPayloadsLive` and `ReleasedInsideOut` for
   any tree of managers.
2. Dense slot allocation, once the code has it.
