---------------------------- MODULE MpsKernelSync ----------------------------
(***************************************************************************)
(* How kernels on Metal command queues are kept in order, and how the      *)
(* fences that do it are recycled.                                         *)
(*                                                                         *)
(* A kernel function opens an MpsKernelSession on the queue of its         *)
(* context, makes its encoder wait for the fences in the tokens of the     *)
(* storages it uses, acquires a fence from the queue's                     *)
(* MpsFenceLifetimeManager, puts it in those tokens, and commits the       *)
(* command buffer when the session goes out of scope.  The lifetime        *)
(* manager keeps every fence in a first-in first-out registry until the    *)
(* command buffer is complete; a fence that neither a registry nor a token *)
(* leases is free to be handed out again.                                  *)
(*                                                                         *)
(* The host runs one session at a time (sessions are scoped to a kernel    *)
(* function); the GPU, maintenance of the registries, and the release of   *)
(* storages interleave with its steps.  The pools behind fences, buffers   *)
(* and storages are modelled by what PoolManager promises: acquire hands   *)
(* out a payload no lease refers to.  Binding of buffers and parameters,   *)
(* dispatch and grid sizes have no effect on the order and are left out.   *)
(***************************************************************************)
EXTENDS Integers, SequencesExt

CONSTANTS
    Queue,       \* command queues
    Fence,       \* fence payloads the fence manager can create
    Storage,     \* storages, each built and dropped once
    Buffer,      \* buffer payloads of the heap
    Kernel,      \* kernels: sequences of fields [storage, access]
    MaxKernels,  \* bound on the command buffers made
    None         \* the null pointer and the empty lease

Access == {"Read", "Write", "ReadWrite"}
Field == [storage : Storage, access : Access]

ASSUME MpsKernelSyncConstants ==
    /\ MaxKernels \in Nat
    /\ None \notin Queue \union Fence \union Buffer
    /\ \A k \in Kernel : k \in Seq(Field)

VARIABLES
    cbs,       \* the command buffers, in the order they were made
    fences,    \* MpsFenceHazard payloads, and the last update of the MTLFence
    registry,  \* the FIFO registry of each queue: leases_ and head_
    storages,  \* buffer lease and MpsFenceToken of each storage
    buffers,   \* MpsReuseToken of each buffer
    session    \* the kernel function in progress

vars == << cbs, fences, registry, storages, buffers, session >>

TypeOK ==
    /\ cbs \in Seq([queue : Queue, waits : SUBSET (1 .. MaxKernels),
                    uses : SUBSET (Storage \X Buffer \X Access),
                    tracked : BOOLEAN,
                    status : {"encoding", "committed", "done"}])
    /\ fences \in [Fence -> [cb : 0 .. MaxKernels, queue : Queue \union {None},
                             updated : 0 .. MaxKernels]]
    /\ \A q \in Queue : /\ registry[q].leases \in Seq(Fence \union {None})
                        /\ registry[q].head \in Nat
                        /\ registry[q].head # 0 =>   \* compacted
                             registry[q].head < Len(registry[q].leases) \div 2
    /\ \A s \in Storage : /\ storages[s].state \in {"unbuilt", "live", "dropped"}
                          /\ storages[s].buffer \in Buffer \union {None}
                          /\ storages[s].write \in Fence \union {None}
                          /\ storages[s].reads \in Seq(Fence \union {None})
    /\ \A b \in Buffer : buffers[b] \in Seq([queue : Queue, cb : 0 .. MaxKernels])
    /\ session \in [step : {"idle", "wait", "update", "finish"},
                    kernel : Kernel \union {<<>>}]

(***************************************************************************)
(* MpsFenceHazard: the payload of a fence.  Command buffer 0 is nullptr.   *)
(***************************************************************************)

Finished(cb) == cb # 0 => cbs[cb].status = "done"

\* isReady forgets a command buffer it finds completed.
IsReady(f) == Finished(fences[f].cb)
Forget(fs) == [f \in Fence |-> IF f \in fs THEN [fences[f] EXCEPT !.cb = 0] ELSE fences[f]]

\* setCommandQueueHandle and setCommandBuffer refuse while one is bound.
CanBind(f) == fences[f].cb = 0

\* The strong leases on a fence: those of the registries and of the tokens.
LeasedByRegistry(reg) == UNION {ToSet(reg[q].leases) : q \in Queue}
LeasedByToken(st) == UNION {ToSet(st[s].reads) \union {st[s].write} : s \in Storage}
FreeFence == Fence \ (LeasedByRegistry(registry) \union LeasedByToken(storages))

(***************************************************************************)
(* MpsFenceToken and MpsReuseToken.                                        *)
(***************************************************************************)

\* Fault: the queue of the fence is not compared.
AddReadFenceAnyQueue(token, f, fs) ==
    IF token.reads # <<>> THEN [token EXCEPT !.reads[1] = f]
    ELSE [token EXCEPT !.reads = Append(@, f)]

\* addReadFence: at most one read fence for each queue, the latest.
AddReadFence(token, f, fs) ==
    LET same == {i \in DOMAIN token.reads :
                   token.reads[i] # None /\ fs[token.reads[i]].queue = fs[f].queue}
    IN  IF same # {} THEN [token EXCEPT !.reads[Min(same)] = f]
        ELSE [token EXCEPT !.reads = Append(@, f)]

SetWriteFence(token, f) == [token EXCEPT !.write = f]

\* clear
EmptyToken == [state |-> "dropped", buffer |-> None, write |-> None, reads |-> <<>>]

\* Fault: the first hazard is replaced whatever its queue.
AddOrReplaceAnyHazard(hazards, h) ==
    IF hazards # <<>> THEN [hazards EXCEPT ![1] = h] ELSE Append(hazards, h)

\* addOrReplaceHazard: at most one command buffer for each queue, the latest.
AddOrReplaceHazard(hazards, h) ==
    LET same == {i \in DOMAIN hazards : hazards[i].queue = h.queue}
    IN  IF same # {} THEN [hazards EXCEPT ![Min(same)] = h] ELSE Append(hazards, h)

(***************************************************************************)
(* FifoLeaseLifetimeRegistry.                                              *)
(***************************************************************************)

Push(reg, f) == [reg EXCEPT !.leases = Append(@, f)]

EmptyRegistry == [leases |-> <<>>, head |-> 0]

CompactIfNeeded(reg) ==
    IF reg.head = 0 THEN reg
    ELSE IF reg.head >= Len(reg.leases) THEN EmptyRegistry
    ELSE IF reg.head < Len(reg.leases) \div 2 THEN reg
    ELSE [leases |-> SubSeq(reg.leases, reg.head + 1, Len(reg.leases)), head |-> 0]

\* The leases from head_ on.
Active(reg) == {i \in DOMAIN reg.leases : i > reg.head}

\* The last ready lease, 0 when there is none: the scan starts at the back.
ReadyEnd(reg) ==
    LET ready == {i \in Active(reg) : reg.leases[i] = None \/ IsReady(reg.leases[i])}
    IN  IF ready = {} THEN 0 ELSE Max(ready)

ReleaseThrough(reg, end) ==
    CompactIfNeeded([leases |-> [i \in DOMAIN reg.leases |->
                                    IF i <= end THEN None ELSE reg.leases[i]],
                     head |-> end])

(***************************************************************************)
(* Fields of a kernel.                                                     *)
(***************************************************************************)

Reads(a) == a \in {"Read", "ReadWrite"}
Writes(a) == a \in {"Write", "ReadWrite"}

\* The accesses of a kernel to one storage, which may be several of its fields.
AccessesTo(k, s) == {k[i].access : i \in {j \in DOMAIN k : k[j].storage = s}}

Uses(k) == {<<k[i].storage, storages[k[i].storage].buffer, k[i].access>> : i \in DOMAIN k}

\* Fault: a writer does not wait for reads.
WriteDependencyFences(field) == {storages[field.storage].write} \ {None}

\* waitStorageDependency: a reader waits for the last write, a writer also for
\* all reads.
DependencyFences(field) ==
    LET token == storages[field.storage]
    IN  ({token.write} \union IF Writes(field.access) THEN ToSet(token.reads) ELSE {})
          \ {None}

\* updateStorageToken, its part on the fence token: a read adds the fence to
\* the read fences, a write makes it the write fence.  Both are idempotent and
\* independent of each other, so that the fields of one storage act together.
UpdatedToken(token, accesses, f, fs) ==
    LET read == IF \E a \in accesses : Reads(a) THEN AddReadFence(token, f, fs) ELSE token
    IN  IF \E a \in accesses : Writes(a) THEN SetWriteFence(read, f) ELSE read

Init ==
    /\ cbs = <<>>
    /\ fences = [f \in Fence |-> [cb |-> 0, queue |-> None, updated |-> 0]]
    /\ registry = [q \in Queue |-> EmptyRegistry]
    /\ storages = [s \in Storage |-> [EmptyToken EXCEPT !.state = "unbuilt"]]
    /\ buffers = [b \in Buffer |-> <<>>]
    /\ session = [step |-> "idle", kernel |-> <<>>]

Current == Len(cbs)
Idle == session.step = "idle"

(***************************************************************************)
(* Storages.  Dropping one destroys it with its token; its buffer goes     *)
(* back to the heap's pool as it is, reuse token included, and any free    *)
(* buffer serves the next storage.                                         *)
(***************************************************************************)

LeasedBuffers == {storages[s].buffer : s \in Storage}

Build(s) ==
    /\ Idle
    /\ storages[s].state = "unbuilt"
    /\ \E b \in Buffer \ LeasedBuffers :
         storages' = [storages EXCEPT ![s] = [EmptyToken EXCEPT !.state = "live", !.buffer = b]]
    /\ UNCHANGED << cbs, fences, registry, buffers, session >>

Drop(s) ==
    /\ Idle
    /\ storages[s].state = "live"
    /\ storages' = [storages EXCEPT ![s] = EmptyToken]
    /\ UNCHANGED << cbs, fences, registry, buffers, session >>

(***************************************************************************)
(* MpsKernelSession.                                                       *)
(***************************************************************************)

\* begin.  Its early returns (no context, queue, encoder or pipeline) leave at
\* most a command buffer that is never committed and that nothing refers to.
Begin(q, k) ==
    /\ Idle
    /\ Len(cbs) < MaxKernels
    /\ \A i \in DOMAIN k : storages[k[i].storage].state = "live"
    /\ cbs' = Append(cbs, [queue |-> q, waits |-> {}, uses |-> Uses(k), tracked |-> FALSE,
                           status |-> "encoding"])
    /\ session' = [step |-> "wait", kernel |-> k]
    /\ UNCHANGED << fences, registry, storages, buffers >>

\* Fault: the encoder waits after it has updated its own fence.
WaitDependenciesAfterUpdate ==
    /\ session.step = "wait"
    /\ cbs' = [cbs EXCEPT ![Current].waits = {Current}]
    /\ session' = [session EXCEPT !.step = "update"]
    /\ UNCHANGED << fences, registry, storages, buffers >>

\* waitDependencies, for all fields.  The encoder waits for the latest update
\* of each fence (external: MTLFence).
WaitDependencies ==
    /\ session.step = "wait"
    /\ LET k == session.kernel
           fs == UNION {DependencyFences(k[i]) : i \in DOMAIN k}
       IN  cbs' = [cbs EXCEPT ![Current].waits = {fences[f].updated : f \in fs} \ {0}]
    /\ session' = [session EXCEPT !.step = "update"]
    /\ UNCHANGED << fences, registry, storages, buffers >>

\* Fault: the lease is not pushed to the registry.
AcquireFenceUnregistered(f) ==
    /\ CanBind(f)
    /\ fences' = [fences EXCEPT ![f] = [cb |-> Current, queue |-> cbs[Current].queue,
                                        updated |-> Current]]
    /\ UNCHANGED registry

\* MpsFenceLifetimeManager::acquire: the fence is bound to the queue and the
\* command buffer, and a second lease on it goes to the registry.
AcquireFence(f) ==
    /\ CanBind(f)
    /\ fences' = [fences EXCEPT ![f] = [cb |-> Current, queue |-> cbs[Current].queue,
                                        updated |-> Current]]
    /\ registry' = [registry EXCEPT ![cbs[Current].queue] = Push(@, f)]

\* updateTokens: acquireFence, updateFence, then the token of every field and
\* the reuse token of its buffer.
UpdateTokens ==
    /\ session.step = "update"
    /\ FreeFence # {}
    /\ LET f == CHOOSE free \in FreeFence : TRUE  \* fences are interchangeable
       IN
         /\ AcquireFence(f)
         /\ storages' = [s \in Storage |->
              UpdatedToken(storages[s], AccessesTo(session.kernel, s), f, fences')]
    /\ buffers' = [b \in Buffer |->
         IF \E u \in cbs[Current].uses : u[2] = b
         THEN AddOrReplaceHazard(buffers[b], [queue |-> cbs[Current].queue, cb |-> Current])
         ELSE buffers[b]]
    /\ cbs' = [cbs EXCEPT ![Current].tracked = TRUE]
    /\ session' = [session EXCEPT !.step = "finish"]

\* acquireFence throws: the fence manager cannot create a fence, or the fence
\* it hands out is still bound.  The destructor of the session commits the
\* command buffer all the same.
UpdateTokensThrows ==
    /\ session.step = "update"
    /\ session' = [session EXCEPT !.step = "finish"]
    /\ UNCHANGED << cbs, fences, registry, storages, buffers >>

\* ~MpsKernelSession: endEncoding and commit.
Finish ==
    /\ session.step = "finish"
    /\ cbs' = [cbs EXCEPT ![Current].status = "committed"]
    /\ session' = [step |-> "idle", kernel |-> <<>>]
    /\ UNCHANGED << fences, registry, storages, buffers >>

(***************************************************************************)
(* The GPU (external): the command buffers of a queue run one after the    *)
(* other in the order they were committed, and an encoder starts when the  *)
(* updates it waits for are done.  A step is a whole run: two kernels that *)
(* could overlap are two kernels that could also run in the wrong order.   *)
(***************************************************************************)

GpuRun(i) ==
    /\ cbs[i].status = "committed"
    /\ \A j \in 1 .. i - 1 : cbs[j].queue = cbs[i].queue => cbs[j].status = "done"
    /\ \A j \in cbs[i].waits : cbs[j].status = "done"
    /\ cbs' = [cbs EXCEPT ![i].status = "done"]
    /\ UNCHANGED << fences, registry, storages, buffers, session >>

(***************************************************************************)
(* Maintenance of the registries (MpsFenceLifetimeManager).                *)
(***************************************************************************)

\* releaseReady, in a release build: every lease up to the last ready one is
\* taken for completed (markCompletedUnsafe) and released.
ReleaseReady(q) ==
    /\ LET end == ReadyEnd(registry[q])
           through == {registry[q].leases[i] : i \in {j \in Active(registry[q]) : j <= end}}
       IN  /\ end # 0
           /\ fences' = Forget(through \ {None})
           /\ registry' = [registry EXCEPT ![q] = ReleaseThrough(@, end)]
    /\ UNCHANGED << cbs, storages, buffers, session >>

ActiveFences(q) == {registry[q].leases[i] : i \in Active(registry[q])} \ {None}

\* waitUntilReady returns when every command buffer is complete.
WaitUntilReady(q) ==
    /\ Active(registry[q]) # {}
    /\ Idle
    /\ \A f \in ActiveFences(q) : IsReady(f)
    /\ fences' = Forget(ActiveFences(q))
    /\ registry' = [registry EXCEPT ![q] = EmptyRegistry]
    /\ UNCHANGED << cbs, storages, buffers, session >>

\* clear throws at the first lease that is not ready, having looked at the ones
\* before it.
ClearRefused(q) ==
    /\ LET busy == {i \in Active(registry[q]) :
                      registry[q].leases[i] # None /\ ~IsReady(registry[q].leases[i])}
       IN  /\ busy # {}
           /\ fences' = Forget({registry[q].leases[i] :
                                  i \in {j \in Active(registry[q]) : j < Min(busy)}} \ {None})
    /\ UNCHANGED << cbs, registry, storages, buffers, session >>

\* MpsResource::isCompleted on a fence token: leases found ready are released,
\* in place, up to the first that is not.
CheckFenceToken(s) ==
    /\ storages[s].state = "live"
    /\ LET t == storages[s]
           writeReady == t.write = None \/ IsReady(t.write)
           busy == {i \in DOMAIN t.reads : t.reads[i] # None /\ ~IsReady(t.reads[i])}
           upTo == IF ~writeReady THEN 0
                   ELSE IF busy = {} THEN Len(t.reads) ELSE Min(busy) - 1
           seen == {t.reads[i] : i \in 1 .. upTo} \union IF writeReady THEN {t.write} ELSE {}
       IN  /\ seen \ {None} # {}
           /\ fences' = Forget(seen \ {None})
           /\ storages' = [storages EXCEPT
                ![s].write = IF writeReady THEN None ELSE @,
                ![s].reads = [i \in DOMAIN @ |-> IF i <= upTo THEN None ELSE @[i]]]
    /\ UNCHANGED << cbs, registry, buffers, session >>

\* isCompleted on a reuse token.
HazardsDone(hazards) == \A i \in DOMAIN hazards : Finished(hazards[i].cb)

Next ==
    \/ \E s \in Storage : Build(s) \/ Drop(s) \/ CheckFenceToken(s)
    \/ \E q \in Queue, k \in Kernel : Begin(q, k)
    \/ WaitDependencies \/ UpdateTokens \/ UpdateTokensThrows \/ Finish
    \/ \E i \in DOMAIN cbs : GpuRun(i)
    \/ \E q \in Queue : ReleaseReady(q) \/ WaitUntilReady(q) \/ ClearRefused(q)

\* The GPU keeps running, and a kernel function that was entered returns.
Fairness ==
    /\ WF_vars(WaitDependencies) /\ WF_vars(UpdateTokens \/ UpdateTokensThrows)
    /\ WF_vars(Finish)
    /\ \A i \in 1 .. MaxKernels : WF_vars(i \in DOMAIN cbs /\ GpuRun(i))

Spec == Init /\ [][Next]_vars /\ Fairness

(***************************************************************************)
(* Properties.                                                             *)
(***************************************************************************)

Conflict(u, v) == Writes(u[3]) \/ Writes(v[3])

\* Two kernels that use one storage, at least one of them writing it, run in
\* the order they were submitted, whatever queues they are on: a fence of the
\* storage's token stands between them, whichever fences later kernels replaced
\* and whatever the registries released meanwhile.
ConflictsOrdered ==
    \A i, j \in DOMAIN cbs :
      (i < j /\ cbs[i].tracked /\ cbs[j].status = "done" /\ cbs[i].status # "done")
        => ~ \E u \in cbs[i].uses, v \in cbs[j].uses : u[1] = v[1] /\ Conflict(u, v)

\* A fence nobody leases is not bound and its last update has happened, so that
\* handing it out again disturbs no kernel and acquire never refuses it.  This
\* is what the registry is for: the tokens may drop a fence at any time.
FreeFencesIdle ==
    \A f \in FreeFence : CanBind(f) /\ Finished(fences[f].updated)

\* When the reuse token of a buffer reports completion, every kernel whose
\* tokens were updated and that used the buffer, through any storage, is done.
ReuseTokenCovers ==
    \A b \in Buffer : HazardsDone(buffers[b]) =>
      \A i \in DOMAIN cbs :
        (cbs[i].tracked /\ \E u \in cbs[i].uses : u[2] = b) => Finished(i)

\* When every fence of a storage's token is ready, every kernel that used the
\* storage is done: what isCompleted(FenceToken) answers.
FenceTokenCovers ==
    \A s \in Storage :
      (/\ storages[s].state = "live"
       /\ \A f \in (ToSet(storages[s].reads) \union {storages[s].write}) \ {None} : IsReady(f))
        => \A i \in DOMAIN cbs :
             (cbs[i].tracked /\ \E u \in cbs[i].uses : u[1] = s) => Finished(i)

\* The fences never make kernels wait for each other: every command buffer that
\* is committed completes, so waitUntilReady returns.
CommittedCompletes ==
    \A i \in 1 .. MaxKernels :
      (i \in DOMAIN cbs /\ cbs[i].status = "committed")
        ~> (i \in DOMAIN cbs /\ cbs[i].status = "done")

==============================================================================
