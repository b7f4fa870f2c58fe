-------------------------- MODULE ExecutionManagers --------------------------
(***************************************************************************)
(* The CPU, CUDA or MPS execution manager with all the managers below it,  *)
(* TensorApi with the storages and tensors on top, and the users of both.  *)
(* Every action is one call of the API, with everything it calls.          *)
(***************************************************************************)
EXTENDS ManagerKinds, SequencesExt, FiniteSetsExt, TLC

CONSTANTS
    Platforms,     \* executions to choose from: "cpu", "cuda", "mps"
    User,          \* lease variables of the users
    Devices,       \* devices the platform reports (a CPU is always one)
    Capacity, Growth,   \* of the payload pools
    MaxAcquires,   \* per execution, bound on the acquisitions of a behaviour
                   \* (a configuration of TensorApi counts as one)
    MaxFailures    \* bound on the platform calls that fail

VARIABLES
    platform,
    mgrs, holds, native, leaked, failed, misordered,   \* see ManagerTree
    terminated,    \* the process has ended
    acquires, failures

tree == << mgrs, holds, native, leaked, failed, misordered >>
vars == << platform, tree, terminated, acquires, failures >>

-----------------------------------------------------------------------------
(* The classes of payloads.                                                *)

PayloadTraits ==
    ("cpu_device" :> CpuDevicePayload) @@ ("cpu_buffer" :> CpuBufferPayload) @@
    ("cuda_device" :> CudaDevicePayload) @@ ("cuda_context" :> CudaContextPayload) @@
    ("cuda_buffer" :> CudaBufferPayload) @@ ("cuda_stream" :> CudaStreamPayload) @@
    ("cuda_event" :> CudaEventPayload) @@ ("cuda_module" :> CudaModulePayload) @@
    ("cuda_function" :> CudaFunctionPayload) @@
    ("mps_device" :> MpsDevicePayload) @@ ("mps_queue" :> MpsCommandQueuePayload) @@
    ("mps_heap" :> MpsHeapPayload) @@ ("mps_buffer" :> MpsBufferPayload) @@
    ("mps_library" :> MpsLibraryPayload) @@ ("mps_pipeline" :> MpsPipelinePayload) @@
    ("mps_graph" :> MpsGraphPayload) @@ ("mps_event" :> MpsEventPayload) @@
    ("mps_fence" :> MpsFencePayload) @@ ("mps_kernel_base" :> MpsKernelBasePayload) @@
    ("mps_kernel_metadata" :> MpsKernelMetadataPayload) @@
    ("cpu_storage" :> TypedStoragePayload) @@ ("mps_storage" :> TypedStoragePayload) @@
    ("tensor" :> TensorImplPayload)

ManagerTraits ==
    ("cpu_device" :> CpuDeviceManager) @@ ("cpu_buffer" :> CpuBufferManager) @@
    ("cuda_device" :> CudaDeviceManager) @@ ("cuda_context" :> CudaContextManager) @@
    ("cuda_buffer" :> CudaBufferManager) @@ ("cuda_stream" :> CudaStreamManager) @@
    ("cuda_event" :> CudaEventManager) @@ ("cuda_module" :> CudaModuleManager) @@
    ("cuda_function" :> CudaFunctionManager) @@
    ("mps_device" :> MpsDeviceManager) @@ ("mps_queue" :> MpsCommandQueueManager) @@
    ("mps_heap" :> MpsHeapManager) @@ ("mps_buffer" :> MpsBufferManager) @@
    ("mps_library" :> MpsLibraryManager) @@ ("mps_pipeline" :> MpsComputePipelineStateManager) @@
    ("mps_graph" :> MpsGraphManager) @@ ("mps_event" :> MpsEventManager) @@
    ("mps_fence" :> MpsFenceManager) @@ ("mps_kernel_base" :> MpsKernelBaseManager) @@
    ("mps_kernel_metadata" :> MpsKernelMetadataManager) @@
    ("cpu_storage" :> TypedStorageManager) @@ ("mps_storage" :> TypedStorageManager) @@
    ("tensor" :> TensorImplManager)

M == INSTANCE ManagerTree WITH Payload <- PayloadTraits, Manager <- ManagerTraits

\* What a call may ask of each class: a size, a kind of context, a key.
Requests(c) ==
    CASE c \in {"cpu_buffer", "cuda_buffer", "mps_buffer"} -> {"small", "large"}
      [] c = "cuda_context" -> {"Primary", "Owned"}
      [] c \in {"cuda_module", "cuda_function", "mps_heap", "mps_library", "mps_pipeline",
                "mps_graph", "mps_kernel_base", "mps_kernel_metadata"} -> {"small", "large"}
      [] OTHER -> {"none"}

DeviceClass == ("cpu" :> "cpu_device" @@ "cuda" :> "cuda_device" @@ "mps" :> "mps_device")[platform]
DeviceMgr == << DeviceClass >>
Device(i) == << DeviceClass, i >>
KernelBases == << "mps_kernel_base" >>
KernelMetadata == << "mps_kernel_metadata" >>
Storages == << IF platform = "cpu" THEN "cpu_storage" ELSE "mps_storage" >>
Tensors == << "tensor" >>

-----------------------------------------------------------------------------
(* Calls.                                                                  *)

S == [ mgrs |-> mgrs, holds |-> holds, native |-> native, leaked |-> leaked, failed |-> failed,
       misordered |-> misordered, status |-> "ok" ]

\* The call maps the state to s; at most one platform call of it fails.
Return(s, fail) ==
    /\ mgrs' = s.mgrs /\ holds' = s.holds /\ native' = s.native /\ leaked' = s.leaked
    /\ failed' = s.failed /\ misordered' = s.misordered
    /\ terminated' = (s.status = "terminate")
    /\ failures' = failures + Cardinality(fail)
    /\ UNCHANGED platform

Running == ~terminated

Spend == acquires < MaxAcquires[platform] /\ acquires' = acquires + 1

Failing(c) == IF failures < MaxFailures /\ PayloadTraits[c].native THEN {{}, {c}} ELSE {{}}

Then(s, F(_)) == IF s.status = "ok" THEN F(s) ELSE s

Init ==
    /\ platform \in Platforms
    /\ mgrs = [mp \in {} |-> << >>] /\ holds = {} /\ native = {} /\ leaked = {} /\ failed = {}
    /\ misordered = {} /\ terminated = FALSE
    /\ acquires = 0 /\ failures = 0

-----------------------------------------------------------------------------
(* Configuration and shutdown.                                             *)

\* configure of a device manager.  The capacity must be the number of devices:
\* on a mismatch it has already shut down what there was.
ConfigureDevices(s, n, fail) ==
    IF platform = "cpu" THEN M!Configure(s, DeviceMgr, 1, fail)
    ELSE IF n = Devices THEN M!Configure(s, DeviceMgr, n, fail)
    ELSE Then(M!Shutdown(s, DeviceMgr), M!Throw)

\* The execution manager: devices first, then the kernel managers of MPS.
ConfigureExecution(n, fail) ==
    LET s1 == ConfigureDevices(S, n, fail)
        Bases(s) == M!Configure(s, KernelBases, Capacity, {})
        Metadata(s) == M!Configure(s, KernelMetadata, Capacity, {})
    IN  /\ Running
        /\ Return(IF platform = "mps" THEN Then(Then(s1, Bases), Metadata) ELSE s1, fail)
        /\ UNCHANGED acquires

ShutdownAll ==
    IF platform # "mps" THEN M!Shutdown(S, DeviceMgr)
    ELSE M!Shutdown(M!Shutdown(M!Shutdown(S, KernelMetadata), KernelBases), DeviceMgr)

ShutdownExecution == Running /\ Return(ShutdownAll, {}) /\ UNCHANGED acquires

\* TensorApi::configure refuses to run twice; there is no CUDA storage.
ConfigureTensors ==
    /\ Running /\ platform # "cuda"
    /\ Return(IF Tensors \in DOMAIN mgrs THEN M!Throw(S)
              ELSE M!Configure(M!Configure(S, Storages, Capacity, {}), Tensors, Capacity, {}), {})
    /\ Spend

\* TensorApi::shutdown: the tensors, then the storages they hold.
ShutdownTensors ==
    /\ Running
    /\ Return(M!Shutdown(M!Shutdown(S, Tensors), Storages), {})
    /\ UNCHANGED acquires

-----------------------------------------------------------------------------
(* Acquisitions.                                                           *)

CanAcquire(u) ==
    /\ Running
    /\ Spend
    /\ M!HoldsOf(S, M!UserHolder(u)) = {}

HeldBy(u) == M!HoldsOf(S, M!UserHolder(u))

\* A device lease taken for the time of a call: what stays is the registry's.
\* Without the device the call throws.
Touch(s, i) ==
    IF DeviceMgr \notin DOMAIN s.mgrs \/ ~(i < M!PoolOf(s, DeviceMgr).size) THEN M!Throw(s)
    ELSE IF M!Registered(s, Device(i)) # {} THEN s
    ELSE M!Lease(s, M!Registry(DeviceMgr), Device(i), "none")

AcquireDevice(u, i) ==
    /\ CanAcquire(u)
    /\ LET WithDevice(s) == M!AcquireHandle(s, M!UserHolder(u), Device(i), "none")
       IN  Return(Then(Touch(S, i), WithDevice), {})

\* acquire of the manager at mp: one of a device, which the API reaches through
\* a device lease of its own; one of a payload the user holds; or one of the
\* kernel managers.
AcquirePayload(u, mp, req, fail) ==
    LET OfManager(s) == M!Acquire(s, M!UserHolder(u), mp, req, fail)
    IN  /\ CanAcquire(u)
        /\ Last(mp) \notin {DeviceClass, "tensor", "cpu_storage", "mps_storage"}
        /\ Len(mp) > 3 => \E v \in User : \E h \in HeldBy(v) : h.obj = Front(mp)
        /\ Return(Then(IF Len(mp) = 3 THEN Touch(S, mp[2]) ELSE S, OfManager), fail)

\* acquire(handle) of a payload some user holds.  Streams and queues, whose
\* managers would give it a second control block, are left to PoolManager.
AcquireByHandle(u, h) ==
    /\ CanAcquire(u)
    /\ ManagerTraits[M!ClassOf(h.obj)].registry /\ M!ClassOf(h.obj) # "mps_queue"
    /\ Return(M!AcquireHandle(S, M!UserHolder(u), h.obj, h.want), {})

ReleaseLease(u) ==
    /\ Running
    /\ HeldBy(u) # {}
    /\ Return(M!DropAll(S, HeldBy(u)), {})
    /\ UNCHANGED acquires

-----------------------------------------------------------------------------
(* Payloads that hold leases.                                              *)

\* MpsFenceLifetimeManager::acquire: a fence for the work on a queue, kept by
\* the queue until the work is done.
AddFence(u, fail) ==
    /\ Running /\ Spend
    /\ \E h \in HeldBy(u) :
        /\ M!ClassOf(h.obj) = "mps_queue"
        /\ Return(M!AcquirePlain(S, M!Object(h.obj), SubSeq(h.obj, 1, 2) \o << "mps_fence" >>,
                                 "none", fail), fail)

\* maintenanceReleaseReady of device i, when the work on the queues "done" has
\* completed: a queue without fences leaves the registry.
ReleaseReady(i, done) ==
    LET queues == Device(i) \o << "mps_queue" >>
        registered == M!HoldsOf(S, M!Registry(queues))
        s1 == M!DropAll(S, { h \in holds : \E q \in done : h.who = M!Object(q) })
        idle == { h \in registered : M!HoldsOf(s1, M!Object(h.obj)) = {} }
    IN  /\ Running /\ registered # {}
        /\ done \subseteq { h.obj : h \in registered }
        /\ Return(M!DropAll(s1, idle), {})
        /\ UNCHANGED acquires

\* MpsKernelBase::ensurePipelines on device i: for the key of the kernel, the
\* library, then the pipeline, whose lease the kernel base keeps.
EnsurePipelines(u, i, fail) ==
    \E h \in HeldBy(u) :
        LET key == mgrs[KernelBases].request[Last(h.obj)]
            libraries == Device(i) \o << "mps_library" >>
            configured == \E k \in M!HoldsOf(S, M!Object(h.obj)) : k.obj[2] = i
            library(s) == Append(libraries, s.mgrs[libraries].cache[key])
            Call == << "call", u >>
            Library(s) == M!AcquireKeyed(s, Call, libraries, key, fail)
            Pipeline(s) == M!AcquireKeyed(s, M!Object(h.obj), library(s) \o << "mps_pipeline" >>,
                                          key, fail)
        IN  /\ Running /\ Spend
            /\ M!ClassOf(h.obj) = "mps_kernel_base"
            /\ Return(IF configured THEN S ELSE M!DropHoldsOf(Then(Then(Touch(S, i), Library), Pipeline), Call), fail)

\* CpuStorage and MpsStorage: the device, on MPS the heap for this size, the
\* buffer, whose lease the storage keeps.
BuildStorage(s, o, size, fail) ==
    LET heaps == Device(0) \o << "mps_heap" >>
        heap(t) == Append(heaps, t.mgrs[heaps].cache[size])
        Call == << "call", o >>
        CpuBuffer(t) == M!AcquirePlain(t, M!Object(o), Device(0) \o << "cpu_buffer" >>, size, fail)
        Heap(t) == M!AcquireKeyed(t, Call, heaps, size, fail)
        MpsBuffer(t) == M!AcquirePlain(t, M!Object(o), heap(t) \o << "mps_buffer" >>, size, fail)
        Buffer(t) == IF platform = "cpu" THEN CpuBuffer(t) ELSE Then(Heap(t), MpsBuffer)
    IN  M!MarkCreated(M!DropHoldsOf(Then(Touch(s, 0), Buffer), Call), o, size)

\* TensorImplPoolTraits::create: a storage, whose lease the tensor keeps.
BuildTensor(s, o, size, fail) ==
    LET Storage(t, q) == BuildStorage(t, q, size, fail)
    IN  M!MarkCreated(M!AcquireFresh(s, M!Object(o), Storages, size, Storage), o, size)

CreateTensor(u, size, fail) ==
    LET Tensor(t, o) == BuildTensor(t, o, size, fail)
    IN  /\ CanAcquire(u)
        /\ Tensors \in DOMAIN mgrs
        /\ Return(M!AcquireFresh(S, M!UserHolder(u), Tensors, size, Tensor), fail)

\* createView, for transpose, slice, reshape, squeeze and unsqueeze: a tensor
\* with a copy of the storage lease of another.
CreateView(u, h) ==
    LET storage == CHOOSE k \in M!HoldsOf(S, M!Object(h.obj)) : TRUE
        View(s, o) == M!MarkCreated(M!CopyLease(s, storage, M!Object(o), storage.want), o, h.want)
    IN  /\ CanAcquire(u)
        /\ M!ClassOf(h.obj) = "tensor"
        /\ Return(M!AcquireFresh(S, M!UserHolder(u), Tensors, h.want, View), {})

-----------------------------------------------------------------------------
(* The specification.                                                      *)

Sizes == {"small", "large"}

\* What configure makes at once: devices and, in each, fences, queues and events.
ConfigureFailures ==
    IF failures = MaxFailures \/ platform # "mps" THEN {{}}
    ELSE {{}, {"mps_device"}, {"mps_fence"}, {"mps_queue"}, {"mps_event"}}

StorageFailures ==
    IF failures = MaxFailures THEN {{}}
    ELSE IF platform = "cpu" THEN {{}, {"cpu_buffer"}} ELSE {{}, {"mps_heap"}, {"mps_buffer"}}

Next ==
    \/ \E n \in {0, Devices}, fail \in ConfigureFailures : ConfigureExecution(n, fail)
    \/ ShutdownExecution
    \/ ConfigureTensors
    \/ ShutdownTensors
    \/ \E u \in User, i \in 0 .. (Devices - 1) : AcquireDevice(u, i)
    \/ \E u \in User, mp \in DOMAIN mgrs :
         \E req \in Requests(Last(mp)), fail \in Failing(Last(mp)) : AcquirePayload(u, mp, req, fail)
    \/ \E u, v \in User : \E h \in HeldBy(v) : AcquireByHandle(u, h)
    \/ \E u \in User : ReleaseLease(u)
    \/ \E u \in User, fail \in Failing("mps_fence") : AddFence(u, fail)
    \/ \E i \in 0 .. (Devices - 1), done \in SUBSET { h.obj : h \in holds } : ReleaseReady(i, done)
    \/ \E u \in User, i \in 0 .. (Devices - 1), fail \in Failing("mps_pipeline") :
         EnsurePipelines(u, i, fail)
    \/ \E u \in User, size \in Sizes, fail \in StorageFailures : CreateTensor(u, size, fail)
    \/ \E u, v \in User : \E h \in HeldBy(v) : CreateView(u, h)

Spec == Init /\ [][Next]_vars

-----------------------------------------------------------------------------
(* Properties.                                                             *)

\* As long as the process runs, what a lease refers to is there: its slot still
\* has the payload and the generation of the lease, and the platform objects of
\* the payload and of everything it lies in are live.
LeasedPayloadsLive ==
    Running => \A h \in holds :
        /\ M!ManagerOf(h.obj) \in DOMAIN mgrs
        /\ M!Created(S, h.obj)
        /\ M!PoolOf(S, M!ManagerOf(h.obj)).generations[Last(h.obj)] = h.generation
        /\ \A o \in M!Enclosing(h.obj) \cup {h.obj} : PayloadTraits[M!ClassOf(o)].native => o \in native

\* A platform object is released before the objects it was made from: buffers
\* before their heap, pipelines before their library, everything before its
\* device.
ReleasedInsideOut == misordered = {}

\* When the devices have been shut down nothing of them is left: every platform
\* object was released, unless its own creation threw, and no manager inside a
\* device is still configured.
ShutdownReleasesEverything ==
    Running /\ DeviceMgr \notin DOMAIN mgrs =>
        /\ native = {} /\ leaked \subseteq failed
        /\ \A mp \in DOMAIN mgrs : mp[1] # DeviceClass

\* A cached key finds a live payload that was made for that key, and a lease on
\* a payload found by key is on the payload of its key.
KeysFindTheirPayload ==
    Running =>
        /\ \A mp \in DOMAIN mgrs : \A key \in DOMAIN mgrs[mp].cache :
              LET i == mgrs[mp].cache[key]
              IN  M!AliveCached(S, mp, i) /\ mgrs[mp].request[i] = key
        /\ \A h \in holds :
              ManagerTraits[M!ClassOf(h.obj)].keyed =>
                 mgrs[M!ManagerOf(h.obj)].request[Last(h.obj)] = h.want

\* With no lease in a user's hands, the execution shuts down: the leases the
\* managers, queues and kernels hold among themselves are let go in an order in
\* which none is in the way of another.
UnusedExecutionShutsDown ==
    Running /\ (\A u \in User : HeldBy(u) = {}) => ShutdownAll.status = "ok"

\* acquire(size) of the buffer managers: "Acquire a buffer with specified size and
\* alignment" (cpu_buffer_manager.h).  The buffer a lease is on is as large as the
\* holder of the lease asked for, whoever the buffer was first made for.
BufferLargeEnough ==
    Running => \A h \in holds :
        (M!ClassOf(h.obj) \in {"cpu_buffer", "cuda_buffer", "mps_buffer"} /\ h.want = "large") =>
            mgrs[M!ManagerOf(h.obj)].request[Last(h.obj)] = "large"
=============================================================================
