---------------------------- MODULE ManagerKinds ----------------------------
(***************************************************************************)
(* How the managers of the CPU, CUDA and MPS executions differ: records    *)
(* for the payload, the manager's traits and the manager of each class.    *)
(*                                                                         *)
(* A payload record says whether the payload owns an object of the         *)
(* platform, and in which order the managers it embeds are configured when *)
(* it is created and shut down when it is reset.                           *)
(*                                                                         *)
(* The traits of a manager are what its types fix: the pool, how wide the  *)
(* generation of its handles is (1 for none), whether a released payload   *)
(* is destroyed, and whether the manager has a LeaseLifetimeRegistry, to   *)
(* keep a lease of its own on each payload it leased.  A manager record    *)
(* adds what its functions do: whether it finds payloads by key, whether   *)
(* configure makes all payloads, and whether it throws when one cannot be  *)
(* made.                                                                   *)
(***************************************************************************)
EXTENDS Integers, Sequences

\* A 32-bit generation: more values than any behaviour here uses.
Wide == 2^30

LeafPayload == [native |-> TRUE, configure |-> << >>, reset |-> << >>]
Traits(pool, generations, registry) ==
    [ pool |-> pool, generations |-> generations, registry |-> registry,
      destroy_on_release |-> FALSE, keyed |-> FALSE, eager |-> FALSE,
      checks_create_all |-> FALSE ]

-----------------------------------------------------------------------------
(* CPU.  There is no device object to release; a failure of createAll is   *)
(* ignored.                                                                *)

CpuDevicePayload == [ native |-> FALSE, configure |-> << "cpu_buffer" >>,
                      reset |-> << "cpu_buffer" >> ]
CpuDeviceManagerTraits == Traits("fixed", 1, TRUE)
CpuDeviceManager == [CpuDeviceManagerTraits EXCEPT !.eager = TRUE]

CpuBufferPayload == LeafPayload
CpuBufferManagerTraits == Traits("slot", Wide, FALSE)
CpuBufferManager == CpuBufferManagerTraits

-----------------------------------------------------------------------------
(* CUDA.                                                                   *)

CudaDevicePayload == [ native |-> FALSE, configure |-> << "cuda_context" >>,
                       reset |-> << "cuda_context" >> ]
CudaDeviceManagerTraits == Traits("fixed", 1, TRUE)
CudaDeviceManager ==
    [CudaDeviceManagerTraits EXCEPT !.eager = TRUE, !.checks_create_all = TRUE]

CudaContextPayload ==
    [ native |-> TRUE,
      configure |-> << "cuda_buffer", "cuda_stream", "cuda_event", "cuda_module" >>,
      reset |-> << "cuda_buffer", "cuda_stream", "cuda_event", "cuda_module" >> ]
CudaContextManagerTraits == Traits("slot", 256, FALSE)
CudaContextManager == CudaContextManagerTraits

CudaBufferPayload == LeafPayload
CudaBufferManagerTraits == Traits("slot", Wide, FALSE)
CudaBufferManager == CudaBufferManagerTraits

CudaStreamPayload == LeafPayload
CudaStreamManagerTraits == Traits("slot", 256, FALSE)
CudaStreamManager == CudaStreamManagerTraits

CudaEventPayload == LeafPayload
CudaEventManagerTraits == Traits("slot", 256, FALSE)
CudaEventManager == CudaEventManagerTraits

CudaModulePayload == [ native |-> TRUE, configure |-> << "cuda_function" >>,
                       reset |-> << "cuda_function" >> ]
CudaModuleManagerTraits == Traits("slot", 256, TRUE)
CudaModuleManager == [CudaModuleManagerTraits EXCEPT !.keyed = TRUE]

\* A function is part of its module and has no release of its own.
CudaFunctionPayload == [LeafPayload EXCEPT !.native = FALSE]
CudaFunctionManagerTraits == Traits("slot", 256, TRUE)
CudaFunctionManager == [CudaFunctionManagerTraits EXCEPT !.keyed = TRUE]

-----------------------------------------------------------------------------
(* MPS.                                                                    *)

\* Fault: the fences go before the queues that hold them.
MpsDevicePayloadFenceFirst ==
    [ native |-> TRUE,
      configure |-> << "mps_fence", "mps_queue", "mps_library", "mps_heap", "mps_graph", "mps_event" >>,
      reset |-> << "mps_fence", "mps_queue", "mps_heap", "mps_library", "mps_graph", "mps_event" >> ]

MpsDevicePayload ==
    [ native |-> TRUE,
      configure |-> << "mps_fence", "mps_queue", "mps_library", "mps_heap", "mps_graph", "mps_event" >>,
      reset |-> << "mps_queue", "mps_heap", "mps_library", "mps_graph", "mps_event", "mps_fence" >> ]
MpsDeviceManagerTraits == Traits("fixed", 1, TRUE)
MpsDeviceManager == [MpsDeviceManagerTraits EXCEPT !.eager = TRUE]

\* A queue leases fences when it is used; waitUntilReady drops them before the
\* queue is destroyed.
MpsCommandQueuePayload == LeafPayload
MpsCommandQueueManagerTraits == Traits("slot", 1, TRUE)
MpsCommandQueueManager ==
    [MpsCommandQueueManagerTraits EXCEPT !.eager = TRUE, !.checks_create_all = TRUE]

\* Fault: the buffers of a heap are left when it is reset.
MpsHeapPayloadUnreset == [ native |-> TRUE, configure |-> << "mps_buffer" >>, reset |-> << >> ]

MpsHeapPayload == [ native |-> TRUE, configure |-> << "mps_buffer" >>,
                    reset |-> << "mps_buffer" >> ]
MpsHeapManagerTraits == Traits("fixed", 1, TRUE)
MpsHeapManager == [MpsHeapManagerTraits EXCEPT !.keyed = TRUE]

MpsBufferPayload == LeafPayload
MpsBufferManagerTraits == Traits("slot", Wide, FALSE)
MpsBufferManager == MpsBufferManagerTraits

MpsLibraryPayload == [ native |-> TRUE, configure |-> << "mps_pipeline" >>,
                       reset |-> << "mps_pipeline" >> ]
MpsLibraryManagerTraits == Traits("fixed", 1, TRUE)
MpsLibraryManager == [MpsLibraryManagerTraits EXCEPT !.keyed = TRUE]

MpsPipelinePayload == LeafPayload
MpsComputePipelineStateManagerTraits == Traits("fixed", 1, TRUE)
MpsComputePipelineStateManager == [MpsComputePipelineStateManagerTraits EXCEPT !.keyed = TRUE]

\* Graphs are cached by key, and leased without a registry.
MpsGraphPayload == LeafPayload
MpsGraphManagerTraits == Traits("fixed", 256, FALSE)
MpsGraphManager == [MpsGraphManagerTraits EXCEPT !.keyed = TRUE]

MpsEventPayload == LeafPayload
MpsEventManagerTraits == Traits("slot", 256, FALSE)
MpsEventManager ==
    [MpsEventManagerTraits EXCEPT !.eager = TRUE, !.checks_create_all = TRUE]

MpsFencePayload == LeafPayload
MpsFenceManagerTraits == Traits("slot", 256, FALSE)
MpsFenceManager ==
    [MpsFenceManagerTraits EXCEPT !.eager = TRUE, !.checks_create_all = TRUE]

\* A kernel base holds pipeline leases, see EnsurePipelines.
MpsKernelBasePayload == [LeafPayload EXCEPT !.native = FALSE]
MpsKernelBaseManagerTraits == Traits("slot", 1, FALSE)
MpsKernelBaseManager == MpsKernelBaseManagerTraits

MpsKernelMetadataPayload == [LeafPayload EXCEPT !.native = FALSE]
MpsKernelMetadataManagerTraits == Traits("fixed", 1, FALSE)
MpsKernelMetadataManager == MpsKernelMetadataManagerTraits

-----------------------------------------------------------------------------
(* Storages and tensors: destroyed with their last lease.                  *)

TypedStoragePayload == [LeafPayload EXCEPT !.native = FALSE]
TypedStorageManagerTraits == [Traits("slot", Wide, FALSE) EXCEPT !.destroy_on_release = TRUE]
TypedStorageManager == TypedStorageManagerTraits

TensorImplPayload == [LeafPayload EXCEPT !.native = FALSE]
TensorImplManagerTraits == [Traits("slot", Wide, FALSE) EXCEPT !.destroy_on_release = TRUE]
TensorImplManager == TensorImplManagerTraits
=============================================================================
