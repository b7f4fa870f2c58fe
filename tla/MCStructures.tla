----------------------------- MODULE MCStructures -----------------------------
(***************************************************************************)
(* Small instances of the sequential structures, each used by one thread   *)
(* or under one lock: the kernel registry, the hierarchical slot           *)
(* allocator, the dense tensor layout, the containers and the kernel call. *)
(* They share nothing, so that a behaviour moves one of them, chosen at    *)
(* the start.                                                              *)
(***************************************************************************)
EXTENDS KernelRegistry, SlotAllocator, TensorLayout, VectorStorage, KernelCall

CONSTANT Parts  \* the structures of this run

VARIABLE part   \* the structure that moves

vars == <<part, registryVars, slotVars, layoutVars, vectorVars, callVars>>

\* Capacities: the cache smaller and larger than main memory, and none at all.
MCRegistryConfigs == {[cache |-> 2, main |-> 3], [cache |-> 3, main |-> 2], [cache |-> 0, main |-> 0]}

\* Three levels, two equal levels with a large expansion, and a split in three.
MCSlotConfigs == {[levels |-> <<4, 2, 1>>, initial |-> 0, expand |-> 0],
                  [levels |-> <<2, 2, 1>>, initial |-> 2, expand |-> 4],
                  [levels |-> <<3, 1>>, initial |-> 6, expand |-> 0]}

MCShapes == {<<>>, <<3>>, <<2, 3>>, <<1, 2>>, <<0, 2>>, <<2, 1, 2>>}
MCNewShapes == {<<>>, <<-1>>, <<-1, -1>>, <<1>>, <<6>>, <<3, 2>>, <<2, -1>>, <<2, 3>>, <<2, 2>>,
                <<3, 1>>, <<0>>, <<2, 2, 2>>, <<1, 3, 2>>}
MCSteps == {-1, 1, 2}

\* Architectures 0 (generic), 1 (its child), 2 (the child's child) and 3,
\* generic for another execution.
MCParentOf == [a \in 0 .. 3 |-> IF a \in 1 .. 2 THEN a - 1 ELSE a]
MCWidth == [dtype |-> 1, op |-> 2, arch |-> 2, layout |-> 1, variant |-> 1]
MCKernel(op, arch, order, base, execute) ==
    [op |-> op, dtype |-> 1, arch |-> arch, layout |-> order, variant |-> 0,
     base |-> base, execute |-> execute]
MCKernelDefs == {MCKernel(2, 0, 0, "mps", TRUE), MCKernel(2, 1, 0, "none", FALSE),
                 MCKernel(2, 2, 1, "mps", TRUE), MCKernel(3, 2, 0, "mps", FALSE)}
MCCallRequests == {[op |-> 2, dtype |-> 1, arch |-> 2], [op |-> 3, dtype |-> 1, arch |-> 1]}

Init ==
    /\ part \in Parts
    /\ RegistryInit /\ SlotInit /\ LayoutInit /\ VectorInit /\ CallInit
    /\ part # "registry" => registryCfg = [cache |-> 2, main |-> 3]
    /\ part # "slots" => slotCfg.levels = <<4, 2, 1>>
    /\ part # "layout" => layout.shape = <<>>
    /\ part # "vectors" => vectorKind = "heap"

Next ==
    \/ part = "registry" /\ RegistryNext /\ UNCHANGED <<part, slotVars, layoutVars, vectorVars, callVars>>
    \/ part = "slots" /\ SlotNext /\ UNCHANGED <<part, registryVars, layoutVars, vectorVars, callVars>>
    \/ part = "layout" /\ LayoutNext /\ UNCHANGED <<part, registryVars, slotVars, vectorVars, callVars>>
    \/ part = "vectors" /\ VectorNext /\ UNCHANGED <<part, registryVars, slotVars, layoutVars, callVars>>
    \/ part = "calls" /\ CallNext /\ UNCHANGED <<part, registryVars, slotVars, layoutVars, vectorVars>>

Spec == Init /\ [][Next]_vars
=============================================================================
