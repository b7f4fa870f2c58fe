SPECIFICATION Spec
CONSTANTS
    Parts = {"registry", "slots", "layout", "vectors", "calls"}
    Keys = {k1, k2, k3, k4}
    RegistryConfigs <- MCRegistryConfigs
    MaxFailures = 2
    SlotConfigs <- MCSlotConfigs
    SlotSizes = {1, 2, 3}
    MaxSlotViews = 3
    MaxRegions = 2
    MaxMapFailures = 1
    Shapes <- MCShapes
    NewShapes <- MCNewShapes
    Steps <- MCSteps
    MaxExtent = 3
    MaxSliced = 1
    MaxRank = 3
    MaxViewOps = 3
    InlineCapacity = 2
    BlockSizes = {1, 2}
    VectorValues = {"x", "y"}
    MaxVectorSize = 4
    ResizeSpilled = FALSE
    ShrinkInline = FALSE
    KernelDefs <- MCKernelDefs
    CallRequests <- MCCallRequests
    ParentOf <- MCParentOf
    Width <- MCWidth
    CallTensors = {t1, t2}
    Operands = {"in", "out"}
    RequiredOperands = {"in"}
    MaxBindings = 2
    Nothing = Nothing
INVARIANT RegistryTiersConsistent
INVARIANT SlotsTileMemory
INVARIANT ViewsKeepElements
INVARIANT VectorsHoldElements
INVARIANT CallsConsistent
