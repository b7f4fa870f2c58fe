SPECIFICATION Spec
CONSTANTS
    Parts = {"vectors"}
    Keys = {k1, k2, k3, k4}
    RegistryConfigs <- MCRegistryConfigs
    MaxFailures = 1
    SlotConfigs <- MCSlotConfigs
    SlotSizes = {1, 2, 3}
    MaxSlotViews = 3
    MaxRegions = 2
    MaxMapFailures = 1
    Shapes <- MCShapes
    NewShapes <- MCNewShapes
    Steps <- MCSteps
    MaxExtent = 3
    MaxSliced = 1
    MaxRank = 3
    MaxViewOps = 3
    InlineCapacity = 2
    BlockSizes = {1, 2}
    VectorValues = {"x", "y"}
    MaxVectorSize = 4
    ResizeSpilled = TRUE
    ShrinkInline = TRUE
    KernelDefs <- MCKernelDefs
    CallRequests <- MCCallRequests
    ParentOf <- MCParentOf
    Width <- MCWidth
    CallTensors = {t1, t2}
    Operands = {"in", "out"}
    RequiredOperands = {"in"}
    MaxBindings = 2
    Nothing = Nothing
INVARIANT ElementsConstructed
