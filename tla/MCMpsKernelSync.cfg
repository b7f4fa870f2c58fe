CONSTANTS
    Queue = {q1, q2}
    Fence = {f1, f2}
    Storage = {s1, s2}
    Buffer = {b1}
    s1 = s1
    s2 = s2
    Kernel <- Kernels
    MaxKernels = 3
    None = None
SPECIFICATION Spec
INVARIANTS ConflictsOrdered FreeFencesIdle ReuseTokenCovers FenceTokenCovers
PROPERTY CommittedCompletes
CHECK_DEADLOCK FALSE
