CONSTANTS
    Platforms = {"cpu", "cuda", "mps"}
    User = {u1, u2}
    u1 = u1
    u2 = u2
    Devices = 1
    Capacity = 1
    Growth = 1
    MaxAcquires <- Acquires
    MaxFailures = 1
SPECIFICATION Spec
SYMMETRY Symmetry
CHECK_DEADLOCK FALSE
INVARIANT LeasedPayloadsLive
INVARIANT ReleasedInsideOut
INVARIANT ShutdownReleasesEverything
INVARIANT KeysFindTheirPayload
INVARIANT UnusedExecutionShutsDown
