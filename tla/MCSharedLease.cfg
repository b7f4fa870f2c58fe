\* Three leases of different threads on two control blocks; the manager issues
\* three leases, so that a control block is reused while a release still runs.
\* The system stops once the bound on issued leases is reached.
CONSTANTS
    Lease = {l1, l2, l3}
    ControlBlock = {c1, c2}
    Payload = {p1, p2}
    MaxAcquires = 3
    None = None
SPECIFICATION Spec
SYMMETRY Symmetry
CHECK_DEADLOCK FALSE
INVARIANTS
    CountsExact
    LeasedBlockNotFree
    StrongKeepsPayloadUntilReuse
    BlocksReturned
    StrongPayloadsReturned
