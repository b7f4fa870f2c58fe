\* The last strong and the last weak lease are released concurrently, and the
\* control block is reused while the strong release still runs.
CONSTANTS
    Lease = {l1, l2, l3}
    ControlBlock = {c1}
    Payload = {p1, p2}
    MaxAcquires = 2
    None = None
SPECIFICATION Spec
SYMMETRY Symmetry
CHECK_DEADLOCK FALSE
INVARIANT StrongKeepsPayload
