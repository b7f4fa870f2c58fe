\* Two size classes (blocks of 4 and of 8 bytes) above a minimum that is no power
\* of two, a chunk size no block size divides, and two buffers of device memory.
CONSTANTS
    MinBlock = 3
    MaxBlock = 7
    ChunkSize = 6
    Request = {2, 7, 8}
    Base = {m1, m2}
    NoBase = NoBase
SPECIFICATION Spec
INVARIANTS
    BlocksPartitionChunks
    CountsExact
    StacksUniform
PROPERTIES
    ReleaseReturnsAll
    ImplementsDisjointBuffers
    FlushEnds
