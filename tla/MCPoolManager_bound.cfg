CONSTANTS
    Lease = {l1, l2, l3}
    PayloadGenMod = 4
    CbGenMod = 4
    PayloadLimit = 2
    CbLimit = 2
    PayloadGrowth = 1
    CbGrowth = 1
    DestroyOnRelease = FALSE
    Bindable = TRUE
    Weak = TRUE
    Reacquire = TRUE
    BlockSizes = {1, 2}
    MaxPayloadReuse = 1
    MaxBlockReuse = 1
SPECIFICATION Spec
CONSTRAINT Bounded
SYMMETRY Symmetry
INVARIANTS CountsExact StrongKeepsPayload FreeBlocksBindable BlocksReturned OneBlockPerPayload
