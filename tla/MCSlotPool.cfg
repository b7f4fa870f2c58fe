\* Three slots, a generation field of three values, and enough releases of a slot
\* for the field to wrap.
CONSTANTS
    GenMod = 3
    InvalidIndex = 3
    DestroyOnRelease = FALSE
    StaleWindow = 3
    MaxReleases = 4
SPECIFICATION Spec
CONSTRAINT Bounded
INVARIANTS
    HeldExclusively
    NoSlotLost
    StaleRejected
PROPERTY ImplementsExclusiveSlots
