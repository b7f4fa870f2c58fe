SPECIFICATION Spec
CONSTANTS
    Missing = Missing
    Malformed = Malformed
    MaskBits = 4
    InvalidIndex = InvalidIndex
    Unknown = Unknown
    IntegerTexts = {"12"}
    FloatTexts = {"1.5"}
    BooleanTexts = {"true"}
    NoParent = NoParent
    MaxIndex = 9
    NotIdentifiers = {"9x"}
    LowerCase <- MCLowerCase
    Initial <- MCInitial
    Variants <- MCVariants
    Hosts <- MCHosts
    MaxEdits = 2
INVARIANT OpsDescribeDocument
INVARIANT PromotionAndCastsConsistent
INVARIANT DevicesNameTheirArchitecture
INVARIANT FallbackReachesGeneric
INVARIANT DetectionFollowsDocument
CHECK_DEADLOCK FALSE
