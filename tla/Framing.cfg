CONSTANTS
    Capacity = 5
    Lengths = {2, 6}
    MaxAsks = 6

SPECIFICATION FairSpec

INVARIANTS
    TypeOK
    OwnRequestOnlyIfGone
    AlignedUntilFilled

PROPERTIES
    ImplementsExchange
    ExchangeEnds
    AloneIsShown

CHECK_DEADLOCK FALSE
