CONSTANTS
    N = 3
    MaxArrivals = 3

SPECIFICATION FairSpec

INVARIANTS
    TypeOK
    NotificationsHaveConnections
    RoundRobinIsEven

PROPERTIES
    TerminationCompletes
    SpacedArrivalsAccepted

CHECK_DEADLOCK FALSE
