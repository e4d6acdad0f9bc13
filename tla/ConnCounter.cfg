CONSTANTS
    c1 = c1
    c2 = c2
    k1 = k1
    k2 = k2
    k3 = k3
    Children <- Children2
    Conns <- Conns2
    NoConn = NoConn

SPECIFICATION FairSpec

INVARIANTS
    TypeOK
    OneInside
    ExactCount
    QuietLoad
    SemaphoreNotLost

PROPERTIES
    WaiterGetsIn
    ImplementsLoadCounter

CHECK_DEADLOCK FALSE
