CONSTANTS
    c1 = c1
    c2 = c2
    s1 = s1
    s2 = s2
    q1 = q1
    q2 = q2
    Children <- Children2
    Servers <- Servers2
    Clients <- Clients1
    FirstFd <- FirstFdApart
    MaxConns <- MaxConns21
    Loads = {0, 1}
    MaxInbox = 1
    MAX_WORK_SERVER = 3
    Obtain = Obtain
    None = None

SPECIFICATION Spec
SYMMETRY SymmetryServers

INVARIANTS
    TypeOK
    OccupiedSlotHasOwner
    NoneOnlyIfNone
    AnswerIsLeastLoaded

PROPERTY ImplementsRegistry

CHECK_DEADLOCK FALSE
