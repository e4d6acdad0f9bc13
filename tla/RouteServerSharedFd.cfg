CONSTANTS
    c1 = c1
    c2 = c2
    s1 = s1
    s2 = s2
    q1 = q1
    q2 = q2
    Children <- Children2
    Servers <- Servers1
    Clients <- Clients2
    FirstFd <- FirstFdShared
    MaxConns <- MaxConns21
    Loads = {0}
    MaxInbox = 1
    MAX_WORK_SERVER = 2
    Obtain = Obtain
    None = None

SPECIFICATION Spec

PROPERTY OnlyOwnerLeaves

CHECK_DEADLOCK FALSE
