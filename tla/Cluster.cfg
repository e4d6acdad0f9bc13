CONSTANTS
    c1 = c1
    c2 = c2
    a1 = a1
    a2 = a2
    Children <- Children2
    Servers <- Servers2
    Clients <- Clients2
    Addrs <- Addrs2
    Addr <- AddrApart
    Route = Route
    MaxEnds = 2
    None = None

SPECIFICATION FairSpec

INVARIANTS
    TypeOK
    FailsOnlyEarly
    TableOfThisRun
    EvenIfSpaced

PROPERTIES
    
    StartCompletes

CHECK_DEADLOCK FALSE
