CONSTANTS
    k1 = k1
    k2 = k2
    k3 = k3
    c1 = c1
    c2 = c2
    p1 = p1
    p2 = p2
    Conns <- Conns3
    Children <- Children2
    Passwords <- Passwords2
    MaxUid = 2
    MaxGid = 3
    GroupMax = 2
    NoAddr = NoAddr
    NoChild = NoChild
    NoPassword = NoPassword

SPECIFICATION Spec
SYMMETRY SymmetrySessions

INVARIANTS
    OnlineAddrIsLoggedIn
    EndsAgree
    SessionsAuthenticated
    TypeOK
    GroupBookkeeping

PROPERTY OnlyOwnSessionsEnd

CHECK_DEADLOCK FALSE
