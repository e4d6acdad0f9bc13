CONSTANTS
    k1 = k1
    k2 = k2
    k3 = k3
    c1 = c1
    c2 = c2
    p1 = p1
    p2 = p2
    Conns <- Conns2
    Children <- Children2
    Passwords <- Passwords1
    MaxUid = 1
    MaxGid = 2
    GroupMax = 1
    NoAddr = NoAddr
    NoChild = NoChild
    NoPassword = NoPassword

SPECIFICATION Spec

INVARIANT GroupQuota

CHECK_DEADLOCK FALSE
