CONSTANTS
    N = 2
    MaxArrivals = 2

SPECIFICATION FairSpec

PROPERTY ArrivalsAccepted

CHECK_DEADLOCK FALSE
