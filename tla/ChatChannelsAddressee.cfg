CONSTANTS
    N = 3
    MaxConns = 3
    MaxFds = 6
    MaxInbox = 1
    listen_sockfd = 4
    Calls <- CallsFan
    Leavers <- Leavers2

SPECIFICATION Spec

INVARIANT MessagesReachAddressee

CHECK_DEADLOCK FALSE
