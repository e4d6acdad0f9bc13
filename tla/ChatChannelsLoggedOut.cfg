CONSTANTS
    N = 2
    MaxConns = 1
    MaxFds = 2
    MaxInbox = 1
    listen_sockfd = 4
    Calls <- CallsOne
    Leavers <- Leavers2

SPECIFICATION Spec

PROPERTY LoggedOutReceivesNothing

CHECK_DEADLOCK FALSE
