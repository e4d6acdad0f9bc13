CONSTANTS
    N = 3
    MaxConns = 2
    MaxFds = 4
    MaxInbox = 1
    listen_sockfd = 4
    Calls <- CallsChain
    Leavers <- Leavers1

SPECIFICATION Spec

INVARIANTS
    TypeOK
    ChannelsLead
    SendsLead
    NothingUnnoticed

 

CHECK_DEADLOCK FALSE
