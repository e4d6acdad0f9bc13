----------------------------- MODULE RouteServer -----------------------------
(***************************************************************************)
(* The route server's registry of work servers (route_server.cpp): a table *)
(* in shared memory that all children of the pool read and write without a *)
(* lock.  A child uses, as index into the table, the file descriptor of    *)
(* the connection it serves.  Work servers report their load over a        *)
(* connection they keep; a client asks once for the work server with the   *)
(* smallest load.                                                          *)
(*                                                                         *)
(* A child runs one handler at a time.  pc[c] says where it is:            *)
(*   loop                       between two calls of recv                  *)
(*   ip, port, connections      set_server_connections, about to write     *)
(*                              that field                                 *)
(*   test, less, min, rip, rport  get_min_connections_server at slot i[c]: *)
(*                              about to evaluate `!= -1', `< min', to     *)
(*                              read the new min, the ip, the port         *)
(*   answer                     about to send the reply                    *)
(* The build does not optimise, so these are separate memory accesses.  An *)
(* address is the pair of its ip and its port; that of peer p is <<p, p>>. *)
(***************************************************************************)
EXTENDS Integers, FiniteSets, Sequences

CONSTANTS Children,     \* child processes of the route server
          Servers,      \* work servers
          Clients,      \* clients
          FirstFd,      \* FirstFd[c]: lowest descriptor accept returns in c
          MaxConns,     \* MaxConns[c]: bound, connections c has at a time
          MAX_WORK_SERVER,  \* slots of the table, one for each descriptor
          Loads,        \* the numbers work servers report
          MaxInbox,     \* bound: messages unread on one connection
          Obtain,       \* message OBTAIN_SERVER_ADDR; a report is a number
          None          \* ip "\0" and port -1; also "no peer"

Peers == Servers \cup Clients

\* Descriptors child c gives to the connections it accepts.
Fds(c) == FirstFd[c] .. (FirstFd[c] + MaxConns[c] - 1)

ASSUME ConstantsAssumption ==
    /\ FirstFd \in [Children -> Nat]
    /\ MaxConns \in [Children -> Nat]
    /\ MAX_WORK_SERVER \in Nat \ {0}
    /\ \A c \in Children : FirstFd[c] + MaxConns[c] <= MAX_WORK_SERVER
    /\ Loads \subseteq Int
    /\ MaxInbox \in Nat
    /\ Servers \cap Clients = {}
    /\ None \notin Peers
    /\ None \notin [addr : Peers \X Peers, load : Int]
    /\ Obtain \notin Loads

Slots == 0 .. (MAX_WORK_SERVER - 1)

VARIABLES
    connections,  \* connections[f], ip[f], port[f]: slot f of share_mem
    ip, port,
    alive,        \* alive[c]: child c runs
    state,        \* state[p]: "new", "connected", "gone" (p closed its end,
                  \* the child has not read that yet) or "closed"
    at, fd,       \* at[p], fd[p]: the child and descriptor p has, while open
    inbox,        \* inbox[p]: messages of p that are unread
    pc, peer,     \* where child c is, and in whose handler
    new,          \* new[c]: new_connections
    i, min, ret,  \* i[c], min[c], ret[c]: locals of get_min_connections_server
    steady,       \* history: slots occupied since c's scan began
    undisturbed   \* history: children in whose scan nobody wrote the table yet

table == <<connections, ip, port>>
links == <<alive, state, at, fd, inbox>>
locals == <<peer, new, i, min, ret>>
history == <<steady, undisturbed>>
vars == <<table, links, pc, locals, history>>

Places == {"loop", "ip", "port", "connections", "test", "less", "min", "rip",
           "rport", "answer"}
States == {"new", "connected", "gone", "closed"}

TypeOK ==
    /\ connections \in [Slots -> Int]
    /\ ip \in [Slots -> Peers \cup {None}]
    /\ port \in [Slots -> Peers \cup {None}]
    /\ alive \in [Children -> BOOLEAN]
    /\ state \in [Peers -> States]
    /\ \A p \in Peers : state[p] \in {"connected", "gone"} =>
          at[p] \in Children /\ fd[p] \in Fds(at[p])
    /\ inbox \in [Peers -> Seq(Loads \cup {Obtain})]
    /\ pc \in [Children -> Places]
    /\ \A c \in Children : pc[c] # "loop" => peer[c] \in Peers
    /\ new \in [Children -> Int]
    /\ i \in [Children -> 0 .. MAX_WORK_SERVER]
    /\ \A c \in Children : pc[c] = "test" => i[c] < MAX_WORK_SERVER
    /\ min \in [Children -> Int]
    /\ ret \in [Children -> (Peers \cup {None}) \X (Peers \cup {None})]
    /\ steady \in [Children -> SUBSET Slots]
    /\ undisturbed \subseteq Children

Init ==
    /\ connections = [f \in Slots |-> -1]
    /\ ip = [f \in Slots |-> None]
    /\ port = [f \in Slots |-> None]
    /\ alive = [c \in Children |-> TRUE]
    /\ state = [p \in Peers |-> "new"]
    /\ at = [p \in Peers |-> None]
    /\ fd = [p \in Peers |-> 0]
    /\ inbox = [p \in Peers |-> <<>>]
    /\ pc = [c \in Children |-> "loop"]
    /\ peer = [c \in Children |-> None]
    /\ new = [c \in Children |-> 0]
    /\ i = [c \in Children |-> 0]
    /\ min = [c \in Children |-> -1]
    /\ ret = [c \in Children |-> <<None, None>>]
    /\ steady = [c \in Children |-> {}]
    /\ undisturbed = {}

Open(p) == state[p] \in {"connected", "gone"}
Goto(c, place) == pc' = [pc EXCEPT ![c] = place]

\* Writes v to connections of slot f; the histories follow.
WriteConnections(f, v) ==
    /\ connections' = [connections EXCEPT ![f] = v]
    /\ steady' = [c \in Children |-> IF v = -1 THEN steady[c] \ {f} ELSE steady[c]]
    /\ undisturbed' = {}

-----------------------------------------------------------------------------
(* The peers and the network                                                *)

\* report_connect of a work server; init_work_sockfd of a client.
Send(p) ==
    /\ state[p] = "connected"
    /\ Len(inbox[p]) < MaxInbox
    /\ \E m \in IF p \in Servers THEN Loads ELSE {Obtain} :
          inbox' = [inbox EXCEPT ![p] = Append(@, m)]
    /\ UNCHANGED <<table, alive, state, at, fd, pc, locals, history>>

\* The peer closes its end or dies; what it sent before is still delivered.
Leave(p) ==
    /\ state[p] = "connected"
    /\ state' = [state EXCEPT ![p] = "gone"]
    /\ UNCHANGED <<table, alive, at, fd, inbox, pc, locals, history>>

-----------------------------------------------------------------------------
(* Connections of a child                                                   *)

FreeFds(c) == Fds(c) \ {fd[p] : p \in {q \in Peers : Open(q) /\ at[q] = c}}

\* accept returns the lowest free descriptor; addfd, route_server::init.
Accept(c, p) ==
    /\ pc[c] = "loop"
    /\ alive[c]
    /\ state[p] = "new"
    /\ \E f \in FreeFds(c) :
          /\ \A g \in FreeFds(c) : f <= g
          /\ fd' = [fd EXCEPT ![p] = f]
    /\ at' = [at EXCEPT ![p] = c]
    /\ state' = [state EXCEPT ![p] = "connected"]
    /\ UNCHANGED <<table, alive, inbox, pc, locals, history>>

\* Faulty variant: a work server that leaves stays in the table.
ForgetsToRemove(f) == UNCHANGED <<connections, history>>

\* rmove_server_addr: clears the slot unless it is free already.
rmove_server_addr(f) ==
    IF connections[f] # -1 THEN WriteConnections(f, -1)
                           ELSE UNCHANGED <<connections, history>>

\* recv returns 0: rmove_server_addr, then removefd.
Hangup(c, p) ==
    /\ pc[c] = "loop"
    /\ alive[c]
    /\ state[p] = "gone" /\ at[p] = c
    /\ inbox[p] = <<>>
    /\ rmove_server_addr(fd[p])
    /\ state' = [state EXCEPT ![p] = "closed"]
    /\ at' = [at EXCEPT ![p] = None]
    /\ fd' = [fd EXCEPT ![p] = 0]
    /\ UNCHANGED <<ip, port, alive, inbox, pc, locals>>

\* recv returns all bytes that arrived, and process looks at the first
\* message in them only.
Receive(c, p) ==
    /\ pc[c] = "loop"
    /\ alive[c]
    /\ Open(p) /\ at[p] = c
    /\ inbox[p] # <<>>
    /\ inbox' = [inbox EXCEPT ![p] = <<>>]
    /\ peer' = [peer EXCEPT ![c] = p]

\* Faulty variant: the slot of a new work server gets no address.
FirstFieldLoad(f) == "connections"

\* What set_server_connections writes first: of a new work server the address.
FirstField(f) == IF connections[f] = -1 THEN "ip" ELSE "connections"

\* The first message is REPORT_CONNECT: set_server_connections asks whether
\* the slot is free before it writes anything.
ReceiveReport(c, p) ==
    /\ Receive(c, p)
    /\ Head(inbox[p]) # Obtain
    /\ new' = [new EXCEPT ![c] = Head(inbox[p])]
    /\ Goto(c, FirstField(fd[p]))
    /\ UNCHANGED <<table, alive, state, at, fd, i, min, ret, history>>

\* Faulty variant: the scan starts with a minimum of 0.
InitialMinZero == 0

\* int min = -1, "no minimum yet"
InitialMin == -1

\* The first message is OBTAIN_SERVER_ADDR: get_min_connections_server begins.
ReceiveObtain(c, p) ==
    /\ Receive(c, p)
    /\ Head(inbox[p]) = Obtain
    /\ i' = [i EXCEPT ![c] = 0]
    /\ min' = [min EXCEPT ![c] = InitialMin]
    /\ ret' = [ret EXCEPT ![c] = <<None, None>>]
    /\ Goto(c, "test")
    /\ steady' = [steady EXCEPT ![c] = {f \in Slots : connections[f] # -1}]
    /\ undisturbed' = undisturbed \cup {c}
    /\ UNCHANGED <<table, alive, state, at, fd, new>>

-----------------------------------------------------------------------------
(* set_server_connections                                                   *)

SetIp(c) ==
    /\ pc[c] = "ip"
    /\ ip' = [ip EXCEPT ![fd[peer[c]]] = peer[c]]
    /\ undisturbed' = {}
    /\ Goto(c, "port")
    /\ UNCHANGED <<connections, port, links, locals, steady>>

SetPort(c) ==
    /\ pc[c] = "port"
    /\ port' = [port EXCEPT ![fd[peer[c]]] = peer[c]]
    /\ undisturbed' = {}
    /\ Goto(c, "connections")
    /\ UNCHANGED <<connections, ip, links, locals, steady>>

SetConnections(c) ==
    /\ pc[c] = "connections"
    /\ WriteConnections(fd[peer[c]], new[c])
    /\ Goto(c, "loop")
    /\ peer' = [peer EXCEPT ![c] = None]
    /\ new' = [new EXCEPT ![c] = 0]
    /\ UNCHANGED <<ip, port, links, i, min, ret>>

-----------------------------------------------------------------------------
(* get_min_connections_server                                               *)

\* Faulty variant: the loop runs one slot too far.
LoopEndsLate(n) == n > MAX_WORK_SERVER

\* i < MAX_WORK_SERVER fails.
LoopEnds(n) == n >= MAX_WORK_SERVER

\* The next slot, or the end of the loop.
NextSlot(c) ==
    /\ i' = [i EXCEPT ![c] = @ + 1]
    /\ Goto(c, IF LoopEnds(i[c] + 1) THEN "answer" ELSE "test")

\* connections != -1; with no minimum yet that is all that is asked.
Test(c) ==
    /\ pc[c] = "test"
    /\ IF connections[i[c]] = -1
         THEN NextSlot(c)
         ELSE Goto(c, IF min[c] = -1 THEN "min" ELSE "less") /\ UNCHANGED i
    /\ UNCHANGED <<table, links, peer, new, min, ret, history>>

\* Faulty variant: the most loaded one is preferred.
BetterWhenLarger(n, m) == n > m

Better(n, m) == n < m

\* connections < min, which reads the slot again.
Less(c) ==
    /\ pc[c] = "less"
    /\ IF Better(connections[i[c]], min[c])
         THEN Goto(c, "min") /\ UNCHANGED i
         ELSE NextSlot(c)
    /\ UNCHANGED <<table, links, peer, new, min, ret, history>>

ReadMin(c) ==
    /\ pc[c] = "min"
    /\ min' = [min EXCEPT ![c] = connections[i[c]]]
    /\ Goto(c, "rip")
    /\ UNCHANGED <<table, links, peer, new, i, ret, history>>

ReadIp(c) ==
    /\ pc[c] = "rip"
    /\ ret' = [ret EXCEPT ![c][1] = ip[i[c]]]
    /\ Goto(c, "rport")
    /\ UNCHANGED <<table, links, peer, new, i, min, history>>

ReadPort(c) ==
    /\ pc[c] = "rport"
    /\ ret' = [ret EXCEPT ![c][2] = port[i[c]]]
    /\ NextSlot(c)
    /\ UNCHANGED <<table, links, peer, new, min, history>>

\* The handler of child c is over, and with it its locals.
HandlerEnds(c) ==
    /\ Goto(c, "loop")
    /\ peer' = [peer EXCEPT ![c] = None]
    /\ new' = [new EXCEPT ![c] = 0]
    /\ i' = [i EXCEPT ![c] = 0]
    /\ min' = [min EXCEPT ![c] = -1]
    /\ ret' = [ret EXCEPT ![c] = <<None, None>>]
    /\ steady' = [steady EXCEPT ![c] = {}]
    /\ undisturbed' = undisturbed \ {c}

\* send_msg: the address, or ERROR when its port is still -1.
Answer(c) ==
    /\ pc[c] = "answer"
    /\ HandlerEnds(c)
    /\ UNCHANGED <<table, links>>

-----------------------------------------------------------------------------
\* A child leaves run_child, or is killed wherever it is: its connections
\* close, the table stays as it is.
ChildExits(c) ==
    /\ alive[c]
    /\ alive' = [alive EXCEPT ![c] = FALSE]
    /\ state' = [p \in Peers |-> IF at[p] = c THEN "closed" ELSE state[p]]
    /\ inbox' = [p \in Peers |-> IF at[p] = c THEN <<>> ELSE inbox[p]]
    /\ at' = [p \in Peers |-> IF at[p] = c THEN None ELSE at[p]]
    /\ fd' = [p \in Peers |-> IF at[p] = c THEN 0 ELSE fd[p]]
    /\ HandlerEnds(c)
    /\ UNCHANGED table

Step(c) ==
    \/ SetIp(c) \/ SetPort(c) \/ SetConnections(c)
    \/ Test(c) \/ Less(c) \/ ReadMin(c) \/ ReadIp(c) \/ ReadPort(c)
    \/ Answer(c)

Next ==
    \/ \E p \in Peers :
          \/ Send(p) \/ Leave(p)
          \/ \E c \in Children :
                \/ Accept(c, p) \/ Hangup(c, p)
                \/ ReceiveReport(c, p) \/ ReceiveObtain(c, p)
    \/ \E c \in Children : Step(c) \/ ChildExits(c)

Spec == Init /\ [][Next]_vars

-----------------------------------------------------------------------------
(* Properties                                                               *)

\* No two children use one descriptor number.
FdsApart == \A c, d \in Children : c # d => Fds(c) \cap Fds(d) = {}

\* While children use different descriptors: an occupied slot of a living
\* child is that of a work server connected at this descriptor, under this
\* server's address, whoever held the descriptor before
\* (set_server_connections, rmove_server_addr).
OccupiedSlotHasOwner ==
    FdsApart =>
        \A c \in Children, f \in Slots :
            (alive[c] /\ f \in Fds(c) /\ connections[f] # -1) =>
                \E s \in Servers :
                    /\ Open(s) /\ at[s] = c /\ fd[s] = f
                    /\ ip[f] = s /\ port[f] = s

\* A client is told "no work server" only if no slot was occupied during the
\* whole scan, whatever was written meanwhile (get_min_connections_server).
NoneOnlyIfNone ==
    \A c \in Children :
        (pc[c] = "answer" /\ ret[c][2] = None) => steady[c] = {}

\* What get_min_connections_server computes on a table nobody writes: the
\* first slot with the smallest number of connections.
Occupied == {f \in Slots : connections[f] # -1}
FirstSmallest ==
    CHOOSE f \in Occupied : \A g \in Occupied :
        \/ connections[f] < connections[g]
        \/ connections[f] = connections[g] /\ f <= g

\* A scan during which nobody wrote the table answers with the address of the
\* first least loaded work server, or with none when there is none.
AnswerIsLeastLoaded ==
    \A c \in Children : (pc[c] = "answer" /\ c \in undisturbed) =>
        ret[c] = IF Occupied = {} THEN <<None, None>>
                 ELSE <<ip[FirstSmallest], port[FirstSmallest]>>

\* With different descriptors in all children the table implements Registry:
\* although address and load are written one by one and without a lock, a
\* slot becomes occupied in one step, with the whole address of one work
\* server, and keeps this address until it is free again.
Registry_ == INSTANCE Registry WITH
    Addrs <- {<<s, s>> : s \in Servers},
    Free <- None,
    entry <- [f \in Slots |->
                IF connections[f] = -1 THEN None
                ELSE [addr |-> <<ip[f], port[f]>>, load |-> connections[f]]]
ImplementsRegistry == Registry_!Spec

-----------------------------------------------------------------------------
(* A statement of the source's comments                                     *)

\* "if server_sockfd belongs to a work server, set its connections to -1: this
\* work server has left" (route_server.cpp:195): only a departing work server
\* empties a slot, and only its own.
OnlyOwnerLeaves ==
    [][\A p \in Clients : (state[p] = "gone" /\ state'[p] = "closed") =>
          connections' = connections]_vars
=============================================================================
