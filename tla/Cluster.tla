------------------------------- MODULE Cluster -------------------------------
(***************************************************************************)
(* The programs together: how a work server becomes known to the route     *)
(* server (report_connect), how a client finds its work server             *)
(* (client/main.cpp, init_route_sockfd, init_work_sockfd), and what starts,*)
(* stops and crashes on the way do to both.                                *)
(*                                                                         *)
(* What the other modules show in detail is one step here: a handler of    *)
(* the route server (RouteServer), a change of a counter (ConnCounter), an *)
(* event on a listening socket, its notification and the accept it leads   *)
(* to (ProcessPool).  The table is the one of Registry, with one slot for  *)
(* every heartbeat connection.                                             *)
(*                                                                         *)
(* A member of Servers is one run of the work server program; runs with    *)
(* one address follow each other.  A member of Clients is one run of the   *)
(* client program.  Runs are numbered in the order they start.             *)
(***************************************************************************)
EXTENDS Integers, Sequences, FiniteSets

CONSTANTS Children,     \* child processes of the route server
          Servers,      \* runs of the work server
          Clients,      \* runs of the client
          Addrs,        \* addresses of work servers
          Addr,         \* Addr[s]: the address run s listens at
          Route,        \* the route server as a listener
          MaxEnds,      \* bound: children of the route server that end
          None          \* "nobody", "nothing", a free entry

Peers == Servers \cup Clients
Listeners == Servers \cup {Route}

ASSUME ConstantsAssumption ==
    /\ Addr \in [Servers -> Addrs]
    /\ MaxEnds \in Nat
    /\ Servers \subseteq Nat /\ Clients \subseteq Nat
    /\ IsFiniteSet(Clients)
    /\ Servers \cap Clients = {} /\ Route \notin Peers
    /\ Children # {}
    /\ None \notin Children \cup Addrs \cup [addr : Addrs, load : Nat]

Loads == 0..Cardinality(Clients)

VARIABLES
    alive,        \* children of the route server that run
    ends,         \* children of the route server that ended so far
    backlog,      \* backlog[l]: connections nobody accepted yet, in order
    ready,        \* ready[l]: an event on listening socket l is due
    entry,        \* the table of the route server, see Registry
    at,           \* at[p]: the child of the route server that accepted p
    srv,          \* srv[s]: "new", "up" or "down"
    hb,           \* hb[s]: the heartbeat connection: "none" yet, "open",
                  \* "gone" (s closed it, not read yet), "closed"
    inbox,        \* inbox[s]: the first report of s that is unread
    counted,      \* counted[s]: clients s counts, *share_mem their number
    cli,          \* cli[k]: where client k is in its life, see Stages
    told,         \* told[k]: the address the route server sent
    quiet,        \* history: nothing stopped, crashed or left so far
    early,        \* history: clients answered while the table was empty and
                  \* all was quiet
    spaced        \* history: quiet, and every answer was made on true loads

table == <<alive, ends, entry, at>>
wires == <<backlog, ready>>
servers == <<srv, hb, inbox, counted>>
clients == <<cli, told>>
history == <<quiet, early, spaced>>
vars == <<table, wires, servers, clients, history>>

\* "asking" has sent OBTAIN_SERVER_ADDR, "told" has the answer, "in" is
\* connected to a work server, "ended" has quit, lost its work server, or failed
\* at start-up, in an assertion or at a null pointer.
Stages == {"new", "asking", "told", "in", "ended"}

Table == INSTANCE Registry WITH Slots <- Servers, Free <- None

TypeOK ==
    /\ alive \subseteq Children
    /\ ends \in 0..MaxEnds
    /\ backlog \in [Listeners -> Seq(Peers)]
    /\ ready \in [Listeners -> BOOLEAN]
    /\ entry \in [Servers -> Table!Entries]
    /\ at \in [Peers -> Children \cup {None}]
    /\ srv \in [Servers -> {"new", "up", "down"}]
    /\ hb \in [Servers -> {"none", "open", "gone", "closed"}]
    /\ inbox \in [Servers -> Loads \cup {None}]
    /\ counted \in [Servers -> SUBSET Clients]
    /\ cli \in [Clients -> Stages]
    /\ told \in [Clients -> Addrs \cup {None}]
    /\ quiet \in BOOLEAN /\ spaced \in BOOLEAN
    /\ early \subseteq Clients

Init ==
    /\ alive = Children
    /\ ends = 0
    /\ backlog = [l \in Listeners |-> <<>>]
    /\ ready = [l \in Listeners |-> FALSE]
    /\ Table!Init
    /\ at = [p \in Peers |-> None]
    /\ srv = [s \in Servers |-> "new"]
    /\ hb = [s \in Servers |-> "none"]
    /\ inbox = [s \in Servers |-> None]
    /\ counted = [s \in Servers |-> {}]
    /\ cli = [k \in Clients |-> "new"]
    /\ told = [k \in Clients |-> None]
    /\ quiet = TRUE
    /\ early = {}
    /\ spaced = TRUE

\* Something stops, crashes or leaves: the histories of quiet times are over.
Disturb ==
    /\ quiet' = FALSE
    /\ early' = {}
    /\ spaced' = FALSE

-----------------------------------------------------------------------------
(* Listening sockets                                                        *)

\* connect succeeds: the connection waits, and makes an event due unless one
\* is due already (edge-triggered epoll).
Arrive(l, p) ==
    /\ backlog' = [backlog EXCEPT ![l] = Append(@, p)]
    /\ ready' = [ready EXCEPT ![l] = TRUE]

\* One event, one notification, one accept: the first that waits.
Take(l) ==
    /\ ready[l]
    /\ backlog[l] # <<>>
    /\ backlog' = [backlog EXCEPT ![l] = Tail(@)]
    /\ ready' = [ready EXCEPT ![l] = FALSE]

\* The notification went to a child that ended before it read it.
LoseNotification ==
    /\ ready[Route]
    /\ alive # Children
    /\ ready' = [ready EXCEPT ![Route] = FALSE]
    /\ UNCHANGED <<table, backlog, servers, clients, history>>

-----------------------------------------------------------------------------
(* Work servers                                                             *)

\* main, the pool, its parent; bind fails while another run has the address.
Start(s) ==
    /\ srv[s] = "new"
    /\ \A t \in Servers : t < s => srv[t] # "new"
    /\ \A t \in Servers : Addr[t] = Addr[s] => srv[t] # "up"
    /\ srv' = [srv EXCEPT ![s] = "up"]
    /\ UNCHANGED <<table, wires, hb, inbox, counted, clients, history>>

\* The heartbeat connection of an earlier run can make connect fail: it is
\* bound to the same two addresses.
MayFail(s) ==
    \/ alive = {}
    \/ \E t \in Servers \ {s} : Addr[t] = Addr[s] /\ srv[t] = "down"

\* report_connect: connect, once and for all.
HeartbeatConnects(s) ==
    /\ srv[s] = "up" /\ hb[s] = "none"
    /\ \/ /\ alive # {}
          /\ hb' = [hb EXCEPT ![s] = "open"]
          /\ Arrive(Route, s)
       \/ /\ MayFail(s)
          /\ hb' = [hb EXCEPT ![s] = "closed"]
          /\ UNCHANGED wires
    /\ UNCHANGED <<table, srv, inbox, counted, clients, history>>

\* One turn of report_connect's loop.  A report behind another unread one is
\* never looked at, one after the connection was lost goes nowhere, and one of
\* the number the table holds changes nothing.
Report(s) ==
    /\ srv[s] = "up" /\ hb[s] = "open"
    /\ inbox[s] = None
    /\ entry[s] \notin [addr : Addrs, load : {Cardinality(counted[s])}]
    /\ inbox' = [inbox EXCEPT ![s] = Cardinality(counted[s])]
    /\ UNCHANGED <<table, wires, srv, hb, counted, clients, history>>

\* A child of s accepts client k: work_server::init counts it, also when it
\* is gone already.
ServerAccepts(s) ==
    /\ srv[s] = "up"
    /\ Take(s)
    /\ counted' = [counted EXCEPT ![s] = @ \cup {Head(backlog[s])}]
    /\ UNCHANGED <<table, srv, hb, inbox, clients, history>>

\* recv of a child of s returns 0: share_mem_reduce.
ServerDrops(s, k) ==
    /\ srv[s] = "up"
    /\ k \in counted[s] /\ cli[k] = "ended"
    /\ counted' = [counted EXCEPT ![s] = @ \ {k}]
    /\ UNCHANGED <<table, wires, srv, hb, inbox, clients, history>>

\* All processes of s end, and with them its connections.
Stop(s) ==
    /\ srv[s] = "up"
    /\ srv' = [srv EXCEPT ![s] = "down"]
    /\ hb' = [hb EXCEPT ![s] = IF @ = "open" THEN "gone" ELSE @]
    /\ cli' = [k \in Clients |->
                 IF cli[k] = "in" /\
                    (k \in counted[s] \/ \E i \in DOMAIN backlog[s] : backlog[s][i] = k)
                   THEN "ended" ELSE cli[k]]
    /\ counted' = [counted EXCEPT ![s] = {}]
    /\ backlog' = [backlog EXCEPT ![s] = <<>>]
    /\ ready' = [ready EXCEPT ![s] = FALSE]
    /\ Disturb
    /\ UNCHANGED <<table, inbox, told>>

-----------------------------------------------------------------------------
(* The route server                                                         *)

\* A child accepts the first connection that waits.
RouteAccepts(c) ==
    /\ c \in alive
    /\ Take(Route)
    /\ at' = [at EXCEPT ![Head(backlog[Route])] = c]
    /\ UNCHANGED <<alive, ends, entry, servers, clients, history>>

\* Faulty variant: the heartbeat's socket is not bound.
SourceAddrUnbound(s) == CHOOSE a \in Addrs : a # Addr[s]

\* The address a heartbeat connection comes from: its socket is bound to the
\* address the work server listens at.
SourceAddr(s) == Addr[s]

\* set_server_connections with the first report that is unread
ReadReport(c, s) ==
    /\ c \in alive /\ at[s] = c
    /\ hb[s] \in {"open", "gone"}
    /\ inbox[s] # None
    /\ IF entry[s] = None THEN Table!Register(s, SourceAddr(s), inbox[s])
                          ELSE Table!Update(s, inbox[s])
    /\ inbox' = [inbox EXCEPT ![s] = None]
    /\ UNCHANGED <<alive, ends, at, wires, srv, hb, counted, clients,
                   history>>

\* Faulty variant: the slot is cleared only while it is the least loaded.
ClearedOnlyIfLeast(s) ==
    IF s \in Table!LeastLoaded THEN Table!Remove(s) ELSE UNCHANGED entry

\* rmove_server_addr
Cleared(s) == IF entry[s] # None THEN Table!Remove(s) ELSE UNCHANGED entry

\* recv returns 0 on a heartbeat connection.
ReadHangup(c, s) ==
    /\ c \in alive /\ at[s] = c
    /\ hb[s] = "gone"
    /\ inbox[s] = None
    /\ Cleared(s)
    /\ hb' = [hb EXCEPT ![s] = "closed"]
    /\ at' = [at EXCEPT ![s] = None]
    /\ UNCHANGED <<alive, ends, wires, srv, inbox, counted, clients,
                   history>>

\* Clients on their way to a work server that does not count them yet.
Underway == {k \in Clients : cli[k] = "told"} \cup
            {k \in Clients : cli[k] = "in" /\ \A s \in Servers : k \notin counted[s]}

\* The table names every work server with its true load.
TableIsTrue ==
    /\ Underway = {}
    /\ \A s \in Servers :
          entry[s] = [addr |-> Addr[s], load |-> Cardinality(counted[s])]

\* Faulty variant: a client may be sent to any work server.
ChoiceAny == Table!Occupied

Choice == Table!LeastLoaded

\* get_min_connections_server and its reply, which the client reads: the
\* address, or ERROR, on which main asserts.
Answer(c, k) ==
    /\ c \in alive /\ at[k] = c
    /\ cli[k] = "asking"
    /\ IF Table!Occupied = {}
         THEN /\ cli' = [cli EXCEPT ![k] = "ended"]
              /\ early' = IF quiet THEN early \cup {k} ELSE early
              /\ UNCHANGED told
         ELSE /\ \E s \in Choice : told' = [told EXCEPT ![k] = entry[s].addr]
              /\ cli' = [cli EXCEPT ![k] = "told"]
              /\ UNCHANGED early
    /\ at' = [at EXCEPT ![k] = None]
    /\ spaced' = (spaced /\ TableIsTrue)
    /\ UNCHANGED <<alive, ends, entry, wires, servers, quiet>>

\* Faulty variant: the connections stay open in a process that inherited them.
CutOffNobody(peers) == cli

\* Clients whose connection to the route server is closed unanswered: recv
\* returns 0, and a null pointer ends the program.
CutOff(peers) ==
    [k \in Clients |-> IF k \in peers /\ cli[k] = "asking" THEN "ended" ELSE cli[k]]

\* Connections end with the process or processes that hold them; work servers
\* report in vain from now on.
RouteCloses(peers) ==
    /\ hb' = [s \in Servers |->
                IF s \in peers /\ hb[s] \in {"open", "gone"} THEN "closed" ELSE hb[s]]
    /\ inbox' = [s \in Servers |-> IF s \in peers THEN None ELSE inbox[s]]
    /\ cli' = CutOff(peers)
    /\ at' = [p \in Peers |-> IF p \in Clients \cap peers THEN None ELSE at[p]]
    /\ Disturb

\* A child leaves run_child or is killed.  Its work servers stay in the
\* table.  With the last child the parent ends, and the listening socket.
ChildEnds(c) ==
    /\ c \in alive
    /\ ends < MaxEnds
    /\ ends' = ends + 1
    /\ alive' = alive \ {c}
    /\ IF alive = {c}
         THEN /\ RouteCloses({p \in Peers : at[p] = c} \cup
                             {backlog[Route][i] : i \in DOMAIN backlog[Route]})
              /\ backlog' = [backlog EXCEPT ![Route] = <<>>]
              /\ ready' = [ready EXCEPT ![Route] = FALSE]
         ELSE RouteCloses({p \in Peers : at[p] = c}) /\ UNCHANGED wires
    /\ UNCHANGED <<entry, srv, counted, told>>

\* Faulty variant: a new route server finds the old table in shared memory.
FreshTableKept == entry

\* Faulty variant: slots are filled with zeroes, which is a load.
FreshTableZeroed == [s \in Servers |-> [addr |-> None, load |-> 0]]

\* The pool's constructor clears the table, whatever the shared memory holds.
FreshTable == [s \in Servers |-> None]

\* The route server is started again.
RouteStarts ==
    /\ alive = {}
    /\ alive' = Children
    /\ entry' = FreshTable
    /\ at' = [p \in Peers |-> None]
    /\ UNCHANGED <<ends, wires, servers, clients, history>>

-----------------------------------------------------------------------------
(* Clients                                                                  *)

\* init_route_sockfd and the request of init_work_sockfd; main asserts that
\* the connection succeeds.
Ask(k) ==
    /\ cli[k] = "new"
    /\ \A j \in Clients : j < k => cli[j] # "new"
    /\ IF alive # {}
         THEN cli' = [cli EXCEPT ![k] = "asking"] /\ Arrive(Route, k)
         ELSE cli' = [cli EXCEPT ![k] = "ended"] /\ UNCHANGED wires
    /\ UNCHANGED <<table, servers, told, history>>

\* The rest of init_work_sockfd; main asserts that somebody listens there.
Enter(k) ==
    /\ cli[k] = "told"
    /\ \/ \E s \in Servers :
             /\ srv[s] = "up" /\ Addr[s] = told[k]
             /\ cli' = [cli EXCEPT ![k] = "in"]
             /\ Arrive(s, k)
       \/ /\ \A s \in Servers : Addr[s] = told[k] => srv[s] # "up"
          /\ cli' = [cli EXCEPT ![k] = "ended"]
          /\ UNCHANGED wires
    /\ told' = [told EXCEPT ![k] = None]
    /\ UNCHANGED <<table, servers, history>>

\* The user quits.
Leave(k) ==
    /\ cli[k] = "in"
    /\ cli' = [cli EXCEPT ![k] = "ended"]
    /\ Disturb
    /\ UNCHANGED <<table, wires, servers, told>>

-----------------------------------------------------------------------------
RouteStep(c) ==
    \/ RouteAccepts(c)
    \/ \E s \in Servers : ReadReport(c, s) \/ ReadHangup(c, s)
    \/ \E k \in Clients : Answer(c, k)

ServerStep(s) ==
    \/ HeartbeatConnects(s) \/ Report(s) \/ ServerAccepts(s)
    \/ \E k \in Clients : ServerDrops(s, k)

Next ==
    \/ \E c \in Children : RouteStep(c) \/ ChildEnds(c)
    \/ \E s \in Servers : ServerStep(s) \/ Start(s) \/ Stop(s)
    \/ \E k \in Clients : Ask(k) \/ Enter(k) \/ Leave(k)
    \/ LoseNotification
    \/ RouteStarts

Spec == Init /\ [][Next]_vars

\* Every process that can run runs: the parents hand events on, a child looks
\* at every connection that is ready, the heartbeat thread and the starting
\* clients go on.  Nobody has to start, stop, crash, leave or ask.
Fairness ==
    /\ WF_vars(\E c \in Children : RouteAccepts(c))
    /\ \A s \in Servers :
          /\ WF_vars(\E c \in Children : ReadReport(c, s) \/ ReadHangup(c, s))
          /\ WF_vars(HeartbeatConnects(s) \/ Report(s))
          /\ WF_vars(ServerAccepts(s))
    /\ \A k \in Clients :
          /\ WF_vars(\E c \in Children : Answer(c, k))
          /\ WF_vars(Enter(k))

FairSpec == Spec /\ Fairness

-----------------------------------------------------------------------------
(* Properties                                                               *)

\* While nothing has stopped, crashed or left, a client fails at start-up
\* only if it was answered before the first report was in: whatever address
\* the table held was one where the work server listened, until the client
\* got there (report_connect, get_min_connections_server, init_work_sockfd).
FailsOnlyEarly ==
    quiet => \A k \in Clients : cli[k] = "ended" => k \in early

\* The table names only work servers whose heartbeat connection this run of
\* the route server accepted, however often it was started again.
TableOfThisRun == \A s \in Servers : entry[s] # None => at[s] # None

\* If every client was answered when all work servers were in the table with
\* their true loads and nobody was on the way, and nothing stopped or left,
\* then the work servers have the same number of clients but for one.
EvenIfSpaced ==
    spaced =>
        \A s, t \in Servers : Cardinality(counted[s]) <= Cardinality(counted[t]) + 1

\* The table catches up with every work server whose connection a child
\* accepted: it names the server while it runs and forgets it when it has
\* stopped, though it stopped before its first report was read, and unless
\* the child ends (process and rmove_server_addr of the route server,
\* report_connect).
TableFollows ==
    \A s \in Servers :
        at[s] \in alive ~>
            \/ at[s] \in Children \ alive
            \/ srv[s] = "up" /\ entry[s] # None
            \/ srv[s] = "down" /\ entry[s] = None

\* The start-up of a client comes to an end: it is served or fails, or it is
\* left waiting on a listening socket without an event.
LeftWaiting(k) ==
    \E l \in Listeners : ~ready[l] /\ \E i \in DOMAIN backlog[l] : backlog[l][i] = k
StartCompletes ==
    \A k \in Clients :
        cli[k] = "asking" ~>
            \/ cli[k] = "ended"
            \/ \E s \in Servers : k \in counted[s]
            \/ LeftWaiting(k)
=============================================================================
