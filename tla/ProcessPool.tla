----------------------------- MODULE ProcessPool -----------------------------
(***************************************************************************)
(* The process pool that both servers are built on (work_processpool.h;    *)
(* route_processpool.h has the same run_parent and run_child): a parent    *)
(* that learns of new connections on the listening socket and tells its    *)
(* children about them round robin, children that accept them, and the     *)
(* signals by which the pool is stopped.                                   *)
(*                                                                         *)
(* Every descriptor is registered edge triggered (addfd): an arrival makes *)
(* a descriptor ready once, epoll_wait hands that out once, and arrivals   *)
(* before that do not add up.  ready is what epoll_wait would return,      *)
(* batch what it returned and the for loop has not handled yet.            *)
(*                                                                         *)
(* The model begins when every process has run setup_sig_pipe.  What a     *)
(* child does for its clients is in ConnCounter, WorkServer, RouteServer.  *)
(***************************************************************************)
EXTENDS Integers, FiniteSets

CONSTANTS N,            \* m_process_number
          MaxArrivals   \* bound: connections that clients make

ASSUME ConstantsAssumption == N \in Nat \ {0} /\ MaxArrivals \in Nat

Children == 0..(N - 1)

VARIABLES
    arrived,      \* connections established so far
    accepted,     \* connections some child accepted
    notes,        \* <<c, n>>: the n-th notification lies unread in c's pipe
    notified,     \* notifications sent so far
    counter,      \* m_sub_process_counter
    pid,          \* pid[c]: m_sub_process[c].m_pid # -1
    running,      \* running[c]: the process of child c exists
    ready,        \* ready[c], batch[c]: events of child c, see above
    batch,
    m_stop,       \* m_stop[c]: the member in child c
    p_ready, p_batch, p_stop, p_running,     \* the same of the parent
    p_signals,    \* signals that lie unread in the parent's sig_pipefd
    sent,         \* history: sent[c], notifications the parent sent to c
    crowded,      \* history: a connection arrived while another one waited
    terminated    \* history: the parent was sent SIGTERM or SIGINT

parentvars == <<p_ready, p_batch, p_stop, p_running, p_signals>>
childvars == <<ready, batch, m_stop>>
vars == <<arrived, accepted, notes, notified, counter, pid, running, childvars,
          parentvars, sent, crowded, terminated>>

TypeOK ==
    /\ arrived \in 0..MaxArrivals
    /\ accepted \in 0..MaxArrivals
    /\ notified \in 0..MaxArrivals
    /\ notes \subseteq Children \X (1..notified)
    /\ counter \in Children
    /\ pid \in [Children -> BOOLEAN]
    /\ running \in [Children -> BOOLEAN]
    /\ ready \in [Children -> SUBSET {"pipe", "sig"}]
    /\ batch \in [Children -> SUBSET {"pipe", "sig"}]
    /\ m_stop \in [Children -> BOOLEAN]
    /\ p_ready \subseteq {"listen", "sig"}
    /\ p_batch \subseteq {"listen", "sig"}
    /\ p_stop \in BOOLEAN
    /\ p_running \in BOOLEAN
    /\ p_signals \subseteq {"CHLD", "TERM"}
    /\ sent \in [Children -> 0..MaxArrivals]
    /\ crowded \in BOOLEAN
    /\ terminated \in BOOLEAN

Init ==
    /\ arrived = 0
    /\ accepted = 0
    /\ notes = {}
    /\ notified = 0
    /\ counter = 0
    /\ pid = [c \in Children |-> TRUE]
    /\ running = [c \in Children |-> TRUE]
    /\ ready = [c \in Children |-> {}]
    /\ batch = [c \in Children |-> {}]
    /\ m_stop = [c \in Children |-> FALSE]
    /\ p_ready = {}
    /\ p_batch = {}
    /\ p_stop = FALSE
    /\ p_running = TRUE
    /\ p_signals = {}
    /\ sent = [c \in Children |-> 0]
    /\ crowded = FALSE
    /\ terminated = FALSE

Backlog == arrived - accepted
Unread(c) == {n \in 1..notified : <<c, n>> \in notes}

-----------------------------------------------------------------------------
(* What comes from outside                                                  *)

\* A client connects; the listening socket becomes ready in the parent.
Arrive ==
    /\ p_running
    /\ arrived < MaxArrivals
    /\ arrived' = arrived + 1
    /\ p_ready' = p_ready \cup {"listen"}
    /\ crowded' = (crowded \/ Backlog > 0)
    /\ UNCHANGED <<accepted, notes, notified, counter, pid, running, childvars,
                   p_batch, p_stop, p_running, p_signals, sent, terminated>>

\* sig_handler of the parent: the signal's number goes into its own pipe.
SignalParent(s) ==
    /\ p_signals' = p_signals \cup {s}
    /\ p_ready' = p_ready \cup {"sig"}

\* An operator stops the server.
Terminate ==
    /\ p_running
    /\ ~terminated
    /\ terminated' = TRUE
    /\ SignalParent("TERM")
    /\ UNCHANGED <<arrived, accepted, notes, notified, counter, pid, running,
                   childvars, p_batch, p_stop, p_running, sent,
                   crowded>>

\* Children C are sent SIGTERM: sig_handler of each.
SignalChildren(C) ==
    ready' = [c \in Children |-> IF c \in C /\ running[c]
                                   THEN ready[c] \cup {"sig"} ELSE ready[c]]

-----------------------------------------------------------------------------
(* run_parent                                                               *)

\* Faulty variant: level triggered, an event stays until it is dealt with.
StillReadyAll(r) == r

\* What stays ready once epoll_wait returned r: registered with EPOLLET.
StillReady(r) == {}

\* epoll_wait returns.
ParentWait ==
    /\ p_running /\ ~p_stop
    /\ p_batch = {} /\ p_ready # {}
    /\ p_batch' = p_ready
    /\ p_ready' = StillReady(p_ready)
    /\ UNCHANGED <<arrived, accepted, notes, notified, counter, pid, running,
                   childvars, p_stop, p_running, p_signals, sent, crowded, terminated>>

\* Faulty variants: always the first child; the counter does not wrap.
TurnIgnoresCounter(c) == pid[c] /\ \A d \in Children : pid[d] => c <= d
NextTurnNoWrap(c) == c + 1

NextTurn(c) == (c + 1) % N
Distance(c) == (c - counter + N) % N

\* The child whose turn it is: the first one from m_sub_process_counter on
\* whose m_pid is not -1.
Turn(c) == pid[c] /\ \A d \in Children : pid[d] => Distance(c) <= Distance(d)

\* One event on the listening socket: one notification to one child.  The
\* send fails unseen when that child is gone.
Dispatch(c) ==
    /\ p_running
    /\ "listen" \in p_batch
    /\ Turn(c)
    /\ counter' = NextTurn(c)
    /\ notified' = notified + 1
    /\ sent' = [sent EXCEPT ![c] = @ + 1]
    /\ IF running[c]
         THEN /\ notes' = notes \cup {<<c, notified + 1>>}
              /\ ready' = [ready EXCEPT ![c] = @ \cup {"pipe"}]
         ELSE UNCHANGED <<notes, ready>>
    /\ p_batch' = p_batch \ {"listen"}
    /\ UNCHANGED <<arrived, accepted, pid, running, batch, m_stop, p_ready,
                   p_stop, p_running, p_signals, crowded, terminated>>

\* Every m_pid is -1.
AllGone(p) == \A c \in Children : ~p[c]

\* No child is left: the parent stops and leaves the for loop.
DispatchToNobody ==
    /\ p_running
    /\ "listen" \in p_batch
    /\ AllGone(pid)
    /\ p_stop' = TRUE
    /\ p_batch' = {}
    /\ UNCHANGED <<arrived, accepted, notes, notified, counter, pid, running,
                   childvars, p_ready, p_running, p_signals, sent, crowded, terminated>>

\* Faulty variant: waitpid is called once.
ReapedOne == [c \in Children |-> pid[c] /\ (running[c] \/
                 \E d \in Children : d < c /\ ~running[d] /\ pid[d])]
\* What waitpid(-1, WNOHANG) in a loop leaves of the pids.
Reaped == [c \in Children |-> pid[c] /\ running[c]]

\* All bytes of the signal pipe: SIGCHLD reaps the children that ended and
\* stops the parent when none is left; SIGTERM and SIGINT go on to the rest.
ParentSignals ==
    /\ p_running
    /\ "sig" \in p_batch
    /\ IF "CHLD" \in p_signals
         THEN pid' = Reaped /\ p_stop' = AllGone(pid')
         ELSE UNCHANGED <<pid, p_stop>>
    /\ SignalChildren(IF "TERM" \in p_signals THEN {c \in Children : pid[c]}
                                              ELSE {})
    /\ p_signals' = {}
    /\ p_batch' = p_batch \ {"sig"}
    /\ UNCHANGED <<arrived, accepted, notes, notified, counter, running, batch,
                   m_stop, p_ready, p_running, sent, crowded, terminated>>

ParentExit ==
    /\ p_running
    /\ p_stop
    /\ p_batch = {}
    /\ p_running' = FALSE
    /\ UNCHANGED <<arrived, accepted, notes, notified, counter, pid, running,
                   childvars, p_ready, p_batch, p_stop, p_signals, sent,
                   crowded, terminated>>

-----------------------------------------------------------------------------
(* run_child                                                                *)

ChildWait(c) ==
    /\ running[c] /\ ~m_stop[c]
    /\ batch[c] = {} /\ ready[c] # {}
    /\ batch' = [batch EXCEPT ![c] = ready[c]]
    /\ ready' = [ready EXCEPT ![c] = StillReady(@)]
    /\ UNCHANGED <<arrived, accepted, notes, notified, counter, pid, running,
                   m_stop, parentvars, sent, crowded, terminated>>

\* Faulty variant: the last waiting connection is left in the backlog.
AcceptedAfterButOne(n) == IF arrived - n > 1 THEN n + 1 ELSE n

\* accept fails with EAGAIN when no connection waits.
AcceptedAfter(n) == IF arrived - n > 0 THEN n + 1 ELSE n

\* One event on the pipe: one notification is read, one accept is tried.
ChildAccepts(c) ==
    /\ running[c]
    /\ "pipe" \in batch[c]
    /\ \E n \in Unread(c) :
          /\ \A k \in Unread(c) : n <= k
          /\ notes' = notes \ {<<c, n>>}
    /\ accepted' = AcceptedAfter(accepted)
    /\ batch' = [batch EXCEPT ![c] = @ \ {"pipe"}]
    /\ UNCHANGED <<arrived, notified, counter, pid, running, ready, m_stop,
                   parentvars, sent, crowded, terminated>>

ChildSignals(c) ==
    /\ running[c]
    /\ "sig" \in batch[c]
    /\ m_stop' = [m_stop EXCEPT ![c] = TRUE]
    /\ batch' = [batch EXCEPT ![c] = @ \ {"sig"}]
    /\ UNCHANGED <<arrived, accepted, notes, notified, counter, pid, running,
                   ready, parentvars, sent, crowded, terminated>>

\* The process of child c ends; its pipe and what is in it are gone.
ChildEnds(c) ==
    /\ running' = [running EXCEPT ![c] = FALSE]
    /\ notes' = {e \in notes : e[1] # c}
    /\ ready' = [ready EXCEPT ![c] = {}]
    /\ batch' = [batch EXCEPT ![c] = {}]
    /\ SignalParent("CHLD")
    /\ UNCHANGED <<arrived, accepted, notified, counter, pid, m_stop, p_batch,
                   p_stop, p_running, sent, crowded, terminated>>

\* while(!m_stop) ends.
ChildExit(c) ==
    /\ running[c]
    /\ m_stop[c]
    /\ batch[c] = {}
    /\ ChildEnds(c)

\* The child dies of a signal or an exception nothing catches.
ChildCrash(c) ==
    /\ running[c]
    /\ ChildEnds(c)

-----------------------------------------------------------------------------
ParentStep ==
    \/ ParentWait \/ DispatchToNobody \/ ParentSignals \/ ParentExit
    \/ \E c \in Children : Dispatch(c)

ChildStep(c) ==
    ChildWait(c) \/ ChildAccepts(c) \/ ChildSignals(c) \/ ChildExit(c)

Next ==
    \/ Arrive \/ Terminate \/ ParentStep
    \/ \E c \in Children : ChildStep(c) \/ ChildCrash(c)

Spec == Init /\ [][Next]_vars

\* Each process that can run does; nobody has to connect, terminate or crash.
Fairness == WF_vars(ParentStep) /\ \A c \in Children : WF_vars(ChildStep(c))

FairSpec == Spec /\ Fairness

-----------------------------------------------------------------------------
(* Properties                                                               *)

\* There are never more notifications under way, on the listening socket's
\* event or in the pipes, than connections waiting: whatever the processes
\* interleave, a child that reads a notification finds a connection; and a
\* child with an event on its pipe has a notification to read there.
NotificationsHaveConnections ==
    /\ Cardinality(notes)
        + Cardinality({"listen"} \cap p_ready) + Cardinality({"listen"} \cap p_batch)
         <= Backlog
    /\ \A c \in Children : "pipe" \in ready[c] \cup batch[c] => Unread(c) # {}

\* As long as the parent has seen no child end, the numbers of notifications
\* two children were sent differ by at most one.
RoundRobinIsEven ==
    (\A c \in Children : pid[c]) =>
        \A c, d \in Children : sent[c] - sent[d] \in {-1, 0, 1}

\* Stopping the parent stops the pool, also when children crash meanwhile: no
\* process of it is left.
TerminationCompletes ==
    terminated ~> ~p_running /\ \A c \in Children : ~running[c]

\* A connection that arrives while no other waits is accepted, unless a child
\* ends: the event, the notification and the accept meet (run_parent,
\* run_child).
SpacedArrivalsAccepted ==
    \A n \in 1..MaxArrivals :
        arrived >= n ~>
            (accepted >= n \/ crowded \/ \E c \in Children : ~running[c])

-----------------------------------------------------------------------------
\* "a new connection is given to one of the children, round robin"
\* (route_processpool.h:423): as long as no child ends, every connection that
\* arrives is accepted.
ArrivalsAccepted ==
    \A n \in 1..MaxArrivals :
        arrived >= n ~> (accepted >= n \/ \E c \in Children : ~running[c])
=============================================================================
