---------------------------- MODULE ConnCounter ----------------------------
(***************************************************************************)
(* The connection counter of one work server machine: *share_mem, an int   *)
(* in a shared mapping that every child process of the pool increments     *)
(* when it accepts a client (work_server::init) and decrements when the    *)
(* client leaves (work_server::process), under a System V semaphore taken  *)
(* with SEM_UNDO (work_server::pv), and that the heartbeat thread of the   *)
(* parent reads without the semaphore (report_connect).                    *)
(*                                                                         *)
(* A child is single threaded.  pc[c] says where it is:                    *)
(*   loop    in epoll_wait or between two events of a batch                *)
(*   p       about to take, or asleep on, the semaphore                    *)
(*   load    holds the semaphore, has not read *share_mem                  *)
(*   store   has read it into a register, has not written it back          *)
(*   v       has written it, has not released the semaphore                *)
(*   exited  left run_child, or died                                       *)
(* The build has no -O flag: `*share_mem += 1' is a read and a write.      *)
(***************************************************************************)
EXTENDS Integers, FiniteSets

CONSTANTS Children,     \* child processes of the pool
          Conns,        \* client connections; a connection is used once
          NoConn        \* "no connection": not a member of Conns

ASSUME ConstantsAssumption ==
    /\ IsFiniteSet(Conns)
    /\ NoConn \notin Conns

VARIABLES
    fresh,        \* connections no child has accepted yet
    held,         \* held[c]: sockets in c's epoll table (when it exited, for
                  \* a child that did: the kernel closes them, nobody counts)
    pc,           \* pc[c]: where child c is, see above
    op,           \* op[c]: 1 or -1, the change c is making or made last
    cur,          \* cur[c]: the connection that change is for
    tmp,          \* tmp[c]: the value c read from *share_mem
    share_mem,    \* *share_mem
    semval,       \* value of the semaphore
    semadj,       \* semadj[c]: what the kernel adds to semval when c exits
    sig,          \* sig[c]: SIGTERM or SIGINT lies unread in c's sig_pipefd
    m_stop,       \* m_stop[c]: member m_stop of the pool in process c
    reported,     \* the last number the heartbeat thread sent, 0 before
    counted,      \* history: connections added and not yet subtracted
    interrupted   \* history: children whose semop a signal interrupted

sysvars == <<fresh, held, pc, op, cur, tmp, share_mem, semval, semadj,
             sig, m_stop>>
vars == <<fresh, held, pc, op, cur, tmp, share_mem, semval, semadj, sig,
          m_stop, reported, counted, interrupted>>

Places == {"loop", "p", "load", "store", "v", "exited"}

TypeOK ==
    /\ fresh \subseteq Conns
    /\ held \in [Children -> SUBSET Conns]
    /\ pc \in [Children -> Places]
    /\ op \in [Children -> {1, -1}]
    /\ cur \in [Children -> Conns \cup {NoConn}]
    /\ tmp \in [Children -> Int]
    /\ share_mem \in Int
    /\ semval \in Nat
    /\ semadj \in [Children -> Int]
    /\ sig \in [Children -> BOOLEAN]
    /\ m_stop \in [Children -> BOOLEAN]
    /\ reported \in Int
    /\ counted \subseteq Conns
    /\ interrupted \subseteq Children

Init ==
    /\ fresh = Conns
    /\ held = [c \in Children |-> {}]
    /\ pc = [c \in Children |-> "loop"]
    /\ op = [c \in Children |-> 1]
    /\ cur = [c \in Children |-> NoConn]
    /\ tmp = [c \in Children |-> 0]
    /\ share_mem = 0
    /\ semval = 1
    /\ semadj = [c \in Children |-> 0]
    /\ sig = [c \in Children |-> FALSE]
    /\ m_stop = [c \in Children |-> FALSE]
    /\ reported = 0
    /\ counted = {}
    /\ interrupted = {}

Alive(c) == pc[c] # "exited"
InSection(c) == pc[c] \in {"load", "store", "v"}

-----------------------------------------------------------------------------
(* Operations of a child process                                            *)

\* Starts share_mem_increase (d = 1) or share_mem_reduce (d = -1) for k.
StartChange(c, k, d) ==
    /\ op' = [op EXCEPT ![c] = d]
    /\ cur' = [cur EXCEPT ![c] = k]
    /\ pc' = [pc EXCEPT ![c] = "p"]

\* run_child, event on the pipe: accept, addfd, users[connfd].init.
Accept(c, k) ==
    /\ pc[c] = "loop"
    /\ k \in fresh
    /\ fresh' = fresh \ {k}
    /\ held' = [held EXCEPT ![c] = @ \cup {k}]
    /\ StartChange(c, k, 1)
    /\ UNCHANGED <<tmp, share_mem, semval, semadj, sig, m_stop, reported,
                   counted, interrupted>>

\* Faulty variant: the socket stays registered.
RemovedKeepsSocket(s, k) == s

\* What is left in the epoll table of a child once it dropped connection k.
Removed(s, k) == s \ {k}

\* process, recv returns 0 or an error: removefd, logout, share_mem_reduce.
Disconnect(c, k) ==
    /\ pc[c] = "loop"
    /\ k \in held[c]
    /\ held' = [held EXCEPT ![c] = Removed(@, k)]
    /\ StartChange(c, k, -1)
    /\ UNCHANGED <<fresh, tmp, share_mem, semval, semadj, sig, m_stop,
                   reported, counted, interrupted>>

\* Faulty variants: the semaphore is not taken; nobody waits for it.
SemAfterPNotTaken(v) == v
MayTakeAlways(v) == TRUE

SemAfterP(v) == v - 1
MayTake(v) == v > 0

\* pv(sem_id, -1) with SEM_UNDO: waits for the semaphore.
P(c) ==
    /\ pc[c] = "p"
    /\ MayTake(semval)
    /\ semval' = SemAfterP(semval)
    /\ semadj' = [semadj EXCEPT ![c] = @ + 1]
    /\ pc' = [pc EXCEPT ![c] = "load"]
    /\ UNCHANGED <<fresh, held, op, cur, tmp, share_mem, sig, m_stop,
                   reported, counted, interrupted>>

Load(c) ==
    /\ pc[c] = "load"
    /\ tmp' = [tmp EXCEPT ![c] = share_mem]
    /\ pc' = [pc EXCEPT ![c] = "store"]
    /\ UNCHANGED <<fresh, held, op, cur, share_mem, semval, semadj, sig,
                   m_stop, reported, counted, interrupted>>

\* Faulty variant: a departure does not lower the number.
NewCountNeverReduced(v, d) == IF d = 1 THEN v + d ELSE v

NewCount(v, d) == v + d

Store(c) ==
    /\ pc[c] = "store"
    /\ share_mem' = NewCount(tmp[c], op[c])
    /\ counted' = IF op[c] = 1 THEN counted \cup {cur[c]}
                               ELSE counted \ {cur[c]}
    /\ pc' = [pc EXCEPT ![c] = "v"]
    /\ UNCHANGED <<fresh, held, op, cur, tmp, semval, semadj, sig, m_stop,
                   reported, interrupted>>

\* pv(sem_id, 1) with SEM_UNDO: never waits.  Back to the event loop.
V(c) ==
    /\ pc[c] = "v"
    /\ semval' = semval + 1
    /\ semadj' = [semadj EXCEPT ![c] = @ - 1]
    /\ pc' = [pc EXCEPT ![c] = "loop"]
    /\ UNCHANGED <<fresh, held, op, cur, tmp, share_mem, sig, m_stop,
                   reported, counted, interrupted>>

-----------------------------------------------------------------------------
(* Signals and exits                                                        *)

\* sig_handler writes a byte into the child's own signal pipe.
Signal(c) ==
    /\ Alive(c)
    /\ ~sig[c]
    /\ sig' = [sig EXCEPT ![c] = TRUE]
    /\ UNCHANGED <<fresh, held, pc, op, cur, tmp, share_mem, semval, semadj,
                   m_stop, reported, counted, interrupted>>

\* The same while the child sleeps in semop: semop fails with EINTR whatever
\* SA_RESTART says, and pv ignores its result.
SignalInterruptsP(c) ==
    /\ pc[c] = "p"
    /\ semval = 0
    /\ sig' = [sig EXCEPT ![c] = TRUE]
    /\ pc' = [pc EXCEPT ![c] = "load"]
    /\ interrupted' = interrupted \cup {c}
    /\ UNCHANGED <<fresh, held, op, cur, tmp, share_mem, semval, semadj,
                   m_stop, reported, counted>>

\* run_child reads the signal pipe: m_stop = true.  The events left in the
\* batch are still handled, so Accept and Disconnect stay possible.
HandleSignal(c) ==
    /\ pc[c] = "loop"
    /\ sig[c]
    /\ sig' = [sig EXCEPT ![c] = FALSE]
    /\ m_stop' = [m_stop EXCEPT ![c] = TRUE]
    /\ UNCHANGED <<fresh, held, pc, op, cur, tmp, share_mem, semval, semadj,
                   reported, counted, interrupted>>

\* Faulty variant: no SEM_UNDO.
UndoneNever(v, a) == v

\* What the kernel makes of the semaphore when a process with SEM_UNDO
\* adjustment a exits: it never goes below 0.
Undone(v, a) == IF v + a < 0 THEN 0 ELSE v + a

\* The process ends: the kernel applies and drops its undo adjustment.
ProcessEnds(c) ==
    /\ pc' = [pc EXCEPT ![c] = "exited"]
    /\ semval' = Undone(semval, semadj[c])
    /\ semadj' = [semadj EXCEPT ![c] = 0]
    /\ UNCHANGED <<fresh, held, op, cur, tmp, share_mem, sig, m_stop,
                   reported, counted, interrupted>>

\* while(!m_stop) ends; the open connections are not subtracted.
Exit(c) ==
    /\ pc[c] = "loop"
    /\ m_stop[c]
    /\ ProcessEnds(c)

\* The child dies where it is: an exception of the database library that
\* nothing catches, or SIGKILL.
Crash(c) ==
    /\ Alive(c)
    /\ ProcessEnds(c)

-----------------------------------------------------------------------------
\* report_connect, one turn of its loop: reads *share_mem without the
\* semaphore.  The parent ends once every child did.
Report ==
    /\ \E c \in Children : Alive(c)
    /\ reported' = share_mem
    /\ UNCHANGED <<sysvars, counted, interrupted>>

Step(c) == P(c) \/ Load(c) \/ Store(c) \/ V(c)

Next ==
    \/ \E c \in Children :
          \/ \E k \in Conns : Accept(c, k) \/ Disconnect(c, k)
          \/ Step(c)
          \/ Signal(c) \/ SignalInterruptsP(c) \/ HandleSignal(c)
          \/ Exit(c) \/ Crash(c)
    \/ Report

Spec == Init /\ [][Next]_vars

\* The scheduler runs every process that can run, and semop wakes sleepers
\* first in, first out: a child is not passed over forever.
Fairness == \A c \in Children :
               /\ WF_vars(Load(c) \/ Store(c) \/ V(c))
               /\ SF_vars(P(c))

FairSpec == Spec /\ Fairness

-----------------------------------------------------------------------------
(* Properties                                                               *)

\* As long as no signal interrupted a semop, at most one child is between
\* its P and its V, wherever the others crashed (pv with SEM_UNDO).
OneInside ==
    interrupted = {} =>
        \A c, d \in Children : InSection(c) /\ InSection(d) => c = d

\* As long as no signal interrupted a semop, *share_mem is exactly the number
\* of connections added and not subtracted: no update is lost, none is
\* applied twice, whatever crashed between a read and a write
\* (share_mem_increase, share_mem_reduce).
ExactCount ==
    interrupted = {} => share_mem = Cardinality(counted)

\* While every child lives and none is inside a change, the number the next
\* heartbeat reports is the number of client sockets open in the pool.
QuietLoad ==
    (interrupted = {} /\ \A c \in Children : pc[c] = "loop") =>
        share_mem = Cardinality(UNION {held[c] : c \in Children})

\* The semaphore is never lost: with signals and crashes at any place, it is
\* free or some living process still owes its release (SEM_UNDO).
SemaphoreNotLost ==
    semval = 0 => \E c \in Children : semadj[c] > 0

\* A child that waits for the semaphore gets it or dies itself, even when
\* the child that held it was killed (SEM_UNDO).
WaiterGetsIn == \A c \in Children : pc[c] = "p" ~> pc[c] # "p"

\* Semaphore, read and write implement the atomic counter of LoadCounter:
\* every update and every heartbeat is one step of it or a stutter, until a
\* signal interrupts a waiting semop (pv, share_mem_increase, report_connect).
Load_ == INSTANCE LoadCounter WITH
            members <- counted, load <- share_mem,
            disturbed <- interrupted # {}
ImplementsLoadCounter == Load_!Spec
=============================================================================
