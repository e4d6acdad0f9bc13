---------------------------- MODULE ChatChannels ----------------------------
(***************************************************************************)
(* The chat channels between clients (client/client.cpp, client/main.cpp). *)
(* A client program has two threads that share the table uid_sockfd, the   *)
(* descriptors of the process and its epoll instance without any lock: the *)
(* user interface, which looks up peers, opens channels, sends and logs    *)
(* out, and the listening thread, which accepts, receives and closes.      *)
(*                                                                         *)
(* Client u is the program in which user u logs in.  A connection k has    *)
(* two ends, 2k-1 with the client that connected and 2k with the one that  *)
(* is connected to.  A message is the user it is meant for; who sent it is *)
(* read off the end it was sent from, since every message carries m_uid.   *)
(* Of the work server only the answers remain: who is online, and the      *)
(* address of the program of an online user.                               *)
(***************************************************************************)
EXTENDS Integers, Sequences, FiniteSets, FiniteSetsExt

CONSTANTS N,              \* users
          Calls,          \* bound: pairs <<u, v>> such that u may call v
          Leavers,        \* bound: users who may log out
          MaxConns,       \* bound: connections between clients
          MaxFds,         \* bound: descriptors a client uses for channels
          MaxInbox,       \* bound: messages that wait at one end
          listen_sockfd   \* the number of the listening socket

ASSUME ConstantsAssumption ==
    /\ N \in Nat /\ MaxConns \in Nat /\ MaxFds \in Nat /\ MaxInbox \in Nat
    /\ MaxFds >= 2 * MaxConns
    /\ listen_sockfd \in Nat
    /\ Calls \subseteq (1..N) \X (1..N)
    /\ Leavers \subseteq 1..N

Users == 1..N
Fds == 1..MaxFds        \* numbers that the sockets of start-up do not have
None == -1
Ends == 1..(2 * MaxConns)
NoEnd == 0              \* what a descriptor that is not open refers to
Listen == 0             \* the listening socket among the events of epoll

Other(e) == IF e % 2 = 1 THEN e + 1 ELSE e - 1

VARIABLES
    online,             \* the work server's column online; also if_login
    ui,                 \* ui[u]: where the user interface's thread is
    who,                \* who[u]: the user it chats with
    chatting,           \* chatting[u]: it is in send_msg_to_clien_b
    i, fd,              \* i[u], fd[u]: locals i and sockfd of clean_epollfd
    thread,             \* thread[u]: where the listening thread is
    uid, sockfd,        \* uid[u], sockfd[u]: its locals
    uid_sockfd,         \* uid_sockfd[u][v]: descriptor of the channel to v
    uid_client_b_sockfd,\* whom the descriptor was last used to send to
    client_b_sockfd,    \* descriptor the user interface sends over
    client_b_sockfd_thread,
    file,               \* file[u][f]: the end that descriptor f refers to
    backlog,            \* backlog[u]: ends not accepted by the listening socket
    ready,              \* ready[u]: descriptors epoll has an event for
    batch,              \* batch[u]: events epoll_wait returned, not handled yet
    at,                 \* at[e]: the client that end e belongs to
    inbox,              \* inbox[e]: messages that arrived at e, not received
    closed,             \* ends that were closed
    reset,              \* ends whose peer answered a message with a reset
    missed              \* history: clients whose listening thread left an
                        \* event or a connection behind

tables == <<uid_sockfd, uid_client_b_sockfd, client_b_sockfd,
            client_b_sockfd_thread>>
uivars == <<ui, who, chatting, i, fd>>
thvars == <<thread, uid, sockfd>>
kernel == <<file, backlog, ready, batch, at, inbox, closed, reset>>
vars == <<online, uivars, thvars, tables, kernel, missed>>

TypeOK ==
    /\ online \in [Users -> BOOLEAN]
    /\ ui \in [Users -> {"menu", "obtain", "lookup", "reuse", "open", "input",
                         "test", "send", "note", "clean", "cleanagain",
                         "ended"}]
    /\ who \in [Users -> {0} \cup Users]
    /\ chatting \in [Users -> BOOLEAN]
    /\ i \in [Users -> 0..(N + 1)]
    /\ fd \in [Users -> Fds \cup {None}]
    /\ thread \in [Users -> {"events", "table", "forget", "closeagain", "ended"}]
    /\ uid \in [Users -> {0} \cup Users]
    /\ sockfd \in [Users -> Fds \cup {None}]
    /\ uid_sockfd \in [Users -> [{0} \cup Users -> Fds \cup {None}]]
    /\ uid_client_b_sockfd \in [Users -> [{0} \cup Fds -> {0} \cup Users]]
    /\ client_b_sockfd \in [Users -> Fds \cup {None}]
    /\ client_b_sockfd_thread \in [Users -> {0} \cup Fds]
    /\ file \in [Users -> [Fds -> {NoEnd} \cup Ends]]
    /\ \A u \in Users : \A n \in DOMAIN backlog[u] : backlog[u][n] \in Ends
    /\ ready \in [Users -> SUBSET ({Listen} \cup Fds)]
    /\ batch \in [Users -> SUBSET ({Listen} \cup Fds)]
    /\ at \in [Ends -> {0} \cup Users]
    /\ \A e \in Ends : \A n \in DOMAIN inbox[e] : inbox[e][n] \in Users
    /\ closed \subseteq Ends
    /\ reset \subseteq Ends
    /\ missed \subseteq Users

\* Every user logged in, before anybody chats.
Init ==
    /\ online = [u \in Users |-> TRUE]
    /\ ui = [u \in Users |-> "menu"]
    /\ who = [u \in Users |-> 0]
    /\ chatting = [u \in Users |-> FALSE]
    /\ i = [u \in Users |-> 0]
    /\ fd = [u \in Users |-> None]
    /\ thread = [u \in Users |-> "events"]
    /\ uid = [u \in Users |-> 0]
    /\ sockfd = [u \in Users |-> None]
    /\ uid_sockfd = [u \in Users |-> [v \in {0} \cup Users |-> None]]
    /\ uid_client_b_sockfd = [u \in Users |-> [f \in {0} \cup Fds |-> 0]]
    /\ client_b_sockfd = [u \in Users |-> None]
    /\ client_b_sockfd_thread = [u \in Users |-> 0]
    /\ file = [u \in Users |-> [f \in Fds |-> NoEnd]]
    /\ backlog = [u \in Users |-> <<>>]
    /\ ready = [u \in Users |-> {}]
    /\ batch = [u \in Users |-> {}]
    /\ at = [e \in Ends |-> 0]
    /\ inbox = [e \in Ends |-> <<>>]
    /\ closed = {}
    /\ reset = {}
    /\ missed = {}

-----------------------------------------------------------------------------
(* Sockets and epoll                                                        *)

Running(u) == ui[u] # "ended"

\* A new descriptor gets the lowest free number.
NewFd(u) == Min({f \in Fds : file[u][f] = NoEnd})

\* The events when something arrives at the ends in E.  A descriptor that is
\* open is registered, and with EPOLLET an arrival makes it ready once.
Notified(E) ==
    [u \in Users |-> ready[u] \cup {f \in Fds : file[u][f] \in E}]

\* What a registered descriptor with something to read has to offer.
Readable(u, x) ==
    IF x = Listen
      THEN backlog[u] # <<>>
      ELSE /\ file[u][x] # NoEnd
           /\ inbox[file[u][x]] # <<>> \/ Other(file[u][x]) \in closed

\* close(f), of a number that may be closed already, or in use again.
Close(u, f) ==
    LET e == file[u][f]
    IN  IF f = None \/ e = NoEnd
          THEN UNCHANGED <<file, closed, ready>>
          ELSE /\ file' = [file EXCEPT ![u][f] = NoEnd]
               /\ closed' = closed \cup {e}
               /\ ready' = [Notified({Other(e)}) EXCEPT ![u] = @ \ {f}]

\* Client u's program ends: the kernel closes its sockets, accepted or not,
\* and the work server logs the user out.
ProgramEnds(u) ==
    LET mine == {e \in Ends : at[e] = u /\ e \notin closed}
    IN  /\ ui' = [ui EXCEPT ![u] = "ended"]
        /\ thread' = [thread EXCEPT ![u] = "ended"]
        /\ online' = [online EXCEPT ![u] = FALSE]
        /\ file' = [file EXCEPT ![u] = [f \in Fds |-> NoEnd]]
        /\ backlog' = [backlog EXCEPT ![u] = <<>>]
        /\ closed' = closed \cup mine
        /\ ready' = [Notified({Other(e) : e \in mine}) EXCEPT ![u] = {}]
        /\ batch' = [batch EXCEPT ![u] = {}]
        /\ UNCHANGED <<who, chatting, i, fd, uid, sockfd, tables, at, inbox,
                       reset, missed>>

-----------------------------------------------------------------------------
(* The user interface's thread                                              *)

Goto(u, place) == ui' = [ui EXCEPT ![u] = place]

\* Menu entry 6: the work server says that v is online.
SelectUser(u, v) ==
    /\ <<u, v>> \in Calls
    /\ ui[u] = "menu"
    /\ online[u]
    /\ online[v]
    /\ who' = [who EXCEPT ![u] = v]
    /\ Goto(u, "obtain")
    /\ UNCHANGED <<online, chatting, i, fd, thvars, tables, kernel, missed>>

\* init_client_b_sockfd asks for the address.  A user who logged out
\* meanwhile has none: strchr finds no ':' in the answer, and reading behind
\* the null pointer ends the program.
ObtainAddr(u) ==
    /\ ui[u] = "obtain"
    /\ IF online[who[u]]
         THEN /\ Goto(u, "lookup")
              /\ UNCHANGED <<online, who, chatting, i, fd, thvars, tables,
                             kernel, missed>>
         ELSE ProgramEnds(u)

\* Faulty variants: the entry of the last sender; the test the wrong way round.
EntryOfLast(u) == uid_sockfd[u][uid[u]]
HasNoChannel(u) == uid_sockfd[u][who[u]] = None

\* The descriptor of the channel to the user u chats with.
Entry(u) == uid_sockfd[u][who[u]]

HasChannel(u) == Entry(u) # None

\* if(uid_sockfd[uid] != -1)
Lookup(u) ==
    /\ ui[u] = "lookup"
    /\ Goto(u, IF HasChannel(u) THEN "reuse" ELSE "open")
    /\ UNCHANGED <<online, who, chatting, i, fd, thvars, tables, kernel, missed>>

\* init_client_b_sockfd returned: the menu asserts that it did not fail, the
\* loop of send_msg_to_clien_b does not look at the result.
Returned(u) ==
    /\ Goto(u, IF chatting[u] THEN "send" ELSE "input")
    /\ chatting' = [chatting EXCEPT ![u] = TRUE]

\* The channel is there: uid_sockfd is read again.  Registering a registered
\* or closed descriptor changes nothing.
Reuse(u) ==
    /\ ui[u] = "reuse"
    /\ LET f == Entry(u)
       IN IF f = None /\ ~chatting[u]
            THEN ProgramEnds(u)
            ELSE /\ client_b_sockfd' = [client_b_sockfd EXCEPT ![u] = f]
                 /\ Returned(u)
                 /\ UNCHANGED <<online, who, i, fd, thvars, uid_sockfd,
                                uid_client_b_sockfd, client_b_sockfd_thread,
                                kernel, missed>>

\* Faulty variant: the channel is entered under the own uid.
EnteredOwn(u, v, f) == [uid_sockfd EXCEPT ![u][u] = f]

Entered(u, v, f) == [uid_sockfd EXCEPT ![u][v] = f]

\* socket, connect, the entry in the table and addfd.
Open(u) ==
    /\ ui[u] = "open"
    /\ Running(who[u])
    /\ \E k \in 1..MaxConns :
          LET v == who[u]
              f == NewFd(u)
          IN /\ at[2 * k] = 0
             /\ \A j \in 1..(k - 1) : at[2 * j] # 0
             /\ at' = [at EXCEPT ![2 * k - 1] = u, ![2 * k] = v]
             /\ file' = [file EXCEPT ![u][f] = 2 * k - 1]
             /\ backlog' = [backlog EXCEPT ![v] = Append(@, 2 * k)]
             /\ ready' = [ready EXCEPT ![v] = @ \cup {Listen}]
             /\ client_b_sockfd' = [client_b_sockfd EXCEPT ![u] = f]
             /\ uid_sockfd' = Entered(u, v, f)
    /\ Returned(u)
    /\ UNCHANGED <<online, who, i, fd, thvars, uid_client_b_sockfd,
                   client_b_sockfd_thread, batch, inbox, closed, reset, missed>>

\* The program of the user is gone and connect fails.
OpenFails(u) ==
    /\ ui[u] = "open"
    /\ ~Running(who[u])
    /\ IF chatting[u]
         THEN /\ client_b_sockfd' = [client_b_sockfd EXCEPT ![u] = None]
              /\ Returned(u)
              /\ UNCHANGED <<online, who, i, fd, thvars, uid_sockfd,
                             uid_client_b_sockfd, client_b_sockfd_thread,
                             kernel, missed>>
         ELSE ProgramEnds(u)

\* A line was typed and the work server says that the peer is online.
Type(u) ==
    /\ ui[u] = "input"
    /\ online[who[u]]
    /\ Goto(u, "test")
    /\ UNCHANGED <<online, who, chatting, i, fd, thvars, tables, kernel, missed>>

\* "quit" was typed.
QuitChat(u) ==
    /\ ui[u] = "input"
    /\ Goto(u, "menu")
    /\ who' = [who EXCEPT ![u] = 0]
    /\ chatting' = [chatting EXCEPT ![u] = FALSE]
    /\ UNCHANGED <<online, i, fd, thvars, tables, kernel, missed>>

\* if(uid_sockfd[uid] == -1)
Test(u) ==
    /\ ui[u] = "test"
    /\ Goto(u, IF HasChannel(u) THEN "send" ELSE "obtain")
    /\ UNCHANGED <<online, who, chatting, i, fd, thvars, tables, kernel, missed>>

\* send_msg over client_b_sockfd.  Nothing happens over a descriptor that is
\* not open.  Of messages to a peer that closed its end the first is answered
\* with a reset, the next raises SIGPIPE.
Send(u) ==
    /\ ui[u] = "send"
    /\ LET f == client_b_sockfd[u]
           e == IF f = None THEN NoEnd ELSE file[u][f]
       IN  \/ /\ e = NoEnd
              /\ Goto(u, "note")
              /\ UNCHANGED <<online, who, chatting, i, fd, thvars, tables,
                             kernel, missed>>
           \/ /\ e # NoEnd /\ Other(e) \notin closed
              /\ Len(inbox[Other(e)]) < MaxInbox
              /\ inbox' = [inbox EXCEPT ![Other(e)] = Append(@, who[u])]
              /\ ready' = Notified({Other(e)})
              /\ Goto(u, "note")
              /\ UNCHANGED <<online, who, chatting, i, fd, thvars, tables, file,
                             backlog, batch, at, closed, reset, missed>>
           \/ /\ e # NoEnd /\ Other(e) \in closed /\ e \notin reset
              /\ reset' = reset \cup {e}
              /\ ready' = Notified({e})
              /\ Goto(u, "note")
              /\ UNCHANGED <<online, who, chatting, i, fd, thvars, tables, file,
                             backlog, batch, at, inbox, closed, missed>>
           \/ /\ e \in reset
              /\ ProgramEnds(u)

\* Faulty variant: -1 is recorded too.
RecordedAlways(f) == TRUE

Recorded(f) == f # None

\* What the listening thread reads when a channel closes.
Note(u) ==
    /\ ui[u] = "note"
    /\ IF Recorded(client_b_sockfd[u])
         THEN /\ uid_client_b_sockfd' =
                    [uid_client_b_sockfd EXCEPT ![u][client_b_sockfd[u]] = who[u]]
              /\ client_b_sockfd_thread' =
                    [client_b_sockfd_thread EXCEPT ![u] = client_b_sockfd[u]]
         ELSE UNCHANGED <<uid_client_b_sockfd, client_b_sockfd_thread>>
    /\ Goto(u, "input")
    /\ UNCHANGED <<online, who, chatting, i, fd, thvars, uid_sockfd,
                   client_b_sockfd, kernel, missed>>

Login(u) ==
    /\ ui[u] = "menu"
    /\ ~online[u]
    /\ online' = [online EXCEPT ![u] = TRUE]
    /\ UNCHANGED <<uivars, thvars, tables, kernel, missed>>

Logout(u) ==
    /\ u \in Leavers
    /\ ui[u] = "menu"
    /\ online[u]
    /\ online' = [online EXCEPT ![u] = FALSE]
    /\ i' = [i EXCEPT ![u] = 0]
    /\ Goto(u, "clean")
    /\ UNCHANGED <<who, chatting, fd, thvars, tables, kernel, missed>>

\* clean_epollfd: the next entry with a channel ...
ToClean(u) ==
    {v \in {0} \cup Users :
        v >= i[u] /\ uid_sockfd[u][v] # None /\ v # listen_sockfd}

\* ... is closed ...
Clean(u) ==
    /\ ui[u] = "clean"
    /\ ToClean(u) # {}
    /\ LET v == Min(ToClean(u))
       IN /\ i' = [i EXCEPT ![u] = v]
          /\ fd' = [fd EXCEPT ![u] = uid_sockfd[u][v]]
          /\ Close(u, uid_sockfd[u][v])
    /\ Goto(u, "cleanagain")
    /\ UNCHANGED <<online, who, chatting, thvars, tables, backlog, batch, at,
                   inbox, reset, missed>>

\* ... and closed again, and the entry is cleared.
CleanAgain(u) ==
    /\ ui[u] = "cleanagain"
    /\ Close(u, fd[u])
    /\ uid_sockfd' = [uid_sockfd EXCEPT ![u][i[u]] = None]
    /\ i' = [i EXCEPT ![u] = @ + 1]
    /\ fd' = [fd EXCEPT ![u] = None]
    /\ Goto(u, "clean")
    /\ UNCHANGED <<online, who, chatting, thvars, uid_client_b_sockfd,
                   client_b_sockfd, client_b_sockfd_thread, backlog, batch, at,
                   inbox, reset, missed>>

CleanEnds(u) ==
    /\ ui[u] = "clean"
    /\ ToClean(u) = {}
    /\ i' = [i EXCEPT ![u] = 0]
    /\ Goto(u, "menu")
    /\ UNCHANGED <<online, who, chatting, fd, thvars, tables, kernel, missed>>

\* Menu entry -1, for who is not logged in.
Quit(u) ==
    /\ ui[u] = "menu"
    /\ ~online[u]
    /\ ProgramEnds(u)

-----------------------------------------------------------------------------
(* The listening thread                                                     *)

EpollWait(u) ==
    /\ thread[u] = "events"
    /\ batch[u] = {}
    /\ ready[u] # {}
    /\ batch' = [batch EXCEPT ![u] = {x \in ready[u] : Readable(u, x)}]
    /\ ready' = [ready EXCEPT ![u] = {}]
    /\ UNCHANGED <<online, uivars, thvars, tables, file, backlog, at, inbox,
                   closed, reset, missed>>

\* addfd of a descriptor for end e that may have something to read already
ReadyWhenAdded(u, f, e) ==
    IF inbox[e] # <<>> \/ Other(e) \in closed THEN ready[u] \cup {f} ELSE ready[u]

\* One accept for each event of the listening socket.
Accept(u) ==
    /\ thread[u] = "events"
    /\ Listen \in batch[u]
    /\ LET e == Head(backlog[u])
           f == NewFd(u)
       IN /\ file' = [file EXCEPT ![u][f] = e]
          /\ ready' = [ready EXCEPT ![u] = ReadyWhenAdded(u, f, e)]
    /\ backlog' = [backlog EXCEPT ![u] = Tail(@)]
    /\ batch' = [batch EXCEPT ![u] = @ \ {Listen}]
    /\ missed' = IF Len(backlog[u]) > 1 THEN missed \cup {u} ELSE missed
    /\ UNCHANGED <<online, uivars, thvars, tables, at, inbox, closed, reset>>

\* Faulty variant: a message ends the loop over the events.
AfterMessageNone(b, f) == {}

\* The events that are left when a message was received over f.
AfterMessage(b, f) == b \ {f}

\* recv returns everything that arrived; the first message is looked at.
RecvMessage(u, f) ==
    /\ thread[u] = "events"
    /\ f \in batch[u]
    /\ file[u][f] # NoEnd
    /\ inbox[file[u][f]] # <<>>
    /\ inbox' = [inbox EXCEPT ![file[u][f]] = <<>>]
    /\ uid' = [uid EXCEPT ![u] = at[Other(file[u][f])]]
    /\ sockfd' = [sockfd EXCEPT ![u] = f]
    /\ thread' = [thread EXCEPT ![u] = "table"]
    /\ batch' = [batch EXCEPT ![u] = AfterMessage(@, f)]
    /\ UNCHANGED <<online, uivars, tables, file, backlog, ready, at, closed,
                   reset, missed>>

\* uid_sockfd[uid] = sockfd
Table(u) ==
    /\ thread[u] = "table"
    /\ uid_sockfd' = [uid_sockfd EXCEPT ![u][uid[u]] = sockfd[u]]
    /\ sockfd' = [sockfd EXCEPT ![u] = None]
    /\ thread' = [thread EXCEPT ![u] = "events"]
    /\ UNCHANGED <<online, uivars, uid, uid_client_b_sockfd, client_b_sockfd,
                   client_b_sockfd_thread, kernel, missed>>

\* recv returns 0, or fails since the user interface closed the descriptor:
\* removefd ...
RecvClosed(u, f) ==
    /\ thread[u] = "events"
    /\ f \in batch[u] \ {Listen}
    /\ file[u][f] # NoEnd => /\ inbox[file[u][f]] = <<>>
                             /\ Other(file[u][f]) \in closed
    /\ Close(u, f)
    /\ sockfd' = [sockfd EXCEPT ![u] = f]
    /\ thread' = [thread EXCEPT ![u] = "forget"]
    /\ batch' = [batch EXCEPT ![u] = @ \ {f}]
    /\ UNCHANGED <<online, uivars, uid, tables, backlog, at, inbox, reset, missed>>

\* ... the entry of the last sender is cleared, or without one that of the
\* user the last message was sent to ...
Forget(u) ==
    /\ thread[u] = "forget"
    /\ uid_sockfd' =
          [uid_sockfd EXCEPT
             ![u][uid[u]] = None,
             ![u][IF uid[u] = 0
                    THEN uid_client_b_sockfd[u][client_b_sockfd_thread[u]]
                    ELSE uid[u]] = None]
    /\ thread' = [thread EXCEPT ![u] = "closeagain"]
    /\ UNCHANGED <<online, uivars, uid, sockfd, uid_client_b_sockfd,
                   client_b_sockfd, client_b_sockfd_thread, kernel, missed>>

\* break: the events not handled yet are dropped.
Dropped(u, rest) ==
    /\ batch' = [batch EXCEPT ![u] = {}]
    /\ missed' = IF rest # {} THEN missed \cup {u} ELSE missed

\* ... the number is closed again, and the loop over the events left.
CloseAgain(u) ==
    /\ thread[u] = "closeagain"
    /\ Close(u, sockfd[u])
    /\ sockfd' = [sockfd EXCEPT ![u] = None]
    /\ thread' = [thread EXCEPT ![u] = "events"]
    /\ Dropped(u, batch[u])
    /\ UNCHANGED <<online, uivars, uid, tables, backlog, at, inbox, reset>>

\* recv fails with EAGAIN: the number was closed and is in use again.
RecvAgain(u, f) ==
    /\ thread[u] = "events"
    /\ f \in batch[u] \ {Listen}
    /\ file[u][f] # NoEnd
    /\ ~Readable(u, f)
    /\ Dropped(u, batch[u] \ {f})
    /\ UNCHANGED <<online, uivars, thvars, tables, file, backlog, ready, at,
                   inbox, closed, reset>>

Interface(u) ==
    \/ \E v \in Users : SelectUser(u, v)
    \/ ObtainAddr(u) \/ Lookup(u) \/ Reuse(u) \/ Open(u) \/ OpenFails(u)
    \/ Type(u) \/ QuitChat(u) \/ Test(u) \/ Send(u) \/ Note(u)
    \/ Login(u) \/ Logout(u) \/ Clean(u) \/ CleanAgain(u) \/ CleanEnds(u)
    \/ Quit(u)

Listening(u) ==
    \/ EpollWait(u) \/ Accept(u) \/ Table(u) \/ Forget(u) \/ CloseAgain(u)
    \/ \E f \in Fds : RecvMessage(u, f) \/ RecvClosed(u, f) \/ RecvAgain(u, f)

Next == \E u \in Users : Interface(u) \/ Listening(u)

Spec == Init /\ [][Next]_vars

-----------------------------------------------------------------------------
(* Properties                                                               *)

\* No channel of client u was closed, at either end.
Undisturbed(u) ==
    \A e \in Ends : at[e] = u => e \notin closed /\ Other(e) \notin closed

\* uid_sockfd[v] is "the sockfd for the communication between this user and
\* the user whose uid is v" (client.cpp:7): whichever thread made the entry,
\* and whoever of the two connected or both did, the descriptor is open and
\* the other end is v's, as long as none of the client's channels closed.
ChannelsLead ==
    \A u, v \in Users :
        LET f == uid_sockfd[u][v]
        IN  (Undisturbed(u) /\ f # None) =>
                file[u][f] # NoEnd /\ at[Other(file[u][f])] = v

\* When the user interface sends, client_b_sockfd leads to the user it chats
\* with (send_msg_to_clien_b sends over client_b_sockfd, which the call before
\* or an earlier chat set), as long as none of the client's channels closed.
SendsLead ==
    \A u \in Users :
        (ui[u] = "send" /\ Undisturbed(u)) =>
            LET f == client_b_sockfd[u]
            IN  /\ f # None
                /\ file[u][f] # NoEnd
                /\ at[Other(file[u][f])] = who[u]

\* With edge-triggered events, descriptors that are closed and reused under
\* the listening thread's feet and one recv for each event, data and
\* connections that wait still have an event pending, or the thread left
\* something behind before: by a break, or by one accept for two connections.
NothingUnnoticed ==
    \A u \in Users \ missed : Running(u) =>
        /\ \A f \in Fds : (file[u][f] # NoEnd /\ inbox[file[u][f]] # <<>>)
                            => f \in ready[u] \cup batch[u]
        /\ backlog[u] # <<>> => Listen \in ready[u] \cup batch[u]

\* A client program that ends otherwise than through the menu (assertion in
\* main.cpp, null pointer in init_client_b_sockfd, SIGPIPE) was calling a user
\* who is not online any more, or lost one of its channels before.
EndsOnlyIfDisturbed ==
    [][\A u \in Users : (ui[u] # "menu" /\ Running(u) /\ ui'[u] = "ended") =>
          ~online[who[u]] \/ ~Undisturbed(u)]_vars

-----------------------------------------------------------------------------
(* Two statements of the source                                             *)

\* "you can input 6 x to send message to x" (main.cpp:167): every message
\* arrives at the program of the user it is meant for.
MessagesReachAddressee ==
    \A e \in Ends : \A n \in DOMAIN inbox[e] : inbox[e][n] = at[e]

\* "remove the other sockfds from the epoll table so that no information of
\* other users is received any more" (main.cpp:428): the listening thread
\* receives no message when its user is logged out and the cleaning done.
LoggedOutReceivesNothing ==
    [][\A u \in Users :
          (thread[u] = "events" /\ thread'[u] = "table") =>
              online[u] \/ ui[u] \in {"clean", "cleanagain"}]_vars
=============================================================================
