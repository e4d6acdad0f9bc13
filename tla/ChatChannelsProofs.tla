-------------------------- MODULE ChatChannelsProofs --------------------------
(***************************************************************************)
(* Theorems about ChatChannels for any numbers of users, connections and   *)
(* descriptors: the types, with the fact that the bound on descriptors is  *)
(* never reached; what the listening thread can overlook; where the        *)
(* entries of uid_sockfd lead; and what ends a client program.             *)
(***************************************************************************)
EXTENDS ChatChannels, FiniteSetTheorems, SequenceTheorems,
        WellFoundedInduction, TLAPS

-----------------------------------------------------------------------------
(* Types                                                                    *)

Uids == {0} \cup Users
FdsOrNone == Fds \cup {None}
InterfacePlaces == {"menu", "obtain", "lookup", "reuse", "open", "input", "test",
                    "send", "note", "clean", "cleanagain", "ended"}
ListeningPlaces == {"events", "table", "forget", "closeagain", "ended"}

InterfaceOK ==
    /\ online \in [Users -> BOOLEAN]
    /\ ui \in [Users -> InterfacePlaces]
    /\ who \in [Users -> Uids]
    /\ chatting \in [Users -> BOOLEAN]
    /\ i \in [Users -> 0..(N + 1)]
    /\ fd \in [Users -> FdsOrNone]
    /\ missed \in SUBSET Users
    /\ \A u \in Users :
          /\ ui[u] \notin {"menu", "clean", "cleanagain", "ended"}
                => who[u] \in Users
          /\ ui[u] = "cleanagain" => i[u] \in 0..N

ThreadOK ==
    /\ thread \in [Users -> ListeningPlaces]
    /\ uid \in [Users -> Uids]
    /\ sockfd \in [Users -> FdsOrNone]

TablesOK ==
    /\ uid_sockfd \in [Users -> [Uids -> FdsOrNone]]
    /\ uid_client_b_sockfd \in [Users -> [{0} \cup Fds -> Uids]]
    /\ client_b_sockfd \in [Users -> FdsOrNone]
    /\ client_b_sockfd_thread \in [Users -> {0} \cup Fds]

KernelOK ==
    /\ file \in [Users -> [Fds -> {NoEnd} \cup Ends]]
    /\ backlog \in [Users -> Seq(Ends)]
    /\ ready \in [Users -> SUBSET ({Listen} \cup Fds)]
    /\ batch \in [Users -> SUBSET ({Listen} \cup Fds)]
    /\ at \in [Ends -> Uids]
    /\ inbox \in [Ends -> Seq(Users)]
    /\ closed \in SUBSET Ends
    /\ reset \in SUBSET Ends

\* The two ends of a connection come into being together, and nothing arrives
\* before.
EndsPaired ==
    \A e \in Ends : /\ at[e] = 0 <=> at[Other(e)] = 0
                    /\ at[e] = 0 => inbox[e] = <<>>

\* What refers to an end of a client: one descriptor, or one place in the
\* backlog.
EndsOf(u) ==
    /\ \A f \in Fds : file[u][f] # NoEnd => at[file[u][f]] = u
    /\ \A f, g \in Fds : file[u][f] # NoEnd /\ file[u][f] = file[u][g] => f = g
    /\ \A n \in 1..Len(backlog[u]) :
          /\ at[backlog[u][n]] = u
          /\ \A f \in Fds : file[u][f] # backlog[u][n]
          /\ \A m \in 1..Len(backlog[u]) :
                backlog[u][m] = backlog[u][n] => m = n

EndsOwned == \A u \in Users : EndsOf(u)

\* An event of the listening socket that was returned stands for a connection.
ListenHasBacklog ==
    \A u \in Users : Listen \in batch[u] => backlog[u] # <<>>

KInv == KernelOK /\ EndsPaired /\ EndsOwned /\ ListenHasBacklog

TInv == InterfaceOK /\ ThreadOK /\ TablesOK /\ KInv

-----------------------------------------------------------------------------
(* Where the descriptors lead                                               *)

\* Descriptor f of client u is open and the other end is v's.
Leads(u, f, v) == f # None /\ file[u][f] # NoEnd /\ at[Other(file[u][f])] = v

\* Epoll has no event for a descriptor that is closed.
ReadyIsOpen ==
    \A u \in Users : \A x \in ready[u] \ {Listen} : file[u][x] # NoEnd

\* While none of its channels closed no client is closing one, and whatever
\* descriptor a thread holds leads to the user it is held for.
ChannelsOf(u) ==
    /\ \A x \in batch[u] \ {Listen} : file[u][x] # NoEnd
    /\ thread[u] \notin {"forget", "closeagain"}
    /\ thread[u] = "table" => Leads(u, sockfd[u], uid[u])
    /\ uid_sockfd[u][0] = None
    /\ \A v \in Users : uid_sockfd[u][v] # None => Leads(u, uid_sockfd[u][v], v)
    /\ ui[u] # "cleanagain"

\* While none of its channels closed the user interface finds the entry it
\* tested for, and sends over the channel to the user it chats with.
InterfaceOf(u) ==
    /\ ui[u] = "reuse" => HasChannel(u)
    /\ ui[u] \in {"input", "test", "send", "note"} =>
          HasChannel(u) /\ Leads(u, client_b_sockfd[u], who[u])
    /\ ui[u] \in {"menu", "clean", "obtain", "lookup", "reuse", "open"} =>
          ~chatting[u]

Channels(u) == Undisturbed(u) => ChannelsOf(u) /\ InterfaceOf(u)

LInv == ReadyIsOpen /\ \A u \in Users : Channels(u)

\* What a client program that ends had to do with.
EInv ==
    /\ \A u \in Users : ~Running(u) => ~online[u]
    /\ \A e \in reset : Other(e) \in closed

-----------------------------------------------------------------------------
(* Ends, free descriptors, and what a close does                            *)

\* The order of the naturals as a set of pairs.
Below == {p \in Nat \X Nat : p[1] < p[2]}

\* Every set of naturals that is not empty has a least member.
LEMMA LeastNatural ==
    ASSUME NEW S \in SUBSET Nat, S # {}
    PROVE  Min(S) \in S /\ \A y \in S : Min(S) <= y
<1>1. IsWellFoundedOn(OpToRel(<, Nat), Nat)
  BY NatLessThanWellFounded
<1>2. IsWellFoundedOn(Below, Nat)
  BY <1>1 DEF OpToRel, Below
<1>3. PICK x \in S : \A y \in S : ~(<<y, x>> \in Below)
  BY <1>2, WFMin
<1>4. \A y \in S : x <= y
  <2> SUFFICES ASSUME NEW y \in S, ~(x <= y) PROVE FALSE
    OBVIOUS
  <2>1. y \in Nat /\ x \in Nat /\ y < x
    OBVIOUS
  <2>2. <<y, x>> \in Below
    BY <2>1 DEF Below
  <2> QED BY <2>2, <1>3
<1> QED BY <1>4 DEF Min

\* The two ends of a connection.
LEMMA OtherEnd ==
    /\ \A e \in Ends : /\ Other(e) \in Ends /\ Other(e) # e
                       /\ Other(Other(e)) = e
    /\ \A k \in 1..MaxConns : /\ 2 * k - 1 \in Ends /\ 2 * k \in Ends
                              /\ Other(2 * k - 1) = 2 * k
                              /\ Other(2 * k) = 2 * k - 1
<1>1. ASSUME NEW e \in Ends
      PROVE  Other(e) \in Ends /\ Other(e) # e /\ Other(Other(e)) = e
  <2>1. MaxConns \in Nat /\ e \in 1..(2 * MaxConns)
    BY ConstantsAssumption DEF Ends
  <2>2. CASE e % 2 = 1
    BY <2>1, <2>2 DEF Other, Ends
  <2>3. CASE e % 2 # 1
    BY <2>1, <2>3 DEF Other, Ends
  <2> QED BY <2>2, <2>3
<1>2. ASSUME NEW k \in 1..MaxConns
      PROVE  /\ 2 * k - 1 \in Ends /\ 2 * k \in Ends
             /\ Other(2 * k - 1) = 2 * k /\ Other(2 * k) = 2 * k - 1
  BY <1>2, ConstantsAssumption DEF Other, Ends
<1> QED BY <1>1, <1>2

\* While one end is not open a client has a free descriptor, since no two
\* descriptors are one end: socket and accept never come to the bound MaxFds.
LEMMA FreeFd ==
    ASSUME KInv, NEW u \in Users, NEW e \in Ends,
           \A f \in Fds : file[u][f] # e
    PROVE  NewFd(u) \in Fds /\ file[u][NewFd(u)] = NoEnd
<1>1. {f \in Fds : file[u][f] = NoEnd} # {}
  <2> SUFFICES ASSUME \A f \in Fds : file[u][f] # NoEnd
               PROVE  FALSE
    OBVIOUS
  <2>1. file[u] \in [Fds -> Ends \ {e}]
    BY DEF KInv, KernelOK
  <2>2. /\ IsFiniteSet(Fds) /\ Cardinality(Fds) = MaxFds
        /\ IsFiniteSet(Ends) /\ Cardinality(Ends) = 2 * MaxConns
    <3>1. MaxFds \in Nat /\ MaxConns \in Nat /\ 2 * MaxConns \in Nat
      BY ConstantsAssumption
    <3> QED BY <3>1, FS_Interval DEF Fds, Ends
  <2>3. /\ IsFiniteSet(Ends \ {e})
        /\ Cardinality(Ends \ {e}) = 2 * MaxConns - 1
    BY <2>2, FS_RemoveElement
  <2>4. Cardinality(Ends \ {e}) < Cardinality(Fds)
    BY <2>2, <2>3, ConstantsAssumption
  <2>5. \E f, g \in Fds : f # g /\ file[u][f] = file[u][g]
    BY <2>1, <2>2, <2>3, <2>4, FS_PigeonHole
  <2> QED BY <2>5 DEF KInv, EndsOwned, EndsOf
<1>2. {f \in Fds : file[u][f] = NoEnd} \in SUBSET Nat
  BY DEF Fds
<1> QED BY <1>1, <1>2, LeastNatural DEF NewFd

\* What a close does to the descriptors, the ends and the events: nothing, or
\* it frees one number.
LEMMA CloseDoes ==
    ASSUME KernelOK, NEW u \in Users, NEW f \in FdsOrNone, Close(u, f)
    PROVE  /\ file' \in [Users -> [Fds -> {NoEnd} \cup Ends]]
           /\ ready' \in [Users -> SUBSET ({Listen} \cup Fds)]
           /\ closed' \in SUBSET Ends
           /\ closed \subseteq closed'
           /\ \A w \in Users, g \in Fds :
                 file'[w][g] = IF w = u /\ g = f THEN NoEnd ELSE file[w][g]
           /\ \A w \in Users : ready[w] \ {f} \subseteq ready'[w]
           /\ \A w \in Users \ {u} : ready[w] \subseteq ready'[w]
           /\ \A w \in Users : \A x \in ready'[w] \ {Listen} :
                 file'[w][x] # NoEnd \/ (x \in ready[w] /\ file[w][x] = NoEnd)
           /\ f # None /\ file[u][f] # NoEnd => file[u][f] \in closed'
<1>1. CASE f = None \/ file[u][f] = NoEnd
  <2>1. UNCHANGED <<file, closed, ready>>
    BY <1>1 DEF Close
  <2>2. f \notin Fds \/ file[u][f] = NoEnd
    BY <1>1 DEF None, Fds
  <2>3. \A w \in Users : \A x \in ready'[w] \ {Listen} :
           file'[w][x] # NoEnd \/ (x \in ready[w] /\ file[w][x] = NoEnd)
    BY <2>1
  <2> QED BY <1>1, <2>1, <2>2, <2>3 DEF KernelOK
<1>2. CASE f # None /\ file[u][f] # NoEnd
  <2>1. f \in Fds /\ file[u][f] \in Ends
    BY <1>2 DEF FdsOrNone, KernelOK
  <2>2. /\ file' = [file EXCEPT ![u][f] = NoEnd]
        /\ closed' = closed \cup {file[u][f]}
        /\ ready' = [Notified({Other(file[u][f])}) EXCEPT ![u] = @ \ {f}]
    BY <1>2 DEF Close
  <2>3. /\ file' \in [Users -> [Fds -> {NoEnd} \cup Ends]]
        /\ \A w \in Users, g \in Fds :
              file'[w][g] = IF w = u /\ g = f THEN NoEnd ELSE file[w][g]
    BY <2>1, <2>2 DEF KernelOK
  <2>4. closed' \in SUBSET Ends /\ closed \subseteq closed'
    BY <2>1, <2>2 DEF KernelOK
  <2>5. /\ ready' \in [Users -> SUBSET ({Listen} \cup Fds)]
        /\ \A w \in Users : ready[w] \ {f} \subseteq ready'[w]
        /\ \A w \in Users \ {u} : ready[w] \subseteq ready'[w]
    BY <2>2 DEF KernelOK, Notified
  <2>6. ASSUME NEW w \in Users, NEW x \in ready'[w] \ {Listen}
        PROVE  file'[w][x] # NoEnd \/ (x \in ready[w] /\ file[w][x] = NoEnd)
    <3>1. Other(file[u][f]) \in Ends /\ NoEnd \notin Ends
      BY <2>1, OtherEnd DEF Ends, NoEnd
    <3>2. ~(w = u /\ x = f) /\ x \in Fds
      BY <2>2, <2>5 DEF Notified
    <3>3. x \in ready[w] \/ file[w][x] = Other(file[u][f])
      BY <2>2 DEF Notified
    <3> QED BY <2>3, <3>1, <3>2, <3>3
  <2> QED BY <2>1, <2>2, <2>3, <2>4, <2>5, <2>6
<1> QED BY <1>1, <1>2

\* The end of a client program, seen from the others: their channels to it
\* are closed at its end.
LEMMA ProgramEndsDoes ==
    ASSUME KernelOK, NEW u \in Users, ProgramEnds(u)
    PROVE  /\ file' \in [Users -> [Fds -> {NoEnd} \cup Ends]]
           /\ ready' \in [Users -> SUBSET ({Listen} \cup Fds)]
           /\ batch' \in [Users -> SUBSET ({Listen} \cup Fds)]
           /\ backlog' \in [Users -> Seq(Ends)]
           /\ closed' \in SUBSET Ends
           /\ closed \subseteq closed'
           /\ \A f \in Fds : file'[u][f] = NoEnd
           /\ ready'[u] = {} /\ batch'[u] = {} /\ backlog'[u] = <<>>
           /\ \A w \in Users \ {u} :
                 /\ file'[w] = file[w] /\ batch'[w] = batch[w]
                 /\ backlog'[w] = backlog[w] /\ ready[w] \subseteq ready'[w]
           /\ \A w \in Users : \A x \in ready'[w] \ {Listen} :
                 file'[w][x] # NoEnd \/ (x \in ready[w] /\ file[w][x] = NoEnd)
           /\ \A e \in Ends : at[e] = u => e \in closed'
<1> DEFINE mine == {e \in Ends : at[e] = u /\ e \notin closed}
<1>1. /\ file' = [file EXCEPT ![u] = [f \in Fds |-> NoEnd]]
      /\ backlog' = [backlog EXCEPT ![u] = <<>>]
      /\ closed' = closed \cup mine
      /\ ready' = [Notified({Other(e) : e \in mine}) EXCEPT ![u] = {}]
      /\ batch' = [batch EXCEPT ![u] = {}]
  BY DEF ProgramEnds
<1>2. /\ file' \in [Users -> [Fds -> {NoEnd} \cup Ends]]
      /\ batch' \in [Users -> SUBSET ({Listen} \cup Fds)]
      /\ backlog' \in [Users -> Seq(Ends)]
      /\ \A f \in Fds : file'[u][f] = NoEnd
      /\ batch'[u] = {} /\ backlog'[u] = <<>>
      /\ \A w \in Users \ {u} : /\ file'[w] = file[w] /\ batch'[w] = batch[w]
                                /\ backlog'[w] = backlog[w]
  BY <1>1 DEF KernelOK
<1>3. /\ closed' \in SUBSET Ends /\ closed \subseteq closed'
      /\ \A e \in Ends : at[e] = u => e \in closed'
  BY <1>1 DEF KernelOK
<1>4. \A e \in mine : Other(e) \in Ends
  BY OtherEnd
<1>5. NoEnd \notin {Other(e) : e \in mine}
  BY <1>4 DEF Ends, NoEnd
<1> HIDE DEF mine
<1>6. /\ ready' \in [Users -> SUBSET ({Listen} \cup Fds)]
      /\ ready'[u] = {}
      /\ \A w \in Users \ {u} : ready[w] \subseteq ready'[w]
  BY <1>1 DEF KernelOK, Notified
<1>7. ASSUME NEW w \in Users, NEW x \in ready'[w] \ {Listen}
      PROVE  file'[w][x] # NoEnd \/ (x \in ready[w] /\ file[w][x] = NoEnd)
  <2>1. w # u
    BY <1>6
  <2>2. x \in ready[w] \/ file[w][x] \in {Other(e) : e \in mine}
    BY <1>1, <2>1 DEF Notified
  <2>3. file'[w][x] = file[w][x]
    BY <1>2, <2>1
  <2> QED BY <1>5, <2>2, <2>3
<1> QED BY <1>2, <1>3, <1>6, <1>7

-----------------------------------------------------------------------------
(* The types of the kernel's state                                          *)

\* At first no end is anybody's.
LEMMA KInit == Init => KInv
<1> SUFFICES ASSUME Init PROVE KInv
  OBVIOUS
<1>1. \A e \in Ends : Other(e) \in Ends
  BY OtherEnd
<1>2. KernelOK
  BY DEF Init, KernelOK, Uids
<1>3. EndsPaired
  BY <1>1 DEF Init, EndsPaired
<1>4. EndsOwned /\ ListenHasBacklog
  BY DEF Init, EndsOwned, EndsOf, ListenHasBacklog
<1> QED BY <1>2, <1>3, <1>4 DEF KInv

LEMMA KUnchanged == KInv /\ UNCHANGED kernel => KInv'
BY DEF KInv, KernelOK, EndsPaired, EndsOwned, EndsOf, ListenHasBacklog,
       kernel

\* A close takes a number from an end, and no step of a thread returns an event of
\* the listening socket without a connection.
LEMMA KClose ==
    ASSUME KInv, NEW u \in Users, NEW f \in FdsOrNone, Close(u, f),
           UNCHANGED <<backlog, at, inbox, reset>>,
           batch' \in [Users -> SUBSET ({Listen} \cup Fds)],
           \A w \in Users : batch'[w] \subseteq batch[w]
    PROVE  KInv'
<1>1. /\ file' \in [Users -> [Fds -> {NoEnd} \cup Ends]]
      /\ ready' \in [Users -> SUBSET ({Listen} \cup Fds)]
      /\ closed' \in SUBSET Ends
      /\ \A w \in Users, g \in Fds : file'[w][g] \in {NoEnd, file[w][g]}
  BY CloseDoes DEF KInv
<1>2. KernelOK'
  BY <1>1 DEF KInv, KernelOK
<1>3. EndsPaired' /\ ListenHasBacklog'
  BY DEF KInv, EndsPaired, ListenHasBacklog
<1>4. NoEnd \notin Ends
  BY DEF NoEnd, Ends
<1>5. ASSUME NEW w \in Users PROVE EndsOf(w)'
  <2>1. /\ EndsOf(w)
        /\ \A g \in Fds : file'[w][g] \in {NoEnd, file[w][g]}
        /\ \A n \in 1..Len(backlog[w]) : backlog[w][n] \in Ends
        /\ backlog' = backlog /\ at' = at
    BY <1>1 DEF KInv, KernelOK, EndsOwned
  <2>2. \A g \in Fds : file'[w][g] # NoEnd => at[file'[w][g]] = w
    BY <2>1 DEF EndsOf
  <2>3. \A g, h \in Fds : file'[w][g] # NoEnd /\ file'[w][g] = file'[w][h] => g = h
    BY <2>1 DEF EndsOf
  <2>4. \A n \in 1..Len(backlog[w]) :
           /\ at[backlog[w][n]] = w
           /\ \A g \in Fds : file'[w][g] # backlog[w][n]
           /\ \A m \in 1..Len(backlog[w]) : backlog[w][m] = backlog[w][n] => m = n
    BY <1>4, <2>1 DEF EndsOf
  <2> QED BY <2>1, <2>2, <2>3, <2>4 DEF EndsOf
<1>6. EndsOwned'
  BY <1>5 DEF EndsOwned
<1> QED BY <1>2, <1>3, <1>6 DEF KInv

\* The end of a program leaves the descriptors of the others.
LEMMA KProgramEnds ==
    ASSUME KInv, NEW u \in Users, ProgramEnds(u)
    PROVE  KInv'
<1>1. /\ file' \in [Users -> [Fds -> {NoEnd} \cup Ends]]
      /\ ready' \in [Users -> SUBSET ({Listen} \cup Fds)]
      /\ batch' \in [Users -> SUBSET ({Listen} \cup Fds)]
      /\ backlog' \in [Users -> Seq(Ends)]
      /\ closed' \in SUBSET Ends
      /\ \A f \in Fds : file'[u][f] = NoEnd
      /\ batch'[u] = {} /\ backlog'[u] = <<>>
      /\ \A w \in Users \ {u} : /\ file'[w] = file[w] /\ batch'[w] = batch[w]
                                /\ backlog'[w] = backlog[w]
  BY ProgramEndsDoes DEF KInv
<1>2. UNCHANGED <<at, inbox, reset>>
  BY DEF ProgramEnds
<1>3. KernelOK'
  BY <1>1, <1>2 DEF KInv, KernelOK
<1>4. EndsPaired'
  BY <1>2 DEF KInv, EndsPaired
<1>5. ListenHasBacklog'
  BY <1>1 DEF KInv, ListenHasBacklog
<1>6. 1..Len(backlog'[u]) = {}
  BY <1>1
<1>7. EndsOf(u)'
  BY <1>1, <1>6 DEF EndsOf
<1>8. ASSUME NEW w \in Users \ {u} PROVE EndsOf(w)'
  <2>1. file'[w] = file[w] /\ backlog'[w] = backlog[w] /\ at' = at /\ EndsOf(w)
    BY <1>1, <1>2 DEF KInv, EndsOwned
  <2> QED BY <2>1 DEF EndsOf
<1>9. EndsOwned'
  BY <1>7, <1>8 DEF EndsOwned
<1> QED BY <1>3, <1>4, <1>5, <1>9 DEF KInv

\* An event of the listening socket is returned when a connection waits.
LEMMA KEpollWait ==
    ASSUME KInv, NEW u \in Users, EpollWait(u)
    PROVE  KInv'
<1>1. /\ batch' \in [Users -> SUBSET ({Listen} \cup Fds)]
      /\ ready' \in [Users -> SUBSET ({Listen} \cup Fds)]
      /\ Listen \in batch'[u] => backlog[u] # <<>>
      /\ \A w \in Users \ {u} : batch'[w] = batch[w]
  BY DEF EpollWait, KInv, KernelOK, Readable
<1>2. KernelOK'
  BY <1>1 DEF EpollWait, KInv, KernelOK
<1>3. EndsPaired' /\ EndsOwned'
  BY DEF EpollWait, KInv, EndsPaired, EndsOwned, EndsOf
<1>4. ListenHasBacklog'
  BY <1>1 DEF EpollWait, KInv, ListenHasBacklog
<1> QED BY <1>2, <1>3, <1>4 DEF KInv

LEMMA KRecvMessage ==
    ASSUME KInv, NEW u \in Users, NEW f \in Fds, RecvMessage(u, f)
    PROVE  KInv'
<1>1. file[u][f] \in Ends
  BY DEF RecvMessage, KInv, KernelOK
<1>2. /\ inbox' = [inbox EXCEPT ![file[u][f]] = <<>>]
      /\ batch' = [batch EXCEPT ![u] = batch[u] \ {f}]
      /\ UNCHANGED <<file, backlog, ready, at, closed, reset>>
  BY DEF RecvMessage, AfterMessage
<1>3. /\ inbox' \in [Ends -> Seq(Users)]
      /\ batch' \in [Users -> SUBSET ({Listen} \cup Fds)]
  BY <1>1, <1>2 DEF KInv, KernelOK
<1>4. KernelOK'
  BY <1>2, <1>3 DEF KInv, KernelOK
<1>5. EndsPaired'
  BY <1>1, <1>2 DEF KInv, KernelOK, EndsPaired
<1>6. EndsOwned'
  BY <1>2 DEF KInv, EndsOwned, EndsOf
<1>7. ListenHasBacklog'
  BY <1>2 DEF KInv, KernelOK, ListenHasBacklog
<1> QED BY <1>4, <1>5, <1>6, <1>7 DEF KInv

LEMMA KRecvAgain ==
    ASSUME KInv, NEW u \in Users, NEW f \in Fds, RecvAgain(u, f)
    PROVE  KInv'
<1>1. /\ batch' = [batch EXCEPT ![u] = {}]
      /\ UNCHANGED <<file, backlog, ready, at, inbox, closed, reset>>
  BY DEF RecvAgain, Dropped
<1>2. KernelOK' /\ ListenHasBacklog'
  BY <1>1 DEF KInv, KernelOK, ListenHasBacklog
<1>3. EndsPaired' /\ EndsOwned'
  BY <1>1 DEF KInv, EndsPaired, EndsOwned, EndsOf
<1> QED BY <1>2, <1>3 DEF KInv

\* A message that is sent, or the reset that answers it.
LEMMA KSend ==
    ASSUME TInv, NEW u \in Users, Send(u)
    PROVE  KInv'
<1>1. CASE UNCHANGED kernel
  BY <1>1, KUnchanged DEF TInv
<1>2. CASE ProgramEnds(u)
  BY <1>2, KProgramEnds DEF TInv
<1>3. ASSUME NEW f \in FdsOrNone, NEW e, e = (IF f = None THEN NoEnd ELSE file[u][f]),
             e # NoEnd, Other(e) \notin closed,
             inbox' = [inbox EXCEPT ![Other(e)] = Append(@, who[u])],
             ready' = Notified({Other(e)}), ui[u] = "send",
             UNCHANGED <<file, backlog, batch, at, closed, reset>>
      PROVE  KInv'
  <2>1. f \in Fds /\ e = file[u][f] /\ e \in Ends /\ Other(e) \in Ends
        /\ Other(Other(e)) = e
    <3>1. f \in Fds /\ e = file[u][f] /\ e \in Ends
      BY <1>3 DEF FdsOrNone, TInv, KInv, KernelOK
    <3> QED BY <3>1, OtherEnd
  <2>2. at[e] = u /\ at[Other(e)] # 0
    <3>1. at[e] = u /\ u # 0
      BY <1>3, <2>1 DEF TInv, KInv, EndsOwned, EndsOf, Users
    <3> QED BY <2>1, <3>1 DEF TInv, KInv, EndsPaired
  <2>3. who[u] \in Users
    BY <1>3 DEF TInv, InterfaceOK
  <2>4. inbox' \in [Ends -> Seq(Users)]
    <3>1. inbox[Other(e)] \in Seq(Users)
      BY <2>1 DEF TInv, KInv, KernelOK
    <3>2. Append(inbox[Other(e)], who[u]) \in Seq(Users)
      BY <2>3, <3>1
    <3> QED BY <1>3, <3>2 DEF TInv, KInv, KernelOK
  <2>5. ready' \in [Users -> SUBSET ({Listen} \cup Fds)]
    BY <1>3 DEF TInv, KInv, KernelOK, Notified
  <2>6. KernelOK'
    BY <1>3, <2>4, <2>5 DEF TInv, KInv, KernelOK
  <2>7. EndsPaired'
    BY <1>3, <2>1, <2>2 DEF TInv, KInv, KernelOK, EndsPaired
  <2>8. EndsOwned' /\ ListenHasBacklog'
    BY <1>3 DEF TInv, KInv, EndsOwned, EndsOf, ListenHasBacklog
  <2> QED BY <2>6, <2>7, <2>8 DEF KInv
<1>4. ASSUME NEW f \in FdsOrNone, NEW e, e = (IF f = None THEN NoEnd ELSE file[u][f]),
             e # NoEnd, reset' = reset \cup {e}, ready' = Notified({e}),
             UNCHANGED <<file, backlog, batch, at, inbox, closed>>
      PROVE  KInv'
  <2>1. e \in Ends
    BY <1>4 DEF FdsOrNone, TInv, KInv, KernelOK
  <2>2. ready' \in [Users -> SUBSET ({Listen} \cup Fds)]
    BY <1>4 DEF TInv, KInv, KernelOK, Notified
  <2>3. KernelOK'
    BY <1>4, <2>1, <2>2 DEF TInv, KInv, KernelOK
  <2>4. EndsPaired' /\ EndsOwned' /\ ListenHasBacklog'
    BY <1>4 DEF TInv, KInv, EndsPaired, EndsOwned, EndsOf, ListenHasBacklog
  <2> QED BY <2>3, <2>4 DEF KInv
<1>5. client_b_sockfd[u] \in FdsOrNone
  BY DEF TInv, TablesOK
<1> QED BY <1>1, <1>2, <1>3, <1>4, <1>5 DEF Send

\* What an accept does: the oldest connection gets a free number.
LEMMA AcceptDoes ==
    ASSUME KInv, NEW u \in Users, Accept(u)
    PROVE  \E f \in Fds :
              /\ backlog[u] # <<>> /\ Head(backlog[u]) \in Ends
              /\ backlog[u] \in Seq(Ends) /\ Len(backlog[u]) \in Nat \ {0}
              /\ Head(backlog[u]) = backlog[u][1]
              /\ file[u][f] = NoEnd
              /\ file' = [file EXCEPT ![u][f] = Head(backlog[u])]
              /\ ready' = [ready EXCEPT ![u] =
                              ReadyWhenAdded(u, f, Head(backlog[u]))]
              /\ backlog' = [backlog EXCEPT ![u] = Tail(@)]
              /\ batch' = [batch EXCEPT ![u] = @ \ {Listen}]
              /\ UNCHANGED <<at, inbox, closed, reset>>
<1>1. backlog[u] # <<>> /\ backlog[u] \in Seq(Ends)
  BY DEF Accept, KInv, ListenHasBacklog, KernelOK
<1>2. /\ Head(backlog[u]) = backlog[u][1] /\ Head(backlog[u]) \in Ends
      /\ Len(backlog[u]) \in Nat \ {0}
  BY <1>1
<1>3. \A f \in Fds : file[u][f] # Head(backlog[u])
  BY <1>2 DEF KInv, EndsOwned, EndsOf
<1>4. NewFd(u) \in Fds /\ file[u][NewFd(u)] = NoEnd
  BY <1>2, <1>3, FreeFd
<1> QED BY <1>1, <1>2, <1>4 DEF Accept

\* An accept moves an end from the backlog to a descriptor.
LEMMA KAccept ==
    ASSUME KInv, NEW u \in Users, Accept(u)
    PROVE  KInv'
<1>1. PICK f \in Fds :
              /\ backlog[u] # <<>> /\ Head(backlog[u]) \in Ends
              /\ backlog[u] \in Seq(Ends) /\ Len(backlog[u]) \in Nat \ {0}
              /\ Head(backlog[u]) = backlog[u][1]
              /\ file[u][f] = NoEnd
              /\ file' = [file EXCEPT ![u][f] = Head(backlog[u])]
              /\ ready' = [ready EXCEPT ![u] =
                              ReadyWhenAdded(u, f, Head(backlog[u]))]
              /\ backlog' = [backlog EXCEPT ![u] = Tail(@)]
              /\ batch' = [batch EXCEPT ![u] = @ \ {Listen}]
              /\ UNCHANGED <<at, inbox, closed, reset>>
  BY AcceptDoes
<1>2. /\ Tail(backlog[u]) \in Seq(Ends)
      /\ Len(Tail(backlog[u])) = Len(backlog[u]) - 1
      /\ \A n \in 1..Len(Tail(backlog[u])) :
            Tail(backlog[u])[n] = backlog[u][n + 1] /\ n + 1 \in 1..Len(backlog[u])
  BY <1>1
<1>3. /\ file' \in [Users -> [Fds -> {NoEnd} \cup Ends]]
      /\ backlog' \in [Users -> Seq(Ends)]
      /\ batch' \in [Users -> SUBSET ({Listen} \cup Fds)]
      /\ ready' \in [Users -> SUBSET ({Listen} \cup Fds)]
  BY <1>1, <1>2 DEF KInv, KernelOK, ReadyWhenAdded
<1>4. KernelOK'
  BY <1>1, <1>3 DEF KInv, KernelOK
<1>5. EndsPaired'
  BY <1>1 DEF KInv, EndsPaired
<1>6. ListenHasBacklog'
  BY <1>1 DEF KInv, KernelOK, ListenHasBacklog
<1>7. EndsOf(u)'
  <2>1. /\ file'[u][f] = backlog[u][1]
        /\ \A g \in Fds \ {f} : file'[u][g] = file[u][g]
        /\ backlog'[u] = Tail(backlog[u])
        /\ EndsOf(u)
        /\ 1 \in 1..Len(backlog[u])
    BY <1>1 DEF KInv, KernelOK, EndsOwned
  <2>2. \A g \in Fds : file'[u][g] # NoEnd => at[file'[u][g]] = u
    BY <2>1 DEF EndsOf
  <2>3. \A g, h \in Fds : file'[u][g] # NoEnd /\ file'[u][g] = file'[u][h] => g = h
    BY <2>1 DEF EndsOf
  <2>4. ASSUME NEW n \in 1..Len(backlog'[u])
        PROVE  /\ at[backlog'[u][n]] = u
               /\ \A g \in Fds : file'[u][g] # backlog'[u][n]
               /\ \A m \in 1..Len(backlog'[u]) :
                     backlog'[u][m] = backlog'[u][n] => m = n
    <3>1. /\ n \in Int /\ n + 1 \in 1..Len(backlog[u]) /\ n + 1 # 1
          /\ backlog'[u][n] = backlog[u][n + 1]
      BY <1>2, <2>1
    <3>2. at[backlog'[u][n]] = u /\ backlog[u][n + 1] # backlog[u][1]
      BY <2>1, <3>1 DEF EndsOf
    <3>3. \A g \in Fds : file'[u][g] # backlog'[u][n]
      BY <2>1, <3>1, <3>2 DEF EndsOf
    <3>4. ASSUME NEW m \in 1..Len(backlog'[u]), backlog'[u][m] = backlog'[u][n]
          PROVE  m = n
      <4>1. m \in Int /\ m + 1 \in 1..Len(backlog[u])
            /\ backlog'[u][m] = backlog[u][m + 1]
        BY <1>2, <2>1
      <4>2. m + 1 = n + 1
        BY <2>1, <3>1, <3>4, <4>1 DEF EndsOf
      <4> QED BY <3>1, <4>1, <4>2
    <3> QED BY <3>2, <3>3, <3>4
  <2>5. at' = at
    BY <1>1
  <2> QED BY <2>2, <2>3, <2>4, <2>5 DEF EndsOf
<1>8. ASSUME NEW w \in Users \ {u} PROVE EndsOf(w)'
  <2>1. file'[w] = file[w] /\ backlog'[w] = backlog[w] /\ at' = at /\ EndsOf(w)
    BY <1>1 DEF KInv, KernelOK, EndsOwned
  <2> QED BY <2>1 DEF EndsOf
<1>9. EndsOwned'
  BY <1>7, <1>8 DEF EndsOwned
<1> QED BY <1>4, <1>5, <1>6, <1>9 DEF KInv

\* What socket and connect do: a new connection, one end of it at a free
\* number, the other end of it last in the backlog of the user called.
LEMMA OpenDoes ==
    ASSUME TInv, NEW u \in Users, Open(u)
    PROVE  \E f \in Fds, e \in Ends :
              /\ ui[u] = "open" /\ Running(who[u]) /\ who[u] \in Users
              /\ Other(e) \in Ends /\ Other(Other(e)) = e /\ Other(e) # e
              /\ at[e] = 0 /\ at[Other(e)] = 0
              /\ inbox[e] = <<>> /\ inbox[Other(e)] = <<>>
              /\ file[u][f] = NoEnd
              /\ at' = [at EXCEPT ![e] = u, ![Other(e)] = who[u]]
              /\ file' = [file EXCEPT ![u][f] = e]
              /\ backlog' = [backlog EXCEPT ![who[u]] = Append(@, Other(e))]
              /\ ready' = [ready EXCEPT ![who[u]] = @ \cup {Listen}]
              /\ client_b_sockfd' = [client_b_sockfd EXCEPT ![u] = f]
              /\ uid_sockfd' = [uid_sockfd EXCEPT ![u][who[u]] = f]
              /\ Returned(u)
              /\ UNCHANGED <<online, who, i, fd, thvars, uid_client_b_sockfd,
                             client_b_sockfd_thread, batch, inbox, closed, reset,
                             missed>>
<1>1. PICK k \in 1..MaxConns :
         /\ at[2 * k] = 0
         /\ at' = [at EXCEPT ![2 * k - 1] = u, ![2 * k] = who[u]]
         /\ file' = [file EXCEPT ![u][NewFd(u)] = 2 * k - 1]
         /\ backlog' = [backlog EXCEPT ![who[u]] = Append(@, 2 * k)]
         /\ ready' = [ready EXCEPT ![who[u]] = @ \cup {Listen}]
         /\ client_b_sockfd' = [client_b_sockfd EXCEPT ![u] = NewFd(u)]
         /\ uid_sockfd' = [uid_sockfd EXCEPT ![u][who[u]] = NewFd(u)]
  BY DEF Open, Entered
<1>2. PICK e : e = 2 * k - 1
  OBVIOUS
<1>3. /\ e \in Ends /\ Other(e) \in Ends /\ Other(e) = 2 * k
      /\ Other(Other(e)) = e /\ Other(e) # e
  BY <1>2, OtherEnd
<1>4. /\ at[e] = 0 /\ at[Other(e)] = 0
      /\ inbox[e] = <<>> /\ inbox[Other(e)] = <<>>
  BY <1>1, <1>3 DEF TInv, KInv, EndsPaired
<1>5. \A g \in Fds : file[u][g] # e
  <2>1. u # 0 /\ e # NoEnd
    BY <1>3 DEF Users, Ends, NoEnd
  <2> QED BY <1>4, <2>1 DEF TInv, KInv, EndsOwned, EndsOf
<1>6. NewFd(u) \in Fds /\ file[u][NewFd(u)] = NoEnd
  BY <1>3, <1>5, FreeFd DEF TInv
<1>7. /\ ui[u] = "open" /\ Running(who[u]) /\ who[u] \in Users
      /\ Returned(u)
      /\ UNCHANGED <<online, who, i, fd, thvars, uid_client_b_sockfd,
                     client_b_sockfd_thread, batch, inbox, closed, reset, missed>>
  BY DEF Open, TInv, InterfaceOK
<1> HIDE DEF Returned, Running, Other
<1> QED BY <1>1, <1>2, <1>3, <1>4, <1>6, <1>7

\* A new connection has ends that nothing referred to.
LEMMA KOpen ==
    ASSUME TInv, NEW u \in Users, Open(u)
    PROVE  KInv'
<1>1. PICK f \in Fds, e \in Ends :
         /\ who[u] \in Users
         /\ Other(e) \in Ends /\ Other(Other(e)) = e /\ Other(e) # e
         /\ at[e] = 0 /\ at[Other(e)] = 0
         /\ inbox[e] = <<>> /\ inbox[Other(e)] = <<>>
         /\ file[u][f] = NoEnd
         /\ at' = [at EXCEPT ![e] = u, ![Other(e)] = who[u]]
         /\ file' = [file EXCEPT ![u][f] = e]
         /\ backlog' = [backlog EXCEPT ![who[u]] = Append(@, Other(e))]
         /\ ready' = [ready EXCEPT ![who[u]] = @ \cup {Listen}]
         /\ UNCHANGED <<batch, inbox, closed, reset>>
  BY OpenDoes
<1>2. PICK v \in Users : v = who[u]
  BY <1>1
<1>3. /\ u # 0 /\ v # 0 /\ u \in Uids /\ v \in Uids /\ NoEnd \notin Ends
  BY DEF Users, Uids, NoEnd, Ends
<1>4. /\ at' \in [Ends -> Uids]
      /\ at'[e] = u /\ at'[Other(e)] = v
      /\ \A d \in Ends \ {e, Other(e)} : at'[d] = at[d]
  BY <1>1, <1>2, <1>3 DEF TInv, KInv, KernelOK
<1>5. /\ file' \in [Users -> [Fds -> {NoEnd} \cup Ends]]
      /\ file'[u][f] = e
      /\ \A g \in Fds \ {f} : file'[u][g] = file[u][g]
      /\ \A w \in Users \ {u} : file'[w] = file[w]
  BY <1>1 DEF TInv, KInv, KernelOK
<1>6. /\ backlog[v] \in Seq(Ends) /\ Len(backlog[v]) \in Nat
      /\ Append(backlog[v], Other(e)) \in Seq(Ends)
      /\ Len(Append(backlog[v], Other(e))) = Len(backlog[v]) + 1
      /\ Append(backlog[v], Other(e)) # <<>>
      /\ Append(backlog[v], Other(e))[Len(backlog[v]) + 1] = Other(e)
      /\ \A n \in 1..Len(backlog[v]) :
            Append(backlog[v], Other(e))[n] = backlog[v][n]
  <2>1. backlog[v] \in Seq(Ends)
    BY DEF TInv, KInv, KernelOK
  <2> QED BY <1>1, <2>1
<1>7. /\ backlog' \in [Users -> Seq(Ends)]
      /\ backlog'[v] = Append(backlog[v], Other(e))
      /\ \A w \in Users \ {v} : backlog'[w] = backlog[w]
  BY <1>1, <1>2, <1>6 DEF TInv, KInv, KernelOK
<1>8. ready' \in [Users -> SUBSET ({Listen} \cup Fds)]
  BY <1>1 DEF TInv, KInv, KernelOK
<1>9. KernelOK'
  BY <1>1, <1>4, <1>5, <1>7, <1>8 DEF TInv, KInv, KernelOK
<1>10. EndsPaired'
  <2> SUFFICES ASSUME NEW d \in Ends
               PROVE  /\ at'[d] = 0 <=> at'[Other(d)] = 0
                      /\ at'[d] = 0 => inbox[d] = <<>>
    BY <1>1 DEF EndsPaired
  <2>1. /\ at[d] = 0 <=> at[Other(d)] = 0
        /\ at[d] = 0 => inbox[d] = <<>>
    BY DEF TInv, KInv, EndsPaired
  <2>2. Other(d) \in Ends /\ Other(Other(d)) = d
    BY OtherEnd
  <2>3. CASE d \in {e, Other(e)}
    BY <1>1, <1>3, <1>4, <2>3
  <2>4. CASE d \notin {e, Other(e)}
    <3>1. Other(d) \notin {e, Other(e)}
      BY <1>1, <2>2, <2>4
    <3> QED BY <1>4, <2>1, <2>2, <2>4, <3>1
  <2> QED BY <2>3, <2>4
<1>11. ListenHasBacklog'
  BY <1>1, <1>2, <1>6, <1>7 DEF TInv, KInv, ListenHasBacklog
<1>12. ASSUME NEW w \in Users PROVE EndsOf(w)'
  <2>1. /\ EndsOf(w)
        /\ file[w] \in [Fds -> {NoEnd} \cup Ends]
        /\ backlog[w] \in Seq(Ends)
        /\ w # 0
    <3>1. w # 0
      BY DEF Users
    <3> QED BY <3>1 DEF TInv, KInv, KernelOK, EndsOwned
  <2>2. ASSUME NEW g \in Fds
        PROVE  /\ file[w][g] # e
               /\ file[w][g] # Other(e)
               /\ file[w][g] # NoEnd => at'[file[w][g]] = w
    <3>1. file[w][g] # NoEnd => at[file[w][g]] = w
      BY <2>1 DEF EndsOf
    <3>2. e # NoEnd /\ Other(e) # NoEnd
      BY <1>1, <1>3
    <3>3. file[w][g] # e /\ file[w][g] # Other(e)
      BY <1>1, <2>1, <3>1, <3>2
    <3>4. file[w][g] # NoEnd => at'[file[w][g]] = at[file[w][g]]
      BY <1>4, <2>1, <3>3
    <3> QED BY <3>1, <3>3, <3>4
  <2>3. \A n \in 1..Len(backlog[w]) :
           /\ backlog[w][n] \in Ends
           /\ backlog[w][n] # e /\ backlog[w][n] # Other(e)
           /\ at'[backlog[w][n]] = w
    BY <1>1, <1>3, <1>4, <2>1 DEF EndsOf
  <2>4. \A g \in Fds : file'[w][g] = IF w = u /\ g = f THEN e ELSE file[w][g]
    BY <1>5
  <2>5. ASSUME NEW g \in Fds
        PROVE  /\ file'[w][g] # NoEnd => at'[file'[w][g]] = w
               /\ file'[w][g] # Other(e)
    <3>1. CASE w = u /\ g = f
      <4>1. file'[w][g] = e
        BY <2>4, <3>1
      <4> QED BY <1>1, <1>4, <3>1, <4>1
    <3>2. CASE ~(w = u /\ g = f)
      <4>1. file'[w][g] = file[w][g]
        BY <2>4, <3>2
      <4> QED BY <2>2, <4>1
    <3> QED BY <3>1, <3>2
  <2>6. \A g, h \in Fds : file'[w][g] # NoEnd /\ file'[w][g] = file'[w][h] => g = h
    BY <2>1, <2>2, <2>4 DEF EndsOf
  <2>7. \A n \in 1..Len(backlog[w]) : \A g \in Fds : file'[w][g] # backlog[w][n]
    BY <2>1, <2>3, <2>4 DEF EndsOf
  <2>8. CASE w # v
    <3>1. backlog'[w] = backlog[w]
      BY <1>7, <2>8
    <3> QED BY <2>1, <2>3, <2>5, <2>6, <2>7, <3>1 DEF EndsOf
  <2>9. CASE w = v
    <3>1. \A n \in 1..Len(backlog'[w]) :
             \/ n \in 1..Len(backlog[w]) /\ backlog'[w][n] = backlog[w][n]
             \/ n = Len(backlog[w]) + 1 /\ backlog'[w][n] = Other(e)
      BY <1>6, <1>7, <2>9
    <3>2. \A n \in 1..Len(backlog'[w]) :
             /\ at'[backlog'[w][n]] = w
             /\ \A g \in Fds : file'[w][g] # backlog'[w][n]
      BY <1>4, <2>3, <2>5, <2>7, <2>9, <3>1
    <3>3. \A m, n \in 1..Len(backlog'[w]) : backlog'[w][m] = backlog'[w][n] => m = n
      <4>1. \A m, n \in 1..Len(backlog[w]) : backlog[w][m] = backlog[w][n] => m = n
        BY <2>1 DEF EndsOf
      <4>2. \A n \in 1..Len(backlog[w]) : backlog[w][n] # Other(e)
        BY <2>3
      <4> QED BY ONLY <3>1, <4>1, <4>2
    <3>4. \A g \in Fds : file'[w][g] # NoEnd => at'[file'[w][g]] = w
      BY <2>5
    <3> QED BY <2>6, <3>2, <3>3, <3>4 DEF EndsOf
  <2> QED BY <2>8, <2>9
<1>13. EndsOwned'
  BY <1>12 DEF EndsOwned
<1> QED BY <1>9, <1>10, <1>11, <1>13 DEF KInv

\* clean_epollfd closes what an entry of the table has.
LEMMA CleanDoes ==
    ASSUME TInv, NEW u \in Users, Clean(u)
    PROVE  \E v \in Uids :
              /\ uid_sockfd[u][v] \in Fds /\ v # listen_sockfd
              /\ Close(u, uid_sockfd[u][v])
              /\ i' = [i EXCEPT ![u] = v]
              /\ fd' = [fd EXCEPT ![u] = uid_sockfd[u][v]]
<1>1. ToClean(u) \in SUBSET Nat /\ ToClean(u) # {}
  BY DEF ToClean, Users, Clean
<1>2. PICK v : v = Min(ToClean(u)) /\ v \in ToClean(u)
  BY <1>1, LeastNatural
<1>3. v \in Uids /\ uid_sockfd[u][v] # None /\ v # listen_sockfd
  BY <1>2 DEF ToClean, Uids
<1>4. uid_sockfd[u][v] \in Fds
  BY <1>3 DEF TInv, TablesOK, FdsOrNone
<1>5. /\ Close(u, uid_sockfd[u][v])
      /\ i' = [i EXCEPT ![u] = v]
      /\ fd' = [fd EXCEPT ![u] = uid_sockfd[u][v]]
  BY <1>2 DEF Clean
<1> QED BY <1>3, <1>4, <1>5

\* Both closes of clean_epollfd are closes of a number or of none.
LEMMA CleanCloses ==
    ASSUME TInv, NEW u \in Users, Clean(u) \/ CleanAgain(u)
    PROVE  \E f \in FdsOrNone : Close(u, f)
<1>1. CASE Clean(u)
  BY <1>1, CleanDoes DEF FdsOrNone
<1>2. CASE CleanAgain(u)
  BY <1>2 DEF CleanAgain, TInv, InterfaceOK
<1> QED BY <1>1, <1>2

\* Every step leaves each end with one place that refers to it.
LEMMA KStep == TInv /\ [Next]_vars => KInv'
<1> SUFFICES ASSUME TInv, [Next]_vars PROVE KInv'
  OBVIOUS
<1>1. KInv
  BY DEF TInv
<1>2. CASE UNCHANGED vars
  BY <1>1, <1>2, KUnchanged DEF vars
<1>3. ASSUME NEW u \in Users, Interface(u)
      PROVE  KInv'
  <2>1. CASE \/ \E v \in Users : SelectUser(u, v)
             \/ Lookup(u) \/ Type(u) \/ QuitChat(u) \/ Test(u) \/ Note(u)
             \/ Login(u) \/ Logout(u) \/ CleanEnds(u)
    <3>1. UNCHANGED kernel
      BY <2>1 DEF SelectUser, Lookup, Type, QuitChat, Test, Note, Login, Logout,
                  CleanEnds
    <3> QED BY <1>1, <3>1, KUnchanged
  <2>2. CASE ObtainAddr(u) \/ Reuse(u) \/ OpenFails(u) \/ Quit(u)
    <3>1. UNCHANGED kernel \/ ProgramEnds(u)
      BY <2>2 DEF ObtainAddr, Reuse, OpenFails, Quit
    <3> QED BY <1>1, <3>1, KUnchanged, KProgramEnds
  <2>3. CASE Open(u)
    BY <2>3, KOpen
  <2>4. CASE Send(u)
    BY <2>4, KSend
  <2>5. CASE Clean(u) \/ CleanAgain(u)
    <3>1. \E f \in FdsOrNone : Close(u, f)
      BY <2>5, CleanCloses
    <3>2. UNCHANGED <<backlog, batch, at, inbox, reset>>
      BY <2>5 DEF Clean, CleanAgain
    <3>3. batch' \in [Users -> SUBSET ({Listen} \cup Fds)]
      BY <1>1, <3>2 DEF KInv, KernelOK
    <3> QED BY <1>1, <3>1, <3>2, <3>3, KClose
  <2> QED BY <1>3, <2>1, <2>2, <2>3, <2>4, <2>5 DEF Interface
<1>4. ASSUME NEW u \in Users, Listening(u)
      PROVE  KInv'
  <2>1. CASE EpollWait(u)
    BY <1>1, <2>1, KEpollWait
  <2>2. CASE Accept(u)
    BY <1>1, <2>2, KAccept
  <2>3. CASE Table(u) \/ Forget(u)
    <3>1. UNCHANGED kernel
      BY <2>3 DEF Table, Forget
    <3> QED BY <1>1, <3>1, KUnchanged
  <2>4. CASE CloseAgain(u)
    <3>1. /\ sockfd[u] \in FdsOrNone /\ Close(u, sockfd[u])
          /\ UNCHANGED <<backlog, at, inbox, reset>>
      BY <2>4 DEF CloseAgain, TInv, ThreadOK
    <3>2. /\ batch' \in [Users -> SUBSET ({Listen} \cup Fds)]
          /\ \A w \in Users : batch'[w] \subseteq batch[w]
      BY <1>1, <2>4 DEF CloseAgain, Dropped, KInv, KernelOK
    <3> QED BY <1>1, <3>1, <3>2, KClose
  <2>5. ASSUME NEW f \in Fds, RecvMessage(u, f) PROVE KInv'
    BY <1>1, <2>5, KRecvMessage
  <2>6. ASSUME NEW f \in Fds, RecvClosed(u, f) PROVE KInv'
    <3>1. /\ f \in FdsOrNone /\ Close(u, f)
          /\ UNCHANGED <<backlog, at, inbox, reset>>
      BY <2>6 DEF RecvClosed, FdsOrNone
    <3>2. /\ batch' \in [Users -> SUBSET ({Listen} \cup Fds)]
          /\ \A w \in Users : batch'[w] \subseteq batch[w]
      BY <1>1, <2>6 DEF RecvClosed, KInv, KernelOK
    <3> QED BY <1>1, <3>1, <3>2, KClose
  <2>7. ASSUME NEW f \in Fds, RecvAgain(u, f) PROVE KInv'
    BY <1>1, <2>7, KRecvAgain
  <2> QED BY <1>4, <2>1, <2>2, <2>3, <2>4, <2>5, <2>6, <2>7 DEF Listening
<1> QED BY <1>2, <1>3, <1>4 DEF Next

-----------------------------------------------------------------------------
(* The types of the threads' state                                          *)

LEMMA ThreadsInit == Init => InterfaceOK /\ ThreadOK /\ TablesOK
BY ConstantsAssumption
   DEF Init, InterfaceOK, ThreadOK, TablesOK, Uids, FdsOrNone, InterfacePlaces,
       ListeningPlaces

\* A program that ends leaves only its place and its user's status changed.
LEMMA InterfaceProgramEnds ==
    ASSUME InterfaceOK, NEW u \in Users, ProgramEnds(u)
    PROVE  InterfaceOK'
BY DEF ProgramEnds, InterfaceOK, InterfacePlaces

\* Every step keeps the types of the user interfaces; who chats has a partner.
LEMMA StepInterfaceOK == TInv /\ [Next]_vars => InterfaceOK'
<1> SUFFICES ASSUME TInv, [Next]_vars PROVE InterfaceOK'
  OBVIOUS
<1>1. InterfaceOK
  BY DEF TInv
<1>2. CASE UNCHANGED vars
  BY <1>1, <1>2 DEF vars, uivars, InterfaceOK
<1>3. ASSUME NEW u \in Users, Interface(u)
      PROVE  InterfaceOK'
  <2>1. ASSUME NEW v \in Users, SelectUser(u, v) PROVE InterfaceOK'
    BY <1>1, <2>1 DEF SelectUser, Goto, InterfaceOK, InterfacePlaces, Uids
  <2>2. CASE ProgramEnds(u)
    BY <1>1, <2>2, InterfaceProgramEnds
  <2>3. ASSUME NEW place \in InterfacePlaces \ {"cleanagain"},
               ui' = [ui EXCEPT ![u] = place],
               place \in {"menu", "clean", "ended"} \/ who[u] \in Users,
               UNCHANGED <<online, who, chatting, i, fd, missed>>
        PROVE  InterfaceOK'
    BY <1>1, <2>3 DEF InterfaceOK
  <2>4. CASE ObtainAddr(u) \/ Lookup(u) \/ Type(u) \/ Test(u)
    <3>1. who[u] \in Users
      BY <1>1, <2>4 DEF ObtainAddr, Lookup, Type, Test, InterfaceOK
    <3>2. \/ ProgramEnds(u)
          \/ \E place \in {"lookup", "reuse", "open", "test", "send", "obtain"} :
                /\ ui' = [ui EXCEPT ![u] = place]
                /\ UNCHANGED <<online, who, chatting, i, fd, missed>>
      BY <2>4 DEF ObtainAddr, Lookup, Type, Test, Goto
    <3> QED BY <2>2, <2>3, <3>1, <3>2 DEF InterfacePlaces
  <2>5. CASE Reuse(u) \/ Open(u) \/ OpenFails(u)
    <3>1. who[u] \in Users
      BY <1>1, <2>5 DEF Reuse, Open, OpenFails, InterfaceOK
    <3>2. \/ ProgramEnds(u)
          \/ Returned(u) /\ UNCHANGED <<online, who, i, fd, missed>>
      BY <2>5 DEF Reuse, Open, OpenFails
    <3>3. CASE Returned(u) /\ UNCHANGED <<online, who, i, fd, missed>>
      <4>1. PICK place \in {"send", "input"} : ui' = [ui EXCEPT ![u] = place]
        BY <3>3 DEF Returned, Goto
      <4>2. chatting' \in [Users -> BOOLEAN]
        BY <1>1, <3>3 DEF Returned, InterfaceOK
      <4> QED BY <1>1, <3>1, <3>3, <4>1, <4>2 DEF InterfaceOK, InterfacePlaces
    <3> QED BY <2>2, <3>2, <3>3
  <2>6. CASE QuitChat(u)
    BY <1>1, <2>6 DEF QuitChat, Goto, InterfaceOK, InterfacePlaces, Uids
  <2>7. CASE Send(u) \/ Note(u)
    <3>1. who[u] \in Users
      BY <1>1, <2>7 DEF Send, Note, InterfaceOK
    <3>2. \/ ProgramEnds(u)
          \/ \E place \in {"note", "input"} :
                /\ ui' = [ui EXCEPT ![u] = place]
                /\ UNCHANGED <<online, who, chatting, i, fd, missed>>
      BY <2>7 DEF Send, Note, Goto
    <3> QED BY <2>2, <2>3, <3>1, <3>2 DEF InterfacePlaces
  <2>8. CASE Login(u) \/ Logout(u)
    <3>1. /\ online' \in [Users -> BOOLEAN]
          /\ UNCHANGED <<who, chatting, fd, missed>>
      BY <1>1, <2>8 DEF Login, Logout, uivars, InterfaceOK
    <3>2. \/ UNCHANGED <<ui, i>>
          \/ ui' = [ui EXCEPT ![u] = "clean"] /\ i' = [i EXCEPT ![u] = 0]
      BY <2>8 DEF Login, Logout, Goto, uivars
    <3>3. i' \in [Users -> 0..(N + 1)]
      BY <1>1, <3>2, ConstantsAssumption DEF InterfaceOK
    <3> QED BY <1>1, <3>1, <3>2, <3>3 DEF InterfaceOK, InterfacePlaces
  <2>9. CASE Clean(u)
    <3>1. PICK v \in Uids :
             /\ uid_sockfd[u][v] \in Fds
             /\ i' = [i EXCEPT ![u] = v]
             /\ fd' = [fd EXCEPT ![u] = uid_sockfd[u][v]]
      BY <2>9, CleanDoes
    <3>2. v \in 0..N /\ v \in 0..(N + 1) /\ uid_sockfd[u][v] \in FdsOrNone
      BY <3>1, ConstantsAssumption DEF Uids, Users, FdsOrNone
    <3>3. i' \in [Users -> 0..(N + 1)] /\ fd' \in [Users -> FdsOrNone]
      BY <1>1, <3>1, <3>2 DEF InterfaceOK
    <3>4. /\ ui' = [ui EXCEPT ![u] = "cleanagain"]
          /\ UNCHANGED <<online, who, chatting, missed>>
      BY <2>9 DEF Clean, Goto
    <3> QED BY <1>1, <3>1, <3>2, <3>3, <3>4 DEF InterfaceOK, InterfacePlaces
  <2>10. CASE CleanAgain(u)
    <3>1. /\ ui' = [ui EXCEPT ![u] = "clean"]
          /\ i' = [i EXCEPT ![u] = i[u] + 1]
          /\ fd' = [fd EXCEPT ![u] = None]
          /\ i[u] \in 0..N
          /\ UNCHANGED <<online, who, chatting, missed>>
      BY <1>1, <2>10 DEF CleanAgain, Goto, InterfaceOK
    <3>2. i[u] + 1 \in 0..(N + 1)
      BY <3>1, ConstantsAssumption
    <3> QED BY <1>1, <3>1, <3>2 DEF InterfaceOK, InterfacePlaces, FdsOrNone
  <2>11. CASE CleanEnds(u)
    BY <1>1, <2>11, ConstantsAssumption
       DEF CleanEnds, Goto, InterfaceOK, InterfacePlaces
  <2>12. CASE Quit(u)
    BY <2>2, <2>12 DEF Quit
  <2> QED
    BY <1>3, <2>1, <2>4, <2>5, <2>6, <2>7, <2>8, <2>9, <2>10, <2>11, <2>12
       DEF Interface
<1>4. ASSUME NEW u \in Users, Listening(u)
      PROVE  InterfaceOK'
  <2>1. /\ UNCHANGED <<online, uivars>>
        /\ missed' \in {missed, missed \cup {u}}
    BY <1>4 DEF Listening, EpollWait, Accept, Table, Forget, CloseAgain, RecvMessage,
                RecvClosed, RecvAgain, Dropped
  <2>2. missed' \in SUBSET Users
    BY <1>1, <2>1 DEF InterfaceOK
  <2> QED BY <1>1, <2>1, <2>2 DEF InterfaceOK, uivars
<1> QED BY <1>2, <1>3, <1>4 DEF Next

LEMMA StepThreadOK == TInv /\ [Next]_vars => ThreadOK'
<1> SUFFICES ASSUME TInv, [Next]_vars PROVE ThreadOK'
  OBVIOUS
<1>1. ThreadOK
  BY DEF TInv
<1>2. CASE UNCHANGED thvars
  BY <1>1, <1>2 DEF thvars, ThreadOK
<1>3. ASSUME NEW u \in Users, ProgramEnds(u) PROVE ThreadOK'
  BY <1>1, <1>3 DEF ProgramEnds, ThreadOK, ListeningPlaces
<1>4. ASSUME NEW u \in Users, Interface(u)
      PROVE  UNCHANGED thvars \/ ProgramEnds(u)
  BY <1>4
     DEF Interface, SelectUser, ObtainAddr, Lookup, Reuse, Open, OpenFails, Type,
         QuitChat, Test, Send, Note, Login, Logout, Clean, CleanAgain, CleanEnds,
         Quit
<1>5. ASSUME NEW u \in Users, EpollWait(u) \/ Accept(u)
      PROVE  UNCHANGED thvars
  BY <1>5 DEF EpollWait, Accept
<1>6. ASSUME NEW u \in Users, Table(u) \/ Forget(u) \/ CloseAgain(u)
      PROVE  ThreadOK'
  BY <1>1, <1>6
     DEF Table, Forget, CloseAgain, ThreadOK, ListeningPlaces, FdsOrNone
<1>7. ASSUME NEW u \in Users, NEW f \in Fds, RecvMessage(u, f) PROVE ThreadOK'
  <2>1. file[u][f] \in Ends
    BY <1>7 DEF RecvMessage, TInv, KInv, KernelOK
  <2>2. at[Other(file[u][f])] \in Uids
    BY <2>1, OtherEnd DEF TInv, KInv, KernelOK
  <2> QED
    BY <1>1, <1>7, <2>2 DEF RecvMessage, ThreadOK, ListeningPlaces, FdsOrNone
<1>8. ASSUME NEW u \in Users, NEW f \in Fds, RecvClosed(u, f) PROVE ThreadOK'
  BY <1>1, <1>8 DEF RecvClosed, ThreadOK, ListeningPlaces, FdsOrNone
<1>9. ASSUME NEW u \in Users, NEW f \in Fds, RecvAgain(u, f)
      PROVE  UNCHANGED thvars
  BY <1>9 DEF RecvAgain
<1>10. CASE UNCHANGED vars
  BY <1>2, <1>10 DEF vars
<1> QED
  BY <1>2, <1>3, <1>4, <1>5, <1>6, <1>7, <1>8, <1>9, <1>10 DEF Next, Listening

\* Every step keeps the types of the tables the threads share.
LEMMA StepTablesOK == TInv /\ [Next]_vars => TablesOK'
<1> SUFFICES ASSUME TInv, [Next]_vars PROVE TablesOK'
  OBVIOUS
<1>1. TablesOK
  BY DEF TInv
<1>2. CASE UNCHANGED tables
  BY <1>1, <1>2 DEF tables, TablesOK
<1>3. ASSUME NEW u \in Users, ProgramEnds(u) PROVE UNCHANGED tables
  BY <1>3 DEF ProgramEnds
\* an entry is written
<1>4. ASSUME NEW u \in Users, NEW v \in Uids, NEW f \in FdsOrNone,
             uid_sockfd' = [uid_sockfd EXCEPT ![u][v] = f]
      PROVE  uid_sockfd' \in [Users -> [Uids -> FdsOrNone]]
  BY <1>1, <1>4 DEF TablesOK
<1>5. ASSUME NEW u \in Users, Reuse(u) PROVE TablesOK'
  <2>1. CASE ProgramEnds(u)
    BY <1>2, <1>3, <2>1
  <2>2. CASE /\ client_b_sockfd' = [client_b_sockfd EXCEPT ![u] = Entry(u)]
             /\ UNCHANGED <<uid_sockfd, uid_client_b_sockfd,
                            client_b_sockfd_thread>>
    <3>1. Entry(u) \in FdsOrNone
      BY DEF Entry, TInv, TablesOK, InterfaceOK
    <3> QED BY <1>1, <2>2, <3>1 DEF TablesOK
  <2> QED BY <1>5, <2>1, <2>2 DEF Reuse
<1>6. ASSUME NEW u \in Users, Open(u) PROVE TablesOK'
  <2>1. PICK f \in Fds :
           /\ client_b_sockfd' = [client_b_sockfd EXCEPT ![u] = f]
           /\ uid_sockfd' = [uid_sockfd EXCEPT ![u][who[u]] = f]
           /\ UNCHANGED <<uid_client_b_sockfd, client_b_sockfd_thread>>
    BY <1>6, OpenDoes
  <2>2. f \in FdsOrNone /\ who[u] \in Uids
    BY DEF FdsOrNone, TInv, InterfaceOK
  <2> QED BY <1>1, <1>4, <2>1, <2>2 DEF TablesOK
<1>7. ASSUME NEW u \in Users, OpenFails(u) PROVE TablesOK'
  BY <1>1, <1>2, <1>3, <1>7 DEF OpenFails, TablesOK, FdsOrNone
<1>8. ASSUME NEW u \in Users, Note(u) PROVE TablesOK'
  <2>1. who[u] \in Uids
    BY DEF TInv, InterfaceOK
  <2>2. CASE client_b_sockfd[u] # None
    <3>1. client_b_sockfd[u] \in Fds
      BY <1>1, <2>2 DEF TablesOK, FdsOrNone
    <3>2. /\ uid_client_b_sockfd' =
                [uid_client_b_sockfd EXCEPT ![u][client_b_sockfd[u]] = who[u]]
          /\ client_b_sockfd_thread' =
                [client_b_sockfd_thread EXCEPT ![u] = client_b_sockfd[u]]
          /\ UNCHANGED <<uid_sockfd, client_b_sockfd>>
      BY <1>8, <2>2 DEF Note, Recorded
    <3> QED BY <1>1, <2>1, <3>1, <3>2 DEF TablesOK
  <2>3. CASE client_b_sockfd[u] = None
    BY <1>2, <1>8, <2>3 DEF Note, Recorded, tables
  <2> QED BY <2>2, <2>3
<1>9. ASSUME NEW u \in Users, CleanAgain(u) PROVE TablesOK'
  <2>1. i[u] \in Uids
    BY <1>9, ConstantsAssumption
       DEF CleanAgain, TInv, InterfaceOK, Uids, Users
  <2>2. /\ uid_sockfd' = [uid_sockfd EXCEPT ![u][i[u]] = None]
        /\ UNCHANGED <<uid_client_b_sockfd, client_b_sockfd, client_b_sockfd_thread>>
    BY <1>9 DEF CleanAgain
  <2> QED BY <1>1, <1>4, <2>1, <2>2 DEF TablesOK, FdsOrNone
<1>10. ASSUME NEW u \in Users, Interface(u)
       PROVE  \/ UNCHANGED tables \/ ProgramEnds(u)
              \/ Reuse(u) \/ Open(u) \/ OpenFails(u) \/ Note(u) \/ CleanAgain(u)
  BY <1>10
     DEF Interface, SelectUser, ObtainAddr, Lookup, Type, QuitChat, Test, Send,
         Login, Logout, Clean, CleanEnds, Quit, uivars
<1>11. ASSUME NEW u \in Users, Table(u) PROVE TablesOK'
  <2>1. uid[u] \in Uids /\ sockfd[u] \in FdsOrNone
    BY DEF TInv, ThreadOK
  <2>2. /\ uid_sockfd' = [uid_sockfd EXCEPT ![u][uid[u]] = sockfd[u]]
        /\ UNCHANGED <<uid_client_b_sockfd, client_b_sockfd, client_b_sockfd_thread>>
    BY <1>11 DEF Table
  <2> QED BY <1>1, <1>4, <2>1, <2>2 DEF TablesOK
<1>12. ASSUME NEW u \in Users, Forget(u) PROVE TablesOK'
  <2>1. PICK v : v = IF uid[u] = 0
                       THEN uid_client_b_sockfd[u][client_b_sockfd_thread[u]]
                       ELSE uid[u]
    OBVIOUS
  <2>2. uid[u] \in Uids /\ v \in Uids
    BY <2>1 DEF TInv, ThreadOK, TablesOK
  <2>3. /\ uid_sockfd' = [uid_sockfd EXCEPT ![u][uid[u]] = None, ![u][v] = None]
        /\ UNCHANGED <<uid_client_b_sockfd, client_b_sockfd, client_b_sockfd_thread>>
    BY <1>12, <2>1 DEF Forget
  <2>4. uid_sockfd' \in [Users -> [Uids -> FdsOrNone]]
    BY <1>1, <2>2, <2>3 DEF TablesOK, FdsOrNone
  <2> QED BY <1>1, <2>3, <2>4 DEF TablesOK
<1>13. ASSUME NEW u \in Users, Listening(u)
       PROVE  UNCHANGED tables \/ Table(u) \/ Forget(u)
  BY <1>13
     DEF Listening, EpollWait, Accept, CloseAgain, RecvMessage, RecvClosed, RecvAgain
<1>14. CASE UNCHANGED vars
  BY <1>2, <1>14 DEF vars
<1> QED
  BY <1>2, <1>3, <1>5, <1>6, <1>7, <1>8, <1>9, <1>10, <1>11, <1>12, <1>13, <1>14
     DEF Next

\* The types, with what they need.
LEMMA TInvariant == Spec => []TInv
<1>1. Init => TInv
  BY KInit, ThreadsInit DEF TInv
<1>2. TInv /\ [Next]_vars => TInv'
  BY KStep, StepInterfaceOK, StepThreadOK, StepTablesOK DEF TInv
<1> QED BY <1>1, <1>2, PTL DEF Spec

\* Every variable keeps its type: socket and accept always find a free number,
\* accept a connection, and the tables are written at uids and descriptors
\* they have.
THEOREM TypeCorrect == Spec => []TypeOK
<1>1. TInv => TypeOK
  <2> SUFFICES ASSUME TInv PROVE TypeOK
    OBVIOUS
  <2>1. \A u \in Users : \A n \in DOMAIN backlog[u] : backlog[u][n] \in Ends
    BY DEF TInv, KInv, KernelOK
  <2>2. \A e \in Ends : \A n \in DOMAIN inbox[e] : inbox[e][n] \in Users
    BY DEF TInv, KInv, KernelOK
  <2> QED
    BY <2>1, <2>2
       DEF TInv, InterfaceOK, ThreadOK, TablesOK, KInv, KernelOK, TypeOK, Uids,
           FdsOrNone, InterfacePlaces, ListeningPlaces
<1> QED BY <1>1, TInvariant, PTL

-----------------------------------------------------------------------------
(* Events                                                                   *)

\* What waits at client u has an event pending.
Pending(u) ==
    /\ \A f \in Fds : (file[u][f] # NoEnd /\ inbox[file[u][f]] # <<>>)
                         => f \in ready[u] \cup batch[u]
    /\ backlog[u] # <<>> => Listen \in ready[u] \cup batch[u]

\* No step of another kind than closing, receiving and dropping takes an
\* event away from what waits.
LEMMA PendingStays ==
    ASSUME NEW w \in Users, Pending(w),
           \A g \in Fds : file'[w][g] \in {NoEnd, file[w][g]},
           \A g \in Fds : (file'[w][g] # NoEnd /\ inbox'[file'[w][g]] # <<>>)
                             => inbox[file[w][g]] # <<>> \/ g \in ready'[w],
           backlog'[w] # <<>> => backlog[w] # <<>> \/ Listen \in ready'[w],
           \A x \in ready[w] \cup batch[w] :
              (x = Listen \/ file'[w][x] # NoEnd)
                 => x \in ready'[w] \cup batch'[w]
    PROVE  Pending(w)'
BY DEF Pending

\* A close wakes the other end, and takes no event of another descriptor.
LEMMA PendingClose ==
    ASSUME KInv, NEW u \in Users, NEW f \in FdsOrNone, Close(u, f),
           UNCHANGED <<backlog, inbox>>,
           \A w \in Users \ {u} : batch'[w] = batch[w],
           batch[u] \ {f} \subseteq batch'[u],
           NEW w \in Users, Pending(w)
    PROVE  Pending(w)'
<1>1. /\ \A g \in Fds : file'[w][g] = IF w = u /\ g = f THEN NoEnd ELSE file[w][g]
      /\ ready[w] \ {f} \subseteq ready'[w]
      /\ w # u => ready[w] \subseteq ready'[w]
  BY CloseDoes DEF KInv
<1>2. f # Listen
  BY DEF FdsOrNone, Fds, Listen, None
<1>3. ready[w] \subseteq {Listen} \cup Fds /\ batch[w] \subseteq {Listen} \cup Fds
  BY DEF KInv, KernelOK
<1>4. ASSUME NEW x \in ready[w] \cup batch[w], x = Listen \/ file'[w][x] # NoEnd
      PROVE  x \in ready'[w] \cup batch'[w]
  <2>1. ~(w = u /\ x = f)
    BY <1>1, <1>2, <1>3, <1>4
  <2> QED BY <1>1, <2>1
<1>5. \A g \in Fds : file'[w][g] \in {NoEnd, file[w][g]}
  BY <1>1
<1>6. \A g \in Fds : (file'[w][g] # NoEnd /\ inbox'[file'[w][g]] # <<>>)
                        => inbox[file[w][g]] # <<>> \/ g \in ready'[w]
  BY <1>5
<1> QED BY <1>4, <1>5, <1>6, PendingStays

LEMMA PendingProgramEnds ==
    ASSUME KInv, NEW u \in Users, ProgramEnds(u), NEW w \in Users \ {u}, Pending(w)
    PROVE  Pending(w)'
<1>1. /\ file'[w] = file[w] /\ batch'[w] = batch[w]
      /\ backlog'[w] = backlog[w] /\ ready[w] \subseteq ready'[w]
  BY ProgramEndsDoes DEF KInv
<1>2. inbox' = inbox
  BY DEF ProgramEnds
<1> QED BY <1>1, <1>2 DEF Pending

LEMMA PendingOpen ==
    ASSUME TInv, NEW u \in Users, Open(u), NEW w \in Users, Pending(w)
    PROVE  Pending(w)'
<1>1. PICK f \in Fds, e \in Ends :
         /\ who[u] \in Users
         /\ inbox[e] = <<>>
         /\ file' = [file EXCEPT ![u][f] = e]
         /\ backlog' = [backlog EXCEPT ![who[u]] = Append(@, Other(e))]
         /\ ready' = [ready EXCEPT ![who[u]] = @ \cup {Listen}]
         /\ UNCHANGED <<batch, inbox>>
  BY OpenDoes
<1>2. \A g \in Fds : file'[w][g] = IF w = u /\ g = f THEN e ELSE file[w][g]
  BY <1>1 DEF TInv, KInv, KernelOK
<1>3. /\ ready[w] \subseteq ready'[w]
      /\ w = who[u] => Listen \in ready'[w]
      /\ w # who[u] => backlog'[w] = backlog[w]
  BY <1>1 DEF TInv, KInv, KernelOK
<1>4. \A g \in Fds : (file'[w][g] # NoEnd /\ inbox'[file'[w][g]] # <<>>)
                        => g \in ready'[w] \cup batch'[w]
  BY <1>1, <1>2, <1>3 DEF Pending
<1>5. backlog'[w] # <<>> => Listen \in ready'[w] \cup batch'[w]
  BY <1>1, <1>3 DEF Pending
<1> QED BY <1>4, <1>5 DEF Pending

\* A message that arrives at an open descriptor makes it ready.
LEMMA PendingSend ==
    ASSUME TInv, NEW u \in Users, Send(u), NEW w \in Users, Pending(w),
           w # u \/ Running(u)'
    PROVE  Pending(w)'
<1>1. CASE UNCHANGED kernel
  BY <1>1 DEF kernel, Pending
<1>2. CASE ProgramEnds(u)
  <2>1. w # u
    BY <1>2 DEF ProgramEnds, Running, TInv, InterfaceOK
  <2> QED BY <1>2, <2>1, PendingProgramEnds DEF TInv
<1>3. ASSUME NEW e \in Ends,
             \A d \in Ends \ {e} : inbox'[d] = inbox[d],
             ready' = Notified({e}), UNCHANGED <<file, backlog, batch>>
      PROVE  Pending(w)'
  <2>1. ready'[w] = ready[w] \cup {g \in Fds : file[w][g] = e}
    BY <1>3 DEF Notified
  <2>2. \A g \in Fds : file[w][g] \in {NoEnd} \cup Ends
    BY DEF TInv, KInv, KernelOK
  <2> QED BY <1>3, <2>1, <2>2 DEF Pending
<1>4. PICK f : f = client_b_sockfd[u]
  OBVIOUS
<1>5. PICK e : e = IF f = None THEN NoEnd ELSE file[u][f]
  OBVIOUS
<1>6. e = NoEnd \/ (e \in Ends /\ Other(e) \in Ends)
  <2>1. f \in FdsOrNone
    BY <1>4 DEF TInv, TablesOK
  <2>2. e \in {NoEnd} \cup Ends
    BY <1>5, <2>1 DEF FdsOrNone, TInv, KInv, KernelOK
  <2> QED BY <2>2, OtherEnd
<1>7. \/ UNCHANGED kernel
      \/ ProgramEnds(u)
      \/ /\ e # NoEnd
         /\ inbox' = [inbox EXCEPT ![Other(e)] = Append(@, who[u])]
         /\ ready' = Notified({Other(e)})
         /\ UNCHANGED <<file, backlog, batch>>
      \/ /\ e # NoEnd
         /\ ready' = Notified({e})
         /\ UNCHANGED <<file, backlog, batch, inbox>>
  BY <1>4, <1>5 DEF Send
<1>8. inbox \in [Ends -> Seq(Users)]
  BY DEF TInv, KInv, KernelOK
<1> QED BY <1>1, <1>2, <1>3, <1>6, <1>7, <1>8

\* What epoll_wait does not return has nothing to read.
LEMMA PendingEpollWait ==
    ASSUME KInv, NEW u \in Users, EpollWait(u), NEW w \in Users, Pending(w)
    PROVE  Pending(w)'
<1>1. /\ batch' = [batch EXCEPT ![u] = {x \in ready[u] : Readable(u, x)}]
      /\ ready' = [ready EXCEPT ![u] = {}]
      /\ batch[u] = {}
      /\ UNCHANGED <<file, backlog, inbox>>
  BY DEF EpollWait
<1>2. CASE w = u
  <2>1. batch'[u] = {x \in ready[u] : Readable(u, x)}
    BY <1>1 DEF KInv, KernelOK
  <2>2. \A f \in Fds : f # Listen
    BY DEF Fds, Listen
  <2> QED BY <1>1, <1>2, <2>1, <2>2 DEF Pending, Readable
<1>3. CASE w # u
  BY <1>1, <1>3 DEF KInv, KernelOK, Pending
<1> QED BY <1>2, <1>3

\* An accept with one event takes the one connection, or counts as missed.
LEMMA PendingAccept ==
    ASSUME KInv, NEW u \in Users, Accept(u), NEW w \in Users, Pending(w),
           w \notin missed'
    PROVE  Pending(w)'
<1>1. PICK f \in Fds :
         /\ Head(backlog[u]) \in Ends
         /\ backlog[u] \in Seq(Ends) /\ Len(backlog[u]) \in Nat \ {0}
         /\ file[u][f] = NoEnd
         /\ file' = [file EXCEPT ![u][f] = Head(backlog[u])]
         /\ ready' = [ready EXCEPT ![u] =
                         ReadyWhenAdded(u, f, Head(backlog[u]))]
         /\ backlog' = [backlog EXCEPT ![u] = Tail(@)]
         /\ batch' = [batch EXCEPT ![u] = @ \ {Listen}]
         /\ UNCHANGED <<at, inbox, closed, reset>>
  BY AcceptDoes
<1>2. CASE w = u
  <2>1. Len(backlog[u]) = 1
    <3>1. Len(backlog[u]) > 1 => w \in missed'
      BY <1>2 DEF Accept
    <3>2. PICK n \in Nat \ {0} : n = Len(backlog[u])
      BY <1>1
    <3>3. ~(n > 1)
      BY <3>1, <3>2
    <3>4. n = 1
      BY ONLY n \in Nat \ {0}, <3>3
    <3> QED BY <3>2, <3>4
  <2>2. backlog'[u] = <<>>
    <3>1. Tail(backlog[u]) \in Seq(Ends) /\ Len(Tail(backlog[u])) = 0
      BY <1>1, <2>1, EmptySeq, HeadTailProperties
    <3>2. Tail(backlog[u]) = <<>>
      BY <3>1, EmptySeq
    <3> QED BY <1>1, <3>2 DEF KInv, KernelOK
  <2>3. /\ \A g \in Fds : file'[u][g] = IF g = f THEN Head(backlog[u]) ELSE file[u][g]
        /\ ready'[u] = ReadyWhenAdded(u, f, Head(backlog[u]))
        /\ batch'[u] = batch[u] \ {Listen}
        /\ inbox' = inbox
    BY <1>1 DEF KInv, KernelOK
  <2>4. /\ ready[u] \subseteq ready'[u]
        /\ inbox[Head(backlog[u])] # <<>> => f \in ready'[u]
    BY <2>3 DEF ReadyWhenAdded
  <2>5. \A g \in Fds : g # Listen
    BY DEF Fds, Listen
  <2>6. \A g \in Fds : (file'[u][g] # NoEnd /\ inbox'[file'[u][g]] # <<>>)
                          => g \in ready'[u] \cup batch'[u]
    BY <1>2, <2>3, <2>4, <2>5 DEF Pending
  <2> QED BY <1>2, <2>2, <2>6 DEF Pending
<1>3. CASE w # u
  BY <1>1, <1>3 DEF KInv, KernelOK, Pending
<1> QED BY <1>2, <1>3

\* recv takes all that waits at the descriptor of its event.
LEMMA PendingRecvMessage ==
    ASSUME KInv, NEW u \in Users, NEW f \in Fds, RecvMessage(u, f),
           NEW w \in Users, Pending(w)
    PROVE  Pending(w)'
<1>1. /\ file[u][f] # NoEnd
      /\ inbox' = [inbox EXCEPT ![file[u][f]] = <<>>]
      /\ batch' = [batch EXCEPT ![u] = batch[u] \ {f}]
      /\ UNCHANGED <<file, backlog, ready>>
  BY DEF RecvMessage, AfterMessage
<1>2. \A e \in Ends : inbox'[e] # <<>> => (inbox[e] # <<>> /\ e # file[u][f])
  BY <1>1 DEF KInv, KernelOK
<1>3. \A g \in Fds : file[w][g] # NoEnd => file[w][g] \in Ends
  BY DEF KInv, KernelOK
<1>4. \A x : x \in batch[w] /\ ~(w = u /\ x = f) => x \in batch'[w]
  BY <1>1 DEF KInv, KernelOK
<1>5. f # Listen
  BY DEF Fds, Listen
<1>6. \A g \in Fds : (file'[w][g] # NoEnd /\ inbox'[file'[w][g]] # <<>>)
                        => g \in ready'[w] \cup batch'[w]
  BY <1>1, <1>2, <1>3, <1>4 DEF Pending
<1>7. backlog'[w] # <<>> => Listen \in ready'[w] \cup batch'[w]
  BY <1>1, <1>4, <1>5 DEF Pending
<1> QED BY <1>6, <1>7 DEF Pending

LEMMA PendingRecvAgain ==
    ASSUME KInv, NEW u \in Users, NEW f \in Fds, RecvAgain(u, f),
           NEW w \in Users, Pending(w), w \notin missed'
    PROVE  Pending(w)'
<1>1. /\ batch' = [batch EXCEPT ![u] = {}]
      /\ file[u][f] # NoEnd /\ inbox[file[u][f]] = <<>>
      /\ UNCHANGED <<file, backlog, ready, inbox>>
      /\ w = u => batch[u] \ {f} = {}
      /\ f # Listen
  BY DEF RecvAgain, Dropped, Readable, Fds, Listen
<1>2. \A x : x \in batch[w] /\ ~(w = u /\ x = f) => x \in batch'[w]
  BY <1>1 DEF KInv, KernelOK
<1> QED BY <1>1, <1>2 DEF Pending

\* A program that has ended makes no step, and none starts again.
LEMMA EndedIsOver ==
    ASSUME TInv, [Next]_vars, NEW w \in Users, Running(w)'
    PROVE  Running(w)
<1> SUFFICES ASSUME ui[w] = "ended" PROVE ui'[w] = "ended"
  BY DEF Running
<1>1. ASSUME NEW u \in Users, Interface(u)
      PROVE  ui[u] # "ended" /\ \E place : ui' = [ui EXCEPT ![u] = place]
  <2>1. CASE ProgramEnds(u)
    <3>1. ui[u] # "ended"
      BY <1>1
         DEF Interface, SelectUser, ObtainAddr, Lookup, Reuse, Open, OpenFails, Type,
             QuitChat, Test, Send, Note, Login, Logout, Clean, CleanAgain, CleanEnds,
             Quit
    <3> QED BY <2>1, <3>1 DEF ProgramEnds
  <2>2. CASE Login(u)
    <3>1. ui' = [ui EXCEPT ![u] = ui[u]]
      BY <2>2 DEF Login, uivars, TInv, InterfaceOK
    <3> QED BY <2>2, <3>1 DEF Login
  <2>3. CASE ~ProgramEnds(u) /\ ~Login(u)
    BY <1>1, <2>3
       DEF Interface, SelectUser, ObtainAddr, Lookup, Reuse, Open, OpenFails, Type,
           QuitChat, Test, Send, Note, Logout, Clean, CleanAgain, CleanEnds,
           Quit, Goto, Returned
  <2> QED BY <2>1, <2>2, <2>3
<1>2. ASSUME NEW u \in Users, Listening(u)
      PROVE  ui' = ui
  BY <1>2
     DEF Listening, EpollWait, Accept, Table, Forget, CloseAgain, RecvMessage,
         RecvClosed, RecvAgain, uivars
<1>3. CASE UNCHANGED vars
  BY <1>3 DEF vars, uivars
<1> QED BY <1>1, <1>2, <1>3 DEF Next, TInv, InterfaceOK

\* No step of any client makes another one overlook something.
LEMMA StepPending ==
    ASSUME TInv, [Next]_vars, NEW w \in Users, Pending(w),
           w \notin missed', Running(w)'
    PROVE  Pending(w)'
<1>1. KInv
  BY DEF TInv
<1>2. CASE UNCHANGED kernel
  BY <1>2 DEF kernel, Pending
<1>3. ASSUME NEW u \in Users, Interface(u)
      PROVE  Pending(w)'
  <2>1. CASE ProgramEnds(u)
    <3>1. w # u
      BY <2>1 DEF ProgramEnds, Running, TInv, InterfaceOK
    <3> QED BY <1>1, <2>1, <3>1, PendingProgramEnds
  <2>2. CASE Open(u)
    BY <2>2, PendingOpen
  <2>3. CASE Send(u)
    BY <2>3, PendingSend
  <2>4. CASE Clean(u) \/ CleanAgain(u)
    <3>1. \E f \in FdsOrNone : Close(u, f)
      BY <2>4, CleanCloses
    <3>2. UNCHANGED <<backlog, inbox, batch>>
      BY <2>4 DEF Clean, CleanAgain
    <3> QED BY <1>1, <3>1, <3>2, PendingClose
  <2>5. \/ UNCHANGED kernel
        \/ ProgramEnds(u) \/ Open(u) \/ Send(u) \/ Clean(u) \/ CleanAgain(u)
    BY <1>3
       DEF Interface, SelectUser, ObtainAddr, Lookup, Reuse, OpenFails, Type,
           QuitChat, Test, Note, Login, Logout, CleanEnds, Quit
  <2> QED BY <1>2, <2>1, <2>2, <2>3, <2>4, <2>5
<1>4. ASSUME NEW u \in Users, Listening(u)
      PROVE  Pending(w)'
  <2>1. CASE EpollWait(u)
    BY <1>1, <2>1, PendingEpollWait
  <2>2. CASE Accept(u)
    BY <1>1, <2>2, PendingAccept
  <2>3. CASE Table(u) \/ Forget(u)
    BY <1>2, <2>3 DEF Table, Forget
  <2>4. CASE CloseAgain(u)
    <3>1. /\ sockfd[u] \in FdsOrNone /\ Close(u, sockfd[u])
          /\ UNCHANGED <<backlog, inbox>>
      BY <2>4 DEF CloseAgain, TInv, ThreadOK
    <3>2. batch' = [batch EXCEPT ![u] = {}] /\ (batch[u] # {} => u \in missed')
      BY <2>4 DEF CloseAgain, Dropped
    <3>3. \A v \in Users \ {u} : batch'[v] = batch[v]
      BY <3>2 DEF TInv, KInv, KernelOK
    <3>4. CASE batch[u] = {}
      <4>1. batch[u] \ {sockfd[u]} \subseteq batch'[u]
        BY <3>4
      <4> QED BY <1>1, <3>1, <3>3, <4>1, PendingClose
    <3>5. CASE batch[u] # {}
      <4>1. w # u
        BY <3>2, <3>5
      <4>2. \A g \in Fds : file'[w][g] = file[w][g]
        BY <1>1, <3>1, <4>1, CloseDoes DEF KInv
      <4>3. ready[w] \subseteq ready'[w]
        BY <1>1, <3>1, <4>1, CloseDoes DEF KInv
      <4> QED BY <3>1, <3>3, <4>1, <4>2, <4>3 DEF Pending
    <3> QED BY <3>4, <3>5
  <2>5. ASSUME NEW f \in Fds, RecvMessage(u, f) PROVE Pending(w)'
    BY <1>1, <2>5, PendingRecvMessage
  <2>6. ASSUME NEW f \in Fds, RecvClosed(u, f) PROVE Pending(w)'
    <3>1. /\ f \in FdsOrNone /\ Close(u, f)
          /\ UNCHANGED <<backlog, inbox>>
          /\ batch' = [batch EXCEPT ![u] = @ \ {f}]
      BY <2>6 DEF RecvClosed, FdsOrNone
    <3>2. /\ \A v \in Users \ {u} : batch'[v] = batch[v]
          /\ batch[u] \ {f} \subseteq batch'[u]
      BY <3>1 DEF TInv, KInv, KernelOK
    <3> QED BY <1>1, <3>1, <3>2, PendingClose
  <2>7. ASSUME NEW f \in Fds, RecvAgain(u, f) PROVE Pending(w)'
    BY <1>1, <2>7, PendingRecvAgain
  <2> QED BY <1>4, <2>1, <2>2, <2>3, <2>4, <2>5, <2>6, <2>7 DEF Listening
<1>5. CASE UNCHANGED vars
  BY <1>2, <1>5 DEF vars
<1> QED BY <1>3, <1>4, <1>5 DEF Next

\* Data and connections that wait have an event pending, however the threads
\* interleave, until a break or a second connection behind one event leaves
\* something behind.
THEOREM NothingOverlooked == Spec => []NothingUnnoticed
<1>1. Init => NothingUnnoticed
  BY DEF Init, NothingUnnoticed
<1>2. ASSUME TInv, NothingUnnoticed, [Next]_vars PROVE NothingUnnoticed'
  <2> SUFFICES ASSUME NEW w \in Users, w \notin missed', Running(w)'
               PROVE  Pending(w)'
    BY DEF NothingUnnoticed, Pending
  <2>1. w \notin missed
    <3>1. missed \subseteq missed'
      <4>1. ASSUME NEW u \in Users, Interface(u) PROVE missed' = missed
        BY <4>1
           DEF Interface, SelectUser, ObtainAddr, Lookup, Reuse, Open, OpenFails,
               Type, QuitChat, Test, Send, Note, Login, Logout, Clean, CleanAgain,
               CleanEnds, Quit, ProgramEnds
      <4>2. ASSUME NEW u \in Users, Listening(u) PROVE missed \subseteq missed'
        BY <4>2
           DEF Listening, EpollWait, Accept, Table, Forget, CloseAgain,
               RecvMessage, RecvClosed, RecvAgain, Dropped
      <4>3. CASE UNCHANGED vars
        BY <4>3 DEF vars
      <4> QED BY <1>2, <4>1, <4>2, <4>3 DEF Next
    <3> QED BY <3>1
  <2>2. Pending(w)
    BY <1>2, <2>1, EndedIsOver DEF NothingUnnoticed, Pending
  <2> QED BY <1>2, <2>2, StepPending
<1> QED BY <1>1, <1>2, TInvariant, PTL DEF Spec

-----------------------------------------------------------------------------
(* Channels: what every step leaves alone                                   *)

\* Whom an end belongs to does not change, and an end stays closed.
EndsStay == /\ \A e \in Ends : at[e] # 0 => at'[e] = at[e]
            /\ closed \subseteq closed'

\* What client w's threads know of its channels.
Own(w) == <<ui[w], who[w], chatting[w], client_b_sockfd[w], thread[w], uid[w],
            sockfd[w], uid_sockfd[w], file[w], batch[w]>>

\* The descriptors of client w that are open stay what they are.
FilesStay(w) ==
    \A g \in Fds : file[w][g] # NoEnd => file'[w][g] = file[w][g]

\* A client that lost no channel in a step had lost none before.
LEMMA StaysUndisturbed ==
    ASSUME EndsStay, NEW w \in Users, Undisturbed(w)'
    PROVE  Undisturbed(w)
<1>1. w # 0
  BY DEF Users
<1> QED BY <1>1 DEF EndsStay, Undisturbed

\* A descriptor that stays open leads where it led.
LEMMA LeadsStays ==
    ASSUME TInv, EndsStay, NEW w \in Users, NEW f \in FdsOrNone, NEW v,
           Leads(w, f, v), FilesStay(w)
    PROVE  Leads(w, f, v)'
<1>1. f \in Fds /\ file[w][f] \in Ends /\ at[file[w][f]] = w
  BY DEF Leads, FdsOrNone, TInv, KInv, KernelOK, EndsOwned, EndsOf
<1>2. w # 0
  BY DEF Users
<1>3. Other(file[w][f]) \in Ends
  BY <1>1, OtherEnd
<1>4. at[Other(file[w][f])] # 0
  BY <1>1, <1>2 DEF TInv, KInv, EndsPaired
<1>5. file'[w][f] = file[w][f]
  BY <1>1 DEF Leads, FilesStay
<1> QED BY <1>3, <1>4, <1>5 DEF EndsStay, Leads

\* What holds of the channels stays, if the threads keep what they hold.
LEMMA ChannelsOfStays ==
    ASSUME TInv, EndsStay, NEW w \in Users, ChannelsOf(w), FilesStay(w),
           UNCHANGED <<thread[w], uid[w], sockfd[w], uid_sockfd[w]>>,
           \A x \in batch'[w] \ {Listen} : x \in Fds /\ file[w][x] # NoEnd,
           ui'[w] # "cleanagain"
    PROVE  ChannelsOf(w)'
<1>1. /\ \A x \in batch'[w] \ {Listen} : file'[w][x] # NoEnd
      /\ thread'[w] \notin {"forget", "closeagain"}
      /\ uid_sockfd'[w][0] = None
  BY DEF ChannelsOf, FilesStay
<1>2. sockfd[w] \in FdsOrNone /\ \A v \in Users : uid_sockfd[w][v] \in FdsOrNone
  BY DEF TInv, ThreadOK, TablesOK, Uids
<1>3. thread[w] = "table" => Leads(w, sockfd[w], uid[w])'
  <2> SUFFICES ASSUME thread[w] = "table" PROVE Leads(w, sockfd[w], uid[w])'
    OBVIOUS
  <2>1. Leads(w, sockfd[w], uid[w])
    BY DEF ChannelsOf
  <2> QED BY <1>2, <2>1, LeadsStays DEF Leads
<1>4. \A v \in Users : uid_sockfd[w][v] # None => Leads(w, uid_sockfd[w][v], v)'
  <2> SUFFICES ASSUME NEW v \in Users, uid_sockfd[w][v] # None
               PROVE  Leads(w, uid_sockfd[w][v], v)'
    OBVIOUS
  <2>1. Leads(w, uid_sockfd[w][v], v)
    BY DEF ChannelsOf
  <2> QED BY <1>2, <2>1, LeadsStays DEF Leads
<1> QED BY <1>1, <1>3, <1>4 DEF ChannelsOf

\* The same for what the user interface relies on.
LEMMA InterfaceOfStays ==
    ASSUME TInv, EndsStay, NEW w \in Users, InterfaceOf(w), FilesStay(w),
           UNCHANGED <<ui[w], who[w], chatting[w], client_b_sockfd[w]>>,
           HasChannel(w) => HasChannel(w)'
    PROVE  InterfaceOf(w)'
<1>1. client_b_sockfd[w] \in FdsOrNone
  BY DEF TInv, TablesOK
<1>2. Leads(w, client_b_sockfd[w], who[w]) => Leads(w, client_b_sockfd[w], who[w])'
  BY <1>1, LeadsStays DEF Leads
<1> QED BY <1>2 DEF InterfaceOf

\* The same for a client that makes no step.
LEMMA ChannelsStay ==
    ASSUME TInv, EndsStay, NEW w \in Users, Channels(w), UNCHANGED Own(w)
    PROVE  Channels(w)'
<1> SUFFICES ASSUME Undisturbed(w)' PROVE ChannelsOf(w)' /\ InterfaceOf(w)'
  BY DEF Channels
<1>1. ChannelsOf(w) /\ InterfaceOf(w)
  BY StaysUndisturbed DEF Channels
<1>2. FilesStay(w)
  BY DEF FilesStay, Own
<1>3. \A x \in batch[w] \ {Listen} : x \in Fds /\ file[w][x] # NoEnd
  BY <1>1 DEF ChannelsOf, TInv, KInv, KernelOK
<1>4. ChannelsOf(w)'
  BY <1>1, <1>2, <1>3, ChannelsOfStays DEF Own, ChannelsOf
<1>5. InterfaceOf(w)'
  BY <1>1, <1>2, InterfaceOfStays DEF Own, HasChannel, Entry
<1> QED BY <1>4, <1>5

\* No step of one client touches what another client's threads know.
LEMMA OthersKeep ==
    ASSUME TInv, NEW u \in Users, Interface(u) \/ Listening(u),
           NEW w \in Users \ {u}
    PROVE  UNCHANGED Own(w)
<1> USE DEF TInv, InterfaceOK, ThreadOK, TablesOK, KInv, KernelOK
<1>1. ASSUME NEW f \in FdsOrNone, Close(u, f) PROVE file'[w] = file[w]
  <2>1. file' = file \/ file' = [file EXCEPT ![u][f] = NoEnd]
    BY <1>1 DEF Close
  <2> QED BY <2>1
<1>2. CASE ProgramEnds(u)
  <2>1. file'[w] = file[w] /\ batch'[w] = batch[w]
    BY <1>2, ProgramEndsDoes
  <2> QED BY <1>2, <2>1 DEF ProgramEnds, tables, Own
<1>3. CASE Open(u)
  <2>1. file'[w] = file[w] /\ uid_sockfd'[w] = uid_sockfd[w]
        /\ client_b_sockfd'[w] = client_b_sockfd[w]
    BY <1>3 DEF Open, Entered
  <2>2. ui'[w] = ui[w] /\ chatting'[w] = chatting[w]
    BY <1>3 DEF Open, Returned, Goto
  <2> QED BY <1>3, <2>1, <2>2 DEF Open, thvars, Own
<1>4. CASE Clean(u) \/ CleanAgain(u)
  <2>1. \E f \in FdsOrNone : Close(u, f)
    BY <1>4, CleanCloses
  <2>2. file'[w] = file[w]
    BY <1>1, <2>1
  <2>3. ui'[w] = ui[w] /\ uid_sockfd'[w] = uid_sockfd[w]
    BY <1>4 DEF Clean, CleanAgain, Goto, tables
  <2> QED
    BY <1>4, <2>2, <2>3 DEF Clean, CleanAgain, thvars, tables, Own
<1>5. CASE /\ Interface(u) /\ ~ProgramEnds(u) /\ ~Open(u)
           /\ ~Clean(u) /\ ~CleanAgain(u)
  <2>1. UNCHANGED <<thvars, file, batch, uid_sockfd>>
    BY <1>5
       DEF Interface, SelectUser, ObtainAddr, Lookup, Reuse, OpenFails, Type,
           QuitChat, Test, Send, Note, Login, Logout, CleanEnds, Quit, kernel,
           tables
  <2>2. who'[w] = who[w]
    BY <1>5
       DEF Interface, SelectUser, ObtainAddr, Lookup, Reuse, OpenFails, Type,
           QuitChat, Test, Send, Note, Login, Logout, CleanEnds, Quit, uivars
  <2>3. ui'[w] = ui[w] /\ chatting'[w] = chatting[w]
    BY <1>5
       DEF Interface, SelectUser, ObtainAddr, Lookup, Reuse, OpenFails, Type,
           QuitChat, Test, Send, Note, Login, Logout, CleanEnds, Quit, uivars,
           Goto, Returned
  <2>4. client_b_sockfd'[w] = client_b_sockfd[w]
    BY <1>5
       DEF Interface, SelectUser, ObtainAddr, Lookup, Reuse, OpenFails, Type,
           QuitChat, Test, Send, Note, Login, Logout, CleanEnds, Quit, tables
  <2> QED BY <2>1, <2>2, <2>3, <2>4 DEF thvars, Own
<1>6. CASE Listening(u)
  <2>1. UNCHANGED <<uivars, client_b_sockfd>>
    BY <1>6
       DEF Listening, EpollWait, Accept, Table, Forget, CloseAgain, RecvMessage,
           RecvClosed, RecvAgain, tables
  <2>2. thread'[w] = thread[w] /\ uid'[w] = uid[w] /\ sockfd'[w] = sockfd[w]
    <3>1. \/ thread' = thread
          \/ \E place : thread' = [thread EXCEPT ![u] = place]
      BY ONLY <1>6
         DEF Listening, EpollWait, Accept, Table, Forget, CloseAgain, RecvMessage,
             RecvClosed, RecvAgain, thvars
    <3>2. uid' = uid \/ \E v : uid' = [uid EXCEPT ![u] = v]
      BY ONLY <1>6
         DEF Listening, EpollWait, Accept, Table, Forget, CloseAgain, RecvMessage,
             RecvClosed, RecvAgain, thvars
    <3>3. sockfd' = sockfd \/ \E f : sockfd' = [sockfd EXCEPT ![u] = f]
      BY ONLY <1>6
         DEF Listening, EpollWait, Accept, Table, Forget, CloseAgain, RecvMessage,
             RecvClosed, RecvAgain, thvars
    <3>4. thread'[w] = thread[w]
      BY <3>1
    <3>5. uid'[w] = uid[w]
      BY <3>2
    <3>6. sockfd'[w] = sockfd[w]
      BY <3>3
    <3> QED BY <3>4, <3>5, <3>6
  <2>3. uid_sockfd'[w] = uid_sockfd[w]
    BY <1>6
       DEF Listening, EpollWait, Accept, Table, Forget, CloseAgain, RecvMessage,
           RecvClosed, RecvAgain, tables
  <2>4. batch'[w] = batch[w]
    BY <1>6
       DEF Listening, EpollWait, Accept, Table, Forget, CloseAgain, RecvMessage,
           RecvClosed, RecvAgain, Dropped, kernel
  <2>5. file'[w] = file[w]
    <3>1. CASE CloseAgain(u) \/ \E f \in Fds : RecvClosed(u, f)
      <4>1. \E f \in FdsOrNone : Close(u, f)
        BY <3>1 DEF CloseAgain, RecvClosed, FdsOrNone
      <4> QED BY <1>1, <4>1
    <3>2. CASE Accept(u)
      BY <3>2 DEF Accept
    <3>3. CASE ~Accept(u) /\ ~CloseAgain(u) /\ ~\E f \in Fds : RecvClosed(u, f)
      BY <1>6, <3>3
         DEF Listening, EpollWait, Table, Forget, RecvMessage, RecvAgain, kernel
    <3> QED BY <3>1, <3>2, <3>3
  <2> QED BY <2>1, <2>2, <2>3, <2>4, <2>5 DEF uivars, Own
<1> QED BY <1>2, <1>3, <1>4, <1>5, <1>6

\* No step gives an end to somebody else or opens a closed one.
LEMMA StepEndsStay == TInv /\ [Next]_vars => EndsStay
<1> SUFFICES ASSUME TInv, [Next]_vars PROVE EndsStay
  OBVIOUS
<1>1. KernelOK
  BY DEF TInv, KInv
<1>2. CASE UNCHANGED <<at, closed>>
  BY <1>2 DEF EndsStay
<1>3. ASSUME NEW u \in Users, NEW f \in FdsOrNone, Close(u, f), UNCHANGED at
      PROVE  EndsStay
  BY <1>1, <1>3, CloseDoes DEF EndsStay
<1>4. ASSUME NEW u \in Users, ProgramEnds(u) PROVE EndsStay
  <2>1. closed \subseteq closed' /\ at' = at
    BY <1>1, <1>4, ProgramEndsDoes DEF ProgramEnds
  <2> QED BY <2>1 DEF EndsStay
<1>5. ASSUME NEW u \in Users, Open(u) PROVE EndsStay
  <2>1. PICK e \in Ends :
           /\ Other(e) \in Ends /\ at[e] = 0 /\ at[Other(e)] = 0
           /\ at' = [at EXCEPT ![e] = u, ![Other(e)] = who[u]]
           /\ closed' = closed
    BY <1>5, OpenDoes
  <2> QED BY <1>1, <2>1 DEF EndsStay, KernelOK
<1>6. ASSUME NEW u \in Users, Clean(u) \/ CleanAgain(u) PROVE EndsStay
  <2>1. UNCHANGED at
    BY <1>6 DEF Clean, CleanAgain
  <2> QED BY <1>3, <1>6, <2>1, CleanCloses
<1>7. ASSUME NEW u \in Users, Interface(u)
      PROVE  \/ UNCHANGED <<at, closed>> \/ ProgramEnds(u) \/ Open(u)
             \/ Clean(u) \/ CleanAgain(u)
  BY <1>7
     DEF Interface, SelectUser, ObtainAddr, Lookup, Reuse, OpenFails, Type,
         QuitChat, Test, Send, Note, Login, Logout, CleanEnds, Quit, kernel
<1>8. ASSUME NEW u \in Users, CloseAgain(u) PROVE EndsStay
  BY <1>3, <1>8 DEF CloseAgain, TInv, ThreadOK
<1>9. ASSUME NEW u \in Users, NEW f \in Fds, RecvClosed(u, f) PROVE EndsStay
  BY <1>3, <1>9 DEF RecvClosed, FdsOrNone
<1>10. ASSUME NEW u \in Users, Listening(u)
       PROVE  \/ UNCHANGED <<at, closed>> \/ CloseAgain(u)
              \/ \E f \in Fds : RecvClosed(u, f)
  BY <1>10
     DEF Listening, EpollWait, Accept, Table, Forget, RecvMessage, RecvAgain, kernel
<1>11. CASE UNCHANGED vars
  BY <1>2, <1>11 DEF vars, kernel
<1> QED
  BY <1>2, <1>4, <1>5, <1>6, <1>7, <1>8, <1>9, <1>10, <1>11 DEF Next

\* Closing a descriptor takes its event along, and what arrives at an end makes
\* only open descriptors ready.
LEMMA StepReadyIsOpen == TInv /\ ReadyIsOpen /\ [Next]_vars => ReadyIsOpen'
<1> SUFFICES ASSUME TInv, ReadyIsOpen, [Next]_vars PROVE ReadyIsOpen'
  OBVIOUS
<1>1. KernelOK
  BY DEF TInv, KInv
<1>2. CASE UNCHANGED <<file, ready>>
  BY <1>2 DEF ReadyIsOpen
<1>3. ASSUME \A w \in Users : \A x \in ready'[w] \ {Listen} :
                file'[w][x] # NoEnd \/ (x \in ready[w] /\ file[w][x] = NoEnd)
      PROVE  ReadyIsOpen'
  BY <1>3 DEF ReadyIsOpen
<1>4. ASSUME NEW u \in Users, NEW f \in FdsOrNone, Close(u, f)
      PROVE  ReadyIsOpen'
  BY <1>1, <1>3, <1>4, CloseDoes
<1>5. ASSUME NEW u \in Users, ProgramEnds(u)
      PROVE  ReadyIsOpen'
  BY <1>1, <1>3, <1>5, ProgramEndsDoes
<1>6. ASSUME NEW u \in Users, Open(u)
      PROVE  ReadyIsOpen'
  <2>1. PICK f \in Fds, e \in Ends :
           /\ file' = [file EXCEPT ![u][f] = e]
           /\ ready' = [ready EXCEPT ![who[u]] = @ \cup {Listen}]
    BY <1>6, OpenDoes
  <2>2. e # NoEnd
    BY DEF Ends, NoEnd
  <2>3. \A w \in Users : ready'[w] \ {Listen} \subseteq ready[w]
    BY <1>1, <2>1 DEF KernelOK
  <2>4. \A w \in Users, g \in Fds : file[w][g] # NoEnd => file'[w][g] # NoEnd
    BY <1>1, <2>1, <2>2 DEF KernelOK
  <2>5. \A w \in Users : ready[w] \ {Listen} \subseteq Fds
    BY <1>1 DEF KernelOK
  <2> QED BY <2>3, <2>4, <2>5 DEF ReadyIsOpen
<1>7. ASSUME NEW u \in Users, Send(u)
      PROVE  ReadyIsOpen'
  <2>1. PICK e : e = IF client_b_sockfd[u] = None THEN NoEnd
                     ELSE file[u][client_b_sockfd[u]]
    OBVIOUS
  <2>2. e # NoEnd => e \in Ends /\ Other(e) \in Ends
    <3>1. client_b_sockfd[u] \in FdsOrNone
      BY DEF TInv, TablesOK
    <3>2. e \in {NoEnd} \cup Ends
      BY <1>1, <2>1, <3>1 DEF FdsOrNone, KernelOK
    <3> QED BY <3>2, OtherEnd
  <2>3. \/ UNCHANGED <<file, ready>>
        \/ ProgramEnds(u)
        \/ e # NoEnd /\ ready' = Notified({Other(e)}) /\ file' = file
        \/ e # NoEnd /\ ready' = Notified({e}) /\ file' = file
    BY <1>7, <2>1 DEF Send, kernel
  <2>4. ASSUME NEW d \in Ends, ready' = Notified({d}), file' = file
        PROVE  ReadyIsOpen'
    <3>1. d # NoEnd
      BY DEF Ends, NoEnd
    <3> QED BY <2>4, <3>1 DEF ReadyIsOpen, Notified
  <2> QED BY <1>2, <1>5, <2>2, <2>3, <2>4
<1>8. ASSUME NEW u \in Users, Interface(u)
      PROVE  \/ UNCHANGED <<file, ready>> \/ ProgramEnds(u) \/ Open(u) \/ Send(u)
             \/ Clean(u) \/ CleanAgain(u)
  BY <1>8
     DEF Interface, SelectUser, ObtainAddr, Lookup, Reuse, OpenFails, Type,
         QuitChat, Test, Note, Login, Logout, CleanEnds, Quit, kernel
<1>9. ASSUME NEW u \in Users, Clean(u) \/ CleanAgain(u)
      PROVE  ReadyIsOpen'
  BY <1>4, <1>9, CleanCloses
<1>10. ASSUME NEW u \in Users, EpollWait(u)
       PROVE  ReadyIsOpen'
  <2>1. ready' = [ready EXCEPT ![u] = {}] /\ file' = file
    BY <1>10 DEF EpollWait
  <2>2. \A w \in Users : ready'[w] \subseteq ready[w]
    BY <1>1, <2>1 DEF KernelOK
  <2> QED BY <2>1, <2>2 DEF ReadyIsOpen
<1>11. ASSUME NEW u \in Users, Accept(u)
       PROVE  ReadyIsOpen'
  <2>1. PICK f \in Fds :
           /\ Head(backlog[u]) \in Ends
           /\ file' = [file EXCEPT ![u][f] = Head(backlog[u])]
           /\ ready' = [ready EXCEPT ![u] = ReadyWhenAdded(u, f, Head(backlog[u]))]
    BY <1>11, AcceptDoes DEF TInv
  <2>2. Head(backlog[u]) # NoEnd
    BY <2>1 DEF Ends, NoEnd
  <2>3. \A w \in Users, g \in Fds :
           file'[w][g] = IF w = u /\ g = f THEN Head(backlog[u]) ELSE file[w][g]
    BY <1>1, <2>1 DEF KernelOK
  <2>4. \A w \in Users : \A x \in ready'[w] : x \in ready[w] \/ (w = u /\ x = f)
    BY <1>1, <2>1 DEF KernelOK, ReadyWhenAdded
  <2>5. \A w \in Users : ready[w] \ {Listen} \subseteq Fds
    BY <1>1 DEF KernelOK
  <2> QED BY <2>2, <2>3, <2>4, <2>5 DEF ReadyIsOpen
<1>12. ASSUME NEW u \in Users, CloseAgain(u)
       PROVE  ReadyIsOpen'
  BY <1>4, <1>12 DEF CloseAgain, TInv, ThreadOK
<1>13. ASSUME NEW u \in Users, NEW f \in Fds, RecvClosed(u, f)
       PROVE  ReadyIsOpen'
  BY <1>4, <1>13 DEF RecvClosed, FdsOrNone
<1>14. ASSUME NEW u \in Users, Listening(u)
       PROVE  \/ UNCHANGED <<file, ready>> \/ EpollWait(u) \/ Accept(u)
              \/ CloseAgain(u) \/ \E f \in Fds : RecvClosed(u, f)
  BY <1>14 DEF Listening, Table, Forget, RecvMessage, RecvAgain, kernel
<1>15. CASE UNCHANGED vars
  BY <1>2, <1>15 DEF vars, kernel
<1> QED
  BY <1>2, <1>5, <1>6, <1>7, <1>8, <1>9, <1>10, <1>11, <1>12, <1>13, <1>14, <1>15
     DEF Next

-----------------------------------------------------------------------------
(* Channels: the steps of their own client                                  *)

\* A close in which no channel of the client closes closes nothing.
LEMMA ClosesNothing ==
    ASSUME TInv, NEW u \in Users, NEW f \in Fds, Close(u, f), at' = at,
           Undisturbed(u)'
    PROVE  file[u][f] = NoEnd
<1> SUFFICES ASSUME file[u][f] # NoEnd PROVE FALSE
  OBVIOUS
<1>1. KernelOK /\ EndsOf(u)
  BY DEF TInv, KInv, EndsOwned
<1>2. f \in FdsOrNone /\ f # None
  BY DEF FdsOrNone, Fds, None
<1>3. file[u][f] \in closed'
  BY <1>1, <1>2, CloseDoes
<1>4. file[u][f] \in Ends /\ at[file[u][f]] = u
  BY <1>1 DEF KernelOK, EndsOf
<1> QED BY <1>3, <1>4 DEF Undisturbed

\* A client program that ends without a channel that closes had none.
LEMMA OwnProgramEnds ==
    ASSUME TInv, EndsStay, NEW u \in Users, ChannelsOf(u), ProgramEnds(u),
           Undisturbed(u)'
    PROVE  ChannelsOf(u)' /\ InterfaceOf(u)'
<1>1. KernelOK /\ EndsOf(u)
  BY DEF TInv, KInv, EndsOwned
<1>2. at' = at /\ uid_sockfd' = uid_sockfd
  BY DEF ProgramEnds, tables
<1>3. \A e \in Ends : at[e] # u
  <2>1. \A e \in Ends : at[e] = u => e \in closed'
    BY <1>1, ProgramEndsDoes
  <2> QED BY <1>2, <2>1 DEF Undisturbed
<1>4. \A f \in Fds : file[u][f] = NoEnd
  BY <1>1, <1>3 DEF KernelOK, EndsOf
<1>5. \A f \in FdsOrNone, v \in Users : ~Leads(u, f, v)
  BY <1>4 DEF Leads, FdsOrNone
<1>6. \A v \in Users : uid_sockfd[u][v] = None
  <2>1. \A v \in Users : uid_sockfd[u][v] \in FdsOrNone
    <3>1. uid_sockfd[u] \in [Uids -> FdsOrNone]
      BY DEF TInv, TablesOK
    <3> QED BY <3>1 DEF Uids
  <2>2. \A v \in Users : uid_sockfd[u][v] # None => Leads(u, uid_sockfd[u][v], v)
    BY DEF ChannelsOf
  <2> QED BY <1>5, <2>1, <2>2
<1>7. ui'[u] = "ended" /\ thread'[u] = "ended"
  BY DEF ProgramEnds, TInv, InterfaceOK, ThreadOK
<1>8. batch'[u] = {}
  BY <1>1, ProgramEndsDoes
<1>9. ChannelsOf(u)'
  BY <1>2, <1>6, <1>7, <1>8 DEF ChannelsOf
<1>10. InterfaceOf(u)'
  BY <1>7 DEF InterfaceOf
<1> QED BY <1>9, <1>10

\* The listening thread keeps the channels right, as long as none closes.
LEMMA OwnListening ==
    ASSUME TInv, ReadyIsOpen, EndsStay, NEW u \in Users, Listening(u),
           ChannelsOf(u), InterfaceOf(u), Undisturbed(u)'
    PROVE  ChannelsOf(u)' /\ InterfaceOf(u)'
<1>1. KernelOK /\ EndsOf(u)
  BY DEF TInv, KInv, EndsOwned
<1>2. ready[u] \subseteq {Listen} \cup Fds /\ batch[u] \subseteq {Listen} \cup Fds
  BY <1>1 DEF KernelOK
<1>3. UNCHANGED <<uivars, client_b_sockfd>>
  BY DEF Listening, EpollWait, Accept, Table, Forget, CloseAgain, RecvMessage,
         RecvClosed, RecvAgain, tables
<1>4. UNCHANGED <<ui[u], who[u], chatting[u], client_b_sockfd[u]>>
  BY <1>3 DEF uivars
<1>5. ui'[u] # "cleanagain"
  BY <1>4 DEF ChannelsOf
<1>6. ASSUME FilesStay(u), uid_sockfd' = uid_sockfd
      PROVE  InterfaceOf(u)'
  BY <1>4, <1>6, InterfaceOfStays DEF HasChannel, Entry
<1>7. ASSUME FilesStay(u), UNCHANGED <<thvars, uid_sockfd>>,
             \A x \in batch'[u] \ {Listen} : x \in Fds /\ file[u][x] # NoEnd
      PROVE  ChannelsOf(u)' /\ InterfaceOf(u)'
  BY <1>5, <1>6, <1>7, ChannelsOfStays DEF thvars
<1>8. CASE EpollWait(u)
  <2>1. UNCHANGED <<thvars, tables, file>> /\ batch'[u] \subseteq ready[u]
    BY <1>1, <1>8 DEF EpollWait, KernelOK
  <2>2. \A x \in batch'[u] \ {Listen} : x \in Fds /\ file[u][x] # NoEnd
    BY <1>2, <2>1 DEF ReadyIsOpen
  <2>3. FilesStay(u)
    BY <2>1 DEF FilesStay
  <2> QED BY <1>7, <2>1, <2>2, <2>3 DEF tables
<1>9. CASE Accept(u)
  <2>1. PICK f \in Fds :
           /\ file[u][f] = NoEnd
           /\ file' = [file EXCEPT ![u][f] = Head(backlog[u])]
           /\ batch' = [batch EXCEPT ![u] = @ \ {Listen}]
    BY <1>9, AcceptDoes DEF TInv
  <2>2. FilesStay(u)
    BY <1>1, <2>1 DEF KernelOK, FilesStay
  <2>3. \A x \in batch'[u] \ {Listen} : x \in Fds /\ file[u][x] # NoEnd
    BY <1>1, <1>2, <2>1 DEF KernelOK, ChannelsOf
  <2>4. UNCHANGED <<thvars, tables>>
    BY <1>9 DEF Accept
  <2> QED BY <1>7, <2>2, <2>3, <2>4 DEF tables
<1>10. CASE Table(u)
  <2>1. /\ UNCHANGED kernel
        /\ thread'[u] = "events"
        /\ uid_sockfd' = [uid_sockfd EXCEPT ![u][uid[u]] = sockfd[u]]
        /\ thread[u] = "table"
    BY <1>10 DEF Table, TInv, ThreadOK
  <2>2. Leads(u, sockfd[u], uid[u]) /\ sockfd[u] \in FdsOrNone
    BY <2>1 DEF ChannelsOf, TInv, ThreadOK
  <2>3. uid[u] \in Users
    <3>1. sockfd[u] \in Fds /\ file[u][sockfd[u]] \in Ends
          /\ at[file[u][sockfd[u]]] = u
      BY <1>1, <2>2 DEF Leads, FdsOrNone, KernelOK, EndsOf
    <3>2. u # 0
      BY DEF Users
    <3>3. at[Other(file[u][sockfd[u]])] # 0
      BY <3>1, <3>2 DEF TInv, KInv, EndsPaired
    <3>4. uid[u] \in {0} \cup Users
      BY DEF TInv, ThreadOK, Uids
    <3> QED BY <2>2, <3>3, <3>4 DEF Leads
  <2>4. FilesStay(u) /\ batch' = batch
    BY <2>1 DEF kernel, FilesStay
  <2>5. /\ uid_sockfd'[u][0] = uid_sockfd[u][0]
        /\ \A v \in Users :
              uid_sockfd'[u][v] = IF v = uid[u] THEN sockfd[u] ELSE uid_sockfd[u][v]
    <3>1. uid[u] # 0
      BY <2>3 DEF Users
    <3> QED BY <2>1, <2>3, <3>1 DEF TInv, TablesOK, Uids
  <2>6. \A v \in Users : uid_sockfd'[u][v] # None =>
           Leads(u, uid_sockfd'[u][v], v)
    BY <2>2, <2>5 DEF ChannelsOf
  <2>7. ChannelsOf(u)'
    BY <1>5, <2>1, <2>4, <2>5, <2>6 DEF ChannelsOf, Leads, kernel
  <2>8. HasChannel(u) => HasChannel(u)'
    <3>1. who'[u] = who[u] /\ who[u] \in Uids /\ sockfd[u] # None
      BY <1>4, <2>2 DEF TInv, InterfaceOK, Leads
    <3> QED BY <2>5, <3>1 DEF HasChannel, Entry, Uids
  <2> QED BY <1>4, <2>4, <2>7, <2>8, InterfaceOfStays
<1>11. CASE Forget(u) \/ CloseAgain(u)
  BY <1>11 DEF Forget, CloseAgain, ChannelsOf
<1>12. ASSUME NEW f \in Fds, RecvMessage(u, f)
       PROVE  ChannelsOf(u)' /\ InterfaceOf(u)'
  <2>1. /\ UNCHANGED <<tables, file, at>>
        /\ batch'[u] \subseteq batch[u]
        /\ thread'[u] = "table" /\ sockfd'[u] = f
        /\ uid'[u] = at[Other(file[u][f])]
        /\ file[u][f] # NoEnd
    BY <1>1, <1>12 DEF RecvMessage, AfterMessage, KernelOK, TInv, ThreadOK
  <2>2. FilesStay(u)
    BY <2>1 DEF FilesStay
  <2>3. Leads(u, sockfd[u], uid[u])'
    BY <2>1 DEF Leads, Fds, None
  <2>4. ChannelsOf(u)'
    BY <1>5, <2>1, <2>3 DEF ChannelsOf, Leads, tables
  <2> QED BY <1>6, <2>1, <2>2, <2>4 DEF tables
<1>13. ASSUME NEW f \in Fds, RecvClosed(u, f)
       PROVE  FALSE
  <2>1. Close(u, f) /\ at' = at /\ f \in batch[u] \ {Listen}
    BY <1>13 DEF RecvClosed
  <2>2. file[u][f] # NoEnd
    BY <2>1 DEF ChannelsOf
  <2> QED BY <2>1, <2>2, ClosesNothing
<1>14. ASSUME NEW f \in Fds, RecvAgain(u, f)
       PROVE  ChannelsOf(u)' /\ InterfaceOf(u)'
  <2>1. UNCHANGED <<thvars, tables, file>> /\ batch'[u] = {}
    BY <1>1, <1>14 DEF RecvAgain, Dropped, KernelOK
  <2>2. FilesStay(u)
    BY <2>1 DEF FilesStay
  <2> QED BY <1>7, <2>1, <2>2 DEF tables
<1> QED
  BY <1>8, <1>9, <1>10, <1>11, <1>12, <1>13, <1>14 DEF Listening

\* A channel that is opened is entered for the user it leads to.
LEMMA OwnOpen ==
    ASSUME TInv, EndsStay, NEW u \in Users, Open(u), ChannelsOf(u)
    PROVE  ChannelsOf(u)' /\ InterfaceOf(u)'
<1>1. PICK f \in Fds, e \in Ends :
         /\ who[u] \in Users
         /\ Other(e) \in Ends /\ Other(e) # e
         /\ file[u][f] = NoEnd
         /\ at' = [at EXCEPT ![e] = u, ![Other(e)] = who[u]]
         /\ file' = [file EXCEPT ![u][f] = e]
         /\ client_b_sockfd' = [client_b_sockfd EXCEPT ![u] = f]
         /\ uid_sockfd' = [uid_sockfd EXCEPT ![u][who[u]] = f]
         /\ Returned(u)
         /\ UNCHANGED <<who, thvars, batch>>
  BY OpenDoes
<1>2. KernelOK
  BY DEF TInv, KInv
<1>3. FilesStay(u)
  BY <1>1, <1>2 DEF KernelOK, FilesStay
<1>4. Leads(u, f, who[u])'
  <2>1. e # NoEnd /\ f # None
    BY DEF Ends, NoEnd, Fds, None
  <2>2. file'[u][f] = e
    BY <1>1, <1>2 DEF KernelOK
  <2>3. at'[Other(e)] = who[u]
    BY <1>1, <1>2 DEF KernelOK
  <2> QED BY <1>1, <2>1, <2>2, <2>3 DEF Leads
<1>5. /\ ui'[u] \in {"send", "input"}
      /\ client_b_sockfd'[u] = f
      /\ who'[u] = who[u]
  BY <1>1 DEF Returned, Goto, TInv, InterfaceOK, TablesOK
<1>6. /\ uid_sockfd'[u][0] = uid_sockfd[u][0]
      /\ \A v \in Users :
            uid_sockfd'[u][v] = IF v = who[u] THEN f ELSE uid_sockfd[u][v]
  <2>1. who[u] # 0
    BY <1>1 DEF Users
  <2> QED BY <1>1, <2>1 DEF TInv, TablesOK, Uids
<1>7. /\ \A x \in batch'[u] \ {Listen} : file'[u][x] # NoEnd
      /\ thread'[u] \notin {"forget", "closeagain"}
      /\ uid_sockfd'[u][0] = None
      /\ ui'[u] # "cleanagain"
  <2>1. \A x \in batch[u] \ {Listen} : x \in Fds /\ file[u][x] # NoEnd
    BY <1>2 DEF ChannelsOf, KernelOK
  <2>2. \A x \in batch[u] \ {Listen} : file'[u][x] # NoEnd
    BY <1>3, <2>1 DEF FilesStay
  <2> QED BY <1>1, <1>5, <1>6, <2>2 DEF ChannelsOf, thvars
<1>8. thread'[u] = "table" => Leads(u, sockfd[u], uid[u])'
  <2>1. sockfd[u] \in FdsOrNone
    BY DEF TInv, ThreadOK
  <2>2. Leads(u, sockfd[u], uid[u]) => Leads(u, sockfd[u], uid[u])'
    <3> SUFFICES ASSUME Leads(u, sockfd[u], uid[u])
                 PROVE  Leads(u, sockfd[u], uid[u])'
      OBVIOUS
    <3>1. PICK g : g = sockfd[u]
      OBVIOUS
    <3>2. PICK v : v = uid[u]
      OBVIOUS
    <3>3. Leads(u, g, v)'
      BY <1>3, <2>1, <3>1, <3>2, LeadsStays
    <3> QED BY <1>1, <3>1, <3>2, <3>3 DEF thvars
  <2> QED BY <1>1, <2>2 DEF ChannelsOf, thvars
<1>9. ASSUME NEW v \in Users, uid_sockfd'[u][v] # None
      PROVE  Leads(u, uid_sockfd[u][v], v)'
  <2>1. CASE v = who[u]
    BY <1>1, <1>4, <1>5, <1>6, <2>1 DEF Leads
  <2>2. CASE v # who[u]
    <3>1. PICK g : g = uid_sockfd[u][v]
      OBVIOUS
    <3>2. uid_sockfd'[u][v] = g /\ g \in FdsOrNone
      BY <1>6, <2>2, <3>1 DEF TInv, TablesOK, Uids
    <3>3. Leads(u, g, v)
      BY <1>9, <3>1, <3>2 DEF ChannelsOf
    <3>4. Leads(u, g, v)'
      BY <1>3, <3>2, <3>3, LeadsStays
    <3> QED BY <3>2, <3>4
  <2> QED BY <2>1, <2>2
<1>10. ChannelsOf(u)'
  BY <1>7, <1>8, <1>9 DEF ChannelsOf
<1>11. HasChannel(u)'
  BY <1>1, <1>5, <1>6 DEF HasChannel, Entry, Fds, None
<1>12. Leads(u, client_b_sockfd[u], who[u])'
  BY <1>1, <1>4, <1>5 DEF Leads
<1>13. InterfaceOf(u)'
  BY <1>5, <1>11, <1>12 DEF InterfaceOf
<1> QED BY <1>10, <1>13

\* The steps of the user interface that leave the sockets and the entries of
\* the table alone.
LEMMA OwnQuietInterface ==
    ASSUME TInv, EndsStay, NEW u \in Users, ChannelsOf(u), InterfaceOf(u),
           UNCHANGED <<thvars, uid_sockfd, file, batch>>,
           \/ \E v \in Users : SelectUser(u, v)
           \/ ObtainAddr(u) \/ Lookup(u) \/ Reuse(u) \/ OpenFails(u)
           \/ Type(u) \/ QuitChat(u) \/ Test(u) \/ Send(u) \/ Note(u)
           \/ Login(u) \/ Logout(u) \/ CleanEnds(u),
           ~ProgramEnds(u)
    PROVE  ChannelsOf(u)' /\ InterfaceOf(u)'
<1>1. FilesStay(u)
  BY DEF FilesStay
<1>2. \A x \in batch'[u] \ {Listen} : x \in Fds /\ file[u][x] # NoEnd
  BY DEF ChannelsOf, TInv, KInv, KernelOK
<1>3. ui'[u] # "cleanagain"
  BY DEF SelectUser, ObtainAddr, Lookup, Reuse, OpenFails, Type, QuitChat, Test,
         Send, Note, Login, Logout, CleanEnds, Goto, Returned, uivars, TInv,
         InterfaceOK, ChannelsOf
<1>4. ChannelsOf(u)'
  BY <1>1, <1>2, <1>3, ChannelsOfStays DEF thvars
<1>5. HasChannel(u)' <=> uid_sockfd[u][who'[u]] # None
  BY DEF HasChannel, Entry
<1>6. client_b_sockfd[u] \in FdsOrNone /\ Entry(u) \in FdsOrNone
  BY DEF TInv, TablesOK, InterfaceOK, Entry
<1>7. ASSUME NEW f \in FdsOrNone, Leads(u, f, who[u])
      PROVE  file'[u][f] # NoEnd /\ at'[Other(file'[u][f])] = who[u] /\ f # None
  <2>1. PICK v : v = who[u]
    OBVIOUS
  <2>2. Leads(u, f, v)'
    BY <1>1, <1>7, <2>1, LeadsStays
  <2> QED BY <2>1, <2>2 DEF Leads
<1>8. CASE \E v \in Users : SelectUser(u, v)
  <2>1. ui[u] = "menu" /\ ui'[u] = "obtain" /\ chatting'[u] = chatting[u]
    BY <1>8 DEF SelectUser, Goto, TInv, InterfaceOK
  <2> QED BY <1>4, <2>1 DEF InterfaceOf
<1>9. CASE ObtainAddr(u)
  <2>1. ui[u] = "obtain" /\ ui'[u] = "lookup" /\ chatting'[u] = chatting[u]
    BY <1>9 DEF ObtainAddr, Goto, TInv, InterfaceOK
  <2> QED BY <1>4, <2>1 DEF InterfaceOf
<1>10. CASE Lookup(u)
  <2>1. /\ ui[u] = "lookup" /\ chatting'[u] = chatting[u] /\ who'[u] = who[u]
        /\ ui'[u] = IF HasChannel(u) THEN "reuse" ELSE "open"
    BY <1>10 DEF Lookup, Goto, TInv, InterfaceOK
  <2>2. HasChannel(u)' <=> HasChannel(u)
    BY <1>5, <2>1 DEF HasChannel, Entry
  <2> QED BY <1>4, <2>1, <2>2 DEF InterfaceOf
<1>11. CASE Reuse(u)
  <2>1. /\ ui[u] = "reuse" /\ who'[u] = who[u] /\ client_b_sockfd'[u] = Entry(u)
        /\ ui'[u] \in {"send", "input"}
    BY <1>11 DEF Reuse, Returned, Goto, TInv, InterfaceOK, TablesOK
  <2>2. HasChannel(u) /\ HasChannel(u)'
    BY <1>5, <2>1 DEF InterfaceOf, HasChannel, Entry
  <2>3. Leads(u, Entry(u), who[u])
    BY <2>1, <2>2 DEF ChannelsOf, HasChannel, Entry, TInv, InterfaceOK
  <2>4. Leads(u, client_b_sockfd[u], who[u])'
    BY <1>6, <1>7, <2>1, <2>3 DEF Leads
  <2> QED BY <1>4, <2>1, <2>2, <2>4 DEF InterfaceOf
<1>12. CASE OpenFails(u)
  BY <1>12 DEF OpenFails, InterfaceOf
<1>13. CASE Type(u) \/ Test(u) \/ Send(u) \/ Note(u)
  <2>1. /\ ui[u] \in {"input", "test", "send", "note"} /\ who'[u] = who[u]
        /\ client_b_sockfd'[u] = client_b_sockfd[u]
    BY <1>13 DEF Type, Test, Send, Note, uivars, tables
  <2>2. HasChannel(u) /\ HasChannel(u)'
    BY <1>5, <2>1 DEF InterfaceOf, HasChannel, Entry
  <2>3. ui'[u] \in {"input", "test", "send", "note"}
    BY <1>13, <2>2 DEF Type, Test, Send, Note, Goto, TInv, InterfaceOK
  <2>4. Leads(u, client_b_sockfd[u], who[u])
    BY <2>1 DEF InterfaceOf
  <2>5. Leads(u, client_b_sockfd[u], who[u])'
    BY <1>6, <1>7, <2>1, <2>4 DEF Leads
  <2> QED BY <1>4, <2>2, <2>3, <2>5 DEF InterfaceOf
<1>14. CASE QuitChat(u)
  <2>1. ui'[u] = "menu" /\ ~chatting'[u]
    BY <1>14 DEF QuitChat, Goto, TInv, InterfaceOK
  <2> QED BY <1>4, <2>1 DEF InterfaceOf
<1>15. CASE Login(u) \/ Logout(u) \/ CleanEnds(u)
  <2>1. /\ ui[u] \in {"menu", "clean"} /\ ui'[u] \in {"menu", "clean"}
        /\ chatting'[u] = chatting[u]
    BY <1>15 DEF Login, Logout, CleanEnds, Goto, uivars, TInv, InterfaceOK
  <2> QED BY <1>4, <2>1 DEF InterfaceOf
<1> QED BY <1>8, <1>9, <1>10, <1>11, <1>12, <1>13, <1>14, <1>15

\* The user interface keeps the channels right, as long as none closes.
LEMMA OwnInterface ==
    ASSUME TInv, EndsStay, NEW u \in Users, Interface(u),
           ChannelsOf(u), InterfaceOf(u), Undisturbed(u)'
    PROVE  ChannelsOf(u)' /\ InterfaceOf(u)'
<1>1. CASE ProgramEnds(u)
  BY <1>1, OwnProgramEnds
<1>2. CASE Open(u)
  BY <1>2, OwnOpen
<1>3. CASE Clean(u)
  <2>1. PICK v \in Uids : uid_sockfd[u][v] \in Fds /\ Close(u, uid_sockfd[u][v])
    BY <1>3, CleanDoes
  <2>2. uid_sockfd[u][v] # None
    BY <2>1 DEF Fds, None
  <2>3. Leads(u, uid_sockfd[u][v], v)
    BY <2>1, <2>2 DEF ChannelsOf, Uids
  <2>4. at' = at
    BY <1>3 DEF Clean
  <2> QED BY <2>1, <2>3, <2>4, ClosesNothing DEF Leads
<1>4. CASE CleanAgain(u)
  BY <1>4 DEF CleanAgain, ChannelsOf
<1>5. CASE Quit(u)
  BY <1>1, <1>5 DEF Quit
<1>6. CASE ~ProgramEnds(u) /\ ~Open(u) /\ ~Clean(u) /\ ~CleanAgain(u) /\ ~Quit(u)
  <2>1. UNCHANGED <<thvars, uid_sockfd, file, batch>>
    BY <1>6
       DEF Interface, SelectUser, ObtainAddr, Lookup, Reuse, OpenFails, Type,
           QuitChat, Test, Send, Note, Login, Logout, CleanEnds, kernel, tables
  <2> QED BY <1>6, <2>1, OwnQuietInterface DEF Interface
<1> QED BY <1>1, <1>2, <1>3, <1>4, <1>5, <1>6

-----------------------------------------------------------------------------
(* Channels: the invariant                                                  *)

LEMMA LInit == Init => LInv
<1> SUFFICES ASSUME Init PROVE LInv
  OBVIOUS
<1>1. ReadyIsOpen
  BY DEF Init, ReadyIsOpen
<1>2. ASSUME NEW u \in Users PROVE ChannelsOf(u) /\ InterfaceOf(u)
  <2>1. ChannelsOf(u)
    BY DEF Init, ChannelsOf
  <2>2. InterfaceOf(u)
    BY DEF Init, InterfaceOf
  <2> QED BY <2>1, <2>2
<1> QED BY <1>1, <1>2 DEF LInv, Channels

\* Every step, of the client itself or of others, keeps its channels right.
LEMMA StepLInv == TInv /\ LInv /\ [Next]_vars => LInv'
<1> SUFFICES ASSUME TInv, LInv, [Next]_vars PROVE LInv'
  OBVIOUS
<1>1. EndsStay
  BY StepEndsStay
<1>2. ReadyIsOpen /\ ReadyIsOpen'
  BY StepReadyIsOpen DEF LInv
<1>3. \A w \in Users : Channels(w)
  BY DEF LInv
<1>4. ASSUME NEW u \in Users, Interface(u) \/ Listening(u) PROVE Channels(u)'
  <2> SUFFICES ASSUME Undisturbed(u)' PROVE ChannelsOf(u)' /\ InterfaceOf(u)'
    BY DEF Channels
  <2>1. ChannelsOf(u) /\ InterfaceOf(u)
    BY <1>1, <1>3, StaysUndisturbed DEF Channels
  <2>2. CASE Interface(u)
    BY <1>1, <2>1, <2>2, OwnInterface
  <2>3. CASE Listening(u)
    BY <1>1, <1>2, <2>1, <2>3, OwnListening
  <2> QED BY <1>4, <2>2, <2>3
<1>5. ASSUME NEW u \in Users, Interface(u) \/ Listening(u), NEW w \in Users \ {u}
      PROVE  Channels(w)'
  <2>1. UNCHANGED Own(w)
    BY <1>5, OthersKeep
  <2> QED BY <1>1, <1>3, <2>1, ChannelsStay
<1>6. CASE \E u \in Users : Interface(u) \/ Listening(u)
  <2>1. \A w \in Users : Channels(w)'
    BY <1>4, <1>5, <1>6
  <2> QED BY <1>2, <2>1 DEF LInv
<1>7. CASE UNCHANGED vars
  <2>1. ASSUME NEW w \in Users PROVE Channels(w)'
    <3>1. UNCHANGED Own(w)
      BY <1>7 DEF vars, uivars, thvars, tables, kernel, Own
    <3> QED BY <1>1, <1>3, <3>1, ChannelsStay
  <2> QED BY <1>2, <2>1 DEF LInv
<1> QED BY <1>6, <1>7 DEF Next

\* Descriptors lead where the threads think they do.
LEMMA LInvariant == Spec => []LInv
<1>1. TInv /\ LInv /\ [Next]_vars => LInv'
  BY StepLInv
<1> QED BY LInit, <1>1, TInvariant, PTL DEF Spec

\* Every entry of uid_sockfd leads to the user it is entered for, whichever
\* thread made it, as long as no channel of the client closed.
THEOREM EntriesLead == Spec => []ChannelsLead
<1>1. TInv /\ LInv => ChannelsLead
  BY DEF LInv, Channels, ChannelsOf, Leads, ChannelsLead
<1> QED BY <1>1, TInvariant, LInvariant, PTL

\* The user interface sends over the channel to the user it chats with, as
\* long as no channel of the client closed.
THEOREM SendingLeads == Spec => []SendsLead
<1>1. TInv /\ LInv => SendsLead
  BY DEF LInv, Channels, InterfaceOf, Leads, SendsLead
<1> QED BY <1>1, TInvariant, LInvariant, PTL

-----------------------------------------------------------------------------
(* What ends a client program                                               *)

LEMMA EInit == Init => EInv
BY DEF Init, EInv, Running

\* Who ends is logged out by the work server, and only a closed end resets.
LEMMA StepEInv == TInv /\ EInv /\ [Next]_vars => EInv'
<1> SUFFICES ASSUME TInv, EInv, [Next]_vars PROVE EInv'
  OBVIOUS
<1>1. EndsStay
  BY StepEndsStay
<1>2. ASSUME NEW w \in Users, ~Running(w)' PROVE ~online'[w]
  <2>1. ASSUME NEW u \in Users, ProgramEnds(u) PROVE ~online'[w]
    <3>1. CASE w = u
      BY <2>1, <3>1 DEF ProgramEnds, TInv, InterfaceOK
    <3>2. CASE w # u
      <4>1. ~Running(w) /\ online'[w] = online[w]
        BY <1>2, <2>1, <3>2 DEF ProgramEnds, Running, TInv, InterfaceOK
      <4> QED BY <4>1 DEF EInv
    <3> QED BY <3>1, <3>2
  <2>2. ASSUME NEW u \in Users, Interface(u), ~ProgramEnds(u) PROVE ~online'[w]
    <3>1. ~Running(w)
      <4>1. CASE w = u
        <5>1. ui'[u] # "ended"
          BY <2>2
             DEF Interface, SelectUser, ObtainAddr, Lookup, Reuse, Open, OpenFails,
                 Type, QuitChat, Test, Send, Note, Login, Logout, Clean, CleanAgain,
                 CleanEnds, Quit, Goto, Returned, uivars, TInv, InterfaceOK
        <5> QED BY <1>2, <4>1, <5>1 DEF Running
      <4>2. CASE w # u
        BY <1>2, <2>2, <4>2, OthersKeep DEF Own, Running
      <4> QED BY <4>1, <4>2
    <3>2. ~online[w]
      BY <3>1 DEF EInv
    <3>3. CASE Login(u)
      <4>1. u # w
        BY <3>1, <3>3 DEF Login, Running
      <4> QED BY <3>2, <3>3, <4>1 DEF Login, TInv, InterfaceOK
    <3>4. CASE Logout(u)
      BY <3>2, <3>4 DEF Logout, TInv, InterfaceOK
    <3>5. CASE ~Login(u) /\ ~Logout(u)
      <4>1. online' = online
        BY <2>2, <3>5
           DEF Interface, SelectUser, ObtainAddr, Lookup, Reuse, Open, OpenFails,
               Type, QuitChat, Test, Send, Note, Clean, CleanAgain, CleanEnds, Quit
      <4> QED BY <3>2, <4>1
    <3> QED BY <3>3, <3>4, <3>5
  <2>3. ASSUME UNCHANGED <<ui, online>> PROVE ~online'[w]
    BY <1>2, <2>3 DEF EInv, Running
  <2>4. ASSUME NEW u \in Users, Listening(u) PROVE UNCHANGED <<ui, online>>
    BY <2>4
       DEF Listening, EpollWait, Accept, Table, Forget, CloseAgain, RecvMessage,
           RecvClosed, RecvAgain, uivars
  <2>5. CASE UNCHANGED vars
    BY <2>3, <2>5 DEF vars, uivars
  <2> QED BY <2>1, <2>2, <2>3, <2>4, <2>5 DEF Next
<1>3. ASSUME NEW e \in reset' PROVE Other(e) \in closed'
  <2>1. CASE e \in reset
    BY <1>1, <2>1 DEF EInv, EndsStay
  <2>2. CASE e \notin reset
    <3>1. ASSUME NEW u \in Users, ProgramEnds(u) PROVE reset' = reset
      BY <3>1 DEF ProgramEnds
    <3>2. PICK u \in Users : Send(u) /\ ~ProgramEnds(u)
      <4>1. ASSUME NEW u \in Users, Interface(u), ~Send(u) PROVE reset' = reset
        BY <3>1, <4>1
           DEF Interface, SelectUser, ObtainAddr, Lookup, Reuse, Open, OpenFails,
               Type, QuitChat, Test, Note, Login, Logout, Clean, CleanAgain,
               CleanEnds, Quit, kernel
      <4>2. ASSUME NEW u \in Users, Listening(u) PROVE reset' = reset
        BY <4>2
           DEF Listening, EpollWait, Accept, Table, Forget, CloseAgain, RecvMessage,
               RecvClosed, RecvAgain, kernel
      <4>3. ~UNCHANGED vars
        BY <1>3, <2>2 DEF vars, kernel
      <4> QED BY <1>3, <2>2, <3>1, <4>1, <4>2, <4>3 DEF Next
    <3>3. Other(e) \in closed
      BY <1>3, <2>2, <3>2 DEF Send, kernel
    <3> QED BY <1>1, <3>3 DEF EndsStay
  <2> QED BY <2>1, <2>2
<1>4. EInv' <=> /\ \A w \in Users : ~Running(w)' => ~online'[w]
                /\ \A e \in reset' : Other(e) \in closed'
  BY DEF EInv
<1> QED BY <1>2, <1>3, <1>4

\* Ended programs are offline, and resets come from closed ends.
LEMMA EInvariant == Spec => []EInv
<1>1. TInv /\ EInv /\ [Next]_vars => EInv'
  BY StepEInv
<1> QED BY EInit, <1>1, TInvariant, PTL DEF Spec

\* A program that ends outside the menu was calling a user who is not online,
\* or lost a channel.
LEMMA EndsWithReason ==
    ASSUME TInv, LInv, EInv, NEW u \in Users, Interface(u),
           ui[u] # "menu", Running(u), ui'[u] = "ended", Undisturbed(u)
    PROVE  ~online[who[u]]
<1>1. InterfaceOf(u)
  BY DEF LInv, Channels
<1>2. \/ ObtainAddr(u) /\ ~online[who[u]]
      \/ Reuse(u) /\ ui[u] = "reuse" /\ ~HasChannel(u)
      \/ OpenFails(u) /\ ui[u] = "open" /\ ~Running(who[u])
      \/ Send(u) /\ ui[u] = "send" /\ ProgramEnds(u)
  <2>1. ui \in [Users -> InterfacePlaces] /\ ui[u] # "ended"
    BY DEF TInv, InterfaceOK, Running
  <2>2. \/ ObtainAddr(u) \/ Reuse(u) \/ OpenFails(u) \/ Send(u)
    BY <2>1
       DEF Interface, SelectUser, Lookup, Open, Type, QuitChat, Test, Note, Login,
           Logout, Clean, CleanAgain, CleanEnds, Quit, Goto, Returned, uivars
  <2>3. CASE ObtainAddr(u)
    BY <2>1, <2>3 DEF ObtainAddr, Goto
  <2>4. CASE Reuse(u)
    BY <2>1, <2>4 DEF Reuse, Returned, Goto, HasChannel
  <2>5. CASE OpenFails(u)
    BY <2>5 DEF OpenFails
  <2>6. CASE Send(u)
    BY <2>1, <2>6 DEF Send, Goto
  <2> QED BY <2>2, <2>3, <2>4, <2>5, <2>6
<1>3. CASE Reuse(u) /\ ui[u] = "reuse" /\ ~HasChannel(u)
  BY <1>1, <1>3 DEF InterfaceOf
<1>4. CASE OpenFails(u) /\ ui[u] = "open" /\ ~Running(who[u])
  <2>1. who[u] \in Users
    BY <1>4 DEF TInv, InterfaceOK
  <2> QED BY <1>4, <2>1 DEF EInv
<1>5. CASE Send(u) /\ ui[u] = "send" /\ ProgramEnds(u)
  <2>1. PICK e : e = IF client_b_sockfd[u] = None THEN NoEnd
                     ELSE file[u][client_b_sockfd[u]]
    OBVIOUS
  <2>2. e \in reset
    <3>1. ui \in [Users -> InterfacePlaces]
      BY DEF TInv, InterfaceOK
    <3> QED BY <1>5, <2>1, <3>1 DEF Send, Goto
  <2>3. e # NoEnd /\ e \in Ends
    BY <2>2 DEF TInv, KInv, KernelOK, Ends, NoEnd
  <2>4. client_b_sockfd[u] \in Fds
    BY <2>1, <2>3 DEF TInv, TablesOK, FdsOrNone
  <2>5. at[e] = u
    BY <2>1, <2>3, <2>4 DEF TInv, KInv, EndsOwned, EndsOf, Fds, None
  <2>6. Other(e) \in closed
    BY <2>2 DEF EInv
  <2> QED BY <2>3, <2>5, <2>6 DEF Undisturbed
<1> QED BY <1>2, <1>3, <1>4, <1>5

\* No assertion, no null pointer and no SIGPIPE ends a client program that
\* lost no channel and calls a user who is online.
THEOREM EndsOnlyWithReason == Spec => EndsOnlyIfDisturbed
<1>1. TInv /\ LInv /\ EInv /\ [Next]_vars =>
         [\A u \in Users : (ui[u] # "menu" /\ Running(u) /\ ui'[u] = "ended") =>
             ~online[who[u]] \/ ~Undisturbed(u)]_vars
  <2> SUFFICES ASSUME TInv, LInv, EInv, Next, NEW u \in Users,
                      ui[u] # "menu", Running(u), ui'[u] = "ended", Undisturbed(u)
               PROVE  ~online[who[u]]
    OBVIOUS
  <2>1. PICK w \in Users : Interface(w) \/ Listening(w)
    BY DEF Next
  <2>2. ui'[u] # ui[u]
    BY DEF Running
  <2>3. w = u
    BY <2>1, <2>2, OthersKeep DEF Own
  <2>4. Interface(u)
    <3>1. ASSUME Listening(u) PROVE ui' = ui
      BY <3>1
         DEF Listening, EpollWait, Accept, Table, Forget, CloseAgain, RecvMessage,
             RecvClosed, RecvAgain, uivars
    <3> QED BY <2>1, <2>2, <2>3, <3>1
  <2> QED BY <2>4, EndsWithReason
<1> QED
  BY <1>1, TInvariant, LInvariant, EInvariant, PTL DEF Spec, EndsOnlyIfDisturbed
=============================================================================
