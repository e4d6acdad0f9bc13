-------------------------- MODULE RouteServerProofs --------------------------
(***************************************************************************)
(* Theorems about RouteServer for any numbers of children, work servers,   *)
(* clients, descriptors and slots: the types, what a scan can have missed, *)
(* what an undisturbed scan computes, whose a slot is, and that the table  *)
(* implements Registry.                                                    *)
(***************************************************************************)
EXTENDS RouteServer, TLAPS

-----------------------------------------------------------------------------
(* Types                                                                    *)

Addresses == (Peers \cup {None}) \X (Peers \cup {None})

TableOK ==
    /\ connections \in [Slots -> Int]
    /\ ip \in [Slots -> Peers \cup {None}]
    /\ port \in [Slots -> Peers \cup {None}]

LinksOK ==
    /\ alive \in [Children -> BOOLEAN]
    /\ state \in [Peers -> States]
    /\ at \in [Peers -> Children \cup {None}]
    /\ fd \in [Peers -> Int]
    /\ \A p \in Peers : Open(p) => at[p] \in Children /\ fd[p] \in Fds(at[p])
    /\ inbox \in [Peers -> Seq(Loads \cup {Obtain})]

LocalsOK ==
    /\ pc \in [Children -> Places]
    /\ peer \in [Children -> Peers \cup {None}]
    /\ new \in [Children -> Int]
    /\ i \in [Children -> 0 .. MAX_WORK_SERVER]
    /\ min \in [Children -> Int]
    /\ ret \in [Children -> Addresses]

HistoryOK ==
    /\ steady \in [Children -> SUBSET Slots]
    /\ undisturbed \subseteq Children

\* The peer whose message a child works on stays connected to this child, and
\* a scan is at a slot of the table until it is through.
HandlersOpen ==
    \A c \in Children :
        /\ pc[c] # "loop" =>
              peer[c] \in Peers /\ Open(peer[c]) /\ at[peer[c]] = c
        /\ pc[c] \in {"test", "less", "min", "rip", "rport"} => i[c] \in Slots
        /\ pc[c] = "answer" => i[c] = MAX_WORK_SERVER

TInv == TableOK /\ LinksOK /\ LocalsOK /\ HistoryOK /\ HandlersOpen

\* A child has no descriptor beyond the table.
LEMMA FdsAreSlots ==
    ASSUME NEW c \in Children
    PROVE  Fds(c) \subseteq Slots
BY ConstantsAssumption DEF Fds, Slots

LEMMA TInit == Init => TInv
BY ConstantsAssumption
   DEF Init, TInv, TableOK, LinksOK, LocalsOK, HistoryOK, HandlersOpen, Addresses,
       Places, States, Open

\* The slot a child writes is one of its own descriptors.
LEMMA HandlersSlot ==
    ASSUME TInv, NEW c \in Children, pc[c] # "loop"
    PROVE  /\ peer[c] \in Peers /\ Open(peer[c]) /\ at[peer[c]] = c
           /\ fd[peer[c]] \in Fds(c) /\ fd[peer[c]] \in Slots
BY FdsAreSlots DEF TInv, HandlersOpen, LinksOK

\* The next slot, or the end of the scan.
LEMMA NextSlotSteps ==
    ASSUME TInv, NEW c \in Children, pc[c] \in {"test", "less", "rport"}, NextSlot(c)
    PROVE  /\ i' \in [Children -> 0 .. MAX_WORK_SERVER]
           /\ pc' \in [Children -> Places]
           /\ i'[c] = i[c] + 1
           /\ \A d \in Children \ {c} : i'[d] = i[d] /\ pc'[d] = pc[d]
           /\ \/ pc'[c] = "test" /\ i'[c] \in Slots
              \/ pc'[c] = "answer" /\ i'[c] = MAX_WORK_SERVER
<1>1. /\ i \in [Children -> 0 .. MAX_WORK_SERVER] /\ pc \in [Children -> Places]
      /\ i[c] \in Slots
  BY DEF TInv, LocalsOK, HandlersOpen
<1>2. /\ i' = [i EXCEPT ![c] = i[c] + 1]
      /\ pc' = [pc EXCEPT ![c] = IF LoopEnds(i[c] + 1) THEN "answer" ELSE "test"]
  BY DEF NextSlot, Goto
<1> QED
  BY <1>1, <1>2, ConstantsAssumption DEF Places, Slots, LoopEnds

LEMMA TSend ==
    ASSUME TInv, NEW p \in Peers, Send(p)
    PROVE  TInv'
<1>1. inbox' \in [Peers -> Seq(Loads \cup {Obtain})]
  BY DEF Send, TInv, LinksOK
<1> QED
  BY <1>1 DEF Send, TInv, TableOK, LinksOK, LocalsOK, HistoryOK, HandlersOpen,
              Open, table, locals, history

LEMMA TLeave ==
    ASSUME TInv, NEW p \in Peers, Leave(p)
    PROVE  TInv'
<1>1. /\ state' \in [Peers -> States]
      /\ \A q \in Peers : Open(q)' <=> Open(q)
  BY DEF Leave, TInv, LinksOK, States, Open
<1> QED
  BY <1>1 DEF Leave, TInv, TableOK, LinksOK, LocalsOK, HistoryOK, HandlersOpen,
              table, locals, history

LEMMA TAccept ==
    ASSUME TInv, NEW c \in Children, NEW p \in Peers, Accept(c, p)
    PROVE  TInv'
<1>1. PICK f \in FreeFds(c) : fd' = [fd EXCEPT ![p] = f]
  BY DEF Accept
<1>2. f \in Fds(c) /\ f \in Int
  BY ConstantsAssumption DEF FreeFds, Fds
<1>3. /\ ~Open(p) /\ Open(p)'
      /\ \A q \in Peers \ {p} : (Open(q)' <=> Open(q)) /\ at'[q] = at[q] /\ fd'[q] = fd[q]
      /\ at'[p] = c /\ fd'[p] = f
  BY <1>1 DEF Accept, TInv, LinksOK, Open
<1>4. LinksOK'
  BY <1>1, <1>2, <1>3 DEF Accept, TInv, LinksOK, States, Fds
<1>5. HandlersOpen'
  BY <1>3 DEF Accept, TInv, HandlersOpen, locals
<1> QED
  BY <1>4, <1>5 DEF Accept, TInv, TableOK, LocalsOK, HistoryOK, table, locals, history

\* What a write of connections leaves of the types.
LEMMA TWrite ==
    ASSUME TInv, NEW f \in Slots, NEW v \in Int, WriteConnections(f, v)
    PROVE  connections' \in [Slots -> Int] /\ HistoryOK'
BY DEF WriteConnections, TInv, TableOK, HistoryOK

LEMMA THangup ==
    ASSUME TInv, NEW c \in Children, NEW p \in Peers, Hangup(c, p)
    PROVE  TInv'
<1>1. Open(p) /\ fd[p] \in Slots /\ pc[c] = "loop"
  BY FdsAreSlots DEF Hangup, TInv, LinksOK, Open
<1>2. TableOK' /\ HistoryOK'
  <2>1. connections' \in [Slots -> Int] /\ HistoryOK'
    BY <1>1, TWrite DEF Hangup, rmove_server_addr, TInv, TableOK, HistoryOK, history
  <2> QED BY <2>1 DEF Hangup, TInv, TableOK
<1>3. /\ ~Open(p)'
      /\ \A q \in Peers \ {p} : (Open(q)' <=> Open(q)) /\ at'[q] = at[q] /\ fd'[q] = fd[q]
  BY DEF Hangup, TInv, LinksOK, Open
<1>4. LinksOK'
  BY <1>3 DEF Hangup, TInv, LinksOK, States
<1>5. HandlersOpen'
  BY <1>1, <1>3 DEF Hangup, TInv, HandlersOpen, locals
<1> QED BY <1>2, <1>4, <1>5 DEF Hangup, TInv, LocalsOK, locals

LEMMA TReceive ==
    ASSUME TInv, NEW c \in Children, NEW p \in Peers,
           ReceiveReport(c, p) \/ ReceiveObtain(c, p)
    PROVE  TInv'
<1>1. /\ Open(p) /\ at[p] = c /\ inbox[p] # <<>>
      /\ inbox' = [inbox EXCEPT ![p] = <<>>]
      /\ peer' = [peer EXCEPT ![c] = p]
      /\ UNCHANGED <<table, alive, state, at, fd>>
  BY DEF ReceiveReport, ReceiveObtain, Receive
<1>2. TableOK' /\ LinksOK'
  <2>1. <<>> \in Seq(Loads \cup {Obtain})
    OBVIOUS
  <2>2. inbox' \in [Peers -> Seq(Loads \cup {Obtain})]
    BY <1>1, <2>1 DEF TInv, LinksOK
  <2> QED BY <1>1, <2>2 DEF TInv, TableOK, LinksOK, Open, table
<1>3. CASE ReceiveReport(c, p)
  <2>1. Head(inbox[p]) \in Int
    <3>1. inbox[p] \in Seq(Loads \cup {Obtain})
      BY DEF TInv, LinksOK
    <3>2. Head(inbox[p]) \in Loads \cup {Obtain}
      BY <1>1, <3>1
    <3> QED BY <1>3, <3>2, ConstantsAssumption DEF ReceiveReport
  <2>2. pc' = [pc EXCEPT ![c] = FirstField(fd[p])]
        /\ FirstField(fd[p]) \in {"ip", "connections"}
    BY <1>3 DEF ReceiveReport, Goto, FirstField
  <2>3. LocalsOK' /\ HistoryOK'
    BY <1>1, <1>3, <2>1, <2>2
       DEF ReceiveReport, TInv, LocalsOK, HistoryOK, Places, history
  <2>4. HandlersOpen'
    BY <1>1, <1>3, <2>2 DEF ReceiveReport, TInv, LocalsOK, HandlersOpen, Open
  <2> QED BY <1>2, <2>3, <2>4 DEF TInv
<1>4. CASE ReceiveObtain(c, p)
  <2>1. /\ i' = [i EXCEPT ![c] = 0] /\ pc' = [pc EXCEPT ![c] = "test"]
        /\ min' = [min EXCEPT ![c] = -1]
        /\ ret' = [ret EXCEPT ![c] = <<None, None>>]
        /\ steady' = [steady EXCEPT ![c] = {f \in Slots : connections[f] # -1}]
        /\ undisturbed' = undisturbed \cup {c}
        /\ UNCHANGED new
    BY <1>4 DEF ReceiveObtain, Goto, InitialMin
  <2>2. 0 \in Slots /\ 0 \in 0 .. MAX_WORK_SERVER
    BY ConstantsAssumption DEF Slots
  <2>3. LocalsOK' /\ HistoryOK'
    BY <1>1, <2>1, <2>2 DEF TInv, LocalsOK, HistoryOK, Places, Addresses
  <2>4. HandlersOpen'
    BY <1>1, <2>1, <2>2 DEF TInv, LocalsOK, HandlersOpen, Open
  <2> QED BY <1>2, <2>3, <2>4 DEF TInv
<1> QED BY <1>3, <1>4

LEMMA TSet ==
    ASSUME TInv, NEW c \in Children, SetIp(c) \/ SetPort(c) \/ SetConnections(c)
    PROVE  TInv'
<1>1. pc[c] # "loop"
  BY DEF SetIp, SetPort, SetConnections
<1>2. fd[peer[c]] \in Slots /\ peer[c] \in Peers
  BY <1>1, HandlersSlot
<1>3. CASE SetIp(c)
  <2>1. TableOK' /\ LinksOK' /\ HistoryOK'
    BY <1>2, <1>3 DEF SetIp, TInv, TableOK, LinksOK, HistoryOK, Open, links
  <2>2. LocalsOK' /\ HandlersOpen'
    BY <1>3 DEF SetIp, Goto, TInv, LocalsOK, HandlersOpen, Open, Places, links, locals
  <2> QED BY <2>1, <2>2 DEF TInv
<1>4. CASE SetPort(c)
  <2>1. TableOK' /\ LinksOK' /\ HistoryOK'
    BY <1>2, <1>4 DEF SetPort, TInv, TableOK, LinksOK, HistoryOK, Open, links
  <2>2. LocalsOK' /\ HandlersOpen'
    BY <1>4 DEF SetPort, Goto, TInv, LocalsOK, HandlersOpen, Open, Places, links, locals
  <2> QED BY <2>1, <2>2 DEF TInv
<1>5. CASE SetConnections(c)
  <2>1. connections' \in [Slots -> Int] /\ HistoryOK'
    BY <1>2, <1>5, TWrite DEF SetConnections, TInv, LocalsOK
  <2>2. TableOK' /\ LinksOK'
    BY <1>5, <2>1 DEF SetConnections, TInv, TableOK, LinksOK, Open, links
  <2>3. LocalsOK' /\ HandlersOpen'
    BY <1>5 DEF SetConnections, Goto, TInv, LocalsOK, HandlersOpen, Open, Places, links
  <2> QED BY <2>1, <2>2, <2>3 DEF TInv
<1> QED BY <1>3, <1>4, <1>5

\* One half of an address is read at a time.
LEMMA HalfRead ==
    ASSUME NEW r \in Addresses, NEW a \in Peers \cup {None}
    PROVE  /\ [r EXCEPT ![1] = a] \in Addresses
           /\ [r EXCEPT ![1] = a][1] = a /\ [r EXCEPT ![1] = a][2] = r[2]
           /\ [r EXCEPT ![2] = a] \in Addresses
           /\ [r EXCEPT ![2] = a][2] = a /\ [r EXCEPT ![2] = a][1] = r[1]
BY DEF Addresses

LEMMA TScan ==
    ASSUME TInv, NEW c \in Children,
           Test(c) \/ Less(c) \/ ReadMin(c) \/ ReadIp(c) \/ ReadPort(c)
    PROVE  TInv'
<1>1. TableOK' /\ LinksOK' /\ HistoryOK'
  BY DEF Test, Less, ReadMin, ReadIp, ReadPort, TInv, TableOK, LinksOK, HistoryOK,
         Open, table, links, history
<1>2. /\ UNCHANGED <<state, at, peer, new>>
      /\ pc[c] \in {"test", "less", "min", "rip", "rport"}
  BY DEF Test, Less, ReadMin, ReadIp, ReadPort, links
<1>3. i[c] \in Slots /\ connections[i[c]] \in Int
      /\ ip[i[c]] \in Peers \cup {None} /\ port[i[c]] \in Peers \cup {None}
  BY <1>2 DEF TInv, HandlersOpen, TableOK
<1>4. min' \in [Children -> Int]
  BY <1>3 DEF Test, Less, ReadMin, ReadIp, ReadPort, TInv, LocalsOK
<1>5. ret' \in [Children -> Addresses]
  <2>1. CASE Test(c) \/ Less(c) \/ ReadMin(c)
    BY <2>1 DEF Test, Less, ReadMin, TInv, LocalsOK
  <2>2. CASE ReadIp(c)
    <3>1. ret' = [ret EXCEPT ![c] = [ret[c] EXCEPT ![1] = ip[i[c]]]]
      BY <2>2 DEF ReadIp
    <3> QED BY <1>3, <3>1, HalfRead DEF TInv, LocalsOK
  <2>3. CASE ReadPort(c)
    <3>1. ret' = [ret EXCEPT ![c] = [ret[c] EXCEPT ![2] = port[i[c]]]]
      BY <2>3 DEF ReadPort
    <3> QED BY <1>3, <3>1, HalfRead DEF TInv, LocalsOK
  <2> QED BY <2>1, <2>2, <2>3
<1>6. CASE /\ NextSlot(c) /\ pc[c] \in {"test", "less", "rport"}
  <2>1. LocalsOK'
    BY <1>2, <1>4, <1>5, <1>6, NextSlotSteps DEF TInv, LocalsOK
  <2>2. HandlersOpen'
    BY <1>2, <1>6, NextSlotSteps DEF TInv, HandlersOpen, Open
  <2> QED BY <1>1, <2>1, <2>2 DEF TInv
<1>7. CASE /\ UNCHANGED i
           /\ \E place \in {"less", "min", "rip", "rport"} : Goto(c, place)
  <2>1. LocalsOK'
    BY <1>2, <1>4, <1>5, <1>7 DEF TInv, LocalsOK, Goto, Places
  <2>2. HandlersOpen'
    BY <1>2, <1>7 DEF TInv, LocalsOK, HandlersOpen, Goto, Open
  <2> QED BY <1>1, <2>1, <2>2 DEF TInv
<1> QED BY <1>6, <1>7 DEF Test, Less, ReadMin, ReadIp, ReadPort

\* The end of a handler, whose child stays or goes with its connections.
LEMMA HandlerEndsTypes ==
    ASSUME TInv, NEW c \in Children, HandlerEnds(c)
    PROVE  /\ LocalsOK' /\ HistoryOK'
           /\ pc'[c] = "loop"
           /\ \A d \in Children \ {c} :
                 pc'[d] = pc[d] /\ peer'[d] = peer[d] /\ i'[d] = i[d]
BY ConstantsAssumption
   DEF HandlerEnds, Goto, TInv, LocalsOK, HistoryOK, Places, Addresses

LEMMA TAnswer ==
    ASSUME TInv, NEW c \in Children, Answer(c)
    PROVE  TInv'
<1>1. /\ HandlerEnds(c) /\ UNCHANGED <<connections, ip, port, alive, state, at,
                                       fd, inbox>>
  BY DEF Answer, table, links
<1>2. TableOK' /\ LinksOK'
  BY <1>1 DEF TInv, TableOK, LinksOK, Open
<1>3. HandlersOpen'
  BY <1>1, HandlerEndsTypes DEF TInv, HandlersOpen, Open
<1> QED BY <1>1, <1>2, <1>3, HandlerEndsTypes DEF TInv

LEMMA TChildExits ==
    ASSUME TInv, NEW c \in Children, ChildExits(c)
    PROVE  TInv'
<1>1. /\ HandlerEnds(c) /\ UNCHANGED <<connections, ip, port>>
  BY DEF ChildExits, table
<1>2. /\ TableOK'
      /\ alive' \in [Children -> BOOLEAN]
      /\ state' \in [Peers -> States]
      /\ at' \in [Peers -> Children \cup {None}]
      /\ fd' \in [Peers -> Int]
  BY <1>1 DEF ChildExits, TInv, TableOK, LinksOK, States
<1>3. inbox' \in [Peers -> Seq(Loads \cup {Obtain})]
  <2>1. <<>> \in Seq(Loads \cup {Obtain})
    OBVIOUS
  <2> QED BY <2>1 DEF ChildExits, TInv, LinksOK
<1>4. \A p \in Peers :
          IF at[p] = c THEN ~Open(p)'
          ELSE (Open(p)' <=> Open(p)) /\ at'[p] = at[p] /\ fd'[p] = fd[p]
  BY DEF ChildExits, Open
<1>5. LinksOK'
  BY <1>2, <1>3, <1>4 DEF TInv, LinksOK
<1>6. HandlersOpen'
  BY <1>1, <1>4, HandlerEndsTypes DEF TInv, HandlersOpen
<1> QED BY <1>1, <1>2, <1>5, <1>6, HandlerEndsTypes DEF TInv

LEMMA TStutter ==
    ASSUME TInv, UNCHANGED vars
    PROVE  TInv'
BY DEF TInv, TableOK, LinksOK, LocalsOK, HistoryOK, HandlersOpen, Open, vars, table,
       links, locals, history

LEMMA TStep ==
    ASSUME TInv, [Next]_vars
    PROVE  TInv'
BY TSend, TLeave, TAccept, THangup, TReceive, TSet, TScan, TAnswer, TChildExits,
   TStutter
   DEF Next, Step

\* The types of RouteServer's variables: in particular no child writes or reads
\* beyond the table.
THEOREM TypeCorrect == Spec => []TypeOK
<1>1. Spec => []TInv
  BY TInit, TStep, PTL DEF Spec
<1>2. TInv => TypeOK
  <2> SUFFICES ASSUME TInv
               PROVE  TypeOK
    OBVIOUS
  <2>1. \A c \in Children :
            /\ pc[c] # "loop" => peer[c] \in Peers
            /\ pc[c] = "test" => i[c] < MAX_WORK_SERVER
    BY ConstantsAssumption DEF TInv, HandlersOpen, Slots
  <2>2. \A p \in Peers : state[p] \in {"connected", "gone"} =>
            at[p] \in Children /\ fd[p] \in Fds(at[p])
    BY DEF TInv, LinksOK, Open
  <2> QED
    BY <2>1, <2>2 DEF TInv, TableOK, LinksOK, LocalsOK, HistoryOK, TypeOK, Addresses
<1> QED BY <1>1, <1>2, PTL

-----------------------------------------------------------------------------
(* What a scan can have missed                                              *)

\* A slot that was ever occupied has a port for ever: it is written before
\* the slot is taken, and a departure leaves it.
PortsStay ==
    /\ \A f \in Slots : connections[f] # -1 => port[f] # None
    /\ \A c \in Children :
          /\ pc[c] = "connections" => port[fd[peer[c]]] # None
          /\ pc[c] \in {"less", "min", "rip", "rport"} => port[i[c]] # None

\* A scan with a minimum has an address with a port, and so has one that
\* passed a slot that was occupied all the time.
ScansFind ==
    \A c \in Children :
        /\ pc[c] \in {"test", "less", "answer"} /\ min[c] # -1 => ret[c][2] # None
        /\ pc[c] = "less" => min[c] # -1
        /\ steady[c] \subseteq {f \in Slots : connections[f] # -1}
        /\ pc[c] \in {"test", "less", "min", "rip", "rport", "answer"} =>
              \A f \in steady[c] : f < i[c] => ret[c][2] # None

NInv == PortsStay /\ ScansFind

LEMMA NInit == Init => NInv
BY DEF Init, NInv, PortsStay, ScansFind

\* A change of connections, away from the handlers that are under way.
LEMMA NLinks ==
    ASSUME TInv, NInv, UNCHANGED <<table, pc, locals, history>>,
           \A c \in Children : pc[c] # "loop" => fd'[peer[c]] = fd[peer[c]]
    PROVE  NInv'
BY DEF NInv, PortsStay, ScansFind, table, locals, history

LEMMA NSendLeaveAccept ==
    ASSUME TInv, NInv, NEW p \in Peers,
           Send(p) \/ Leave(p) \/ \E c \in Children : Accept(c, p)
    PROVE  NInv'
<1>1. UNCHANGED <<table, pc, locals, history>>
  BY DEF Send, Leave, Accept
<1>2. CASE Send(p) \/ Leave(p)
  BY <1>1, <1>2, NLinks DEF Send, Leave
<1>3. ASSUME NEW c \in Children, Accept(c, p)
      PROVE  NInv'
  <2>1. ~Open(p) /\ \A q \in Peers \ {p} : fd'[q] = fd[q]
    BY <1>3 DEF Accept, TInv, LinksOK, Open
  <2>2. \A d \in Children : pc[d] # "loop" => fd'[peer[d]] = fd[peer[d]]
    BY <2>1, HandlersSlot
  <2> QED BY <1>1, <2>2, NLinks
<1> QED BY <1>2, <1>3

LEMMA NHangup ==
    ASSUME TInv, NInv, NEW c \in Children, NEW p \in Peers, Hangup(c, p)
    PROVE  NInv'
<1>1. /\ pc[c] = "loop" /\ at[p] = c
      /\ UNCHANGED <<ip, port, pc, locals>>
      /\ \A q \in Peers \ {p} : fd'[q] = fd[q]
  BY DEF Hangup, TInv, LinksOK
<1>2. \A d \in Children : pc[d] # "loop" => fd'[peer[d]] = fd[peer[d]]
  BY <1>1, HandlersSlot
<1>3. CASE connections[fd[p]] = -1
  <2>1. UNCHANGED <<connections, steady>>
    BY <1>3 DEF Hangup, rmove_server_addr, history
  <2> QED BY <1>1, <1>2, <2>1 DEF NInv, PortsStay, ScansFind, locals
<1>4. CASE connections[fd[p]] # -1
  <2>1. /\ connections' = [connections EXCEPT ![fd[p]] = -1]
        /\ steady' = [d \in Children |-> steady[d] \ {fd[p]}]
    BY <1>4 DEF Hangup, rmove_server_addr, WriteConnections
  <2>2. PortsStay'
    BY <1>1, <1>2, <2>1 DEF NInv, PortsStay, locals, TInv, TableOK
  <2>3. ScansFind'
    BY <1>1, <2>1 DEF NInv, ScansFind, locals, TInv, TableOK
  <2> QED BY <2>2, <2>3 DEF NInv
<1> QED BY <1>3, <1>4

LEMMA NReceive ==
    ASSUME TInv, NInv, NEW c \in Children, NEW p \in Peers,
           ReceiveReport(c, p) \/ ReceiveObtain(c, p)
    PROVE  NInv'
<1>1. /\ UNCHANGED <<connections, ip, port, fd>>
      /\ peer' = [peer EXCEPT ![c] = p]
      /\ fd[p] \in Slots
  BY FdsAreSlots
     DEF ReceiveReport, ReceiveObtain, Receive, table, TInv, LinksOK
<1>2. CASE ReceiveReport(c, p)
  <2>1. /\ pc' = [pc EXCEPT ![c] = FirstField(fd[p])]
        /\ UNCHANGED <<i, min, ret, steady>>
    BY <1>2 DEF ReceiveReport, Goto, history
  <2>2. /\ FirstField(fd[p]) \in {"ip", "connections"}
        /\ FirstField(fd[p]) = "connections" => port[fd[p]] # None
    BY <1>1 DEF FirstField, NInv, PortsStay
  <2>3. PortsStay'
    BY <1>1, <2>1, <2>2 DEF NInv, PortsStay, TInv, LocalsOK
  <2>4. ScansFind'
    BY <1>1, <2>1, <2>2 DEF NInv, ScansFind, TInv, LocalsOK
  <2> QED BY <2>3, <2>4 DEF NInv
<1>3. CASE ReceiveObtain(c, p)
  <2>1. /\ i' = [i EXCEPT ![c] = 0] /\ pc' = [pc EXCEPT ![c] = "test"]
        /\ min' = [min EXCEPT ![c] = -1]
        /\ ret' = [ret EXCEPT ![c] = <<None, None>>]
        /\ steady' = [steady EXCEPT ![c] = {f \in Slots : connections[f] # -1}]
    BY <1>3 DEF ReceiveObtain, Goto, InitialMin
  <2>2. PortsStay'
    BY <1>1, <2>1 DEF NInv, PortsStay, TInv, LocalsOK
  <2>3. ScansFind'
    BY <1>1, <2>1 DEF NInv, ScansFind, TInv, LocalsOK, HistoryOK, Slots
  <2> QED BY <2>2, <2>3 DEF NInv
<1> QED BY <1>2, <1>3

LEMMA NSet ==
    ASSUME TInv, NInv, NEW c \in Children,
           SetIp(c) \/ SetPort(c) \/ SetConnections(c)
    PROVE  NInv'
<1>1. pc[c] # "loop"
  BY DEF SetIp, SetPort, SetConnections
<1>2. fd[peer[c]] \in Slots /\ peer[c] \in Peers /\ peer[c] # None
  BY <1>1, HandlersSlot, ConstantsAssumption
<1>3. CASE SetIp(c)
  BY <1>3 DEF SetIp, Goto, NInv, PortsStay, ScansFind, TInv, LocalsOK, links, locals
<1>4. CASE SetPort(c)
  <2>1. /\ port' = [port EXCEPT ![fd[peer[c]]] = peer[c]]
        /\ pc' = [pc EXCEPT ![c] = "connections"]
        /\ UNCHANGED <<connections, fd, peer, i, min, ret, steady>>
    BY <1>4 DEF SetPort, Goto, links, locals
  <2>2. /\ \A f \in Slots : port[f] # None => port'[f] # None
        /\ port'[fd[peer[c]]] # None
    BY <1>2, <2>1 DEF TInv, TableOK
  <2>3. \A d \in Children : pc[d] \in {"less", "min", "rip", "rport"} => i[d] \in Slots
    BY DEF TInv, HandlersOpen
  <2>4. \A d \in Children : pc[d] # "loop" => fd[peer[d]] \in Slots
    BY HandlersSlot
  <2>5. PortsStay'
    BY <2>1, <2>2, <2>3, <2>4 DEF NInv, PortsStay, TInv, LocalsOK
  <2>6. ScansFind'
    BY <2>1 DEF NInv, ScansFind, TInv, LocalsOK
  <2> QED BY <2>5, <2>6 DEF NInv
<1>5. CASE SetConnections(c)
  <2>1. /\ connections' = [connections EXCEPT ![fd[peer[c]]] = new[c]]
        /\ steady' = [d \in Children |-> IF new[c] = -1 THEN steady[d] \ {fd[peer[c]]}
                                                        ELSE steady[d]]
        /\ pc' = [pc EXCEPT ![c] = "loop"] /\ peer' = [peer EXCEPT ![c] = None]
        /\ pc[c] = "connections"
        /\ UNCHANGED <<port, fd, i, min, ret>>
    BY <1>5 DEF SetConnections, WriteConnections, Goto, links
  <2>2. PortsStay'
    BY <1>2, <2>1 DEF NInv, PortsStay, TInv, TableOK, LocalsOK
  <2>3. ScansFind'
    BY <1>2, <2>1 DEF NInv, ScansFind, TInv, TableOK, LocalsOK
  <2> QED BY <2>2, <2>3 DEF NInv
<1> QED BY <1>3, <1>4, <1>5

\* A scan moves on from a slot that was free when it looked, or that cannot
\* improve on what it holds.
LEMMA NNextSlot ==
    ASSUME TInv, NInv, NEW c \in Children, pc[c] \in {"test", "less", "rport"},
           NextSlot(c), UNCHANGED <<table, fd, peer, min, steady>>,
           ret' \in [Children -> Addresses],
           \A d \in Children \ {c} : ret'[d] = ret[d],
           min[c] # -1 \/ ret[c][2] # None => ret'[c][2] # None,
           i[c] \in steady[c] => ret'[c][2] # None
    PROVE  NInv'
<1>1. PortsStay'
  <2>1. \A d \in Children \ {c} : i'[d] = i[d] /\ pc'[d] = pc[d]
    BY NextSlotSteps
  <2>2. pc'[c] \in {"test", "answer"}
    BY NextSlotSteps
  <2> QED BY <2>1, <2>2 DEF NInv, PortsStay, table
<1>2. ScansFind'
  <2>1. /\ i'[c] = i[c] + 1 /\ pc'[c] \in {"test", "answer"}
        /\ \A d \in Children \ {c} : i'[d] = i[d] /\ pc'[d] = pc[d]
    BY NextSlotSteps
  <2>2. i[c] \in Int /\ steady[c] \subseteq Slots
    BY DEF TInv, LocalsOK, HistoryOK
  <2>3. \A f \in steady[c] : f < i'[c] => ret'[c][2] # None
    <3> SUFFICES ASSUME NEW f \in steady[c], f < i[c] + 1
                 PROVE  ret'[c][2] # None
      BY <2>1
    <3>1. f = i[c] \/ f < i[c]
      BY <2>2 DEF Slots
    <3> QED BY <3>1 DEF NInv, ScansFind
  <2> QED BY <2>1, <2>3 DEF NInv, ScansFind, table
<1> QED BY <1>1, <1>2 DEF NInv

LEMMA NScan ==
    ASSUME TInv, NInv, NEW c \in Children,
           Test(c) \/ Less(c) \/ ReadMin(c) \/ ReadIp(c) \/ ReadPort(c)
    PROVE  NInv'
<1>1. /\ UNCHANGED <<table, fd, peer, steady>>
      /\ i[c] \in Slots
      /\ port[i[c]] \in Peers \cup {None}
  BY DEF Test, Less, ReadMin, ReadIp, ReadPort, links, history, TInv, HandlersOpen,
         TableOK
<1>2. CASE Test(c)
  <2>1. pc[c] = "test" /\ UNCHANGED <<min, ret>>
    BY <1>2 DEF Test
  <2>2. CASE connections[i[c]] = -1
    <3>1. i[c] \notin steady[c]
      BY <2>2 DEF NInv, ScansFind
    <3>2. NextSlot(c)
      BY <1>2, <2>2 DEF Test
    <3> QED BY <1>1, <2>1, <3>1, <3>2, NNextSlot DEF TInv, LocalsOK, NInv, ScansFind
  <2>3. CASE connections[i[c]] # -1
    <3>1. /\ pc' = [pc EXCEPT ![c] = IF min[c] = -1 THEN "min" ELSE "less"]
          /\ UNCHANGED i
      BY <1>2, <2>3 DEF Test, Goto
    <3>2. port[i[c]] # None
      BY <1>1, <2>3 DEF NInv, PortsStay
    <3> QED
      BY <1>1, <2>1, <3>1, <3>2 DEF NInv, PortsStay, ScansFind, TInv, LocalsOK, table
  <2> QED BY <2>2, <2>3
<1>3. CASE Less(c)
  <2>1. pc[c] = "less" /\ UNCHANGED <<min, ret>> /\ min[c] # -1 /\ ret[c][2] # None
    BY <1>3 DEF Less, NInv, ScansFind
  <2>2. CASE NextSlot(c)
    BY <1>1, <2>1, <2>2, NNextSlot DEF TInv, LocalsOK
  <2>3. CASE Goto(c, "min") /\ UNCHANGED i
    BY <1>1, <2>1, <2>3 DEF Goto, NInv, PortsStay, ScansFind, TInv, LocalsOK, table
  <2> QED BY <1>3, <2>2, <2>3 DEF Less
<1>4. CASE ReadMin(c)
  <2>1. /\ pc[c] = "min" /\ pc' = [pc EXCEPT ![c] = "rip"]
        /\ min' = [min EXCEPT ![c] = connections[i[c]]]
        /\ UNCHANGED <<i, ret>>
    BY <1>4 DEF ReadMin, Goto
  <2> QED BY <1>1, <2>1 DEF NInv, PortsStay, ScansFind, TInv, LocalsOK, table
<1>5. CASE ReadIp(c)
  <2>1. /\ pc[c] = "rip" /\ pc' = [pc EXCEPT ![c] = "rport"]
        /\ ret' = [ret EXCEPT ![c] = [ret[c] EXCEPT ![1] = ip[i[c]]]]
        /\ UNCHANGED <<i, min>>
    BY <1>5 DEF ReadIp, Goto
  <2>2. ip[i[c]] \in Peers \cup {None} /\ ret[c] \in Addresses
    BY <1>1 DEF TInv, TableOK, LocalsOK
  <2>3. ret'[c][2] = ret[c][2] /\ \A d \in Children \ {c} : ret'[d] = ret[d]
    BY <2>1, <2>2, HalfRead DEF TInv, LocalsOK
  <2> QED BY <1>1, <2>1, <2>3 DEF NInv, PortsStay, ScansFind, TInv, LocalsOK, table
<1>6. CASE ReadPort(c)
  <2>1. /\ pc[c] = "rport" /\ NextSlot(c)
        /\ ret' = [ret EXCEPT ![c] = [ret[c] EXCEPT ![2] = port[i[c]]]]
        /\ UNCHANGED min
    BY <1>6 DEF ReadPort
  <2>2. ret[c] \in Addresses /\ port[i[c]] # None
    BY <2>1 DEF TInv, LocalsOK, NInv, PortsStay
  <2>3. /\ ret' \in [Children -> Addresses]
        /\ ret'[c][2] # None /\ \A d \in Children \ {c} : ret'[d] = ret[d]
    <3>1. ret \in [Children -> Addresses] /\ port[i[c]] \in Peers \cup {None}
      BY <1>1 DEF TInv, TableOK, LocalsOK
    <3>2. PICK r : r = [ret[c] EXCEPT ![2] = port[i[c]]]
      OBVIOUS
    <3>3. r \in Addresses /\ r[2] = port[i[c]]
      BY <2>2, <3>1, <3>2, HalfRead
    <3>4. ret' = [ret EXCEPT ![c] = r]
      BY <2>1, <3>2
    <3> QED BY <2>2, <3>1, <3>3, <3>4
  <2> QED BY <1>1, <2>1, <2>3, NNextSlot
<1> QED BY <1>2, <1>3, <1>4, <1>5, <1>6

LEMMA NHandlerEnds ==
    ASSUME TInv, NInv, NEW c \in Children, Answer(c) \/ ChildExits(c)
    PROVE  NInv'
<1>1. /\ pc' = [pc EXCEPT ![c] = "loop"] /\ steady' = [steady EXCEPT ![c] = {}]
      /\ UNCHANGED <<connections, ip, port>>
      /\ \A d \in Children \ {c} :
            /\ peer'[d] = peer[d] /\ i'[d] = i[d]
            /\ min'[d] = min[d] /\ ret'[d] = ret[d]
  BY DEF Answer, ChildExits, HandlerEnds, Goto, table, TInv, LocalsOK
<1>2. \A d \in Children \ {c} : pc[d] # "loop" => fd'[peer[d]] = fd[peer[d]]
  <2>1. CASE Answer(c)
    BY <2>1 DEF Answer, links
  <2>2. CASE ChildExits(c)
    BY <2>2, HandlersSlot DEF ChildExits
  <2> QED BY <2>1, <2>2
<1>3. PortsStay'
  BY <1>1, <1>2 DEF NInv, PortsStay, TInv, LocalsOK
<1>4. ScansFind'
  BY <1>1 DEF NInv, ScansFind, TInv, LocalsOK, HistoryOK
<1> QED BY <1>3, <1>4 DEF NInv

LEMMA NStep ==
    ASSUME TInv, NInv, [Next]_vars
    PROVE  NInv'
<1>1. CASE UNCHANGED vars
  BY <1>1, NLinks DEF vars, links
<1> QED
  BY <1>1, NSendLeaveAccept, NHangup, NReceive, NSet, NScan, NHandlerEnds
     DEF Next, Step

\* Whatever the other children write during a scan, the answer is "no work
\* server" only if no slot was occupied all the time.
THEOREM NobodyIsOverlooked == Spec => []NoneOnlyIfNone
<1>1. TInv /\ NInv => NoneOnlyIfNone
  <2> SUFFICES ASSUME TInv, NInv, NEW c \in Children, pc[c] = "answer",
                      ret[c][2] = None, NEW f \in steady[c]
               PROVE  FALSE
    BY DEF NoneOnlyIfNone
  <2>1. i[c] = MAX_WORK_SERVER /\ f \in Slots
    BY DEF TInv, HandlersOpen, HistoryOK
  <2>2. f < i[c]
    BY <2>1, ConstantsAssumption DEF Slots
  <2> QED BY <2>2 DEF NInv, ScansFind
<1>2. Spec => [](TInv /\ NInv)
  BY TInit, NInit, TStep, NStep, PTL DEF Spec
<1> QED BY <1>1, <1>2, PTL

-----------------------------------------------------------------------------
(* What an undisturbed scan computes                                        *)

\* The occupied slots a scan at slot n has passed, and the first least loaded.
Before(n) == {f \in Occupied : f < n}
IsLeast(m, S) ==
    /\ m \in S
    /\ \A g \in S : \/ connections[m] < connections[g]
                    \/ connections[m] = connections[g] /\ m <= g

\* The scan of child c holds the best of the slots it has passed.
HoldsBest(c) ==
    \/ Before(i[c]) = {} /\ min[c] = -1 /\ ret[c] = <<None, None>>
    \/ \E m \in Slots : /\ IsLeast(m, Before(i[c]))
                        /\ min[c] = connections[m]
                        /\ ret[c] = <<ip[m], port[m]>>

ScanIsRight(c) ==
    /\ pc[c] \in {"test", "less", "answer"} => HoldsBest(c)
    /\ pc[c] \in {"less", "min", "rip", "rport"} => connections[i[c]] # -1
    /\ pc[c] \in {"min", "rip", "rport"} =>
          \A g \in Before(i[c]) : connections[i[c]] < connections[g]
    /\ pc[c] \in {"rip", "rport"} => min[c] = connections[i[c]]
    /\ pc[c] = "rport" => ret[c][1] = ip[i[c]]

LInv == \A c \in undisturbed : ScanIsRight(c)

LEMMA LInit == Init => LInv
BY DEF Init, LInv

\* A step that writes no slot leaves the scan of another child right.
LEMMA LFrame ==
    ASSUME NEW d, ScanIsRight(d), UNCHANGED table,
           pc'[d] = pc[d], i'[d] = i[d], min'[d] = min[d], ret'[d] = ret[d]
    PROVE  ScanIsRight(d)'
<1>1. \A n : Before(n)' = Before(n)
  BY DEF Before, Occupied, table
<1>2. HoldsBest(d) => HoldsBest(d)'
  BY <1>1 DEF HoldsBest, IsLeast, table
<1> QED BY <1>1, <1>2 DEF ScanIsRight, table

LEMMA LOthers ==
    ASSUME LInv, UNCHANGED table, NEW c,
           undisturbed' \subseteq undisturbed \cup {c},
           \A d \in undisturbed \ {c} :
               pc'[d] = pc[d] /\ i'[d] = i[d] /\ min'[d] = min[d] /\ ret'[d] = ret[d],
           c \in undisturbed' => ScanIsRight(c)'
    PROVE  LInv'
<1> SUFFICES ASSUME NEW d \in undisturbed', d # c
             PROVE  ScanIsRight(d)'
  BY DEF LInv
<1>1. ScanIsRight(d) /\ pc'[d] = pc[d] /\ i'[d] = i[d] /\ min'[d] = min[d]
      /\ ret'[d] = ret[d]
  BY DEF LInv
<1> QED BY <1>1, LFrame

\* The next slot adds itself to those the scan has passed, if it is occupied.
LEMMA BeforeNext ==
    ASSUME TInv, NEW n \in Slots
    PROVE  Before(n + 1) = Before(n) \cup (IF connections[n] = -1 THEN {} ELSE {n})
BY DEF Before, Occupied, Slots

\* A scan that moves on holds the best of one slot more.
LEMMA LNextSlot ==
    ASSUME TInv, NEW c \in Children, pc[c] \in {"test", "less", "rport"},
           NextSlot(c), UNCHANGED table, HoldsBest(c)'
    PROVE  ScanIsRight(c)'
BY NextSlotSteps DEF ScanIsRight

LEMMA LTest ==
    ASSUME TInv, LInv, NEW c \in Children, Test(c), c \in undisturbed
    PROVE  ScanIsRight(c)'
<1>1. /\ pc[c] = "test" /\ HoldsBest(c) /\ i[c] \in Slots
      /\ UNCHANGED <<connections, ip, port, min, ret>>
  BY DEF Test, LInv, ScanIsRight, TInv, HandlersOpen, table
<1>2. CASE connections[i[c]] = -1
  <2>1. NextSlot(c) /\ i'[c] = i[c] + 1
    BY <1>1, <1>2, NextSlotSteps DEF Test
  <2>2. Before(i[c] + 1) = Before(i[c])
    BY <1>1, <1>2, BeforeNext
  <2>3. \A n : Before(n)' = Before(n)
    BY <1>1 DEF Before, Occupied
  <2>4. HoldsBest(c)'
    BY <1>1, <2>1, <2>2, <2>3 DEF HoldsBest, IsLeast
  <2> QED BY <1>1, <2>1, <2>4, LNextSlot DEF table
<1>3. CASE connections[i[c]] # -1
  <2>1. pc'[c] = (IF min[c] = -1 THEN "min" ELSE "less") /\ i' = i
    BY <1>3 DEF Test, Goto, TInv, LocalsOK
  <2>2. \A n : Before(n)' = Before(n)
    BY <1>1 DEF Before, Occupied
  <2>3. min[c] = -1 => Before(i[c]) = {}
    BY <1>1 DEF HoldsBest, IsLeast, Before, Occupied
  <2>4. HoldsBest(c)'
    BY <1>1, <2>1, <2>2 DEF HoldsBest, IsLeast
  <2> QED BY <1>1, <1>3, <2>1, <2>2, <2>3, <2>4 DEF ScanIsRight
<1> QED BY <1>2, <1>3

LEMMA LLess ==
    ASSUME TInv, NInv, LInv, NEW c \in Children, Less(c), c \in undisturbed
    PROVE  ScanIsRight(c)'
<1>1. /\ pc[c] = "less" /\ HoldsBest(c) /\ i[c] \in Slots
      /\ connections[i[c]] # -1 /\ min[c] # -1
      /\ UNCHANGED <<connections, ip, port, min, ret>>
  BY DEF Less, LInv, ScanIsRight, TInv, HandlersOpen, table, NInv, ScansFind
<1>2. PICK m \in Slots : /\ IsLeast(m, Before(i[c]))
                         /\ min[c] = connections[m]
                         /\ ret[c] = <<ip[m], port[m]>>
  BY <1>1 DEF HoldsBest
<1>3. \A n : Before(n)' = Before(n)
  BY <1>1 DEF Before, Occupied
<1>4. \A g \in Slots : connections[g] \in Int
  BY DEF TInv, TableOK
<1>5. m < i[c] /\ m \in Int /\ i[c] \in Int
  BY <1>1, <1>2 DEF IsLeast, Before, Slots
<1>6. \A g \in Before(i[c]) : g \in Slots /\ g \in Int
  BY DEF Before, Occupied, Slots
<1>7. CASE Better(connections[i[c]], min[c])
  <2>1. pc'[c] = "min" /\ i' = i
    BY <1>7 DEF Less, Goto, TInv, LocalsOK
  <2>2. \A g \in Before(i[c]) : connections[i[c]] < connections[g]
    BY <1>1, <1>2, <1>4, <1>6, <1>7 DEF Better, IsLeast
  <2> QED BY <1>1, <1>3, <2>1, <2>2 DEF ScanIsRight
<1>8. CASE ~Better(connections[i[c]], min[c])
  <2>1. NextSlot(c) /\ i'[c] = i[c] + 1
    BY <1>1, <1>8, NextSlotSteps DEF Less
  <2>2. Before(i[c] + 1) = Before(i[c]) \cup {i[c]}
    BY <1>1, BeforeNext
  <2>3. connections[m] <= connections[i[c]]
    BY <1>1, <1>2, <1>4, <1>8 DEF Better
  <2>4. IsLeast(m, Before(i[c] + 1))
    BY <1>1, <1>2, <1>4, <1>5, <2>2, <2>3 DEF IsLeast
  <2>5. HoldsBest(c)'
    BY <1>1, <1>2, <1>3, <2>1, <2>4 DEF HoldsBest, IsLeast
  <2> QED BY <1>1, <2>1, <2>5, LNextSlot DEF table
<1> QED BY <1>7, <1>8

LEMMA LReads ==
    ASSUME TInv, LInv, NEW c \in Children, c \in undisturbed,
           ReadMin(c) \/ ReadIp(c) \/ ReadPort(c)
    PROVE  ScanIsRight(c)'
<1>1. UNCHANGED <<connections, ip, port>> /\ ScanIsRight(c)
  BY DEF ReadMin, ReadIp, ReadPort, LInv, table
<1>2. \A n : Before(n)' = Before(n)
  BY <1>1 DEF Before, Occupied
<1>3. CASE ReadMin(c)
  <2>1. pc[c] = "min" /\ pc'[c] = "rip" /\ i' = i /\ min'[c] = connections[i[c]]
    BY <1>3 DEF ReadMin, Goto, TInv, LocalsOK
  <2> QED BY <1>1, <1>2, <2>1 DEF ScanIsRight
<1>4. CASE ReadIp(c)
  <2>1. /\ pc[c] = "rip" /\ pc'[c] = "rport" /\ i' = i /\ min' = min
        /\ ret'[c] = [ret[c] EXCEPT ![1] = ip[i[c]]]
    BY <1>4 DEF ReadIp, Goto, TInv, LocalsOK
  <2>2. ip[i[c]] \in Peers \cup {None} /\ ret[c] \in Addresses
    BY <2>1 DEF TInv, TableOK, LocalsOK, HandlersOpen
  <2>3. ret'[c][1] = ip[i[c]]
    BY <2>1, <2>2 DEF Addresses
  <2> QED BY <1>1, <1>2, <2>1, <2>3 DEF ScanIsRight
<1>5. CASE ReadPort(c)
  <2>1. /\ pc[c] = "rport" /\ NextSlot(c) /\ min' = min
        /\ ret'[c] = [ret[c] EXCEPT ![2] = port[i[c]]]
    BY <1>5 DEF ReadPort, TInv, LocalsOK
  <2>2. /\ i[c] \in Slots
        /\ port[i[c]] \in Peers \cup {None} /\ ret[c] \in Addresses
    BY <2>1 DEF TInv, TableOK, LocalsOK, HandlersOpen
  <2>3. /\ connections[i[c]] # -1 /\ min[c] = connections[i[c]]
        /\ ret[c][1] = ip[i[c]]
        /\ \A g \in Before(i[c]) : connections[i[c]] < connections[g]
    BY <1>1, <2>1 DEF ScanIsRight
  <2>4. ret'[c] = <<ip[i[c]], port[i[c]]>>
    BY <2>1, <2>2, <2>3 DEF Addresses
  <2>5. i'[c] = i[c] + 1
    BY <2>1, NextSlotSteps
  <2>6. Before(i[c] + 1) = Before(i[c]) \cup {i[c]}
    BY <2>2, <2>3, BeforeNext
  <2>7. IsLeast(i[c], Before(i[c] + 1))
    BY <2>2, <2>3, <2>6 DEF IsLeast, Slots
  <2>8. HoldsBest(c)'
    BY <1>1, <1>2, <2>1, <2>2, <2>3, <2>4, <2>5, <2>7 DEF HoldsBest, IsLeast
  <2> QED BY <1>1, <2>1, <2>8, LNextSlot DEF table
<1> QED BY <1>3, <1>4, <1>5

\* A scan begins with nothing behind it.
LEMMA LObtain ==
    ASSUME TInv, LInv, NEW c \in Children, NEW p \in Peers, ReceiveObtain(c, p)
    PROVE  ScanIsRight(c)'
<1>1. /\ pc'[c] = "test" /\ i'[c] = 0 /\ min'[c] = -1
      /\ ret'[c] = <<None, None>>
      /\ UNCHANGED connections
  BY DEF ReceiveObtain, Goto, InitialMin, table, TInv, LocalsOK
<1>2. Before(i[c])' = {}
  BY <1>1 DEF Before, Occupied, Slots
<1>3. HoldsBest(c)'
  BY <1>1, <1>2 DEF HoldsBest
<1> QED BY <1>1, <1>3 DEF ScanIsRight

LEMMA LStep ==
    ASSUME TInv, NInv, LInv, [Next]_vars
    PROVE  LInv'
<1>1. CASE undisturbed' = {}
  BY <1>1 DEF LInv
<1>2. ASSUME UNCHANGED <<table, pc, i, min, ret, undisturbed>>
      PROVE  LInv'
  <2> SUFFICES ASSUME NEW d \in undisturbed
               PROVE  ScanIsRight(d)'
    BY <1>2 DEF LInv
  <2> QED BY <1>2, LFrame DEF LInv
<1>3. ASSUME NEW p \in Peers,
             \/ Send(p) \/ Leave(p)
             \/ \E c \in Children :
                    Accept(c, p) \/ Hangup(c, p) \/ ReceiveReport(c, p)
      PROVE  LInv'
  <2>1. CASE Send(p) \/ Leave(p) \/ \E c \in Children : Accept(c, p)
    BY <1>2, <2>1 DEF Send, Leave, Accept, locals, history
  <2>2. ASSUME NEW c \in Children, Hangup(c, p)
        PROVE  LInv'
    BY <1>1, <1>2, <2>2
       DEF Hangup, rmove_server_addr, WriteConnections, locals, history, table
  <2>3. ASSUME NEW c \in Children, ReceiveReport(c, p)
        PROVE  LInv'
    <3>1. /\ UNCHANGED <<table, i, min, ret, undisturbed>>
          /\ pc'[c] \in {"ip", "connections"}
          /\ \A d \in Children \ {c} : pc'[d] = pc[d]
      BY <2>3 DEF ReceiveReport, FirstField, Goto, history, TInv, LocalsOK
    <3>2. ScanIsRight(c)'
      BY <3>1 DEF ScanIsRight
    <3> QED BY <3>1, <3>2, LOthers DEF TInv, HistoryOK
  <2> QED BY <1>3, <2>1, <2>2, <2>3
<1>4. ASSUME NEW p \in Peers, NEW c \in Children, ReceiveObtain(c, p)
      PROVE  LInv'
  <2>1. /\ UNCHANGED table /\ undisturbed' = undisturbed \cup {c}
        /\ \A d \in Children \ {c} : /\ pc'[d] = pc[d] /\ i'[d] = i[d]
                                     /\ min'[d] = min[d] /\ ret'[d] = ret[d]
    BY <1>4 DEF ReceiveObtain, Goto, TInv, LocalsOK
  <2> QED BY <1>4, <2>1, LObtain, LOthers DEF TInv, HistoryOK
<1>5. ASSUME NEW c \in Children,
             SetIp(c) \/ SetPort(c) \/ SetConnections(c)
      PROVE  LInv'
  BY <1>1, <1>5 DEF SetIp, SetPort, SetConnections, WriteConnections
<1>6. ASSUME NEW c \in Children,
             Test(c) \/ Less(c) \/ ReadMin(c) \/ ReadIp(c) \/ ReadPort(c)
      PROVE  LInv'
  <2>1. UNCHANGED <<table, undisturbed>>
    BY <1>6 DEF Test, Less, ReadMin, ReadIp, ReadPort, history
  <2>2. \A d \in Children \ {c} : /\ pc'[d] = pc[d] /\ i'[d] = i[d]
                                 /\ min'[d] = min[d] /\ ret'[d] = ret[d]
    BY <1>6 DEF Test, Less, ReadMin, ReadIp, ReadPort, NextSlot, Goto, TInv, LocalsOK
  <2>3. c \in undisturbed => ScanIsRight(c)'
    BY <1>6, LTest, LLess, LReads
  <2> QED BY <2>1, <2>2, <2>3, LOthers DEF TInv, HistoryOK
<1>7. ASSUME NEW c \in Children, Answer(c) \/ ChildExits(c)
      PROVE  LInv'
  <2>1. /\ UNCHANGED table /\ undisturbed' = undisturbed \ {c}
        /\ \A d \in Children \ {c} : /\ pc'[d] = pc[d] /\ i'[d] = i[d]
                                     /\ min'[d] = min[d] /\ ret'[d] = ret[d]
    BY <1>7 DEF Answer, ChildExits, HandlerEnds, Goto, TInv, LocalsOK
  <2> QED BY <2>1, LOthers DEF TInv, HistoryOK
<1>8. CASE UNCHANGED vars
  BY <1>2, <1>8 DEF vars, locals, history
<1> QED BY <1>3, <1>4, <1>5, <1>6, <1>7, <1>8 DEF Next, Step

\* A scan in which nobody wrote finds the first least loaded work server.
THEOREM LeastLoadedIsFound == Spec => []AnswerIsLeastLoaded
<1>1. TInv /\ LInv => AnswerIsLeastLoaded
  <2> SUFFICES ASSUME TInv, LInv, NEW c \in Children, pc[c] = "answer",
                      c \in undisturbed
               PROVE  ret[c] = IF Occupied = {} THEN <<None, None>>
                               ELSE <<ip[FirstSmallest], port[FirstSmallest]>>
    BY DEF AnswerIsLeastLoaded
  <2>1. Before(i[c]) = Occupied
    BY ConstantsAssumption DEF TInv, HandlersOpen, Before, Occupied, Slots
  <2>2. HoldsBest(c)
    BY DEF LInv, ScanIsRight
  <2>3. CASE Occupied = {}
    BY <2>1, <2>2, <2>3 DEF HoldsBest, IsLeast
  <2>4. CASE Occupied # {}
    <3>1. PICK m \in Slots : IsLeast(m, Occupied) /\ ret[c] = <<ip[m], port[m]>>
      BY <2>1, <2>2, <2>4 DEF HoldsBest
    <3>2. \E f \in Occupied : \A g \in Occupied :
              \/ connections[f] < connections[g]
              \/ connections[f] = connections[g] /\ f <= g
      BY <3>1 DEF IsLeast
    <3>3. IsLeast(FirstSmallest, Occupied)
      BY <3>2 DEF FirstSmallest, IsLeast
    <3>4. \A g \in Occupied : g \in Int /\ connections[g] \in Int
      BY DEF Occupied, Slots, TInv, TableOK
    <3>5. FirstSmallest = m
      BY <3>1, <3>3, <3>4 DEF IsLeast
    <3> QED BY <2>4, <3>1, <3>5
  <2> QED BY <2>3, <2>4
<1>2. Spec => [](TInv /\ NInv /\ LInv)
  BY TInit, NInit, LInit, TStep, NStep, LStep, PTL DEF Spec
<1> QED BY <1>1, <1>2, PTL

-----------------------------------------------------------------------------
(* Whose a slot is                                                          *)

\* Open connections of one child have different descriptors.
FdsDiffer ==
    \A p, q \in Peers :
        Open(p) /\ Open(q) /\ at[p] = at[q] /\ fd[p] = fd[q] => p = q

\* Only work servers report, and they do nothing else.
Messages ==
    /\ \A p \in Servers : inbox[p] \in Seq(Loads)
    /\ \A p \in Clients : inbox[p] \in Seq({Obtain})
    /\ \A c \in Children : pc[c] \in {"ip", "port", "connections"} =>
          peer[c] \in Servers /\ new[c] \in Loads

\* The slot of a registration is free until its address is complete, and the
\* address is that of the peer.
Registrations ==
    \A c \in Children :
        /\ pc[c] \in {"ip", "port"} => connections[fd[peer[c]]] = -1
        /\ pc[c] \in {"port", "connections"} => ip[fd[peer[c]]] = peer[c]
        /\ pc[c] = "connections" => port[fd[peer[c]]] = peer[c]

OInv ==
    /\ FdsDiffer /\ Messages
    /\ FdsApart => Registrations
    /\ OccupiedSlotHasOwner

\* The work server child c knows at slot f.
HasOwner(c, f) ==
    \E s \in Servers : /\ Open(s) /\ at[s] = c /\ fd[s] = f
                       /\ ip[f] = s /\ port[f] = s

LEMMA OInit == Init => OInv
<1> SUFFICES ASSUME Init
             PROVE  OInv
  OBVIOUS
<1>1. FdsDiffer
  BY DEF Init, FdsDiffer, Open
<1>2. Messages
  <2>1. <<>> \in Seq(Loads) /\ <<>> \in Seq({Obtain})
    OBVIOUS
  <2> QED BY <2>1 DEF Init, Messages, Peers
<1>3. Registrations /\ OccupiedSlotHasOwner
  BY DEF Init, Registrations, OccupiedSlotHasOwner
<1> QED BY <1>1, <1>2, <1>3 DEF OInv

\* Steps that open or close nothing that a handler or a slot depends on.
LEMMA OLinks ==
    ASSUME TInv, OInv, UNCHANGED <<connections, ip, port, alive, pc, peer, new>>,
           \A q \in Peers : Open(q) => Open(q)' /\ at'[q] = at[q] /\ fd'[q] = fd[q],
           FdsDiffer',
           \A q \in Servers : inbox'[q] \in Seq(Loads),
           \A q \in Clients : inbox'[q] \in Seq({Obtain})
    PROVE  OInv'
<1>1. Messages'
  BY DEF OInv, Messages
<1>2. FdsApart => Registrations'
  <2>1. \A c \in Children : pc[c] # "loop" => fd'[peer[c]] = fd[peer[c]]
    BY HandlersSlot
  <2> QED BY <2>1 DEF OInv, Registrations
<1>3. OccupiedSlotHasOwner'
  BY DEF OInv, OccupiedSlotHasOwner, Peers
<1> QED BY <1>1, <1>2, <1>3 DEF OInv

LEMMA OSend ==
    ASSUME TInv, OInv, NEW p \in Peers, Send(p)
    PROVE  OInv'
<1>1. UNCHANGED <<connections, ip, port, alive, pc, peer, new, state, at, fd>>
  BY DEF Send, table, locals
<1>2. FdsDiffer'
  BY <1>1 DEF OInv, FdsDiffer, Open
<1>3. PICK m \in IF p \in Servers THEN Loads ELSE {Obtain} :
          inbox' = [inbox EXCEPT ![p] = Append(inbox[p], m)]
  BY DEF Send
<1>4. \A q \in Peers : inbox'[q] = IF q = p THEN Append(inbox[p], m) ELSE inbox[q]
  BY <1>3 DEF TInv, LinksOK
<1>5. \A q \in Servers : inbox'[q] \in Seq(Loads)
  <2>1. p \in Servers => Append(inbox[p], m) \in Seq(Loads)
    BY DEF OInv, Messages
  <2> QED BY <1>4, <2>1 DEF OInv, Messages, Peers
<1>6. \A q \in Clients : inbox'[q] \in Seq({Obtain})
  <2>1. p \in Clients => p \notin Servers
    BY ConstantsAssumption
  <2>2. p \in Clients => Append(inbox[p], m) \in Seq({Obtain})
    BY <2>1 DEF OInv, Messages
  <2> QED BY <1>4, <2>2 DEF OInv, Messages, Peers
<1>7. \A q \in Peers : Open(q) => Open(q)' /\ at'[q] = at[q] /\ fd'[q] = fd[q]
  BY <1>1 DEF Open
<1> QED BY <1>1, <1>2, <1>5, <1>6, <1>7, OLinks

LEMMA OLeaveAccept ==
    ASSUME TInv, OInv, NEW p \in Peers,
           Leave(p) \/ \E c \in Children : Accept(c, p)
    PROVE  OInv'
<1>1. UNCHANGED <<connections, ip, port, alive, pc, peer, new, inbox>>
  BY DEF Leave, Accept, table, locals
<1>2. CASE Leave(p)
  <2>1. UNCHANGED <<at, fd>> /\ \A q \in Peers : Open(q)' <=> Open(q)
    BY <1>2 DEF Leave, TInv, LinksOK, Open
  <2>2. FdsDiffer'
    BY <2>1 DEF OInv, FdsDiffer
  <2> QED BY <1>1, <2>1, <2>2, OLinks DEF OInv, Messages
<1>3. ASSUME NEW c \in Children, Accept(c, p)
      PROVE  OInv'
  <2>1. PICK f \in FreeFds(c) : fd' = [fd EXCEPT ![p] = f]
    BY <1>3 DEF Accept
  <2>2. /\ ~Open(p) /\ at'[p] = c /\ fd'[p] = f
        /\ \A q \in Peers \ {p} :
              (Open(q)' <=> Open(q)) /\ at'[q] = at[q] /\ fd'[q] = fd[q]
    BY <1>3, <2>1 DEF Accept, TInv, LinksOK, Open
  <2>3. \A q \in Peers : Open(q) /\ at[q] = c => fd[q] # f
    BY <2>1 DEF FreeFds
  <2>4. FdsDiffer'
    BY <2>2, <2>3 DEF OInv, FdsDiffer
  <2> QED BY <1>1, <2>2, <2>4, OLinks DEF OInv, Messages
<1> QED BY <1>2, <1>3

LEMMA OHangup ==
    ASSUME TInv, OInv, NEW c \in Children, NEW p \in Peers, Hangup(c, p)
    PROVE  OInv'
<1>1. /\ pc[c] = "loop" /\ Open(p) /\ at[p] = c
      /\ UNCHANGED <<ip, port, alive, inbox, pc, peer, new>>
      /\ ~Open(p)'
      /\ \A q \in Peers \ {p} :
            (Open(q)' <=> Open(q)) /\ at'[q] = at[q] /\ fd'[q] = fd[q]
  BY DEF Hangup, TInv, LinksOK, Open, locals
<1>2. fd[p] \in Slots /\ fd[p] \in Fds(c)
  BY <1>1, FdsAreSlots DEF TInv, LinksOK
<1>3. \A f \in Slots : connections'[f] = IF f = fd[p] THEN -1 ELSE connections[f]
  BY <1>2 DEF Hangup, rmove_server_addr, WriteConnections, TInv, TableOK
<1>4. FdsDiffer'
  BY <1>1 DEF OInv, FdsDiffer
<1>5. Messages'
  BY <1>1 DEF OInv, Messages
<1>6. FdsApart => Registrations'
  <2> SUFFICES ASSUME FdsApart, NEW d \in Children, pc[d] # "loop"
               PROVE  fd'[peer[d]] = fd[peer[d]]
                      /\ connections'[fd[peer[d]]] = connections[fd[peer[d]]]
    BY <1>1 DEF OInv, Registrations
  <2>1. d # c /\ peer[d] \in Peers /\ at[peer[d]] = d
        /\ fd[peer[d]] \in Fds(d) /\ fd[peer[d]] \in Slots
    BY <1>1, HandlersSlot
  <2>2. fd[peer[d]] # fd[p]
    BY <1>2, <2>1 DEF FdsApart
  <2> QED BY <1>1, <1>3, <2>1, <2>2
<1>7. OccupiedSlotHasOwner'
  <2> SUFFICES ASSUME FdsApart, NEW d \in Children, NEW f \in Slots,
                      alive[d], f \in Fds(d), connections'[f] # -1
               PROVE  HasOwner(d, f)'
    BY <1>1 DEF OccupiedSlotHasOwner, HasOwner
  <2>1. f # fd[p] /\ connections[f] # -1
    BY <1>3
  <2>2. PICK s \in Servers : /\ Open(s) /\ at[s] = d /\ fd[s] = f
                             /\ ip[f] = s /\ port[f] = s
    BY <2>1 DEF OInv, OccupiedSlotHasOwner
  <2> QED BY <1>1, <2>1, <2>2 DEF HasOwner, Peers
<1> QED BY <1>4, <1>5, <1>6, <1>7 DEF OInv

LEMMA OReceive ==
    ASSUME TInv, OInv, NEW c \in Children, NEW p \in Peers,
           ReceiveReport(c, p) \/ ReceiveObtain(c, p)
    PROVE  OInv'
<1>1. /\ pc[c] = "loop" /\ alive[c]
      /\ Open(p) /\ at[p] = c /\ inbox[p] # <<>>
      /\ inbox' = [inbox EXCEPT ![p] = <<>>]
      /\ peer' = [peer EXCEPT ![c] = p]
      /\ UNCHANGED <<connections, ip, port, alive, state, at, fd>>
  BY DEF ReceiveReport, ReceiveObtain, Receive, table
<1>2. FdsDiffer' /\ OccupiedSlotHasOwner'
  BY <1>1 DEF OInv, FdsDiffer, OccupiedSlotHasOwner, Open
<1>3. /\ \A q \in Servers : inbox'[q] \in Seq(Loads)
      /\ \A q \in Clients : inbox'[q] \in Seq({Obtain})
  <2>1. <<>> \in Seq(Loads) /\ <<>> \in Seq({Obtain})
    OBVIOUS
  <2> QED BY <1>1, <2>1 DEF OInv, Messages, TInv, LinksOK, Peers
<1>4. CASE ReceiveReport(c, p)
  <2>1. /\ pc' = [pc EXCEPT ![c] = FirstField(fd[p])]
        /\ new' = [new EXCEPT ![c] = Head(inbox[p])]
        /\ Head(inbox[p]) # Obtain
    BY <1>4 DEF ReceiveReport, Goto
  <2>2. p \in Servers
    <3>1. p \in Clients => Head(inbox[p]) \in {Obtain}
      BY <1>1 DEF OInv, Messages
    <3> QED BY <2>1, <3>1 DEF Peers
  <2>3. Head(inbox[p]) \in Loads
    BY <1>1, <2>2 DEF OInv, Messages
  <2>4. Messages'
    BY <1>1, <1>3, <2>1, <2>2, <2>3 DEF OInv, Messages, TInv, LocalsOK
  <2>5. FdsApart => Registrations'
    <3> SUFFICES ASSUME FdsApart
                 PROVE  Registrations'
      OBVIOUS
    <3>1. fd[p] \in Fds(c) /\ fd[p] \in Slots
      BY <1>1, FdsAreSlots DEF TInv, LinksOK
    <3>2. connections[fd[p]] # -1 => ip[fd[p]] = p /\ port[fd[p]] = p
      BY <1>1, <3>1 DEF OInv, OccupiedSlotHasOwner, FdsDiffer, Peers
    <3>3. /\ FirstField(fd[p]) \in {"ip", "connections"}
          /\ FirstField(fd[p]) = "ip" => connections[fd[p]] = -1
          /\ FirstField(fd[p]) = "connections" => connections[fd[p]] # -1
      BY DEF FirstField
    <3>4. /\ pc'[c] = FirstField(fd[p]) /\ peer'[c] = p
          /\ \A d \in Children \ {c} : pc'[d] = pc[d] /\ peer'[d] = peer[d]
      BY <1>1, <2>1 DEF TInv, LocalsOK
    <3> QED BY <1>1, <3>2, <3>3, <3>4 DEF OInv, Registrations
  <2> QED BY <1>2, <2>4, <2>5 DEF OInv
<1>5. CASE ReceiveObtain(c, p)
  <2>1. /\ pc' = [pc EXCEPT ![c] = "test"] /\ UNCHANGED new
    BY <1>5 DEF ReceiveObtain, Goto
  <2>2. Messages'
    BY <1>1, <1>3, <2>1 DEF OInv, Messages, TInv, LocalsOK
  <2>3. FdsApart => Registrations'
    BY <1>1, <2>1 DEF OInv, Registrations, TInv, LocalsOK
  <2> QED BY <1>2, <2>2, <2>3 DEF OInv
<1> QED BY <1>4, <1>5

LEMMA OSetIpPort ==
    ASSUME TInv, OInv, NEW c \in Children, SetIp(c) \/ SetPort(c)
    PROVE  OInv'
<1>1. PICK f : f = fd[peer[c]]
  OBVIOUS
<1>2. /\ pc[c] \in {"ip", "port"}
      /\ UNCHANGED <<connections, alive, state, at, fd, inbox, peer, new>>
  BY DEF SetIp, SetPort, links, locals
<1>3. f \in Slots /\ f \in Fds(c)
  BY <1>1, <1>2, HandlersSlot
<1>4. \A g \in Slots : g # f => ip'[g] = ip[g] /\ port'[g] = port[g]
  BY <1>1, <1>3 DEF SetIp, SetPort, TInv, TableOK
<1>5. /\ pc'[c] \in {"port", "connections"}
      /\ \A d \in Children \ {c} : pc'[d] = pc[d]
  BY DEF SetIp, SetPort, Goto, TInv, LocalsOK
<1>6. FdsDiffer'
  BY <1>2 DEF OInv, FdsDiffer, Open
<1>7. Messages'
  BY <1>2, <1>5 DEF OInv, Messages, TInv, LocalsOK
<1>8. FdsApart => Registrations'
  <2> SUFFICES ASSUME FdsApart
               PROVE  Registrations'
    OBVIOUS
  <2>1. \A d \in Children \ {c} : pc[d] # "loop" =>
            fd[peer[d]] # f /\ fd[peer[d]] \in Slots
    BY <1>3, HandlersSlot DEF FdsApart
  <2>2. CASE SetIp(c)
    <3>1. ip'[f] = peer[c] /\ pc'[c] = "port" /\ connections[f] = -1
      BY <1>1, <1>3, <2>2
         DEF SetIp, Goto, TInv, TableOK, LocalsOK, OInv, Registrations
    <3> QED BY <1>1, <1>2, <1>4, <1>5, <2>1, <3>1 DEF OInv, Registrations
  <2>3. CASE SetPort(c)
    <3>1. /\ port'[f] = peer[c] /\ pc'[c] = "connections"
          /\ ip' = ip /\ ip[f] = peer[c]
      BY <1>1, <1>3, <2>3
         DEF SetPort, Goto, TInv, TableOK, LocalsOK, OInv, Registrations
    <3> QED BY <1>1, <1>2, <1>4, <1>5, <2>1, <3>1 DEF OInv, Registrations
  <2> QED BY <2>2, <2>3
<1>9. OccupiedSlotHasOwner'
  <2>1. FdsApart => connections[f] = -1
    BY <1>1, <1>2 DEF OInv, Registrations
  <2> QED BY <1>2, <1>4, <2>1 DEF OInv, OccupiedSlotHasOwner, Open
<1> QED BY <1>6, <1>7, <1>8, <1>9 DEF OInv

LEMMA OSetConnections ==
    ASSUME TInv, OInv, NEW c \in Children, SetConnections(c)
    PROVE  OInv'
<1>1. PICK f : f = fd[peer[c]]
  OBVIOUS
<1>2. /\ pc[c] = "connections"
      /\ pc' = [pc EXCEPT ![c] = "loop"]
      /\ peer' = [peer EXCEPT ![c] = None] /\ new' = [new EXCEPT ![c] = 0]
      /\ UNCHANGED <<ip, port, alive, state, at, fd, inbox>>
  BY DEF SetConnections, Goto, links
<1>3. f \in Slots /\ f \in Fds(c)
  BY <1>1, <1>2, HandlersSlot
<1>4. \A g \in Slots : g # f => connections'[g] = connections[g]
  BY <1>1, <1>3 DEF SetConnections, WriteConnections, TInv, TableOK
<1>5. FdsDiffer'
  BY <1>2 DEF OInv, FdsDiffer, Open
<1>6. Messages'
  BY <1>2 DEF OInv, Messages, TInv, LocalsOK
<1>7. FdsApart => Registrations'
  <2> SUFFICES ASSUME FdsApart
               PROVE  Registrations'
    OBVIOUS
  <2>1. \A d \in Children \ {c} : pc[d] # "loop" =>
            fd[peer[d]] # f /\ fd[peer[d]] \in Slots
    BY <1>3, HandlersSlot DEF FdsApart
  <2>2. /\ pc'[c] = "loop"
        /\ \A d \in Children \ {c} : pc'[d] = pc[d] /\ peer'[d] = peer[d]
    BY <1>2 DEF TInv, LocalsOK
  <2> QED BY <1>2, <1>4, <2>1, <2>2 DEF OInv, Registrations
<1>8. OccupiedSlotHasOwner'
  <2> SUFFICES ASSUME FdsApart, NEW d \in Children, NEW g \in Slots,
                      alive[d], g \in Fds(d), connections'[g] # -1
               PROVE  HasOwner(d, g)'
    BY <1>2 DEF OccupiedSlotHasOwner, HasOwner
  <2>1. CASE g = f
    <3>1. d = c
      BY <1>3, <2>1 DEF FdsApart
    <3>2. /\ ip[f] = peer[c] /\ port[f] = peer[c]
          /\ Open(peer[c]) /\ at[peer[c]] = c
      BY <1>1, <1>2, HandlersSlot DEF OInv, Registrations
    <3>3. peer[c] \in Servers
      BY <1>2 DEF OInv, Messages
    <3>4. HasOwner(d, g)
      BY <1>1, <2>1, <3>1, <3>2, <3>3 DEF HasOwner
    <3> QED BY <1>2, <3>4 DEF HasOwner, Open
  <2>2. CASE g # f
    <3>1. HasOwner(d, g)
      BY <1>4, <2>2 DEF OInv, OccupiedSlotHasOwner, HasOwner
    <3> QED BY <1>2, <3>1 DEF HasOwner, Open
  <2> QED BY <2>1, <2>2
<1> QED BY <1>5, <1>6, <1>7, <1>8 DEF OInv

\* Steps of a child that neither write the table nor begin a report.
LEMMA OScan ==
    ASSUME TInv, OInv, NEW c \in Children,
           UNCHANGED <<connections, ip, port, alive, state, at, fd, inbox>>,
           pc'[c] \notin {"ip", "port", "connections"},
           \A d \in Children \ {c} :
               pc'[d] = pc[d] /\ peer'[d] = peer[d] /\ new'[d] = new[d]
    PROVE  OInv'
<1>1. FdsDiffer' /\ OccupiedSlotHasOwner'
  BY DEF OInv, FdsDiffer, OccupiedSlotHasOwner, Open
<1>2. Messages'
  BY DEF OInv, Messages
<1>3. FdsApart => Registrations'
  BY DEF OInv, Registrations
<1> QED BY <1>1, <1>2, <1>3 DEF OInv

LEMMA OScanSteps ==
    ASSUME TInv, OInv, NEW c \in Children,
           \/ Test(c) \/ Less(c) \/ ReadMin(c) \/ ReadIp(c) \/ ReadPort(c)
           \/ Answer(c)
    PROVE  OInv'
<1>1. UNCHANGED <<connections, ip, port, alive, state, at, fd, inbox>>
  BY DEF Test, Less, ReadMin, ReadIp, ReadPort, Answer, table, links
<1>2. pc'[c] \notin {"ip", "port", "connections"}
  BY DEF Test, Less, ReadMin, ReadIp, ReadPort, Answer, HandlerEnds, NextSlot, Goto,
         TInv, LocalsOK
<1>3. \A d \in Children \ {c} :
          pc'[d] = pc[d] /\ peer'[d] = peer[d] /\ new'[d] = new[d]
  BY DEF Test, Less, ReadMin, ReadIp, ReadPort, Answer, HandlerEnds, NextSlot, Goto,
         TInv, LocalsOK
<1> QED BY <1>1, <1>2, <1>3, OScan

LEMMA OChildExits ==
    ASSUME TInv, OInv, NEW c \in Children, ChildExits(c)
    PROVE  OInv'
<1>1. /\ UNCHANGED <<connections, ip, port>>
      /\ alive' = [alive EXCEPT ![c] = FALSE]
      /\ pc'[c] = "loop"
      /\ \A d \in Children \ {c} :
            pc'[d] = pc[d] /\ peer'[d] = peer[d] /\ new'[d] = new[d]
  BY DEF ChildExits, HandlerEnds, Goto, table, TInv, LocalsOK
<1>2. \A p \in Peers :
          IF at[p] = c THEN ~Open(p)' /\ inbox'[p] = <<>>
          ELSE /\ Open(p)' <=> Open(p)
               /\ at'[p] = at[p] /\ fd'[p] = fd[p] /\ inbox'[p] = inbox[p]
  BY DEF ChildExits, Open
<1>3. FdsDiffer'
  BY <1>2 DEF OInv, FdsDiffer
<1>4. Messages'
  <2>1. <<>> \in Seq(Loads) /\ <<>> \in Seq({Obtain})
    OBVIOUS
  <2> QED BY <1>1, <1>2, <2>1 DEF OInv, Messages, Peers
<1>5. FdsApart => Registrations'
  <2>1. \A d \in Children \ {c} : pc[d] # "loop" => fd'[peer[d]] = fd[peer[d]]
    BY <1>2, HandlersSlot
  <2> QED BY <1>1, <2>1 DEF OInv, Registrations
<1>6. OccupiedSlotHasOwner'
  <2>1. ~alive'[c] /\ \A d \in Children \ {c} : alive'[d] = alive[d]
    BY <1>1 DEF TInv, LinksOK
  <2> QED BY <1>1, <1>2, <2>1 DEF OInv, OccupiedSlotHasOwner, Peers
<1> QED BY <1>3, <1>4, <1>5, <1>6 DEF OInv

LEMMA OStep ==
    ASSUME TInv, OInv, [Next]_vars
    PROVE  OInv'
<1>1. CASE UNCHANGED vars
  BY <1>1 DEF vars, table, links, locals, history, OInv, FdsDiffer, Messages,
              Registrations, OccupiedSlotHasOwner, Open
<1> QED
  BY <1>1, OSend, OLeaveAccept, OHangup, OReceive, OSetIpPort, OSetConnections,
     OScanSteps, OChildExits
     DEF Next, Step

\* A registration in progress has the slot of its own descriptor to itself, and an
\* occupied slot is, with descriptors that differ, that of a connected work server.
THEOREM OwnerInvariant == Spec => [](TInv /\ OInv)
BY TInit, OInit, TStep, OStep, PTL DEF Spec

\* With descriptors that differ, the occupied slots of a living child are those
\* of the work servers connected to it, under their addresses.
THEOREM SlotsHaveOwners == Spec => []OccupiedSlotHasOwner
BY OwnerInvariant, PTL DEF OInv

-----------------------------------------------------------------------------
(* The table implements Registry                                            *)

\* The table as Registry sees it.
EntryAt(f) == IF connections[f] = -1 THEN None
              ELSE [addr |-> <<ip[f], port[f]>>, load |-> connections[f]]
Entry == [f \in Slots |-> EntryAt(f)]

\* An entry with a whole address is not the empty one.
LEMMA EntryNotFree ==
    ASSUME NEW p \in Peers, NEW q \in Peers, NEW n \in Int
    PROVE  [addr |-> <<p, q>>, load |-> n] # None
BY ConstantsAssumption

\* Writing the field connections of a slot is one step of Registry: the slot
\* is taken, gets another load or is freed.
LEMMA ReportIsRegistryStep ==
    ASSUME FdsApart, TInv, OInv, NEW c \in Children, SetConnections(c)
    PROVE  [Registry_!Next]_Entry
<1>1. PICK f : f = fd[peer[c]]
  OBVIOUS
<1>2. PICK p : p = peer[c]
  OBVIOUS
<1>3. PICK n : n = new[c]
  OBVIOUS
<1>4. /\ p \in Servers /\ n \in Loads /\ n \in Int
      /\ f \in Slots /\ ip[f] = p /\ port[f] = p
  BY <1>1, <1>2, <1>3, HandlersSlot, ConstantsAssumption
     DEF SetConnections, OInv, Messages, Registrations
<1>5. connections' = [connections EXCEPT ![f] = n] /\ UNCHANGED <<ip, port>>
  BY <1>1, <1>3 DEF SetConnections, WriteConnections
<1>6. /\ \A g \in Slots : g # f => EntryAt(g)' = EntryAt(g)
      /\ EntryAt(f)' = IF n = -1 THEN None ELSE [addr |-> <<p, p>>, load |-> n]
  BY <1>4, <1>5 DEF EntryAt, TInv, TableOK
<1>7. Entry' = [Entry EXCEPT ![f] = IF n = -1 THEN None
                                    ELSE [addr |-> <<p, p>>, load |-> n]]
  BY <1>4, <1>6 DEF Entry
<1>8. Entry[f] = EntryAt(f)
  BY <1>4 DEF Entry
<1>9. CASE connections[f] = -1 /\ n = -1
  <2>1. \A g \in Slots : EntryAt(g)' = EntryAt(g)
    BY <1>6, <1>9 DEF EntryAt
  <2> QED BY <2>1 DEF Entry
<1>10. CASE connections[f] = -1 /\ n # -1
  <2>1. Entry[f] = None
    BY <1>8, <1>10 DEF EntryAt
  <2>2. Registry_!Register(f, <<p, p>>, n)
    BY <1>7, <1>10, <2>1 DEF Registry_!Register, Entry, EntryAt
  <2> QED BY <1>4, <2>2 DEF Registry_!Next
<1>11. CASE connections[f] # -1
  <2>1. Entry[f] = [addr |-> <<p, p>>, load |-> connections[f]]
    BY <1>4, <1>8, <1>11 DEF EntryAt
  <2>2. Entry[f] # None
    BY <1>4, <2>1, EntryNotFree DEF TInv, TableOK, Peers
  <2>3. CASE n = -1
    <3>1. Registry_!Remove(f)
      BY <1>7, <2>2, <2>3 DEF Registry_!Remove, Entry, EntryAt
    <3> QED BY <1>4, <3>1 DEF Registry_!Next
  <2>4. CASE n # -1
    <3>1. Entry' = [Entry EXCEPT ![f].load = n]
      <4>1. [[addr |-> <<p, p>>, load |-> connections[f]] EXCEPT !.load = n]
              = [addr |-> <<p, p>>, load |-> n]
        OBVIOUS
      <4>2. [Entry[f] EXCEPT !.load = n] = [addr |-> <<p, p>>, load |-> n]
        BY <2>1, <4>1
      <4>3. Entry' = [Entry EXCEPT ![f] = [addr |-> <<p, p>>, load |-> n]]
        BY <1>7, <2>4
      <4> QED BY <4>2, <4>3
    <3>2. Registry_!Update(f, n)
      BY <2>2, <3>1 DEF Registry_!Update, Entry, EntryAt
    <3> QED BY <1>4, <3>2 DEF Registry_!Next
  <2> QED BY <2>3, <2>4
<1> QED BY <1>9, <1>10, <1>11

\* A departure frees the slot of the peer, if it is taken.
LEMMA HangupIsRegistryStep ==
    ASSUME FdsApart, TInv, OInv, NEW c \in Children, NEW p \in Peers, Hangup(c, p)
    PROVE  [Registry_!Next]_Entry
<1>1. PICK f : f = fd[p]
  OBVIOUS
<1>2. /\ alive[c] /\ Open(p) /\ at[p] = c /\ f \in Fds(c) /\ f \in Slots
      /\ UNCHANGED <<ip, port>>
  BY <1>1, FdsAreSlots DEF Hangup, Open, TInv, LinksOK
<1>3. CASE connections[f] = -1
  <2>1. UNCHANGED connections
    BY <1>1, <1>3 DEF Hangup, rmove_server_addr
  <2> QED BY <1>2, <2>1 DEF Entry, EntryAt
<1>4. CASE connections[f] # -1
  <2>1. connections' = [connections EXCEPT ![f] = -1]
    BY <1>1, <1>4 DEF Hangup, rmove_server_addr, WriteConnections
  <2>2. PICK s \in Servers : ip[f] = s /\ port[f] = s
    BY <1>2, <1>4 DEF OInv, OccupiedSlotHasOwner
  <2>3. Entry[f] # None
    <3>1. Entry[f] = [addr |-> <<s, s>>, load |-> connections[f]]
      BY <1>2, <1>4, <2>2 DEF Entry, EntryAt
    <3> QED BY <1>2, <3>1, EntryNotFree DEF TInv, TableOK, Peers
  <2>4. /\ \A g \in Slots : g # f => EntryAt(g)' = EntryAt(g)
        /\ EntryAt(f)' = None
    BY <1>2, <2>1 DEF EntryAt, TInv, TableOK
  <2>5. Entry' = [Entry EXCEPT ![f] = None]
    BY <1>2, <2>4 DEF Entry
  <2>6. Registry_!Remove(f)
    BY <2>3, <2>5 DEF Registry_!Remove, Entry, EntryAt
  <2> QED BY <1>2, <2>6 DEF Registry_!Next
<1> QED BY <1>3, <1>4

\* The address of a slot is written while the slot is free.
LEMMA AddressIsStutter ==
    ASSUME FdsApart, TInv, OInv, NEW c \in Children, SetIp(c) \/ SetPort(c)
    PROVE  UNCHANGED Entry
<1>1. PICK f : f = fd[peer[c]]
  OBVIOUS
<1>2. f \in Slots /\ connections[f] = -1 /\ UNCHANGED connections
  BY <1>1, HandlersSlot DEF SetIp, SetPort, OInv, Registrations
<1>3. \A g \in Slots : g # f => ip'[g] = ip[g] /\ port'[g] = port[g]
  BY <1>1, <1>2 DEF SetIp, SetPort, TInv, TableOK
<1>4. \A g \in Slots : EntryAt(g)' = EntryAt(g)
  BY <1>2, <1>3 DEF EntryAt
<1> QED BY <1>4 DEF Entry

LEMMA RegistryStep ==
    ASSUME FdsApart, TInv, OInv, [Next]_vars
    PROVE  [Registry_!Next]_Entry
<1>1. ASSUME UNCHANGED table
      PROVE  UNCHANGED Entry
  BY <1>1 DEF table, Entry, EntryAt
<1>2. CASE UNCHANGED vars
  BY <1>1, <1>2 DEF vars
<1>3. ASSUME NEW p \in Peers, NEW c \in Children,
             \/ Send(p) \/ Leave(p) \/ Accept(c, p)
             \/ ReceiveReport(c, p) \/ ReceiveObtain(c, p)
      PROVE  UNCHANGED Entry
  BY <1>1, <1>3 DEF Send, Leave, Accept, ReceiveReport, ReceiveObtain
<1>4. ASSUME NEW c \in Children,
             \/ Test(c) \/ Less(c) \/ ReadMin(c) \/ ReadIp(c) \/ ReadPort(c)
             \/ Answer(c) \/ ChildExits(c)
      PROVE  UNCHANGED Entry
  BY <1>1, <1>4 DEF Test, Less, ReadMin, ReadIp, ReadPort, Answer, ChildExits
<1>5. ASSUME NEW p \in Peers, Send(p) \/ Leave(p)
      PROVE  UNCHANGED Entry
  BY <1>1, <1>5 DEF Send, Leave
<1> QED
  BY <1>2, <1>3, <1>4, <1>5, HangupIsRegistryStep, ReportIsRegistryStep,
     AddressIsStutter
     DEF Next, Step

\* Without a lock, and with address and load written one by one, the table
\* changes as Registry says, whenever children have different descriptors.
THEOREM TableIsRegistry ==
    ASSUME FdsApart
    PROVE  Spec => ImplementsRegistry
<1>1. Init => Registry_!Init
  BY DEF Init, Registry_!Init
<1>2. TInv /\ OInv /\ [Next]_vars => [Registry_!Next]_Entry
  BY RegistryStep
<1>3. TInv /\ OInv /\ [Next]_vars =>
          [Registry_!Next]_([f \in Slots |->
                IF connections[f] = -1 THEN None
                ELSE [addr |-> <<ip[f], port[f]>>, load |-> connections[f]]])
  BY <1>2 DEF Entry, EntryAt
<1> QED BY <1>1, <1>3, OwnerInvariant, PTL DEF Spec, ImplementsRegistry, Registry_!Spec
=============================================================================
