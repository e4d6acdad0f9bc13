---------------------------- MODULE ClusterProofs ----------------------------
(***************************************************************************)
(* Theorems about Cluster for any number of children, work servers and     *)
(* clients, any addresses and any bound on the children that end.          *)
(***************************************************************************)
EXTENDS Cluster, FiniteSetTheorems, TLAPS

-----------------------------------------------------------------------------
(* Types                                                                    *)

\* Only clients connect to work servers.
WiresOK ==
    /\ backlog \in [Listeners -> Seq(Peers)]
    /\ ready \in [Listeners -> BOOLEAN]
    /\ \A s \in Servers : backlog[s] \in Seq(Clients)

TableOK ==
    /\ alive \subseteq Children
    /\ ends \in 0..MaxEnds
    /\ entry \in [Servers -> Table!Entries]
    /\ at \in [Peers -> Children \cup {None}]

ServersOK ==
    /\ srv \in [Servers -> {"new", "up", "down"}]
    /\ hb \in [Servers -> {"none", "open", "gone", "closed"}]
    /\ inbox \in [Servers -> Loads \cup {None}]
    /\ counted \in [Servers -> SUBSET Clients]

ClientsOK ==
    /\ cli \in [Clients -> Stages]
    /\ told \in [Clients -> Addrs \cup {None}]

HistoryOK ==
    /\ quiet \in BOOLEAN /\ spaced \in BOOLEAN
    /\ early \subseteq Clients

TInv == WiresOK /\ TableOK /\ ServersOK /\ ClientsOK /\ HistoryOK

\* A new connection keeps the backlogs' types.
LEMMA ArriveType ==
    ASSUME WiresOK, NEW l \in Listeners, NEW p \in Peers, Arrive(l, p),
           l \in Servers => p \in Clients
    PROVE  WiresOK'
<1>1. backlog' \in [Listeners -> Seq(Peers)] /\ ready' \in [Listeners -> BOOLEAN]
  BY DEF WiresOK, Arrive
<1>2. ASSUME NEW s \in Servers PROVE backlog'[s] \in Seq(Clients)
  BY DEF WiresOK, Arrive, Listeners
<1> QED BY <1>1, <1>2 DEF WiresOK

\* An accepted connection keeps them, and is one that was waiting.
LEMMA TakeType ==
    ASSUME WiresOK, NEW l \in Listeners, Take(l)
    PROVE  /\ WiresOK'
           /\ Head(backlog[l]) \in Peers
           /\ l \in Servers => Head(backlog[l]) \in Clients
<1>1. backlog' \in [Listeners -> Seq(Peers)] /\ ready' \in [Listeners -> BOOLEAN]
  BY DEF WiresOK, Take
<1>2. ASSUME NEW s \in Servers PROVE backlog'[s] \in Seq(Clients)
  BY DEF WiresOK, Take, Listeners
<1> QED BY <1>1, <1>2 DEF WiresOK, Take

\* A number of clients is one a work server can report.
LEMMA LoadType == \A S \in SUBSET Clients : Cardinality(S) \in Loads
<1> TAKE S \in SUBSET Clients
<1>1. IsFiniteSet(S) /\ Cardinality(S) <= Cardinality(Clients)
  BY FS_Subset, ConstantsAssumption
<1>2. Cardinality(S) \in Nat /\ Cardinality(Clients) \in Nat
  BY <1>1, FS_CardinalityType, ConstantsAssumption
<1> QED BY <1>1, <1>2 DEF Loads

LEMMA TInit == Init => TInv
<1> SUFFICES ASSUME Init PROVE TInv
  OBVIOUS
<1>1. WiresOK
  BY DEF Init, WiresOK, Listeners
<1>2. TableOK
  BY ConstantsAssumption DEF Init, TableOK, Table!Init, Table!Entries
<1>3. ServersOK
  BY DEF Init, ServersOK
<1>4. ClientsOK
  BY DEF Init, ClientsOK, Stages
<1>5. HistoryOK
  BY DEF Init, HistoryOK
<1> QED BY <1>1, <1>2, <1>3, <1>4, <1>5 DEF TInv

LEMMA TStep == TInv /\ [Next]_vars => TInv'
<1> SUFFICES ASSUME TInv, [Next]_vars PROVE TInv'
  OBVIOUS
<1> USE DEF TInv
<1>1. ASSUME NEW c \in Children, RouteAccepts(c) PROVE TInv'
  <2>1. WiresOK' /\ Head(backlog[Route]) \in Peers
    BY <1>1, TakeType DEF RouteAccepts, Listeners
  <2>2. TableOK'
    BY <1>1, <2>1 DEF RouteAccepts, TableOK
  <2> QED
    BY <1>1, <2>1, <2>2
       DEF RouteAccepts, servers, clients, history, ServersOK, ClientsOK, HistoryOK
<1>2. ASSUME NEW c \in Children, NEW s \in Servers, ReadReport(c, s) PROVE TInv'
  <2>1. inbox[s] \in Loads /\ SourceAddr(s) \in Addrs
    BY <1>2, ConstantsAssumption DEF ReadReport, ServersOK, SourceAddr
  <2>2. entry' \in [Servers -> Table!Entries]
    <3>1. CASE entry[s] = None
      BY <1>2, <2>1, <3>1 DEF ReadReport, TableOK, Table!Register, Table!Entries
    <3>2. CASE entry[s] # None
      <4>1. entry[s] \in [addr : Addrs, load : Loads]
        BY <3>2 DEF TableOK, Table!Entries
      <4>2. [entry[s] EXCEPT !.load = inbox[s]] \in Table!Entries
        BY <2>1, <4>1 DEF Table!Entries
      <4> QED BY <1>2, <3>2, <4>2 DEF ReadReport, TableOK, Table!Update
    <3> QED BY <3>1, <3>2
  <2> QED
    BY <1>2, <2>2
       DEF ReadReport, wires, clients, history, WiresOK, TableOK, ServersOK,
           ClientsOK, HistoryOK
<1>3. ASSUME NEW c \in Children, NEW s \in Servers, ReadHangup(c, s) PROVE TInv'
  <2>1. entry' \in [Servers -> Table!Entries]
    BY <1>3 DEF ReadHangup, Cleared, Table!Remove, Table!Entries, TableOK
  <2> QED
    BY <1>3, <2>1
       DEF ReadHangup, wires, clients, history, WiresOK, TableOK, ServersOK,
           ClientsOK, HistoryOK, Peers
<1>4. ASSUME NEW c \in Children, NEW k \in Clients, Answer(c, k) PROVE TInv'
  <2>1. ClientsOK' /\ early' \subseteq Clients
    <3>1. CASE Table!Occupied = {}
      BY <1>4, <3>1 DEF Answer, ClientsOK, HistoryOK, Stages
    <3>2. CASE Table!Occupied # {}
      <4>1. PICK s \in Choice : told' = [told EXCEPT ![k] = entry[s].addr]
        BY <1>4, <3>2 DEF Answer
      <4>2. entry[s].addr \in Addrs
        BY DEF Choice, Table!LeastLoaded, Table!Occupied, TableOK, Table!Entries
      <4> QED
        BY <1>4, <3>2, <4>1, <4>2 DEF Answer, ClientsOK, HistoryOK, Stages
    <3> QED BY <3>1, <3>2
  <2>2. spaced' \in BOOLEAN
    BY <1>4 DEF Answer, HistoryOK
  <2> QED
    BY <1>4, <2>1, <2>2
       DEF Answer, wires, servers, WiresOK, TableOK, ServersOK, HistoryOK, Peers
<1>5. ASSUME NEW c \in Children, ChildEnds(c) PROVE TInv'
  <2>1. PICK peers : RouteCloses(peers)
    BY <1>5 DEF ChildEnds
  <2>2. WiresOK'
    <3>1. CASE UNCHANGED wires
      BY <3>1 DEF wires, WiresOK
    <3>2. CASE /\ backlog' = [backlog EXCEPT ![Route] = <<>>]
               /\ ready' = [ready EXCEPT ![Route] = FALSE]
      <4>1. \A s \in Servers : backlog'[s] = backlog[s]
        BY <3>2, ConstantsAssumption DEF WiresOK, Listeners, Peers
      <4>2. <<>> \in Seq(Peers)
        OBVIOUS
      <4>3. backlog' \in [Listeners -> Seq(Peers)]
        BY <3>2, <4>2 DEF WiresOK
      <4>4. ready' \in [Listeners -> BOOLEAN]
        BY <3>2 DEF WiresOK
      <4> QED BY <4>1, <4>3, <4>4 DEF WiresOK
    <3> QED BY <1>5, <3>1, <3>2 DEF ChildEnds
  <2>3. TableOK'
    BY <1>5, <2>1, ConstantsAssumption DEF ChildEnds, RouteCloses, TableOK
  <2>4. ServersOK'
    BY <1>5, <2>1 DEF ChildEnds, RouteCloses, ServersOK
  <2>5. ClientsOK' /\ HistoryOK'
    BY <1>5, <2>1
       DEF ChildEnds, RouteCloses, CutOff, Disturb, ClientsOK, HistoryOK, Stages
  <2> QED BY <2>2, <2>3, <2>4, <2>5
<1>6. ASSUME NEW s \in Servers, HeartbeatConnects(s) PROVE TInv'
  <2>1. WiresOK'
    <3>1. CASE Arrive(Route, s)
      BY <3>1, ArriveType, ConstantsAssumption DEF Listeners, Peers
    <3> QED BY <1>6, <3>1 DEF HeartbeatConnects, wires, WiresOK
  <2> QED
    BY <1>6, <2>1
       DEF HeartbeatConnects, table, clients, history, TableOK, ServersOK,
           ClientsOK, HistoryOK
<1>7. ASSUME NEW s \in Servers, Report(s) PROVE TInv'
  <2>1. Cardinality(counted[s]) \in Loads
    BY LoadType DEF ServersOK
  <2> QED
    BY <1>7, <2>1
       DEF Report, table, wires, clients, history, WiresOK, TableOK, ServersOK,
           ClientsOK, HistoryOK
<1>8. ASSUME NEW s \in Servers, ServerAccepts(s) PROVE TInv'
  <2>1. WiresOK' /\ Head(backlog[s]) \in Clients
    BY <1>8, TakeType DEF ServerAccepts, Listeners
  <2> QED
    BY <1>8, <2>1
       DEF ServerAccepts, table, clients, history, TableOK, ServersOK,
           ClientsOK, HistoryOK
<1>9. ASSUME NEW s \in Servers, NEW k \in Clients, ServerDrops(s, k) PROVE TInv'
  BY <1>9
     DEF ServerDrops, table, wires, clients, history, WiresOK, TableOK,
         ServersOK, ClientsOK, HistoryOK
<1>10. ASSUME NEW s \in Servers, Start(s) PROVE TInv'
  BY <1>10
     DEF Start, table, wires, clients, history, WiresOK, TableOK, ServersOK,
         ClientsOK, HistoryOK
<1>11. ASSUME NEW s \in Servers, Stop(s) PROVE TInv'
  <2>1. WiresOK'
    BY <1>11 DEF Stop, WiresOK, Listeners
  <2>2. ServersOK'
    BY <1>11 DEF Stop, ServersOK
  <2>3. ClientsOK'
    BY <1>11 DEF Stop, ClientsOK, Stages
  <2> QED
    BY <1>11, <2>1, <2>2, <2>3 DEF Stop, Disturb, table, TableOK, HistoryOK
<1>12. ASSUME NEW k \in Clients, Ask(k) PROVE TInv'
  <2>1. WiresOK'
    <3>1. CASE Arrive(Route, k)
      BY <3>1, ArriveType, ConstantsAssumption DEF Listeners, Peers
    <3> QED BY <1>12, <3>1 DEF Ask, wires, WiresOK
  <2>2. ClientsOK'
    BY <1>12 DEF Ask, ClientsOK, Stages
  <2> QED
    BY <1>12, <2>1, <2>2 DEF Ask, table, servers, history, TableOK, ServersOK, HistoryOK
<1>13. ASSUME NEW k \in Clients, Enter(k) PROVE TInv'
  <2>1. WiresOK'
    <3>1. ASSUME NEW s \in Servers, Arrive(s, k) PROVE WiresOK'
      BY <3>1, ArriveType DEF Listeners, Peers
    <3> QED BY <1>13, <3>1 DEF Enter, wires, WiresOK
  <2>2. ClientsOK'
    BY <1>13 DEF Enter, ClientsOK, Stages
  <2> QED
    BY <1>13, <2>1, <2>2
       DEF Enter, table, servers, history, TableOK, ServersOK, HistoryOK
<1>14. ASSUME NEW k \in Clients, Leave(k) PROVE TInv'
  BY <1>14
     DEF Leave, Disturb, table, wires, servers, WiresOK, TableOK, ServersOK,
         ClientsOK, HistoryOK, Stages
<1>15. CASE LoseNotification
  BY <1>15
     DEF LoseNotification, table, servers, clients, history, WiresOK, TableOK,
         ServersOK, ClientsOK, HistoryOK
<1>16. CASE RouteStarts
  BY <1>16
     DEF RouteStarts, FreshTable, wires, servers, clients, history, WiresOK,
         TableOK, ServersOK, ClientsOK, HistoryOK, Table!Entries
<1>17. CASE UNCHANGED vars
  BY <1>17
     DEF vars, table, wires, servers, clients, history, WiresOK, TableOK,
         ServersOK, ClientsOK, HistoryOK
<1> QED
  BY <1>1, <1>2, <1>3, <1>4, <1>5, <1>6, <1>7, <1>8, <1>9, <1>10, <1>11,
     <1>12, <1>13, <1>14, <1>15, <1>16, <1>17
     DEF Next, RouteStep, ServerStep

\* The types, with what they need of the sockets.
THEOREM TypesInvariant == Spec => []TInv
BY TInit, TStep, PTL DEF Spec

\* Every variable of the composition keeps its type.
THEOREM TypeCorrect == Spec => []TypeOK
<1>1. TInv => TypeOK
  BY DEF TInv, WiresOK, TableOK, ServersOK, ClientsOK, HistoryOK, TypeOK
<1> QED BY <1>1, TypesInvariant, PTL

-----------------------------------------------------------------------------
(* The table and this run of the route server                               *)

\* An entry needs a connection that was accepted, and is cleared with it.
LEMMA ThisRunStep ==
    TInv /\ TableOfThisRun /\ [Next]_vars => TableOfThisRun'
<1> SUFFICES ASSUME TInv, TableOfThisRun, [Next]_vars PROVE TableOfThisRun'
  OBVIOUS
<1> USE DEF TInv, TableOK, TableOfThisRun, Peers
<1>1. ASSUME NEW c \in Children, RouteAccepts(c) PROVE TableOfThisRun'
  BY <1>1, ConstantsAssumption DEF RouteAccepts
<1>2. ASSUME NEW c \in Children, NEW s \in Servers, ReadReport(c, s)
      PROVE  TableOfThisRun'
  <2>1. at[s] # None /\ \A t \in Servers \ {s} : entry'[t] = entry[t]
    BY <1>2, ConstantsAssumption DEF ReadReport, Table!Register, Table!Update
  <2> QED BY <1>2, <2>1 DEF ReadReport
<1>3. ASSUME NEW c \in Children, NEW s \in Servers, ReadHangup(c, s)
      PROVE  TableOfThisRun'
  <2>1. entry'[s] = None /\ \A t \in Servers \ {s} : entry'[t] = entry[t]
    BY <1>3 DEF ReadHangup, Cleared, Table!Remove
  <2> QED BY <1>3, <2>1 DEF ReadHangup
<1>4. ASSUME NEW c \in Children, NEW k \in Clients, Answer(c, k)
      PROVE  TableOfThisRun'
  BY <1>4, ConstantsAssumption DEF Answer
<1>5. ASSUME NEW c \in Children, ChildEnds(c) PROVE TableOfThisRun'
  BY <1>5, ConstantsAssumption DEF ChildEnds, RouteCloses
<1>6. CASE RouteStarts
  BY <1>6 DEF RouteStarts, FreshTable
<1>7. CASE UNCHANGED <<entry, at>>
  BY <1>7
<1> QED
  BY <1>1, <1>2, <1>3, <1>4, <1>5, <1>6, <1>7
     DEF Next, RouteStep, ServerStep, HeartbeatConnects, Report, ServerAccepts,
         ServerDrops, Start, Stop, Ask, Enter, Leave, LoseNotification, vars,
         table

\* The table names only work servers whose heartbeat connection this run of
\* the route server accepted: rmove_server_addr comes with every hangup, and
\* the pool's constructor clears what an earlier run left.
THEOREM OnlyThisRun == Spec => []TableOfThisRun
<1>1. Init => TableOfThisRun
  BY DEF Init, TableOfThisRun, Table!Init
<1> QED BY <1>1, TInit, TStep, ThisRunStep, PTL DEF Spec

-----------------------------------------------------------------------------
(* Clients that fail                                                        *)

\* While all is quiet the route server runs, a heartbeat connection and an
\* entry belong to a running work server, and an address that was handed out
\* is one where a work server listens.
Calm ==
    quiet =>
        /\ alive = Children
        /\ \A s \in Servers :
              /\ srv[s] # "down" /\ hb[s] # "gone"
              /\ hb[s] = "open" => srv[s] = "up"
              /\ entry[s] # None => srv[s] = "up" /\ entry[s].addr = Addr[s]
        /\ \A k \in Clients :
              /\ cli[k] = "told" =>
                    \E s \in Servers : srv[s] = "up" /\ Addr[s] = told[k]
              /\ cli[k] = "ended" => k \in early

\* The times are quiet until something disturbs them.
LEMMA QuietStep == [Next]_vars => UNCHANGED quiet \/ Disturb
<1> SUFFICES ASSUME [Next]_vars PROVE UNCHANGED quiet \/ Disturb
  OBVIOUS
<1>1. ASSUME NEW c \in Children, RouteStep(c) PROVE UNCHANGED quiet
  BY <1>1 DEF RouteStep, RouteAccepts, ReadReport, ReadHangup, Answer, history
<1>2. ASSUME NEW c \in Children, ChildEnds(c) PROVE Disturb
  BY <1>2 DEF ChildEnds, RouteCloses
<1>3. ASSUME NEW s \in Servers, ServerStep(s) \/ Start(s) PROVE UNCHANGED quiet
  BY <1>3
     DEF ServerStep, HeartbeatConnects, Report, ServerAccepts, ServerDrops,
         Start, history
<1>4. ASSUME NEW s \in Servers, Stop(s) PROVE Disturb
  BY <1>4 DEF Stop
<1>5. ASSUME NEW k \in Clients, Ask(k) \/ Enter(k) PROVE UNCHANGED quiet
  BY <1>5 DEF Ask, Enter, history
<1>6. ASSUME NEW k \in Clients, Leave(k) PROVE Disturb
  BY <1>6 DEF Leave
<1>7. CASE LoseNotification \/ RouteStarts \/ UNCHANGED vars
  BY <1>7 DEF LoseNotification, RouteStarts, vars, history
<1> QED
  BY <1>1, <1>2, <1>3, <1>4, <1>5, <1>6, <1>7 DEF Next

LEMMA CalmStep == TInv /\ Calm /\ [Next]_vars => Calm'
<1> SUFFICES ASSUME TInv, Calm, [Next]_vars, quiet, quiet' PROVE Calm'
  BY QuietStep DEF Calm, Disturb
<1> USE DEF TInv, Calm
<1>1. ASSUME NEW c \in Children, RouteAccepts(c) PROVE Calm'
  BY <1>1 DEF RouteAccepts, servers, clients, history
<1>2. ASSUME NEW c \in Children, NEW s \in Servers, ReadReport(c, s) PROVE Calm'
  <2>1. srv[s] = "up"
    BY <1>2 DEF ReadReport
  <2>2. entry'[s] # None => entry'[s].addr = Addr[s]
    <3>1. CASE entry[s] = None
      BY <1>2, <3>1 DEF ReadReport, Table!Register, SourceAddr, TableOK
    <3>2. CASE entry[s] # None
      <4>1. entry[s] \in [addr : Addrs, load : Loads] /\ entry[s].addr = Addr[s]
        BY <3>2 DEF TableOK, Table!Entries
      <4>2. [entry[s] EXCEPT !.load = inbox[s]].addr = Addr[s]
        BY <4>1
      <4> QED BY <1>2, <3>2, <4>2 DEF ReadReport, Table!Update, TableOK
    <3> QED BY <3>1, <3>2
  <2>3. \A t \in Servers \ {s} : entry'[t] = entry[t]
    BY <1>2 DEF ReadReport, Table!Register, Table!Update, TableOK
  <2> QED BY <1>2, <2>1, <2>2, <2>3 DEF ReadReport, clients, history
<1>3. ASSUME NEW c \in Children, NEW s \in Servers, ReadHangup(c, s) PROVE Calm'
  BY <1>3 DEF ReadHangup
<1>4. ASSUME NEW c \in Children, NEW k \in Clients, Answer(c, k) PROVE Calm'
  <2>1. CASE Table!Occupied = {}
    BY <1>4, <2>1 DEF Answer, servers, ClientsOK
  <2>2. CASE Table!Occupied # {}
    <3>1. PICK s \in Choice : told' = [told EXCEPT ![k] = entry[s].addr]
      BY <1>4, <2>2 DEF Answer
    <3>2. s \in Servers /\ srv[s] = "up" /\ Addr[s] = entry[s].addr
      BY <3>1 DEF Choice, Table!LeastLoaded, Table!Occupied
    <3>3. cli' = [cli EXCEPT ![k] = "told"]
      BY <1>4, <2>2 DEF Answer
    <3>4. \A j \in Clients : cli'[j] = "told" =>
              \E t \in Servers : srv[t] = "up" /\ Addr[t] = told'[j]
      BY <3>1, <3>2, <3>3 DEF ClientsOK
    <3> QED BY <1>4, <2>2, <3>3, <3>4 DEF Answer, servers, ClientsOK
  <2> QED BY <2>1, <2>2
<1>5. ASSUME NEW s \in Servers, HeartbeatConnects(s) PROVE Calm'
  BY <1>5, ConstantsAssumption
     DEF HeartbeatConnects, MayFail, table, clients, history, ServersOK
<1>6. ASSUME NEW s \in Servers, Start(s) PROVE Calm'
  BY <1>6 DEF Start, table, clients, history, ServersOK
<1>7. ASSUME NEW k \in Clients, Ask(k) PROVE Calm'
  BY <1>7, ConstantsAssumption DEF Ask, table, servers, history, ClientsOK
<1>8. ASSUME NEW k \in Clients, Enter(k) PROVE Calm'
  BY <1>8 DEF Enter, table, servers, history, ClientsOK
<1>9. CASE RouteStarts
  BY <1>9, ConstantsAssumption DEF RouteStarts
<1>10. CASE UNCHANGED <<alive, entry, srv, hb, cli, told, quiet, early>>
  BY <1>10
<1> QED
  BY <1>1, <1>2, <1>3, <1>4, <1>5, <1>6, <1>7, <1>8, <1>9, <1>10
     DEF Next, RouteStep, ServerStep, ChildEnds, RouteCloses, Stop, Leave,
         Disturb, Report, ServerAccepts, ServerDrops, LoseNotification, vars,
         table, servers, clients, history

\* While nothing has stopped, crashed or left, a client fails only if it was
\* answered while the table was empty.
THEOREM NobodyFails == Spec => []FailsOnlyEarly
<1>1. Init => Calm
  BY DEF Init, Calm, Table!Init
<1>2. Calm => FailsOnlyEarly
  BY DEF Calm, FailsOnlyEarly
<1> QED BY <1>1, <1>2, TInit, TStep, CalmStep, PTL DEF Spec

-----------------------------------------------------------------------------
(* How clients are spread                                                   *)

\* One address is listened at by one run of the work server.
UpApart ==
    \A s, t \in Servers :
        srv[s] = "up" /\ srv[t] = "up" /\ Addr[s] = Addr[t] => s = t

\* No work server has fewer clients than s.
Least(s) == \A t \in Servers : Cardinality(counted[s]) <= Cardinality(counted[t])

\* Counted clients are connected; one client is on its way at most, and it
\* goes to a work server with the fewest clients.
CountedAreIn == \A s \in Servers : \A k \in counted[s] : cli[k] = "in"
OneUnderway == \A j, k \in Underway : j = k
ToldLeast ==
    \A k \in Clients, s \in Servers : cli[k] = "told" /\ Addr[s] = told[k] => Least(s)
OneWaits ==
    /\ \A s \in Servers :
          \/ backlog[s] = <<>>
          \/ \E k \in Underway : cli[k] = "in" /\ backlog[s] = <<k>> /\ Least(s)
    /\ \A s, t \in Servers : backlog[s] # <<>> /\ backlog[t] # <<>> => s = t
Even ==
    \A s, t \in Servers : Cardinality(counted[s]) <= Cardinality(counted[t]) + 1

Spread == quiet /\ CountedAreIn /\ OneUnderway /\ ToldLeast /\ OneWaits /\ Even
SpreadIfSpaced == spaced => Spread

LEMMA UpApartStep == TInv /\ UpApart /\ [Next]_vars => UpApart'
<1> SUFFICES ASSUME TInv, UpApart, [Next]_vars PROVE UpApart'
  OBVIOUS
<1> USE DEF TInv, UpApart, ServersOK
<1>1. ASSUME NEW s \in Servers, Start(s) PROVE UpApart'
  BY <1>1 DEF Start
<1>2. ASSUME NEW s \in Servers, Stop(s) PROVE UpApart'
  BY <1>2 DEF Stop
<1>3. CASE UNCHANGED srv
  BY <1>3
<1> QED
  BY <1>1, <1>2, <1>3
     DEF Next, RouteStep, ServerStep, RouteAccepts, ReadReport, ReadHangup, Answer,
         ChildEnds, RouteCloses, HeartbeatConnects, Report, ServerAccepts,
         ServerDrops, Ask, Enter, Leave, LoseNotification, RouteStarts, vars,
         servers

\* Once an answer was made on a table that was not true, or something was
\* disturbed, the times are not spaced any more.
LEMMA SpacedStep == [Next]_vars /\ spaced' => spaced
<1> SUFFICES ASSUME [Next]_vars, spaced' PROVE spaced
  OBVIOUS
<1>1. CASE UNCHANGED spaced
  BY <1>1
<1>2. CASE Disturb
  BY <1>2 DEF Disturb
<1>3. ASSUME NEW c \in Children, NEW k \in Clients, Answer(c, k) PROVE spaced
  BY <1>3 DEF Answer
<1> QED
  BY <1>1, <1>2, <1>3
     DEF Next, RouteStep, ServerStep, RouteAccepts, ReadReport, ReadHangup,
         ChildEnds, RouteCloses, HeartbeatConnects, Report, ServerAccepts,
         ServerDrops, Start, Stop, Ask, Enter, Leave, LoseNotification,
         RouteStarts, vars, history

\* Steps that leave the clients on their way and the counts alone.
LEMMA SpreadKept ==
    ASSUME Spread, UNCHANGED <<counted, cli, told, quiet>>,
           \A s \in Servers : backlog'[s] = backlog[s]
    PROVE  Spread'
<1>1. Underway' = Underway /\ \A s \in Servers : Least(s)' = Least(s)
  BY DEF Underway, Least
<1>2. CountedAreIn' /\ Even' /\ quiet'
  BY DEF Spread, CountedAreIn, Even
<1>3. OneUnderway'
  BY <1>1 DEF Spread, OneUnderway
<1>4. ToldLeast'
  BY <1>1 DEF Spread, ToldLeast
<1>5. OneWaits'
  BY <1>1 DEF Spread, OneWaits
<1> QED BY <1>2, <1>3, <1>4, <1>5 DEF Spread

\* An answer on the true table sends a client, the only one on its way, to a
\* work server with the fewest clients.
LEMMA AnswerSpreads ==
    ASSUME TInv, Calm, UpApart, Spread, TableIsTrue,
           NEW c \in Children, NEW k \in Clients, Answer(c, k)
    PROVE  Spread'
<1> USE DEF TInv
<1>1. UNCHANGED <<backlog, counted, srv, quiet>> /\ cli[k] = "asking"
  BY DEF Answer, wires, servers
<1>2. \E st \in {"told", "ended"} : cli' = [cli EXCEPT ![k] = st]
  BY DEF Answer
<1>3. /\ \A s \in Servers : k \notin counted[s]
      /\ \A j \in Clients \ {k} : cli'[j] = cli[j]
      /\ cli'[k] \in {"told", "ended"}
  BY <1>1, <1>2 DEF Spread, CountedAreIn, ClientsOK
<1>4. Underway = {} /\ Underway' \subseteq {k}
  <2>1. Underway = {}
    BY DEF TableIsTrue
  <2>2. ASSUME NEW j \in Underway', j # k PROVE FALSE
    BY <1>1, <1>3, <2>1, <2>2 DEF Underway
  <2> QED BY <2>1, <2>2
<1>5. CountedAreIn'
  BY <1>1, <1>3 DEF Spread, CountedAreIn, ServersOK
<1>6. OneUnderway'
  BY <1>4 DEF OneUnderway
<1>7. \A s \in Servers : backlog[s] = <<>>
  BY <1>4 DEF Spread, OneWaits
<1>8. OneWaits'
  BY <1>1, <1>7 DEF OneWaits
<1>9. ToldLeast'
  <2> SUFFICES ASSUME NEW j \in Clients, NEW s \in Servers,
                      cli'[j] = "told", Addr[s] = told'[j]
               PROVE  Least(s)'
    BY DEF ToldLeast
  <2>1. j = k
    BY <1>4 DEF Underway
  <2>2. Table!Occupied # {}
    BY <1>2, <2>1 DEF Answer, ClientsOK
  <2>3. PICK u \in Choice : told' = [told EXCEPT ![k] = entry[u].addr]
    BY <2>2 DEF Answer
  <2>4. \A t \in Servers : /\ t \in Table!Occupied
                           /\ entry[t].addr = Addr[t]
                           /\ entry[t].load = Cardinality(counted[t])
    <3> TAKE t \in Servers
    <3>1. entry[t] = [addr |-> Addr[t], load |-> Cardinality(counted[t])]
      BY DEF TableIsTrue
    <3>2. Cardinality(counted[t]) \in Nat
      BY LoadType, FS_CardinalityType, FS_Subset, ConstantsAssumption DEF ServersOK
    <3>3. entry[t] # None
      BY <3>1, <3>2, ConstantsAssumption
    <3> QED BY <3>1, <3>3 DEF Table!Occupied
  <2>5. u \in Servers /\ Least(u)
    BY <2>3, <2>4 DEF Choice, Table!LeastLoaded, Table!Occupied, Least
  <2>6. Addr[s] = Addr[u]
    BY <2>1, <2>3, <2>4, <2>5 DEF ClientsOK
  <2>7. srv[s] = "up" /\ srv[u] = "up"
    BY <2>4, <2>5 DEF Calm, Spread, Table!Occupied
  <2>8. s = u
    BY <2>5, <2>6, <2>7 DEF UpApart
  <2> QED BY <1>1, <2>5, <2>8 DEF Least
<1>10. Even' /\ quiet'
  BY <1>1 DEF Spread, Even
<1> QED BY <1>5, <1>6, <1>8, <1>9, <1>10 DEF Spread

\* The client on its way connects to the work server it was sent to.
LEMMA EnterSpreads ==
    ASSUME TInv, Spread, NEW k \in Clients, Enter(k)
    PROVE  Spread'
<1> USE DEF TInv
<1>1. UNCHANGED <<counted, quiet>> /\ cli[k] = "told"
  BY DEF Enter, servers, history
<1>2. k \in Underway /\ \A j \in Underway : j = k
  BY <1>1 DEF Underway, Spread, OneUnderway
<1>3. \A s \in Servers : backlog[s] = <<>>
  BY <1>1, <1>2 DEF Spread, OneWaits
<1>4. /\ cli'[k] \in {"in", "ended"}
      /\ \A j \in Clients \ {k} : cli'[j] = cli[j] /\ told'[j] = told[j]
  BY DEF Enter, ClientsOK
<1>5. \A j \in Clients \ {k} : j \notin Underway'
  BY <1>1, <1>2, <1>4 DEF Underway
<1>6. \A s \in Servers : k \notin counted[s]
  BY <1>1 DEF Spread, CountedAreIn
<1>7. CountedAreIn'
  BY <1>1, <1>4, <1>6 DEF Spread, CountedAreIn, ServersOK
<1>8. OneUnderway'
  <2>1. Underway' \subseteq Clients
    BY DEF Underway
  <2> QED BY <1>5, <2>1 DEF OneUnderway
<1>9. ToldLeast'
  <2>1. \A j \in Clients : cli'[j] # "told"
    BY <1>4, <1>5 DEF Underway
  <2> QED BY <2>1 DEF ToldLeast
<1>10. OneWaits'
  <2>1. ASSUME NEW s \in Servers, Addr[s] = told[k],
               cli' = [cli EXCEPT ![k] = "in"], Arrive(s, k)
        PROVE  OneWaits'
    <3>1. backlog'[s] = <<k>> /\ \A t \in Servers \ {s} : backlog'[t] = <<>>
      <4>1. backlog'[s] = Append(backlog[s], k)
        BY <2>1 DEF Arrive, WiresOK, Listeners
      <4>2. Append(<<>>, k) = <<k>>
        OBVIOUS
      <4>3. \A t \in Servers \ {s} : backlog'[t] = backlog[t]
        BY <2>1 DEF Arrive, WiresOK, Listeners
      <4> QED BY <1>3, <4>1, <4>2, <4>3
    <3>2. k \in Underway' /\ cli'[k] = "in"
      BY <1>1, <1>6, <2>1 DEF Underway, ClientsOK
    <3>3. Least(s)
      BY <1>1, <2>1 DEF Spread, ToldLeast
    <3>4. Least(s)'
      BY <1>1, <3>3 DEF Least
    <3> QED BY <3>1, <3>2, <3>4 DEF OneWaits
  <2>2. ASSUME UNCHANGED wires PROVE OneWaits'
    BY <1>3, <2>2 DEF wires, OneWaits
  <2> QED BY <2>1, <2>2 DEF Enter
<1>11. Even' /\ quiet'
  BY <1>1 DEF Spread, Even
<1> QED BY <1>7, <1>8, <1>9, <1>10, <1>11 DEF Spread

\* The work server with the fewest clients counts the one that waits.
LEMMA AcceptSpreads ==
    ASSUME TInv, Spread, NEW s \in Servers, ServerAccepts(s)
    PROVE  Spread'
<1> USE DEF TInv
<1>1. /\ UNCHANGED <<cli, told, quiet>>
      /\ backlog[s] # <<>>
      /\ backlog' = [backlog EXCEPT ![s] = Tail(@)]
      /\ counted' = [counted EXCEPT ![s] = @ \cup {Head(backlog[s])}]
  BY DEF ServerAccepts, Take, clients, history
<1>2. PICK k \in Underway : cli[k] = "in" /\ backlog[s] = <<k>> /\ Least(s)
  BY <1>1 DEF Spread, OneWaits
<1>3. /\ \A t \in Servers : backlog'[t] = <<>>
      /\ counted'[s] = counted[s] \cup {k}
      /\ \A t \in Servers \ {s} : counted'[t] = counted[t]
  <2>1. Head(<<k>>) = k /\ Tail(<<k>>) = <<>>
    OBVIOUS
  <2>2. \A t \in Servers \ {s} : backlog[t] = <<>>
    BY <1>1 DEF Spread, OneWaits
  <2> QED BY <1>1, <1>2, <2>1, <2>2 DEF WiresOK, ServersOK, Listeners
<1>4. Underway' = {}
  <2> SUFFICES ASSUME NEW j \in Underway' PROVE FALSE
    OBVIOUS
  <2>1. j \in Underway
    BY <1>1, <1>3 DEF Underway
  <2>2. j = k
    BY <1>2, <2>1 DEF Spread, OneUnderway
  <2> QED BY <1>1, <1>2, <1>3, <2>2 DEF Underway
<1>5. CountedAreIn'
  BY <1>1, <1>2, <1>3 DEF Spread, CountedAreIn
<1>6. OneUnderway' /\ OneWaits'
  BY <1>3, <1>4 DEF OneUnderway, OneWaits
<1>7. ToldLeast'
  <2>1. \A j \in Clients : cli'[j] # "told"
    BY <1>4 DEF Underway
  <2> QED BY <2>1 DEF ToldLeast
<1>8. Even'
  <2>1. \A t \in Servers : IsFiniteSet(counted[t]) /\ Cardinality(counted[t]) \in Nat
    BY FS_Subset, FS_CardinalityType, ConstantsAssumption DEF ServersOK
  <2>2. Cardinality(counted[s] \cup {k})
          \in {Cardinality(counted[s]), Cardinality(counted[s]) + 1}
    BY <2>1, FS_AddElement
  <2>3. \A t \in Servers : Cardinality(counted[s]) <= Cardinality(counted[t])
    BY <1>2 DEF Least
  <2>4. \A t, u \in Servers : Cardinality(counted[t]) <= Cardinality(counted[u]) + 1
    BY DEF Spread, Even
  <2> SUFFICES ASSUME NEW t \in Servers, NEW u \in Servers
               PROVE  Cardinality(counted'[t]) <= Cardinality(counted'[u]) + 1
    BY DEF Even
  <2>5. Cardinality(counted'[s])
          \in {Cardinality(counted[s]), Cardinality(counted[s]) + 1}
    BY <1>3, <2>2
  <2>6. \A v \in Servers \ {s} : Cardinality(counted'[v]) = Cardinality(counted[v])
    BY <1>3
  <2> QED BY <2>1, <2>3, <2>4, <2>5, <2>6
<1> QED BY <1>1, <1>5, <1>6, <1>7, <1>8 DEF Spread

LEMMA SpreadStep ==
    ASSUME TInv, Calm, UpApart, SpreadIfSpaced, [Next]_vars
    PROVE  SpreadIfSpaced'
<1> SUFFICES ASSUME spaced' PROVE Spread'
  BY DEF SpreadIfSpaced
<1>1. spaced /\ Spread
  BY SpacedStep DEF SpreadIfSpaced
<1> USE DEF TInv
<1>2. ASSUME NEW c \in Children, NEW k \in Clients, Answer(c, k) PROVE Spread'
  BY <1>1, <1>2, AnswerSpreads DEF Answer
<1>3. ASSUME NEW k \in Clients, Enter(k) PROVE Spread'
  BY <1>1, <1>3, EnterSpreads
<1>4. ASSUME NEW s \in Servers, ServerAccepts(s) PROVE Spread'
  BY <1>1, <1>4, AcceptSpreads
<1>5. ASSUME NEW s \in Servers, NEW k \in Clients, ServerDrops(s, k) PROVE Spread'
  BY <1>1, <1>5 DEF ServerDrops, Spread, CountedAreIn
<1>6. ASSUME NEW k \in Clients, Ask(k) PROVE Spread'
  <2>1. /\ UNCHANGED <<counted, told, quiet>> /\ cli[k] = "new"
        /\ cli'[k] \in {"asking", "ended"}
        /\ \A j \in Clients \ {k} : cli'[j] = cli[j]
    BY <1>6 DEF Ask, servers, history, ClientsOK
  <2>2. \A s \in Servers : backlog'[s] = backlog[s]
    BY <1>6, ConstantsAssumption DEF Ask, Arrive, wires, WiresOK, Listeners, Peers
  <2>3. Underway' = Underway /\ \A s \in Servers : Least(s)' = Least(s)
    BY <2>1 DEF Underway, Least
  <2>4. CountedAreIn'
    BY <1>1, <2>1 DEF Spread, CountedAreIn, ServersOK
  <2>5. OneUnderway'
    BY <1>1, <2>3 DEF Spread, OneUnderway
  <2>6. ToldLeast'
    BY <1>1, <2>1, <2>3 DEF Spread, ToldLeast
  <2>7. OneWaits'
    <3>1. \A j \in Underway : cli[j] = "in" => cli'[j] = "in"
      BY <2>1 DEF Underway
    <3> QED BY <1>1, <2>2, <2>3, <3>1 DEF Spread, OneWaits
  <2>8. Even' /\ quiet'
    BY <1>1, <2>1 DEF Spread, Even
  <2> QED BY <2>4, <2>5, <2>6, <2>7, <2>8 DEF Spread
<1>7. ASSUME NEW c \in Children, NEW s \in Servers,
             RouteAccepts(c) \/ ReadReport(c, s) \/ ReadHangup(c, s)
      PROVE  Spread'
  <2>1. \A t \in Servers : backlog'[t] = backlog[t]
    BY <1>7, ConstantsAssumption
       DEF RouteAccepts, Take, ReadReport, ReadHangup, wires, WiresOK, Listeners, Peers
  <2> QED
    BY <1>1, <1>7, <2>1, SpreadKept
       DEF RouteAccepts, ReadReport, ReadHangup, servers, clients, history
<1>8. ASSUME NEW s \in Servers, HeartbeatConnects(s) \/ Report(s) \/ Start(s)
      PROVE  Spread'
  <2>1. \A t \in Servers : backlog'[t] = backlog[t]
    BY <1>8, ConstantsAssumption
       DEF HeartbeatConnects, Arrive, Report, Start, wires, WiresOK, Listeners, Peers
  <2> QED
    BY <1>1, <1>8, <2>1, SpreadKept
       DEF HeartbeatConnects, Report, Start, clients, history
<1>9. CASE LoseNotification \/ RouteStarts \/ UNCHANGED vars
  BY <1>1, <1>9, SpreadKept
     DEF LoseNotification, RouteStarts, vars, wires, servers, clients, history
<1>10. ASSUME NEW c \in Children, RouteAccepts(c) PROVE Spread'
  <2>1. \A t \in Servers : backlog'[t] = backlog[t]
    BY <1>10, ConstantsAssumption
       DEF RouteAccepts, Take, WiresOK, Listeners, Peers
  <2> QED
    BY <1>1, <1>10, <2>1, SpreadKept DEF RouteAccepts, servers, clients, history
<1>11. ~Disturb
  BY DEF Disturb
<1> QED
  BY <1>2, <1>3, <1>4, <1>5, <1>6, <1>7, <1>8, <1>9, <1>10, <1>11
     DEF Next, RouteStep, ServerStep, ChildEnds, RouteCloses, Stop, Leave

LEMMA SpreadInit == Init => SpreadIfSpaced /\ UpApart
<1> SUFFICES ASSUME Init PROVE Spread /\ UpApart
  BY DEF SpreadIfSpaced
<1>1. Underway = {}
  BY DEF Init, Underway
<1>2. \A s \in Servers : Cardinality(counted[s]) = 0
  BY FS_EmptySet DEF Init
<1>3. \A s \in Servers : backlog[s] = <<>>
  BY DEF Init, Listeners
<1>4. quiet /\ CountedAreIn /\ UpApart
  BY DEF Init, CountedAreIn, UpApart
<1>5. OneUnderway /\ OneWaits
  BY <1>1, <1>3 DEF OneUnderway, OneWaits
<1>6. ToldLeast
  BY DEF Init, ToldLeast
<1>7. Even
  BY <1>2 DEF Even
<1> QED BY <1>4, <1>5, <1>6, <1>7 DEF Spread

\* Reporting every new number before the next client asks spreads clients
\* evenly over the work servers, however many there are of both.
THEOREM SpacedClientsAreEven == Spec => []EvenIfSpaced
<1>1. Init => TInv /\ Calm /\ UpApart /\ SpreadIfSpaced
  BY TInit, SpreadInit DEF Init, Calm, Table!Init
<1>2. TInv /\ Calm /\ UpApart /\ SpreadIfSpaced /\ [Next]_vars
        => TInv' /\ Calm' /\ UpApart' /\ SpreadIfSpaced'
  BY TStep, CalmStep, UpApartStep, SpreadStep
<1>3. SpreadIfSpaced => EvenIfSpaced
  BY DEF SpreadIfSpaced, Spread, Even, EvenIfSpaced
<1> QED BY <1>1, <1>2, <1>3, PTL DEF Spec
=============================================================================
