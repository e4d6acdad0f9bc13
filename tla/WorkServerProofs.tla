--------------------------- MODULE WorkServerProofs ---------------------------
(***************************************************************************)
(* Theorems about WorkServer for any numbers of connections, children,     *)
(* accounts and groups.  First the sessions: which connection is logged in *)
(* as whom, in the server object, in the client and in the table.  Then    *)
(* the groups: what a create_group call knows between its statements.      *)
(***************************************************************************)
EXTENDS WorkServer, FiniteSetTheorems, TLAPS

-----------------------------------------------------------------------------
(* The invariant of the sessions                                            *)

\* A row, but for the bound on the number of its groups.
AnyRow == [password : Passwords, online : {0, 1}, addr : Conns \cup {NoAddr},
           fresh : BOOLEAN, c_group_num : Int, c_group : SUBSET Gids]

UsersOK ==
    /\ next_uid \in 1..(MaxUid + 1)
    /\ DOMAIN user \subseteq 1..(next_uid - 1)
    /\ user \in [DOMAIN user -> AnyRow]

ServersOK ==
    /\ alive \in [Children -> BOOLEAN]
    /\ child \in [Conns -> Children \cup {NoChild}]
    /\ open \in [Conns -> BOOLEAN]
    /\ m_uid \in [Conns -> 0..(next_uid - 1)]
    /\ m_password \in [Conns -> Passwords \cup {NoPassword}]

ClientsOK ==
    /\ if_login \in [Conns -> BOOLEAN]
    /\ me \in [Conns -> [uid : {0} \cup Uids,
                         password : Passwords \cup {NoPassword}]]

HistoryOK == abandoned \subseteq Uids

\* A connection is open only after a child accepted it, and the client of a
\* connection that is not open is not logged in.
OpenIsAccepted ==
    \A k \in Conns : /\ open[k] => child[k] # NoChild
                     /\ ~open[k] => ~if_login[k]

SInv ==
    /\ UsersOK /\ ServersOK /\ ClientsOK /\ HistoryOK
    /\ OpenIsAccepted
    /\ EndsAgree
    /\ SessionsAuthenticated
    /\ OnlineAddrIsLoggedIn

LEMMA SInit == Init => SInv
BY ConstantsAssumption
   DEF Init, SInv, UsersOK, ServersOK, ClientsOK, HistoryOK, OpenIsAccepted,
       EndsAgree, SessionsAuthenticated, OnlineAddrIsLoggedIn, Nobody, Uids

\* What an update of online and addr does to a row.
LEMMA SetOnlineRow ==
    ASSUME NEW row \in AnyRow, NEW o \in {0, 1}, NEW a \in Conns \cup {NoAddr}
    PROVE  /\ SetOnline(row, o, a) \in AnyRow
           /\ SetOnline(row, o, a).online = o
           /\ SetOnline(row, o, a).addr = a
           /\ SetOnline(row, o, a).password = row.password
           /\ SetOnline(row, o, a).c_group = row.c_group
           /\ SetOnline(row, o, a).c_group_num = row.c_group_num
BY DEF AnyRow, SetOnline

\* Which rows an update of online and addr changes, and how.
LEMMA UpdateRows ==
    ASSUME UsersOK, NEW u, NEW pw, NEW o \in {0, 1},
           NEW a \in Conns \cup {NoAddr},
           UpdateOnlineAndAddr(u, pw, o, a), UNCHANGED next_uid
    PROVE  /\ UsersOK'
           /\ DOMAIN user' = DOMAIN user
           /\ \A v \in DOMAIN user :
                 /\ user'[v].password = user[v].password
                 /\ user'[v].c_group = user[v].c_group
                 /\ user'[v].c_group_num = user[v].c_group_num
           /\ \A v \in DOMAIN user : v # u => user'[v] = user[v]
           /\ Where(u, pw) => user'[u].online = o /\ user'[u].addr = a
           /\ ~OnlineChanges(u, pw, o, a) => user' = user
<1>1. CASE Where(u, pw)
  <2>1. u \in DOMAIN user /\ user[u] \in AnyRow
    BY <1>1 DEF Where, UsersOK
  <2>2. user' = [user EXCEPT ![u] = SetOnline(user[u], o, a)]
    BY <1>1 DEF UpdateOnlineAndAddr
  <2>3. /\ DOMAIN user' = DOMAIN user
        /\ user'[u] = SetOnline(user[u], o, a)
        /\ \A v \in DOMAIN user : v # u => user'[v] = user[v]
    BY <2>1, <2>2
  <2>4. UsersOK'
    <3>1. SetOnline(user[u], o, a) \in AnyRow
      BY <2>1, SetOnlineRow
    <3>2. user' \in [DOMAIN user -> AnyRow]
      BY <2>2, <3>1 DEF UsersOK
    <3> QED BY <2>3, <3>2 DEF UsersOK
  <2>5. SetOnline(user[u], o, a) = user[u] => user' = user
    <3>1. user = [v \in DOMAIN user |-> user[v]]
      BY DEF UsersOK
    <3> QED BY <2>2, <3>1
  <2> QED BY <1>1, <2>1, <2>3, <2>4, <2>5, SetOnlineRow DEF OnlineChanges
<1>2. CASE ~Where(u, pw)
  BY <1>2 DEF UpdateOnlineAndAddr, UsersOK
<1> QED BY <1>1, <1>2
\* Steps that change neither who is logged in nor what the sessions look at.
LEMMA RowsKept ==
    ASSUME SInv, UsersOK', DOMAIN user' = DOMAIN user,
           \A u \in DOMAIN user : /\ user'[u].password = user[u].password
                                  /\ user'[u].online = user[u].online
                                  /\ user'[u].addr = user[u].addr,
           UNCHANGED <<next_uid, srvvars, clivars, abandoned>>
    PROVE  SInv'
BY DEF SInv, ServersOK, ClientsOK, HistoryOK, OpenIsAccepted, EndsAgree,
       SessionsAuthenticated, OnlineAddrIsLoggedIn, srvvars, clivars

LEMMA SConnect ==
    ASSUME SInv, NEW k \in Conns, NEW c \in Children, Connect(k, c)
    PROVE  SInv'
<1> USE DEF SInv
<1>1. UsersOK' /\ ClientsOK' /\ HistoryOK'
  BY DEF Connect, UsersOK, ClientsOK, HistoryOK, clivars, hisvars
<1>2. ServersOK'
  BY DEF Connect, ServersOK, UsersOK
<1>3. ~open[k]
  BY DEF Connect, OpenIsAccepted
<1>4. OpenIsAccepted'
  BY ConstantsAssumption DEF Connect, OpenIsAccepted, ServersOK, clivars
<1>5. ~if_login[k]
  BY <1>3 DEF OpenIsAccepted
<1>6. EndsAgree'
  BY <1>5 DEF Connect, ServersOK, EndsAgree, clivars
<1>7. SessionsAuthenticated'
  BY DEF Connect, ServersOK, SessionsAuthenticated
<1>8. OnlineAddrIsLoggedIn'
  BY <1>3 DEF Connect, ServersOK, OnlineAddrIsLoggedIn, hisvars
<1> QED
  BY <1>1, <1>2, <1>4, <1>6, <1>7, <1>8

LEMMA SRegistered ==
    ASSUME SInv, NEW k \in Conns, NEW pw \in Passwords, Registered(k, pw)
    PROVE  SInv'
<1> USE DEF SInv
<1>1. /\ next_uid \in Uids
      /\ next_uid' = next_uid + 1
      /\ DOMAIN user' = DOMAIN user \cup {next_uid}
      /\ \A u \in DOMAIN user : user'[u] = user[u]
      /\ user'[next_uid] \in AnyRow /\ user'[next_uid].online = 0
  BY DEF Registered, Insert, NextId, UsersOK, AnyRow, Uids
<1>2. UsersOK'
  <2>1. \A u \in DOMAIN user' : user'[u] \in AnyRow
    BY <1>1 DEF UsersOK
  <2>2. user' \in [DOMAIN user' -> AnyRow]
    BY <2>1 DEF Registered, Insert
  <2> QED BY <1>1, <2>2, ConstantsAssumption DEF UsersOK, Uids
<1>3. ServersOK' /\ ClientsOK' /\ HistoryOK' /\ OpenIsAccepted' /\ EndsAgree'
  BY <1>1
     DEF Registered, ServersOK, ClientsOK, HistoryOK, OpenIsAccepted, EndsAgree,
         UsersOK, srvvars, clivars, hisvars
<1>4. SessionsAuthenticated' /\ OnlineAddrIsLoggedIn'
  BY <1>1
     DEF Registered, ServersOK, UsersOK, SessionsAuthenticated,
         OnlineAddrIsLoggedIn, srvvars, hisvars
<1> QED BY <1>2, <1>3, <1>4

\* An update that changed nothing leaves the login where it was.
LEMMA SLogin ==
    ASSUME SInv, NEW k \in Conns, NEW u \in Uids, NEW pw \in Passwords,
           Login(k, u, pw)
    PROVE  SInv'
<1> USE DEF SInv
<1>1. open[k] /\ m_uid[k] = 0
  BY DEF Login, Served, EndsAgree
<1>2. UsersOK' /\ DOMAIN user' = DOMAIN user
  BY UpdateRows DEF Login, LoginCall
<1>3. \A v \in DOMAIN user : user'[v].password = user[v].password
  BY UpdateRows DEF Login, LoginCall
<1>4. CASE ~OnlineChanges(u, pw, 1, k)
  <2>1. user' = user
    BY <1>4, UpdateRows DEF Login, LoginCall
  <2>2. UNCHANGED <<m_uid, m_password, me, abandoned, if_login>>
    <3>1. UNCHANGED <<m_uid, m_password, me, abandoned>>
      BY <1>4 DEF Login, LoginCall, ClientLogin
    <3>2. /\ ~if_login[k]
          /\ if_login' = [if_login EXCEPT ![k] = OnlineChanges(u, pw, 1, k)]
      BY DEF Login
    <3>3. OnlineChanges(u, pw, 1, k) = FALSE
      BY <1>4 DEF OnlineChanges, Where
    <3>4. if_login' = if_login
      BY <3>2, <3>3 DEF ClientsOK
    <3> QED BY <3>1, <3>4
  <2> QED
    BY <1>2, <2>1, <2>2
       DEF Login, ServersOK, ClientsOK, HistoryOK, OpenIsAccepted, EndsAgree,
           SessionsAuthenticated, OnlineAddrIsLoggedIn
<1>5. CASE OnlineChanges(u, pw, 1, k)
  <2>1. u \in DOMAIN user /\ user[u].password = pw /\ u \in 1..(next_uid - 1)
    BY <1>5 DEF OnlineChanges, Where, UsersOK
  <2>2. /\ \A v \in DOMAIN user : v # u => user'[v] = user[v]
        /\ user'[u].online = 1 /\ user'[u].addr = k
    BY <1>5, UpdateRows DEF Login, LoginCall, OnlineChanges
  <2>3. /\ m_uid' = [m_uid EXCEPT ![k] = u]
        /\ m_password' = [m_password EXCEPT ![k] = pw]
        /\ me' = [me EXCEPT ![k] = [uid |-> u, password |-> pw]]
        /\ if_login' = [if_login EXCEPT ![k] = TRUE]
        /\ abandoned' = abandoned \ {u}
        /\ UNCHANGED <<next_uid, alive, child, open>>
    BY <1>5 DEF Login, LoginCall, ClientLogin
  <2>4. ServersOK' /\ ClientsOK' /\ HistoryOK'
    BY <2>1, <2>3 DEF ServersOK, ClientsOK, HistoryOK
  <2>5. OpenIsAccepted' /\ EndsAgree'
    BY <1>1, <2>1, <2>3 DEF ServersOK, ClientsOK, OpenIsAccepted, EndsAgree
  <2>6. SessionsAuthenticated'
    BY <1>2, <1>3, <2>1, <2>3 DEF ServersOK, SessionsAuthenticated
  <2>7. OnlineAddrIsLoggedIn'
    BY <1>1, <1>2, <2>1, <2>2, <2>3 DEF ServersOK, UsersOK, OnlineAddrIsLoggedIn
  <2> QED BY <1>2, <2>4, <2>5, <2>6, <2>7
<1> QED BY <1>4, <1>5

\* A session that ends with its row: the row goes offline, and no other row
\* that is online had the address of the session.
LEMMA SessionEnds ==
    ASSUME SInv, NEW k \in Conns, NEW u, NEW pw,
           u = m_uid[k], UpdateOnlineAndAddr(u, pw, 0, NoAddr),
           OnlineChanges(u, pw, 0, NoAddr), Forget(k),
           open' \in [Conns -> BOOLEAN],
           \A j \in Conns \ {k} : open'[j] = open[j],
           UNCHANGED <<next_uid, alive, child, abandoned>>
    PROVE  UsersOK' /\ ServersOK' /\ SessionsAuthenticated'
           /\ OnlineAddrIsLoggedIn'
<1> USE DEF SInv
<1>1. /\ UsersOK' /\ DOMAIN user' = DOMAIN user
      /\ \A v \in DOMAIN user : user'[v].password = user[v].password
      /\ \A v \in DOMAIN user : v # u => user'[v] = user[v]
      /\ user'[u].online = 0
  BY UpdateRows DEF OnlineChanges
<1>2. /\ m_uid' = [m_uid EXCEPT ![k] = 0]
      /\ m_password' = [m_password EXCEPT ![k] = NoPassword]
  BY DEF Forget
<1>3. ServersOK'
  BY <1>2 DEF ServersOK, UsersOK
<1>4. SessionsAuthenticated'
  BY <1>1, <1>2 DEF SessionsAuthenticated, ServersOK
<1>5. OnlineAddrIsLoggedIn'
  BY <1>1, <1>2 DEF OnlineAddrIsLoggedIn, ServersOK, UsersOK
<1> QED BY <1>1, <1>3, <1>4, <1>5

LEMMA SLogout ==
    ASSUME SInv, NEW k \in Conns, Logout(k)
    PROVE  SInv'
<1> USE DEF SInv
<1>1. /\ open[k] /\ if_login[k] /\ m_uid[k] # 0
      /\ me[k].uid = m_uid[k] /\ me[k].password = m_password[k]
  <2>1. open[k] /\ if_login[k]
    BY DEF Logout, Served
  <2>2. me[k] = [uid |-> m_uid[k], password |-> m_password[k]] /\ m_uid[k] # 0
    BY <2>1 DEF EndsAgree
  <2> QED BY <2>1, <2>2
<1> DEFINE u == me[k].uid
           pw == me[k].password
<1>2. CASE OnlineChanges(u, pw, 0, NoAddr)
  <2>1. /\ UpdateOnlineAndAddr(u, pw, 0, NoAddr) /\ Forget(k)
        /\ if_login' = [if_login EXCEPT ![k] = FALSE]
        /\ UNCHANGED <<next_uid, alive, child, open, me, abandoned>>
    BY <1>2 DEF Logout, LogoutCall, hisvars
  <2>2. UsersOK' /\ ServersOK' /\ SessionsAuthenticated' /\ OnlineAddrIsLoggedIn'
    <3> HIDE DEF u, pw
    <3>1. open' \in [Conns -> BOOLEAN] /\ \A j \in Conns \ {k} : open'[j] = open[j]
      BY <2>1 DEF ServersOK
    <3>2. u = m_uid[k]
      BY <1>1 DEF u
    <3> QED BY <1>2, <2>1, <3>1, <3>2, SessionEnds
  <2>3. ClientsOK' /\ HistoryOK' /\ OpenIsAccepted'
    BY <1>1, <2>1 DEF ClientsOK, HistoryOK, OpenIsAccepted
  <2>4. EndsAgree'
    BY <2>1 DEF EndsAgree, ServersOK, ClientsOK, Forget
  <2> QED BY <2>2, <2>3, <2>4
<1>3. CASE ~OnlineChanges(u, pw, 0, NoAddr)
  <2>1. user' = user
    BY <1>3, UpdateRows DEF Logout, LogoutCall
  <2>2. UNCHANGED <<m_uid, m_password, if_login>>
    BY <1>1, <1>3 DEF Logout, LogoutCall, ClientsOK
  <2> QED
    BY <2>1, <2>2
       DEF Logout, UsersOK, ServersOK, ClientsOK, HistoryOK, OpenIsAccepted,
           EndsAgree, SessionsAuthenticated, OnlineAddrIsLoggedIn, hisvars
<1> QED BY <1>2, <1>3

LEMMA SDisconnect ==
    ASSUME SInv, NEW k \in Conns, Disconnect(k)
    PROVE  SInv'
<1> USE DEF SInv
<1> DEFINE u == m_uid[k]
           pw == m_password[k]
<1>1. /\ open[k] /\ open' = [open EXCEPT ![k] = FALSE]
      /\ if_login' = [if_login EXCEPT ![k] = FALSE]
      /\ me' = [me EXCEPT ![k] = Nobody]
      /\ UNCHANGED <<next_uid, alive, child, abandoned>>
  BY DEF Disconnect, Served, hisvars
<1>2. ClientsOK' /\ HistoryOK' /\ OpenIsAccepted'
  BY <1>1 DEF ClientsOK, HistoryOK, OpenIsAccepted, ServersOK, Nobody
<1>3. /\ open' \in [Conns -> BOOLEAN]
      /\ \A j \in Conns \ {k} : open'[j] = open[j]
  BY <1>1 DEF ServersOK
<1>4. CASE OnlineChanges(u, pw, 0, NoAddr)
  <2>1. UpdateOnlineAndAddr(u, pw, 0, NoAddr) /\ Forget(k)
    BY <1>4 DEF Disconnect, LogoutCall
  <2>2. UsersOK' /\ ServersOK' /\ SessionsAuthenticated' /\ OnlineAddrIsLoggedIn'
    BY <1>1, <1>3, <1>4, <2>1, SessionEnds
  <2>3. EndsAgree'
    BY <1>1, <2>1 DEF EndsAgree, ServersOK, ClientsOK, Forget
  <2> QED BY <1>2, <2>2, <2>3
<1>5. CASE ~OnlineChanges(u, pw, 0, NoAddr)
  <2>1. user' = user
    BY <1>5, UpdateRows DEF Disconnect, LogoutCall
  <2>2. UNCHANGED <<m_uid, m_password>>
    BY <1>5 DEF Disconnect, LogoutCall
  <2>3. UsersOK' /\ ServersOK' /\ SessionsAuthenticated'
    BY <1>1, <1>3, <2>1, <2>2 DEF UsersOK, ServersOK, SessionsAuthenticated
  <2>4. EndsAgree'
    BY <1>1, <2>2 DEF EndsAgree, ServersOK, ClientsOK
  <2>5. ASSUME NEW v \in DOMAIN user, user[v].online = 1, user[v].addr = k,
               v \notin abandoned
        PROVE  FALSE
    <3>1. v = u
      BY <2>5 DEF OnlineAddrIsLoggedIn
    <3>2. v # 0 /\ user[v] \in AnyRow
      BY DEF UsersOK
    <3>3. Where(u, pw)
      BY <3>1, <3>2 DEF Where, SessionsAuthenticated
    <3>4. SetOnline(user[v], 0, NoAddr).online = 0
      BY <3>2, SetOnlineRow
    <3> QED BY <1>5, <2>5, <3>1, <3>3, <3>4 DEF OnlineChanges
  <2>6. OnlineAddrIsLoggedIn'
    BY <1>1, <2>1, <2>2, <2>5 DEF OnlineAddrIsLoggedIn, ServersOK
  <2> QED BY <1>2, <2>3, <2>4, <2>6
<1> QED BY <1>4, <1>5

LEMMA SDeleteUser ==
    ASSUME SInv, NEW k \in Conns, NEW u \in Uids, NEW pw \in Passwords,
           DeleteUser(k, u, pw)
    PROVE  SInv'
<1> USE DEF SInv
<1>1. /\ DOMAIN user' = DOMAIN user \ {u}
      /\ \A v \in DOMAIN user' : user'[v] = user[v]
      /\ user' \in [DOMAIN user' -> AnyRow]
  BY DEF DeleteUser, DeleteWhere, UsersOK
<1>2. UsersOK'
  BY <1>1 DEF DeleteUser, UsersOK
<1>3. ServersOK' /\ ClientsOK' /\ HistoryOK' /\ OpenIsAccepted' /\ EndsAgree'
  BY DEF DeleteUser, ServersOK, ClientsOK, HistoryOK, OpenIsAccepted, EndsAgree,
         srvvars, clivars, hisvars
<1>4. SessionsAuthenticated' /\ OnlineAddrIsLoggedIn'
  BY <1>1
     DEF DeleteUser, SessionsAuthenticated, OnlineAddrIsLoggedIn, srvvars, hisvars
<1> QED BY <1>2, <1>3, <1>4

\* The end of a child takes its sessions along, and notes whose they were.
LEMMA SChildEnds ==
    ASSUME SInv, NEW c \in Children, ChildEnds(c)
    PROVE  SInv'
<1> USE DEF SInv
<1>1. UsersOK' /\ ServersOK'
  BY DEF ChildEnds, UsersOK, ServersOK
<1>2. ClientsOK'
  BY DEF ChildEnds, ClientsOK, Nobody
<1>3. HistoryOK'
  <2>1. DOMAIN user \subseteq Uids
    BY ConstantsAssumption DEF UsersOK, Uids
  <2>2. abandoned' \subseteq abandoned \cup DOMAIN user
    BY DEF ChildEnds
  <2> QED BY <2>1, <2>2 DEF HistoryOK
<1>4. OpenIsAccepted' /\ EndsAgree' /\ SessionsAuthenticated'
  BY DEF ChildEnds, OpenIsAccepted, EndsAgree, SessionsAuthenticated
<1>5. OnlineAddrIsLoggedIn'
  BY DEF ChildEnds, OnlineAddrIsLoggedIn
<1> QED BY <1>1, <1>2, <1>3, <1>4, <1>5

LEMMA STick ==
    ASSUME SInv, Tick
    PROVE  SInv'
<1>1. /\ DOMAIN user' = DOMAIN user
      /\ UNCHANGED <<next_uid, srvvars, clivars, abandoned>>
  BY DEF Tick, hisvars
<1>2. \A u \in DOMAIN user :
          /\ user'[u] \in AnyRow
          /\ user'[u].password = user[u].password
          /\ user'[u].online = user[u].online
          /\ user'[u].addr = user[u].addr
  <2> SUFFICES ASSUME NEW u \in DOMAIN user
               PROVE  /\ user'[u] \in AnyRow
                      /\ user'[u].password = user[u].password
                      /\ user'[u].online = user[u].online
                      /\ user'[u].addr = user[u].addr
    OBVIOUS
  <2>1. PICK r \in AnyRow : r = user[u]
    BY DEF SInv, UsersOK
  <2>2. user'[u] = [r EXCEPT !.fresh = FALSE]
    BY <2>1 DEF Tick
  <2>3. /\ [r EXCEPT !.fresh = FALSE].password = r.password
        /\ [r EXCEPT !.fresh = FALSE].online = r.online
        /\ [r EXCEPT !.fresh = FALSE].addr = r.addr
    BY ONLY r \in AnyRow DEF AnyRow
  <2>4. [r EXCEPT !.fresh = FALSE] \in AnyRow
    BY ONLY r \in AnyRow DEF AnyRow
  <2> QED BY <2>1, <2>2, <2>3, <2>4
<1>3. user' \in [DOMAIN user -> AnyRow]
  BY <1>2 DEF Tick
<1>4. UsersOK'
  BY <1>1, <1>3 DEF SInv, UsersOK
<1> QED BY <1>1, <1>2, <1>4, RowsKept

-----------------------------------------------------------------------------
(* The invariant of the groups                                              *)

\* The user in whose create_group call child c is.
Creator(c) == me[creating[c].conn].uid

GroupsOf(u) == {g \in DOMAIN user_group : user_group[g] = u}

TablesOK ==
    /\ next_gid \in 1..(MaxGid + 1)
    /\ user_group \in [1..(next_gid - 1) -> 1..(next_uid - 1)]
    /\ creating \in [Children -> Creation \cup {Idle}]
    /\ torn \subseteq Uids

\* A create_group call belongs to a session of its child.
CallsHaveSessions ==
    \A c \in Children : creating[c] # Idle =>
        /\ open[creating[c].conn] /\ child[creating[c].conn] = c
        /\ m_uid[creating[c].conn] # 0

\* Of every row: the first three parts of GroupBookkeeping.
RowsCount ==
    \A u \in DOMAIN user :
        /\ user[u].c_group \subseteq GroupsOf(u)
        /\ user[u].c_group_num = Cardinality(user[u].c_group)
        /\ user[u].c_group_num <= GroupMax

\* What a call read before its insert stays true of the groups, and its new
\* group is none of them.
CallsCount ==
    \A c \in Children : creating[c] # Idle =>
        /\ creating[c].c_group \subseteq GroupsOf(Creator(c))
        /\ creating[c].c_group_num = Cardinality(creating[c].c_group)
        /\ creating[c].c_group_num < GroupMax
        /\ creating[c].step = "update" =>
              creating[c].gid \in GroupsOf(Creator(c)) \ creating[c].c_group

\* A user whose calls neither overlapped nor were cut short has one call at a
\* time, and what it read, with the group it made, is all there is.
AllListed ==
    \A u \in DOMAIN user \ torn :
        /\ \A c, d \in Children :
              creating[c] # Idle /\ creating[d] # Idle
                /\ Creator(c) = u /\ Creator(d) = u => c = d
        /\ ~GroupsUnderWay(u) => GroupsOf(u) \subseteq user[u].c_group
        /\ \A c \in Children : creating[c] # Idle /\ Creator(c) = u =>
              GroupsOf(u) \subseteq
                  creating[c].c_group \cup
                  (IF creating[c].step = "update" THEN {creating[c].gid} ELSE {})

GInv ==
    /\ TablesOK
    /\ CallsHaveSessions
    /\ RowsCount
    /\ CallsCount
    /\ AllListed

LEMMA GInit == Init => GInv
BY ConstantsAssumption
   DEF Init, GInv, TablesOK, CallsHaveSessions, RowsCount, CallsCount, AllListed,
       GroupsOf

\* What a child in a create_group call holds.
LEMMA CallTypes ==
    ASSUME TablesOK, NEW c \in Children, creating[c] # Idle
    PROVE  /\ creating[c] \in Creation
           /\ creating[c].conn \in Conns
           /\ creating[c].c_group_num \in 0..MaxGid
           /\ creating[c].c_group \subseteq Gids
           /\ creating[c].step \in {"insert", "update"}
           /\ creating[c].step = "update" => creating[c].gid \in Gids
<1>1. creating[c] \in Creation
  BY DEF TablesOK
<1> QED BY <1>1 DEF Creation

\* The connection of a call has a session, and its two ends agree.
LEMMA CallSessions ==
    ASSUME SInv, GInv, NEW c \in Children, creating[c] # Idle
    PROVE  /\ creating[c].conn \in Conns
           /\ open[creating[c].conn] /\ child[creating[c].conn] = c
           /\ Creator(c) = m_uid[creating[c].conn]
           /\ Creator(c) \in 1..(next_uid - 1)
           /\ me[creating[c].conn].password = m_password[creating[c].conn]
<1>1. creating[c].conn \in Conns
  BY CallTypes DEF GInv
<1>2. /\ open[creating[c].conn] /\ child[creating[c].conn] = c
      /\ m_uid[creating[c].conn] # 0
  BY DEF GInv, CallsHaveSessions
<1>3. /\ if_login[creating[c].conn]
      /\ me[creating[c].conn] = [uid |-> m_uid[creating[c].conn],
                                 password |-> m_password[creating[c].conn]]
  BY <1>1, <1>2 DEF SInv, EndsAgree
<1>4. m_uid[creating[c].conn] \in 0..(next_uid - 1)
  BY <1>1 DEF SInv, ServersOK
<1> QED BY <1>1, <1>2, <1>3, <1>4 DEF Creator, SInv, UsersOK

\* Steps that touch no group, no call and no connection in a call.
LEMMA GroupsKept ==
    ASSUME GInv, next_uid' \in Int, next_uid <= next_uid',
           DOMAIN user' \subseteq DOMAIN user,
           \A u \in DOMAIN user' : /\ user'[u].c_group = user[u].c_group
                                   /\ user'[u].c_group_num = user[u].c_group_num,
           \A c \in Children : creating[c] # Idle =>
               /\ open'[creating[c].conn] /\ child'[creating[c].conn] = c
               /\ m_uid'[creating[c].conn] # 0
               /\ me'[creating[c].conn] = me[creating[c].conn],
           next_uid \in Int,
           UNCHANGED <<user_group, next_gid, creating, torn>>
    PROVE  GInv'
<1> USE DEF GInv
<1>1. \A c \in Children : creating[c] # Idle => Creator(c)' = Creator(c)
  BY DEF Creator
<1>2. \A u : GroupsOf(u)' = GroupsOf(u) /\ (GroupsUnderWay(u)' <=> GroupsUnderWay(u))
  BY DEF GroupsOf, GroupsUnderWay
<1>3. TablesOK'
  <2>1. 1..(next_uid - 1) \subseteq 1..(next_uid' - 1)
    OBVIOUS
  <2> QED BY <2>1 DEF TablesOK
<1>4. CallsHaveSessions'
  BY DEF CallsHaveSessions
<1>5. RowsCount'
  BY <1>2 DEF RowsCount
<1>6. CallsCount'
  BY <1>1, <1>2 DEF CallsCount
<1>7. AllListed'
  BY <1>1, <1>2 DEF AllListed
<1> QED BY <1>3, <1>4, <1>5, <1>6, <1>7

\* No event of a connection that its child can look at is of one in a call.
LEMMA NotInACall ==
    ASSUME SInv, GInv, NEW k \in Conns, Served(k) \/ child[k] = NoChild,
           NEW c \in Children, creating[c] # Idle
    PROVE  creating[c].conn # k
BY CallSessions, ConstantsAssumption DEF Served

LEMMA GSessionSteps ==
    ASSUME SInv, GInv, NEW k \in Conns, Served(k) \/ child[k] = NoChild,
           UNCHANGED <<next_uid, user_group, next_gid, creating, torn>>,
           DOMAIN user' \subseteq DOMAIN user,
           \A u \in DOMAIN user' : /\ user'[u].c_group = user[u].c_group
                                   /\ user'[u].c_group_num = user[u].c_group_num,
           \A j \in Conns \ {k} :
               /\ open'[j] = open[j] /\ child'[j] = child[j]
               /\ m_uid'[j] = m_uid[j] /\ me'[j] = me[j]
    PROVE  GInv'
<1>1. \A c \in Children : creating[c] # Idle =>
          /\ open'[creating[c].conn] /\ child'[creating[c].conn] = c
          /\ m_uid'[creating[c].conn] # 0
          /\ me'[creating[c].conn] = me[creating[c].conn]
  <2> SUFFICES ASSUME NEW c \in Children, creating[c] # Idle
               PROVE  /\ open'[creating[c].conn] /\ child'[creating[c].conn] = c
                      /\ m_uid'[creating[c].conn] # 0
                      /\ me'[creating[c].conn] = me[creating[c].conn]
    OBVIOUS
  <2>1. creating[c].conn \in Conns \ {k}
    BY CallSessions, NotInACall
  <2> QED BY <2>1 DEF GInv, CallsHaveSessions
<1>2. next_uid \in Int
  BY DEF SInv, UsersOK
<1> QED BY <1>1, <1>2, GroupsKept

LEMMA GConnect ==
    ASSUME SInv, GInv, NEW k \in Conns, NEW c \in Children, Connect(k, c)
    PROVE  GInv'
<1>1. child[k] = NoChild
  BY DEF Connect
<1>2. UNCHANGED <<user, next_uid, user_group, next_gid, creating, torn, me>>
  BY DEF Connect, clivars, hisvars
<1>3. \A j \in Conns \ {k} : /\ open'[j] = open[j] /\ child'[j] = child[j]
                             /\ m_uid'[j] = m_uid[j]
  BY DEF Connect, SInv, ServersOK
<1> QED BY <1>1, <1>2, <1>3, GSessionSteps

LEMMA GLogin ==
    ASSUME SInv, GInv, NEW k \in Conns, NEW u \in Uids, NEW pw \in Passwords,
           Login(k, u, pw)
    PROVE  GInv'
<1>1. Served(k) /\ UNCHANGED <<next_uid, user_group, next_gid, creating, torn,
                              open, child>>
  BY DEF Login
<1>2. /\ DOMAIN user' = DOMAIN user
      /\ \A v \in DOMAIN user : /\ user'[v].c_group = user[v].c_group
                                /\ user'[v].c_group_num = user[v].c_group_num
  BY UpdateRows DEF Login, LoginCall, SInv
<1>3. \A j \in Conns \ {k} : m_uid'[j] = m_uid[j] /\ me'[j] = me[j]
  BY DEF Login, LoginCall, ClientLogin, SInv, ServersOK, ClientsOK
<1> QED BY <1>1, <1>2, <1>3, GSessionSteps

LEMMA GLogoutCall ==
    ASSUME SInv, GInv, NEW k \in Conns, NEW u, NEW pw, LogoutCall(k, u, pw),
           UNCHANGED next_uid
    PROVE  /\ DOMAIN user' = DOMAIN user
           /\ \A v \in DOMAIN user : /\ user'[v].c_group = user[v].c_group
                                     /\ user'[v].c_group_num = user[v].c_group_num
           /\ \A j \in Conns \ {k} : m_uid'[j] = m_uid[j]
<1>1. /\ DOMAIN user' = DOMAIN user
      /\ \A v \in DOMAIN user : /\ user'[v].c_group = user[v].c_group
                                /\ user'[v].c_group_num = user[v].c_group_num
  BY UpdateRows DEF LogoutCall, SInv
<1>2. \A j \in Conns \ {k} : m_uid'[j] = m_uid[j]
  BY DEF LogoutCall, Forget, SInv, ServersOK
<1> QED BY <1>1, <1>2

LEMMA GLogoutDisconnect ==
    ASSUME SInv, GInv, NEW k \in Conns, Logout(k) \/ Disconnect(k)
    PROVE  GInv'
<1>1. CASE Logout(k)
  <2>1. Served(k) /\ UNCHANGED <<next_uid, user_group, next_gid, creating, torn,
                                open, child, me>>
    BY <1>1 DEF Logout, hisvars
  <2>2. LogoutCall(k, me[k].uid, me[k].password)
    BY <1>1 DEF Logout
  <2> QED BY <2>1, <2>2, GLogoutCall, GSessionSteps
<1>2. CASE Disconnect(k)
  <2>1. Served(k) /\ UNCHANGED <<next_uid, user_group, next_gid, creating, torn,
                                child>>
    BY <1>2 DEF Disconnect, hisvars
  <2>2. LogoutCall(k, m_uid[k], m_password[k])
    BY <1>2 DEF Disconnect
  <2>3. \A j \in Conns \ {k} : open'[j] = open[j] /\ me'[j] = me[j]
    BY <1>2 DEF Disconnect, SInv, ServersOK, ClientsOK
  <2> QED BY <2>1, <2>2, <2>3, GLogoutCall, GSessionSteps
<1> QED BY <1>1, <1>2

LEMMA GDeleteUser ==
    ASSUME SInv, GInv, NEW k \in Conns, NEW u \in Uids, NEW pw \in Passwords,
           DeleteUser(k, u, pw)
    PROVE  GInv'
<1>1. Served(k) /\ UNCHANGED <<next_uid, user_group, next_gid, creating, torn,
                              open, child, m_uid, me>>
  BY DEF DeleteUser, srvvars, clivars, hisvars
<1>2. /\ DOMAIN user' \subseteq DOMAIN user
      /\ \A v \in DOMAIN user' : user'[v] = user[v]
  BY DEF DeleteUser, DeleteWhere
<1> QED BY <1>1, <1>2, GSessionSteps

LEMMA GTick ==
    ASSUME SInv, GInv, Tick
    PROVE  GInv'
<1>1. UNCHANGED <<next_uid, user_group, next_gid, creating, torn, open, child,
                  m_uid, me>>
  BY DEF Tick, srvvars, clivars, hisvars
<1>2. DOMAIN user' = DOMAIN user
  BY DEF Tick
<1>3. \A v \in DOMAIN user : /\ user'[v].c_group = user[v].c_group
                            /\ user'[v].c_group_num = user[v].c_group_num
  BY DEF Tick, SInv, UsersOK, AnyRow
<1>4. \A c \in Children : creating[c] # Idle =>
          /\ open[creating[c].conn] /\ child[creating[c].conn] = c
          /\ m_uid[creating[c].conn] # 0
  BY DEF GInv, CallsHaveSessions
<1>5. next_uid \in Int
  BY DEF SInv, UsersOK
<1> QED BY <1>1, <1>2, <1>3, <1>4, <1>5, GroupsKept

\* A new user has no groups and is in no call.
LEMMA GRegistered ==
    ASSUME SInv, GInv, NEW k \in Conns, NEW pw \in Passwords, Registered(k, pw)
    PROVE  GInv'
<1> DEFINE n == next_uid
<1>1. UNCHANGED <<user_group, next_gid, creating, torn, open, child, m_uid, me>>
  BY DEF Registered, srvvars, clivars, hisvars
<1>2. /\ n \in Int /\ n \in 1..(MaxUid + 1) /\ next_uid' = n + 1
      /\ DOMAIN user' = DOMAIN user \cup {n}
      /\ n \notin DOMAIN user
      /\ \A v \in DOMAIN user : user'[v] = user[v]
      /\ user'[n].c_group = {} /\ user'[n].c_group_num = 0
  BY ConstantsAssumption DEF Registered, Insert, NextId, SInv, UsersOK
<1>3. \A u : GroupsOf(u)' = GroupsOf(u) /\ (GroupsUnderWay(u)' <=> GroupsUnderWay(u))
  BY <1>1 DEF GroupsOf, GroupsUnderWay
<1>4. \A c \in Children : Creator(c)' = Creator(c)
  BY <1>1 DEF Creator
<1>5. GroupsOf(n) = {}
  BY <1>2 DEF GroupsOf, GInv, TablesOK
<1>6. \A c \in Children : creating[c] # Idle => Creator(c) # n
  BY <1>2, CallSessions
<1>7. TablesOK'
  <2>1. 1..(n - 1) \subseteq 1..(next_uid' - 1)
    BY <1>2
  <2> QED BY <1>1, <2>1 DEF GInv, TablesOK
<1>8. CallsHaveSessions'
  BY <1>1 DEF GInv, CallsHaveSessions
<1>9. RowsCount'
  BY <1>2, <1>3, <1>5, FS_EmptySet, ConstantsAssumption DEF GInv, RowsCount
<1>10. CallsCount'
  BY <1>1, <1>3, <1>4 DEF GInv, CallsCount
<1>11. AllListed'
  BY <1>1, <1>2, <1>3, <1>4, <1>5, <1>6 DEF GInv, AllListed
<1> QED BY <1>7, <1>8, <1>9, <1>10, <1>11 DEF GInv

\* A child that ends in a call puts the call's user in torn; the calls of the
\* other children go on.
LEMMA GChildEnds ==
    ASSUME SInv, GInv, NEW c \in Children, ChildEnds(c)
    PROVE  GInv'
<1>1. /\ UNCHANGED <<user, next_uid, user_group, next_gid, child>>
      /\ creating' = [creating EXCEPT ![c] = Idle]
      /\ torn \subseteq torn'
      /\ creating[c] # Idle => Creator(c) \in torn'
  BY DEF ChildEnds, Creator
<1>2. \A d \in Children : creating'[d] # Idle =>
          d # c /\ creating'[d] = creating[d] /\ creating[d] # Idle
  BY <1>1 DEF GInv, TablesOK
<1>3. ASSUME NEW d \in Children, creating'[d] # Idle
      PROVE  /\ Creator(d)' = Creator(d)
             /\ open'[creating[d].conn] /\ child[creating[d].conn] = d
             /\ m_uid'[creating[d].conn] # 0
  <2>1. d # c /\ creating'[d] = creating[d] /\ creating[d] # Idle
    BY <1>2, <1>3
  <2>2. /\ creating[d].conn \in Conns /\ open[creating[d].conn]
        /\ child[creating[d].conn] = d
        /\ m_uid[creating[d].conn] # 0
    BY <2>1, CallSessions DEF GInv, CallsHaveSessions
  <2>3. /\ me'[creating[d].conn] = me[creating[d].conn]
        /\ open'[creating[d].conn]
        /\ m_uid'[creating[d].conn] = m_uid[creating[d].conn]
    BY <2>1, <2>2 DEF ChildEnds
  <2> QED BY <2>1, <2>2, <2>3 DEF Creator
<1>4. \A u : GroupsOf(u)' = GroupsOf(u)
  BY <1>1 DEF GroupsOf
<1>5. TablesOK'
  <2>1. creating[c] # Idle => Creator(c) \in Uids
    BY CallSessions, ConstantsAssumption DEF SInv, UsersOK, Uids
  <2>2. torn' \subseteq Uids
    BY <2>1 DEF ChildEnds, Creator, GInv, TablesOK
  <2>3. creating' \in [Children -> Creation \cup {Idle}]
    BY <1>1 DEF GInv, TablesOK
  <2> QED BY <1>1, <2>2, <2>3 DEF GInv, TablesOK
<1>6. CallsHaveSessions'
  BY <1>1, <1>2, <1>3 DEF CallsHaveSessions
<1>7. RowsCount'
  BY <1>1, <1>4 DEF GInv, RowsCount
<1>8. CallsCount'
  BY <1>2, <1>3, <1>4 DEF GInv, CallsCount
<1>9. AllListed'
  <2> SUFFICES ASSUME NEW u \in DOMAIN user \ torn'
               PROVE  /\ \A d, e \in Children :
                            creating'[d] # Idle /\ creating'[e] # Idle
                              /\ Creator(d)' = u /\ Creator(e)' = u => d = e
                      /\ ~GroupsUnderWay(u)' => GroupsOf(u)' \subseteq user[u].c_group
                      /\ \A d \in Children : creating'[d] # Idle /\ Creator(d)' = u =>
                            GroupsOf(u)' \subseteq
                              creating'[d].c_group \cup
                              (IF creating'[d].step = "update"
                                 THEN {creating'[d].gid} ELSE {})
    BY <1>1 DEF AllListed
  <2>1. u \in DOMAIN user \ torn
    BY <1>1
  <2>2. \A d, e \in Children :
            creating'[d] # Idle /\ creating'[e] # Idle
              /\ Creator(d)' = u /\ Creator(e)' = u => d = e
    BY <1>2, <1>3, <2>1 DEF GInv, AllListed
  <2>3. ~GroupsUnderWay(u)' => ~GroupsUnderWay(u)
    <3> SUFFICES ASSUME NEW d \in Children, creating[d] # Idle,
                        me[creating[d].conn].uid = u
                 PROVE  GroupsUnderWay(u)'
      BY DEF GroupsUnderWay
    <3>1. d # c
      BY <1>1 DEF Creator
    <3>2. creating'[d] = creating[d]
      BY <1>1, <3>1 DEF GInv, TablesOK
    <3>3. Creator(d)' = u
      BY <1>3, <3>2 DEF Creator
    <3> QED BY <3>2, <3>3 DEF Creator, GroupsUnderWay
  <2>4. ~GroupsUnderWay(u)' => GroupsOf(u)' \subseteq user[u].c_group
    BY <1>4, <2>1, <2>3 DEF GInv, AllListed
  <2>5. \A d \in Children : creating'[d] # Idle /\ Creator(d)' = u =>
            GroupsOf(u)' \subseteq
              creating'[d].c_group \cup
              (IF creating'[d].step = "update" THEN {creating'[d].gid} ELSE {})
    BY <1>2, <1>3, <1>4, <2>1 DEF GInv, AllListed
  <2> QED BY <2>2, <2>4, <2>5
<1> QED BY <1>5, <1>6, <1>7, <1>8, <1>9 DEF GInv

\* How many groups a row or a call can list.
LEMMA GidsCount ==
    ASSUME NEW S \in SUBSET Gids
    PROVE  /\ IsFiniteSet(S) /\ Cardinality(S) \in 0..MaxGid
           /\ \A g : g \notin S => Cardinality(S \cup {g}) = Cardinality(S) + 1
<1>1. IsFiniteSet(Gids) /\ Cardinality(Gids) = MaxGid
  BY FS_Interval, ConstantsAssumption DEF Gids
<1>2. IsFiniteSet(S) /\ Cardinality(S) <= Cardinality(Gids)
  BY <1>1, FS_Subset
<1>3. Cardinality(S) \in Nat
  BY <1>2, FS_CardinalityType
<1> QED BY <1>1, <1>2, <1>3, FS_AddElement, ConstantsAssumption

LEMMA CreateGroupSelectSteps ==
    ASSUME SInv, GInv, NEW k \in Conns, CreateGroupSelect(k)
    PROVE  SInv' /\ GInv'
<1>a. PICK u : u = me[k].uid
  OBVIOUS
<1>b. PICK c : c = child[k]
  OBVIOUS
<1>1. /\ UNCHANGED <<user, next_uid, user_group, next_gid, srvvars, clivars,
                     abandoned>>
      /\ open[k] /\ if_login[k] /\ creating[c] = Idle
      /\ u \in DOMAIN user /\ user[u].c_group_num < GroupMax
  BY <1>a, <1>b DEF CreateGroupSelect, Served, UnderQuota
<1>2. u = m_uid[k] /\ u # 0
  <2>1. me[k] = [uid |-> m_uid[k], password |-> m_password[k]] /\ m_uid[k] # 0
    BY <1>1 DEF SInv, EndsAgree
  <2> QED BY <1>a, <2>1
<1>3. c \in Children
  BY <1>1, <1>b DEF SInv, ServersOK, OpenIsAccepted
<1>4. SInv'
  <2>1. UsersOK'
    BY <1>1 DEF SInv, UsersOK
  <2> QED BY <1>1, <2>1, RowsKept
<1>5. /\ user[u].c_group \in SUBSET Gids
      /\ user[u].c_group \subseteq GroupsOf(u)
      /\ user[u].c_group_num = Cardinality(user[u].c_group)
  BY <1>1 DEF SInv, UsersOK, AnyRow, GInv, RowsCount
<1> DEFINE new == [step |-> "insert", conn |-> k,
                   c_group_num |-> user[u].c_group_num,
                   c_group |-> user[u].c_group]
<1>6. new \in Creation /\ new # Idle
  BY <1>5, GidsCount DEF Creation, Idle
<1>7. creating' = [creating EXCEPT ![c] = new]
  BY <1>a, <1>b DEF CreateGroupSelect
<1> HIDE DEF new
<1>8. /\ creating' \in [Children -> Creation \cup {Idle}]
      /\ creating'[c] = new
      /\ \A d \in Children \ {c} : creating'[d] = creating[d]
  BY <1>3, <1>6, <1>7 DEF GInv, TablesOK
<1>9. /\ new.conn = k /\ new.step = "insert"
      /\ new.c_group_num = user[u].c_group_num
      /\ new.c_group = user[u].c_group
  BY DEF new
<1>10. Creator(c)' = u /\ \A d \in Children \ {c} : Creator(d)' = Creator(d)
  BY <1>1, <1>8, <1>9, <1>a DEF Creator, clivars
<1>11. \A v : GroupsOf(v)' = GroupsOf(v)
  BY <1>1 DEF GroupsOf
<1>12. /\ torn \subseteq torn' /\ torn' \subseteq torn \cup {u}
       /\ u \notin torn' => ~GroupsUnderWay(u)
  BY <1>a DEF CreateGroupSelect
<1>13. TablesOK'
  <2>1. u \in Uids
    BY <1>1, ConstantsAssumption DEF SInv, UsersOK, Uids
  <2> QED BY <1>1, <1>8, <1>12, <2>1 DEF GInv, TablesOK
<1>14. CallsHaveSessions'
  BY <1>1, <1>2, <1>8, <1>9, <1>b DEF GInv, CallsHaveSessions, srvvars
<1>15. RowsCount'
  BY <1>1, <1>11 DEF GInv, RowsCount
<1>16. CallsCount'
  BY <1>1, <1>5, <1>8, <1>9, <1>10, <1>11 DEF GInv, CallsCount
<1>17. AllListed'
  <2> SUFFICES ASSUME NEW v \in DOMAIN user \ torn'
               PROVE  /\ \A d, e \in Children :
                            creating'[d] # Idle /\ creating'[e] # Idle
                              /\ Creator(d)' = v /\ Creator(e)' = v => d = e
                      /\ ~GroupsUnderWay(v)' => GroupsOf(v) \subseteq user[v].c_group
                      /\ \A d \in Children : creating'[d] # Idle /\ Creator(d)' = v =>
                            GroupsOf(v) \subseteq
                              creating'[d].c_group \cup
                              (IF creating'[d].step = "update"
                                 THEN {creating'[d].gid} ELSE {})
    BY <1>1, <1>11 DEF AllListed
  <2>1. v \in DOMAIN user \ torn
    BY <1>12
  <2>2. v = u => \A d \in Children : creating[d] # Idle => Creator(d) # u
    BY <1>12 DEF GroupsUnderWay, Creator
  <2>3. \A d, e \in Children :
            creating'[d] # Idle /\ creating'[e] # Idle
              /\ Creator(d)' = v /\ Creator(e)' = v => d = e
    BY <1>8, <1>10, <2>1, <2>2 DEF GInv, AllListed
  <2>4. ~GroupsUnderWay(v)' => ~GroupsUnderWay(v)
    BY <1>1, <1>8, <1>10 DEF GroupsUnderWay, Creator
  <2>5. ~GroupsUnderWay(v) => GroupsOf(v) \subseteq user[v].c_group
    BY <2>1 DEF GInv, AllListed
  <2>6. ASSUME NEW d \in Children, creating'[d] # Idle, Creator(d)' = v
        PROVE  GroupsOf(v) \subseteq
                 creating'[d].c_group \cup
                 (IF creating'[d].step = "update" THEN {creating'[d].gid} ELSE {})
    <3>1. CASE d = c
      BY <1>8, <1>9, <1>10, <1>12, <2>5, <2>6, <3>1
    <3>2. CASE d # c
      BY <1>8, <1>10, <2>1, <2>6, <3>2 DEF GInv, AllListed
    <3> QED BY <3>1, <3>2
  <2> QED BY <2>3, <2>4, <2>5, <2>6
<1> QED BY <1>4, <1>13, <1>14, <1>15, <1>16, <1>17 DEF GInv

LEMMA CreateGroupInsertSteps ==
    ASSUME SInv, GInv, NEW c \in Children, CreateGroupInsert(c)
    PROVE  SInv' /\ GInv'
<1>a. PICK r : r = creating[c]
  OBVIOUS
<1>b. PICK u : u = Creator(c)
  OBVIOUS
<1>c. PICK n : n = next_gid
  OBVIOUS
<1> DEFINE new == [step |-> "update", conn |-> r.conn,
                   c_group_num |-> r.c_group_num, c_group |-> r.c_group,
                   gid |-> n]
<1>1. /\ UNCHANGED <<user, next_uid, srvvars, clivars, abandoned, torn>>
      /\ n \in Gids /\ next_gid' = n + 1
      /\ r.step = "insert" /\ r # Idle
      /\ creating' = [creating EXCEPT ![c] = new]
      /\ user_group' = [g \in 1..n |-> IF g = n THEN u ELSE user_group[g]]
  BY <1>a, <1>b, <1>c
     DEF CreateGroupInsert, NextId, Idle, Creator, hisvars, GInv, TablesOK, Gids
<1>2. SInv'
  <2>1. UsersOK'
    BY <1>1 DEF SInv, UsersOK
  <2> QED BY <1>1, <2>1, RowsKept
<1>3. /\ r \in Creation /\ r.conn \in Conns
      /\ r.c_group_num \in 0..MaxGid /\ r.c_group \in SUBSET Gids
  BY <1>1, <1>a, CallTypes DEF GInv
<1>4. /\ u \in 1..(next_uid - 1)
      /\ open[r.conn] /\ child[r.conn] = c /\ m_uid[r.conn] # 0
      /\ r.c_group \subseteq GroupsOf(u)
      /\ r.c_group_num = Cardinality(r.c_group)
      /\ r.c_group_num < GroupMax
  BY <1>1, <1>a, <1>b, CallSessions DEF GInv, CallsHaveSessions, CallsCount
<1>5. new \in Creation /\ new # Idle
  BY <1>1, <1>3 DEF Creation, Idle
<1>6. /\ new.conn = r.conn /\ new.step = "update" /\ new.gid = n
      /\ new.c_group_num = r.c_group_num /\ new.c_group = r.c_group
  OBVIOUS
<1> HIDE DEF new
<1>7. /\ creating' \in [Children -> Creation \cup {Idle}]
      /\ creating'[c] = new
      /\ \A d \in Children \ {c} : creating'[d] = creating[d]
      /\ \A d \in Children : creating'[d] # Idle <=> creating[d] # Idle
  BY <1>1, <1>5, <1>a DEF GInv, TablesOK
<1>8. \A d \in Children : Creator(d)' = Creator(d)
  BY <1>1, <1>6, <1>7, <1>a DEF Creator, clivars
<1>9. /\ GroupsOf(u)' = GroupsOf(u) \cup {n}
      /\ n \notin GroupsOf(u)
      /\ \A v : v # u => GroupsOf(v)' = GroupsOf(v)
  <2>1. DOMAIN user_group = 1..(n - 1) /\ n \in Nat /\ n >= 1
    BY <1>c DEF GInv, TablesOK
  <2>2. 1..n = 1..(n - 1) \cup {n} /\ n \notin 1..(n - 1)
    BY <2>1
  <2> QED BY <1>1, <2>1, <2>2 DEF GroupsOf
<1>10. \A v : GroupsUnderWay(v)' <=> GroupsUnderWay(v)
  BY <1>7, <1>8 DEF GroupsUnderWay, Creator
<1>11. TablesOK'
  <2>1. user_group' \in [1..(next_gid' - 1) -> 1..(next_uid - 1)]
    BY <1>1, <1>4, <1>c DEF GInv, TablesOK, Gids
  <2>2. next_gid' \in 1..(MaxGid + 1)
    BY <1>1, ConstantsAssumption DEF Gids
  <2> QED BY <1>1, <1>7, <2>1, <2>2 DEF GInv, TablesOK
<1>12. CallsHaveSessions'
  BY <1>1, <1>4, <1>6, <1>7 DEF GInv, CallsHaveSessions, srvvars
<1>13. RowsCount'
  BY <1>1, <1>9 DEF GInv, RowsCount
<1>14. CallsCount'
  BY <1>4, <1>6, <1>7, <1>8, <1>9, <1>b DEF GInv, CallsCount
<1>15. AllListed'
  <2> SUFFICES ASSUME NEW v \in DOMAIN user \ torn
               PROVE  /\ \A d, e \in Children :
                            creating'[d] # Idle /\ creating'[e] # Idle
                              /\ Creator(d) = v /\ Creator(e) = v => d = e
                      /\ ~GroupsUnderWay(v) => GroupsOf(v)' \subseteq user[v].c_group
                      /\ \A d \in Children : creating'[d] # Idle /\ Creator(d) = v =>
                            GroupsOf(v)' \subseteq
                              creating'[d].c_group \cup
                              (IF creating'[d].step = "update"
                                 THEN {creating'[d].gid} ELSE {})
    BY <1>1, <1>8, <1>10 DEF AllListed
  <2>1. \A d, e \in Children :
            creating'[d] # Idle /\ creating'[e] # Idle
              /\ Creator(d) = v /\ Creator(e) = v => d = e
    BY <1>7 DEF GInv, AllListed
  <2>2. ~GroupsUnderWay(v) => v # u
    BY <1>1, <1>a, <1>b DEF GroupsUnderWay, Creator
  <2>3. ~GroupsUnderWay(v) => GroupsOf(v)' \subseteq user[v].c_group
    BY <1>9, <2>2 DEF GInv, AllListed
  <2>4. ASSUME NEW d \in Children, creating'[d] # Idle, Creator(d) = v
        PROVE  GroupsOf(v)' \subseteq
                 creating'[d].c_group \cup
                 (IF creating'[d].step = "update" THEN {creating'[d].gid} ELSE {})
    <3>1. CASE d = c
      <4>1. v = u /\ creating[d] = r /\ creating[d] # Idle
        BY <1>1, <1>a, <1>b, <2>4, <3>1
      <4>2. GroupsOf(v) \subseteq r.c_group
        BY <1>1, <2>4, <4>1 DEF GInv, AllListed
      <4> QED BY <1>6, <1>7, <1>9, <3>1, <4>1, <4>2
    <3>2. CASE d # c
      <4>1. v # u
        BY <1>1, <1>7, <1>a, <1>b, <2>1, <2>4, <3>2
      <4>2. creating'[d] = creating[d] /\ creating[d] # Idle
        BY <1>7, <2>4, <3>2
      <4> QED BY <1>9, <2>4, <4>1, <4>2 DEF GInv, AllListed
    <3> QED BY <3>1, <3>2
  <2> QED BY <2>1, <2>3, <2>4
<1> QED BY <1>2, <1>11, <1>12, <1>13, <1>14, <1>15 DEF GInv

LEMMA CreateGroupUpdateSteps ==
    ASSUME SInv, GInv, NEW c \in Children, CreateGroupUpdate(c)
    PROVE  SInv' /\ GInv'
<1>a. PICK r : r = creating[c]
  OBVIOUS
<1>b. PICK u : u = Creator(c)
  OBVIOUS
<1>c. PICK pw : pw = me[r.conn].password
  OBVIOUS
<1>1. /\ UNCHANGED <<next_uid, user_group, next_gid, srvvars, clivars,
                     abandoned, torn>>
      /\ r.step = "update" /\ r # Idle
      /\ creating' = [creating EXCEPT ![c] = Idle]
      /\ user' = IF Where(u, pw) THEN [user EXCEPT ![u] = AddGroup(user[u], r)]
                                 ELSE user
  BY <1>a, <1>b, <1>c DEF CreateGroupUpdate, Idle, Creator, hisvars
<1>2. /\ r.conn \in Conns
      /\ r.c_group_num \in 0..MaxGid
      /\ r.c_group \in SUBSET Gids /\ r.gid \in Gids
  BY <1>1, <1>a, CallTypes DEF GInv
<1>3. /\ u = m_uid[r.conn] /\ u \in 1..(next_uid - 1) /\ u # 0
      /\ pw = m_password[r.conn]
  BY <1>1, <1>a, <1>b, <1>c, CallSessions DEF GInv, CallsHaveSessions
<1>4. u \in DOMAIN user => Where(u, pw)
  BY <1>2, <1>3 DEF SInv, SessionsAuthenticated, Where
<1>5. /\ r.c_group \subseteq GroupsOf(u)
      /\ r.c_group_num = Cardinality(r.c_group)
      /\ r.c_group_num < GroupMax
      /\ r.gid \in GroupsOf(u) \ r.c_group
  BY <1>1, <1>a, <1>b DEF GInv, CallsCount
<1>6. /\ DOMAIN user' = DOMAIN user
      /\ \A v \in DOMAIN user : v # u => user'[v] = user[v]
      /\ u \in DOMAIN user => user'[u] = AddGroup(user[u], r)
  BY <1>1, <1>4 DEF SInv, UsersOK
<1>7. u \in DOMAIN user =>
          /\ user'[u] \in AnyRow
          /\ user'[u].password = user[u].password
          /\ user'[u].online = user[u].online
          /\ user'[u].addr = user[u].addr
          /\ user'[u].c_group_num = r.c_group_num + 1
          /\ user'[u].c_group = r.c_group \cup {r.gid}
  <2> SUFFICES ASSUME u \in DOMAIN user
               PROVE  /\ user'[u] \in AnyRow
                      /\ user'[u].password = user[u].password
                      /\ user'[u].online = user[u].online
                      /\ user'[u].addr = user[u].addr
                      /\ user'[u].c_group_num = r.c_group_num + 1
                      /\ user'[u].c_group = r.c_group \cup {r.gid}
    OBVIOUS
  <2>1. user[u] \in AnyRow
    BY DEF SInv, UsersOK
  <2>2. r.c_group \cup {r.gid} \in SUBSET Gids /\ r.c_group_num + 1 \in Int
    BY <1>2, ConstantsAssumption
  <2> QED BY <1>6, <2>1, <2>2 DEF AddGroup, AnyRow
<1>8. SInv'
  <2>1. user' \in [DOMAIN user -> AnyRow]
    <3>1. \A v \in DOMAIN user : user'[v] \in AnyRow
      BY <1>6, <1>7 DEF SInv, UsersOK
    <3>2. user' = [v \in DOMAIN user' |-> user'[v]]
      BY <1>1 DEF SInv, UsersOK
    <3> QED BY <1>6, <3>1, <3>2
  <2>2. UsersOK'
    BY <1>1, <1>6, <2>1 DEF SInv, UsersOK
  <2> QED BY <1>1, <1>6, <1>7, <2>2, RowsKept
<1>9. /\ creating' \in [Children -> Creation \cup {Idle}]
      /\ creating'[c] = Idle
      /\ \A d \in Children \ {c} : creating'[d] = creating[d]
  BY <1>1 DEF GInv, TablesOK
<1>10. \A d \in Children \ {c} : Creator(d)' = Creator(d)
  BY <1>1, <1>9 DEF Creator, clivars
<1>11. \A v : GroupsOf(v)' = GroupsOf(v)
  BY <1>1 DEF GroupsOf
<1>12. TablesOK'
  BY <1>1, <1>9 DEF GInv, TablesOK
<1>13. CallsHaveSessions'
  BY <1>1, <1>9 DEF GInv, CallsHaveSessions, srvvars
<1>14. RowsCount'
  <2>1. u \in DOMAIN user => user'[u].c_group_num = Cardinality(user'[u].c_group)
    BY <1>2, <1>5, <1>7, GidsCount
  <2>2. u \in DOMAIN user => user'[u].c_group_num <= GroupMax
    BY <1>2, <1>5, <1>7, ConstantsAssumption
  <2> QED BY <1>5, <1>6, <1>7, <1>11, <2>1, <2>2 DEF GInv, RowsCount
<1>15. CallsCount'
  BY <1>9, <1>10, <1>11 DEF GInv, CallsCount
<1>16. AllListed'
  <2> SUFFICES ASSUME NEW v \in DOMAIN user \ torn
               PROVE  /\ \A d, e \in Children :
                            creating'[d] # Idle /\ creating'[e] # Idle
                              /\ Creator(d)' = v /\ Creator(e)' = v => d = e
                      /\ ~GroupsUnderWay(v)' => GroupsOf(v) \subseteq user'[v].c_group
                      /\ \A d \in Children : creating'[d] # Idle /\ Creator(d)' = v =>
                            GroupsOf(v) \subseteq
                              creating'[d].c_group \cup
                              (IF creating'[d].step = "update"
                                 THEN {creating'[d].gid} ELSE {})
    BY <1>1, <1>6, <1>11 DEF AllListed
  <2>1. \A d \in Children : creating'[d] # Idle =>
            /\ d # c /\ creating'[d] = creating[d] /\ Creator(d)' = Creator(d)
    BY <1>9, <1>10
  <2>2. \A d, e \in Children :
            creating'[d] # Idle /\ creating'[e] # Idle
              /\ Creator(d)' = v /\ Creator(e)' = v => d = e
    BY <2>1 DEF GInv, AllListed
  <2>3. \A d \in Children : creating'[d] # Idle /\ Creator(d)' = v =>
            GroupsOf(v) \subseteq
              creating'[d].c_group \cup
              (IF creating'[d].step = "update" THEN {creating'[d].gid} ELSE {})
    BY <2>1 DEF GInv, AllListed
  <2>4. CASE v = u
    <3>1. GroupsOf(u) \subseteq r.c_group \cup {r.gid}
      BY <1>1, <1>a, <1>b, <2>4 DEF GInv, AllListed
    <3> QED BY <1>7, <2>2, <2>3, <2>4, <3>1
  <2>5. CASE v # u
    <3>1. GroupsUnderWay(v) => GroupsUnderWay(v)'
      BY <1>1, <1>9, <1>10, <1>b, <2>5 DEF GroupsUnderWay, Creator
    <3>2. ~GroupsUnderWay(v)' => GroupsOf(v) \subseteq user'[v].c_group
      BY <1>6, <2>5, <3>1 DEF GInv, AllListed
    <3> QED BY <2>2, <2>3, <3>2
  <2> QED BY <2>4, <2>5
<1> QED BY <1>8, <1>12, <1>13, <1>14, <1>15, <1>16 DEF GInv

-----------------------------------------------------------------------------
(* The theorems                                                             *)

\* The invariant of the sessions and that of the groups hold together: a call
\* writes the row of a session, and a session looks at no row in between.
THEOREM Invariant == Spec => [](SInv /\ GInv)
<1>1. Init => SInv /\ GInv
  BY SInit, GInit
<1>2. SInv /\ GInv /\ [Next]_vars => (SInv /\ GInv)'
  <2> SUFFICES ASSUME SInv, GInv, [Next]_vars
               PROVE  SInv' /\ GInv'
    OBVIOUS
  <2>1. CASE UNCHANGED vars
    <3>1. UsersOK'
      BY <2>1 DEF SInv, UsersOK, vars
    <3>2. UNCHANGED <<user, next_uid, srvvars, clivars, abandoned>>
      BY <2>1 DEF vars, srvvars, clivars, hisvars
    <3>3. SInv'
      BY <3>1, <3>2, RowsKept
    <3>4. GInv'
      BY <2>1 DEF vars, hisvars, GInv, TablesOK, CallsHaveSessions, RowsCount,
                  CallsCount, AllListed, GroupsOf, Creator, GroupsUnderWay
    <3> QED BY <3>3, <3>4
  <2>2. ASSUME NEW k \in Conns, NEW c \in Children, Connect(k, c)
        PROVE  SInv' /\ GInv'
    BY <2>2, SConnect, GConnect
  <2>3. ASSUME NEW k \in Conns, NEW pw \in Passwords, Registered(k, pw)
        PROVE  SInv' /\ GInv'
    BY <2>3, SRegistered, GRegistered
  <2>4. ASSUME NEW k \in Conns, NEW pw \in Passwords, NEW u \in Uids,
               Login(k, u, pw) \/ DeleteUser(k, u, pw)
        PROVE  SInv' /\ GInv'
    BY <2>4, SLogin, GLogin, SDeleteUser, GDeleteUser
  <2>5. ASSUME NEW k \in Conns, Logout(k) \/ Disconnect(k)
        PROVE  SInv' /\ GInv'
    BY <2>5, SLogout, SDisconnect, GLogoutDisconnect
  <2>6. ASSUME NEW k \in Conns, CreateGroupSelect(k)
        PROVE  SInv' /\ GInv'
    BY <2>6, CreateGroupSelectSteps
  <2>7. ASSUME NEW k \in Conns, CreateGroupSelectsNothing(k) \/ UserListFails(k)
        PROVE  SInv' /\ GInv'
    <3>1. child[k] \in Children
      BY <2>7 DEF CreateGroupSelectsNothing, UserListFails, Served, SInv,
                  ServersOK, OpenIsAccepted
    <3>2. ChildEnds(child[k])
      BY <2>7 DEF CreateGroupSelectsNothing, UserListFails
    <3> QED BY <3>1, <3>2, SChildEnds, GChildEnds
  <2>8. ASSUME NEW c \in Children, CreateGroupInsert(c) \/ CreateGroupUpdate(c)
        PROVE  SInv' /\ GInv'
    BY <2>8, CreateGroupInsertSteps, CreateGroupUpdateSteps
  <2>9. ASSUME NEW c \in Children, ChildExits(c)
        PROVE  SInv' /\ GInv'
    BY <2>9, SChildEnds, GChildEnds DEF ChildExits
  <2>10. ASSUME Tick PROVE SInv' /\ GInv'
    BY <2>10, STick, GTick
  <2> QED BY <2>1, <2>2, <2>3, <2>4, <2>5, <2>6, <2>7, <2>8, <2>9, <2>10 DEF Next
<1> QED BY <1>1, <1>2, PTL DEF Spec

\* The types of WorkServer's variables: no row counts more groups than exist.
THEOREM TypeCorrect == Spec => []TypeOK
<1>1. SInv /\ GInv => TypeOK
  <2> SUFFICES ASSUME SInv, GInv
               PROVE  TypeOK
    OBVIOUS
  <2>1. 1..(next_uid - 1) \subseteq Uids /\ 1..(next_gid - 1) \subseteq Gids
    BY ConstantsAssumption DEF SInv, UsersOK, GInv, TablesOK, Uids, Gids
  <2>2. DOMAIN user \subseteq Uids
    BY <2>1 DEF SInv, UsersOK
  <2>3. \A u \in DOMAIN user : user[u] \in Row
    <3> SUFFICES ASSUME NEW u \in DOMAIN user
                 PROVE  user[u] \in Row
      OBVIOUS
    <3>1. user[u] \in AnyRow
      BY DEF SInv, UsersOK
    <3>2. user[u].c_group \in SUBSET Gids
      BY <3>1 DEF AnyRow
    <3>3. user[u].c_group_num \in 0..MaxGid
      BY <3>2, GidsCount DEF GInv, RowsCount
    <3> QED BY <3>1, <3>3 DEF AnyRow, Row
  <2>4. 0..(next_uid - 1) \subseteq {0} \cup Uids
    BY <2>1 DEF SInv, UsersOK
  <2>5. m_uid \in [Conns -> {0} \cup Uids]
    BY <2>4 DEF SInv, ServersOK
  <2>6. /\ DOMAIN user_group = 1..(next_gid - 1)
        /\ \A g \in DOMAIN user_group : user_group[g] \in Uids
    BY <2>1 DEF GInv, TablesOK
  <2> QED
    BY <2>2, <2>3, <2>5, <2>6
       DEF TypeOK, SInv, UsersOK, ServersOK, ClientsOK, HistoryOK, GInv, TablesOK
<1> QED BY <1>1, Invariant, PTL

\* The address the table gives of an online user is that of an open connection
\* logged in as this user.
THEOREM AddressesAreLoggedIn == Spec => []OnlineAddrIsLoggedIn
BY Invariant, PTL DEF SInv

\* The client's interface and the server's object of a connection agree.
THEOREM TwoEndsAgree == Spec => []EndsAgree
BY Invariant, PTL DEF SInv

\* A session holds the password of its account for as long as both exist.
THEOREM Authenticated == Spec => []SessionsAuthenticated
BY Invariant, PTL DEF SInv

\* What a row says of its user's groups, however the calls interleave.
THEOREM Bookkeeping == Spec => []GroupBookkeeping
<1>1. SInv /\ GInv => GroupBookkeeping
  BY DEF GInv, RowsCount, AllListed, GroupsOf, GroupBookkeeping
<1> QED BY <1>1, Invariant, PTL

\* A logout or disconnection takes offline only the user of its session.
LEMMA LogoutEndsOwn ==
    ASSUME SInv, NEW k \in Conns, NEW v, NEW pw, v = m_uid[k],
           LogoutCall(k, v, pw), UNCHANGED next_uid,
           NEW u \in DOMAIN user, user[u].online = 1, user'[u].online = 0
    PROVE  m_uid[k] = u /\ m_uid'[k] = 0
<1>0. /\ UsersOK /\ UpdateOnlineAndAddr(v, pw, 0, NoAddr) /\ UNCHANGED next_uid
      /\ 0 \in {0, 1} /\ NoAddr \in Conns \cup {NoAddr}
  BY DEF LogoutCall, SInv
<1>1. \A w \in DOMAIN user : w # v => user'[w] = user[w]
  BY <1>0 DEF UpdateOnlineAndAddr
<1>2. ~OnlineChanges(v, pw, 0, NoAddr) => user' = user
  BY ONLY <1>0, UpdateRows, ZenonT(30)
<1>3. u = v /\ OnlineChanges(v, pw, 0, NoAddr)
  BY <1>1, <1>2
<1>4. m_uid' = [m_uid EXCEPT ![k] = 0]
  BY <1>3 DEF LogoutCall, Forget
<1> QED BY <1>3, <1>4 DEF SInv, ServersOK

\* A user goes offline only when a session of that user ends.
THEOREM OwnSessionsEnd == Spec => OnlyOwnSessionsEnd
<1> DEFINE Own == \A u \in DOMAIN user \cap DOMAIN user' :
                      user[u].online = 1 /\ user'[u].online = 0 =>
                          \E k \in Conns : m_uid[k] = u /\ m_uid'[k] = 0
<1>1. SInv /\ GInv /\ [Next]_vars => [Own]_vars
  <2> SUFFICES ASSUME SInv, GInv, Next,
                      NEW u \in DOMAIN user, u \in DOMAIN user',
                      user[u].online = 1, user'[u].online = 0
               PROVE  \E k \in Conns : m_uid[k] = u /\ m_uid'[k] = 0
    OBVIOUS
  <2>1. user' # user
    OBVIOUS
  <2>2. ASSUME NEW k \in Conns, Logout(k)
        PROVE  m_uid[k] = u /\ m_uid'[k] = 0
    <3>1. if_login[k] /\ open[k]
      BY <2>2 DEF Logout, Served
    <3>2. me[k] = [uid |-> m_uid[k], password |-> m_password[k]]
      BY <3>1 DEF SInv, EndsAgree
    <3>3. PICK v : v = me[k].uid
      OBVIOUS
    <3>4. v = m_uid[k] /\ LogoutCall(k, v, me[k].password) /\ UNCHANGED next_uid
      BY <2>2, <3>2, <3>3 DEF Logout
    <3> QED BY <3>4, LogoutEndsOwn
  <2>3. ASSUME NEW k \in Conns, Disconnect(k)
        PROVE  m_uid[k] = u /\ m_uid'[k] = 0
    BY <2>3, LogoutEndsOwn DEF Disconnect
  <2>4. ASSUME NEW k \in Conns, NEW c \in Children, Connect(k, c)
        PROVE  FALSE
    BY <2>1, <2>4 DEF Connect
  <2>5. ASSUME NEW k \in Conns, NEW pw \in Passwords, Registered(k, pw)
        PROVE  FALSE
    BY <2>5, ConstantsAssumption DEF Registered, Insert, SInv, UsersOK
  <2>6. ASSUME NEW k \in Conns, NEW pw \in Passwords, NEW v \in Uids,
               Login(k, v, pw)
        PROVE  FALSE
    BY <2>1, <2>6, UpdateRows DEF Login, LoginCall, SInv, OnlineChanges
  <2>7. ASSUME NEW k \in Conns, NEW pw \in Passwords, NEW v \in Uids,
               DeleteUser(k, v, pw)
        PROVE  FALSE
    BY <2>7 DEF DeleteUser, DeleteWhere
  <2>8. ASSUME NEW k \in Conns,
               \/ CreateGroupSelect(k) \/ CreateGroupSelectsNothing(k)
               \/ UserListFails(k)
        PROVE  FALSE
    BY <2>1, <2>8 DEF CreateGroupSelect, CreateGroupSelectsNothing,
                      UserListFails, ChildEnds
  <2>9. ASSUME NEW c \in Children, CreateGroupInsert(c) \/ ChildExits(c)
        PROVE  FALSE
    BY <2>1, <2>9 DEF CreateGroupInsert, ChildExits, ChildEnds
  <2>10. ASSUME NEW c \in Children, CreateGroupUpdate(c)
         PROVE  FALSE
    <3>1. user[u] \in AnyRow /\ user \in [DOMAIN user -> AnyRow]
      BY DEF SInv, UsersOK
    <3>2. PICK w, r : user' = user \/ user' = [user EXCEPT ![w] = AddGroup(@, r)]
      BY <2>10 DEF CreateGroupUpdate
    <3>3. user'[u] = user[u] \/ user'[u] = AddGroup(user[u], r)
      BY <3>1, <3>2
    <3>4. AddGroup(user[u], r).online = user[u].online
      BY <3>1 DEF AddGroup, AnyRow
    <3> QED BY <3>3, <3>4
  <2>11. ASSUME Tick PROVE FALSE
    BY <2>11 DEF Tick, SInv, UsersOK, AnyRow
  <2> QED
    BY <2>2, <2>3, <2>4, <2>5, <2>6, <2>7, <2>8, <2>9, <2>10, <2>11 DEF Next
<1> QED BY <1>1, Invariant, PTL DEF Spec, OnlyOwnSessionsEnd
=============================================================================
