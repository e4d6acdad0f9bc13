----------------------------- MODULE WorkServer -----------------------------
(***************************************************************************)
(* The business logic of a work server: the handlers of work_server.cpp,   *)
(* run by the children of the pool, over the tables user and user_group of *)
(* the database that all children share (mysql/user_table.h,               *)
(* mysql/group_table.h).  A handler runs to its end before its child looks *)
(* at the next event, and all but one issue a single SQL statement, so     *)
(* they are one action each; create_group issues three, and other children *)
(* run between them.  The client program waits for the answer to each      *)
(* request before it sends the next one, so what it does with the answer   *)
(* (client.cpp, client/main.cpp) belongs to the action of the handler.     *)
(*                                                                         *)
(* A connection stands for one run of the client program; its address      *)
(* (ip:port) is the connection itself.  Passwords and names that the       *)
(* client rejects before sending never arrive.                             *)
(***************************************************************************)
EXTENDS Integers, FiniteSets

CONSTANTS Conns,        \* runs of the client program
          Children,     \* child processes of the pool
          Passwords,
          MaxUid,       \* bound: accounts that can be registered
          MaxGid,       \* bound: groups that can be created
          GroupMax,     \* default of column c_group_num_max
          NoAddr,       \* the empty addr
          NoChild,      \* "not accepted": not a member of Children
          NoPassword    \* the empty password

ASSUME ConstantsAssumption ==
    /\ MaxUid \in Nat /\ MaxGid \in Nat /\ GroupMax \in Nat
    /\ NoAddr \notin Conns
    /\ NoChild \notin Children
    /\ NoPassword \notin Passwords

Uids == 1..MaxUid
Gids == 1..MaxGid

VARIABLES
    user,         \* table user: a row for every uid in its domain
    next_uid,     \* AUTO_INCREMENT of user
    user_group,   \* table user_group: its column c_id, by gid
    next_gid,     \* AUTO_INCREMENT of user_group
    alive,        \* alive[c]: child c runs
    child,        \* child[k]: the child that accepted k
    open,         \* open[k]: connection k is established
    m_uid,        \* m_uid[k], m_password[k]: the members of the work_server
    m_password,   \*     object of connection k
    creating,     \* creating[c]: where child c stands in create_group
    if_login,     \* if_login[k]: the client's user interface is logged in
    me,           \* me[k]: m_uid and m_password of the client object
    abandoned,    \* history: users whose login a child took along when it ended
    torn          \* history: users of whom two create_group calls overlapped,
                  \* or one was cut short by the end of its child

srvvars == <<alive, child, open, m_uid, m_password>>
clivars == <<if_login, me>>
hisvars == <<abandoned, torn>>
vars == <<user, next_uid, user_group, next_gid, alive, child, open, m_uid,
          m_password, creating, if_login, me, hisvars>>

Row == [password : Passwords, online : {0, 1}, addr : Conns \cup {NoAddr},
        fresh : BOOLEAN,            \* time is the current second
        c_group_num : 0..MaxGid, c_group : SUBSET Gids]

Idle == [step |-> "idle"]
Creation ==
    [step : {"insert"}, conn : Conns, c_group_num : 0..MaxGid,
     c_group : SUBSET Gids]
    \cup
    [step : {"update"}, conn : Conns, c_group_num : 0..MaxGid,
     c_group : SUBSET Gids, gid : Gids]

TypeOK ==
    /\ DOMAIN user \subseteq Uids
    /\ \A u \in DOMAIN user : user[u] \in Row
    /\ next_uid \in 1..(MaxUid + 1)
    /\ DOMAIN user_group = 1..(next_gid - 1)
    /\ \A g \in DOMAIN user_group : user_group[g] \in Uids
    /\ next_gid \in 1..(MaxGid + 1)
    /\ alive \in [Children -> BOOLEAN]
    /\ child \in [Conns -> Children \cup {NoChild}]
    /\ open \in [Conns -> BOOLEAN]
    /\ m_uid \in [Conns -> {0} \cup Uids]
    /\ m_password \in [Conns -> Passwords \cup {NoPassword}]
    /\ creating \in [Children -> Creation \cup {Idle}]
    /\ if_login \in [Conns -> BOOLEAN]
    /\ me \in [Conns -> [uid : {0} \cup Uids,
                         password : Passwords \cup {NoPassword}]]
    /\ abandoned \subseteq Uids
    /\ torn \subseteq Uids

Nobody == [uid |-> 0, password |-> NoPassword]

Init ==
    /\ user = [u \in {} |-> {}]
    /\ next_uid = 1
    /\ user_group = [g \in {} |-> 0]
    /\ next_gid = 1
    /\ alive = [c \in Children |-> TRUE]
    /\ child = [k \in Conns |-> NoChild]
    /\ open = [k \in Conns |-> FALSE]
    /\ m_uid = [k \in Conns |-> 0]
    /\ m_password = [k \in Conns |-> NoPassword]
    /\ creating = [c \in Children |-> Idle]
    /\ if_login = [k \in Conns |-> FALSE]
    /\ me = [k \in Conns |-> Nobody]
    /\ abandoned = {}
    /\ torn = {}

\* Connection k is open and the child that serves it is between two events.
Served(k) ==
    /\ open[k]
    /\ creating[child[k]] = Idle

-----------------------------------------------------------------------------
(* The tables                                                               *)

\* Faulty variant: the number is given out again.
NextIdAgain(n) == n

\* AUTO_INCREMENT after an insert that got number n.
NextId(n) == n + 1

\* Faulty variant: the statement does not ask for the password.
WhereUidOnly(u, pw) == u \in DOMAIN user

\* where uid = u && password = pw
Where(u, pw) == u \in DOMAIN user /\ user[u].password = pw

\* Faulty variant: a login keeps the address of an earlier one.
SetOnlineKeepsAddr(row, o, a) ==
    [row EXCEPT !.online = o, !.fresh = TRUE,
                !.addr = IF o = 1 /\ @ # NoAddr THEN @ ELSE a]

SetOnline(row, o, a) == [row EXCEPT !.online = o, !.addr = a, !.fresh = TRUE]

\* The database counts the rows an update changed, not the rows it matched.
OnlineChanges(u, pw, o, a) ==
    Where(u, pw) /\ SetOnline(user[u], o, a) # user[u]

\* user_table::update_online_and_addr
UpdateOnlineAndAddr(u, pw, o, a) ==
    user' = IF Where(u, pw) THEN [user EXCEPT ![u] = SetOnline(@, o, a)]
                            ELSE user

\* user_table::insert; the columns it does not name take their defaults.
Insert(pw) ==
    /\ next_uid <= MaxUid
    /\ user' = [u \in DOMAIN user \cup {next_uid} |->
                  IF u = next_uid
                    THEN [password |-> pw, online |-> 0, addr |-> NoAddr,
                          fresh |-> TRUE, c_group_num |-> 0, c_group |-> {}]
                    ELSE user[u]]
    /\ next_uid' = NextId(next_uid)

\* user_table::delete_where_uid_password, of a row that matches
DeleteWhere(u, pw) ==
    /\ Where(u, pw)
    /\ user' = [v \in DOMAIN user \ {u} |-> user[v]]

-----------------------------------------------------------------------------
(* Connections and sessions                                                 *)

\* The child accepts the connection: work_server::init.
Connect(k, c) ==
    /\ child[k] = NoChild
    /\ alive[c]
    /\ creating[c] = Idle
    /\ child' = [child EXCEPT ![k] = c]
    /\ open' = [open EXCEPT ![k] = TRUE]
    /\ m_uid' = [m_uid EXCEPT ![k] = 0]
    /\ m_password' = [m_password EXCEPT ![k] = NoPassword]
    /\ UNCHANGED <<user, next_uid, user_group, next_gid, alive, creating,
                   clivars, hisvars>>

\* A client that is not logged in registers an account.
Registered(k, pw) ==
    /\ Served(k)
    /\ ~if_login[k]
    /\ Insert(pw)
    /\ UNCHANGED <<user_group, next_gid, srvvars, creating, clivars, hisvars>>

\* work_server::login: the object remembers the account when the update
\* changed a row.  Nothing asks whether the user is online already.
LoginCall(k, u, pw) ==
    /\ UpdateOnlineAndAddr(u, pw, 1, k)
    /\ IF OnlineChanges(u, pw, 1, k)
         THEN /\ m_uid' = [m_uid EXCEPT ![k] = u]
              /\ m_password' = [m_password EXCEPT ![k] = pw]
         ELSE UNCHANGED <<m_uid, m_password>>

\* client::login, when the answer is ok
ClientLogin(k, u, pw, ok) ==
    me' = IF ok THEN [me EXCEPT ![k] = [uid |-> u, password |-> pw]] ELSE me

\* A client that is not logged in logs in; its interface follows the answer.
Login(k, u, pw) ==
    /\ Served(k)
    /\ ~if_login[k]
    /\ LoginCall(k, u, pw)
    /\ LET ok == OnlineChanges(u, pw, 1, k)
       IN /\ ClientLogin(k, u, pw, ok)
          /\ if_login' = [if_login EXCEPT ![k] = ok]
          /\ abandoned' = IF ok THEN abandoned \ {u} ELSE abandoned
    /\ UNCHANGED <<next_uid, user_group, next_gid, alive, child, open, creating,
                   torn>>

\* Faulty variant: the session survives its logout.
ForgetNothing(k) == UNCHANGED <<m_uid, m_password>>

Forget(k) ==
    /\ m_uid' = [m_uid EXCEPT ![k] = 0]
    /\ m_password' = [m_password EXCEPT ![k] = NoPassword]

\* work_server::logout with the message body u:pw
LogoutCall(k, u, pw) ==
    /\ UpdateOnlineAndAddr(u, pw, 0, NoAddr)
    /\ IF OnlineChanges(u, pw, 0, NoAddr)
         THEN Forget(k)
         ELSE UNCHANGED <<m_uid, m_password>>

\* The client asks to log out; its interface follows the answer.
Logout(k) ==
    /\ Served(k)
    /\ if_login[k]
    /\ LogoutCall(k, me[k].uid, me[k].password)
    /\ if_login' = [if_login EXCEPT
                      ![k] = ~OnlineChanges(me[k].uid, me[k].password, 0, NoAddr)]
    /\ UNCHANGED <<next_uid, user_group, next_gid, alive, child, open,
                   creating, me, hisvars>>

\* The client program is gone, with all it remembered: recv returns 0 or an
\* error; removefd, then logout.
Disconnect(k) ==
    /\ Served(k)
    /\ open' = [open EXCEPT ![k] = FALSE]
    /\ LogoutCall(k, m_uid[k], m_password[k])
    /\ if_login' = [if_login EXCEPT ![k] = FALSE]
    /\ me' = [me EXCEPT ![k] = Nobody]
    /\ UNCHANGED <<next_uid, user_group, next_gid, alive, child, creating,
                   hisvars>>

\* delete_user: whoever knows the password, whoever is logged in.
DeleteUser(k, u, pw) ==
    /\ Served(k)
    /\ ~if_login[k]
    /\ DeleteWhere(u, pw)
    /\ UNCHANGED <<next_uid, user_group, next_gid, srvvars, creating, clivars,
                   hisvars>>

-----------------------------------------------------------------------------
(* create_group: select, insert, update                                     *)

\* is_login
IsLogin(k, u, pw) == u # 0 /\ u = m_uid[k] /\ pw = m_password[k]

UnderQuota(row) == row.c_group_num < GroupMax

\* Some child is in a create_group call of user u.
GroupsUnderWay(u) ==
    \E c \in Children : creating[c] # Idle /\ me[creating[c].conn].uid = u

\* The child is gone with its work_server objects and connections.  Nothing
\* its clients still do reaches the tables: what they remember is dropped.
ChildEnds(c) ==
    /\ alive' = [alive EXCEPT ![c] = FALSE]
    /\ creating' = [creating EXCEPT ![c] = Idle]
    /\ open' = [k \in Conns |-> open[k] /\ child[k] # c]
    /\ abandoned' = abandoned \cup
         {u \in DOMAIN user : /\ user[u].online = 1
                              /\ open[user[u].addr]
                              /\ child[user[u].addr] = c}
    /\ torn' = torn \cup (IF creating[c] = Idle THEN {} ELSE {me[creating[c].conn].uid})
    /\ m_uid' = [k \in Conns |-> IF child[k] = c THEN 0 ELSE m_uid[k]]
    /\ m_password' = [k \in Conns |->
                        IF child[k] = c THEN NoPassword ELSE m_password[k]]
    /\ if_login' = [k \in Conns |-> if_login[k] /\ child[k] # c]
    /\ me' = [k \in Conns |-> IF child[k] = c THEN Nobody ELSE me[k]]
    /\ UNCHANGED <<user, next_uid, user_group, next_gid, child>>

\* The select finds the row: go on when it is under the quota, else answer 0.
CreateGroupSelect(k) ==
    /\ Served(k)
    /\ if_login[k]
    /\ IsLogin(k, me[k].uid, me[k].password)
    /\ me[k].uid \in DOMAIN user
    /\ UnderQuota(user[me[k].uid])
    /\ next_gid <= MaxGid
    /\ creating' = [creating EXCEPT ![child[k]] =
                      [step |-> "insert", conn |-> k,
                       c_group_num |-> user[me[k].uid].c_group_num,
                       c_group |-> user[me[k].uid].c_group]]
    /\ torn' = torn \cup (IF GroupsUnderWay(me[k].uid) THEN {me[k].uid} ELSE {})
    /\ UNCHANGED <<user, next_uid, user_group, next_gid, srvvars, clivars,
                   abandoned>>

\* The select finds no row: res[0][0] is read from an empty result, and the
\* child dies of it.
CreateGroupSelectsNothing(k) ==
    /\ Served(k)
    /\ if_login[k]
    /\ IsLogin(k, me[k].uid, me[k].password)
    /\ me[k].uid \notin DOMAIN user
    /\ ChildEnds(child[k])

\* user_list of a page below 1: the offset in the SQL text is negative, and
\* the child dies of the exception that search_limit lets through.
UserListFails(k) ==
    /\ Served(k)
    /\ if_login[k]
    /\ ChildEnds(child[k])

\* group_table::insert
CreateGroupInsert(c) ==
    /\ creating[c].step = "insert"
    /\ next_gid <= MaxGid
    /\ user_group' = [g \in 1..next_gid |->
                        IF g = next_gid THEN me[creating[c].conn].uid
                                        ELSE user_group[g]]
    /\ next_gid' = NextId(next_gid)
    /\ creating' = [creating EXCEPT ![c] =
                      [step |-> "update", conn |-> @.conn,
                       c_group_num |-> @.c_group_num, c_group |-> @.c_group,
                       gid |-> next_gid]]
    /\ UNCHANGED <<user, next_uid, srvvars, clivars, hisvars>>

\* Faulty variant: the number is taken from the row as it is now.
AddGroupToNumber(row, r) == [row EXCEPT !.c_group_num = @ + 1,
                                        !.c_group = r.c_group \cup {r.gid},
                                        !.fresh = TRUE]

AddGroup(row, r) == [row EXCEPT !.c_group_num = r.c_group_num + 1,
                                !.c_group = r.c_group \cup {r.gid},
                                !.fresh = TRUE]

\* user_table::update_c_group_num_and_c_group with what the select returned
CreateGroupUpdate(c) ==
    /\ creating[c].step = "update"
    /\ LET r == creating[c]
           who == me[r.conn]
       IN user' = IF Where(who.uid, who.password)
                    THEN [user EXCEPT ![who.uid] = AddGroup(@, r)]
                    ELSE user
    /\ creating' = [creating EXCEPT ![c] = Idle]
    /\ UNCHANGED <<next_uid, user_group, next_gid, srvvars, clivars, hisvars>>

-----------------------------------------------------------------------------
\* The second ends: no row's time is the current second any more.
Tick ==
    /\ \E u \in DOMAIN user : user[u].fresh
    /\ user' = [u \in DOMAIN user |-> [user[u] EXCEPT !.fresh = FALSE]]
    /\ UNCHANGED <<next_uid, user_group, next_gid, srvvars, creating, clivars,
                   hisvars>>

\* The child leaves run_child, or dies of an exception of the database
\* library between two statements: its connections close, nobody logs out.
ChildExits(c) == alive[c] /\ ChildEnds(c)

Next ==
    \/ \E k \in Conns :
          \/ \E c \in Children : Connect(k, c)
          \/ \E pw \in Passwords :
                \/ Registered(k, pw)
                \/ \E u \in Uids : Login(k, u, pw) \/ DeleteUser(k, u, pw)
          \/ Logout(k) \/ Disconnect(k)
          \/ CreateGroupSelect(k) \/ CreateGroupSelectsNothing(k)
          \/ UserListFails(k)
    \/ \E c \in Children :
          CreateGroupInsert(c) \/ CreateGroupUpdate(c) \/ ChildExits(c)
    \/ Tick

Spec == Init /\ [][Next]_vars

-----------------------------------------------------------------------------
(* Properties                                                               *)

\* The address of an online user, which obtain_client_addr hands to whoever
\* wants to chat, is that of an open connection logged in as this user, with
\* any number of logins of one account, of same-second logouts and of deleted
\* accounts; a child that ended with the session aside.
OnlineAddrIsLoggedIn ==
    \A u \in DOMAIN user : user[u].online = 1 =>
        \/ u \in abandoned
        \/ user[u].addr \in Conns /\ open[user[u].addr] /\ m_uid[user[u].addr] = u

\* The two ends of a connection agree on who is logged in: the interface
\* shows the menu of a logged-in user exactly when the server object has a
\* session, and both hold the same account and password, so that is_login
\* never refuses a request of a logged-in interface.
EndsAgree ==
    \A k \in Conns : open[k] =>
        /\ if_login[k] <=> m_uid[k] # 0
        /\ if_login[k] => me[k] = [uid |-> m_uid[k], password |-> m_password[k]]

\* A session was opened with the password of its account (login), and stays
\* so when accounts are deleted and registered meanwhile.
SessionsAuthenticated ==
    \A k \in Conns : (m_uid[k] # 0 /\ m_uid[k] \in DOMAIN user) =>
        user[m_uid[k]].password = m_password[k]

\* However create_group calls of one user interleave in different children,
\* and wherever a child ends, the row lists as many groups as it counts,
\* never more than its maximum, and only groups this user created.  It lists
\* all of them, unless two of the calls overlapped or a child ended in one
\* (create_group writes back what it read before the insert).
GroupBookkeeping ==
    \A u \in DOMAIN user :
        /\ user[u].c_group_num = Cardinality(user[u].c_group)
        /\ user[u].c_group_num <= GroupMax
        /\ \A g \in user[u].c_group : g \in DOMAIN user_group /\ user_group[g] = u
        /\ u \notin torn /\ ~GroupsUnderWay(u) =>
              \A g \in DOMAIN user_group : user_group[g] = u => g \in user[u].c_group

\* A user goes offline only by a session of that very user that ends: no
\* logout or disconnection of anybody else touches the row.
OnlyOwnSessionsEnd ==
    [][\A u \in DOMAIN user \cap DOMAIN user' :
          user[u].online = 1 /\ user'[u].online = 0 =>
              \E k \in Conns : m_uid[k] = u /\ m_uid'[k] = 0]_vars

-----------------------------------------------------------------------------
(* A statement of the source's comments                                     *)

\* "the user has not reached the maximum of groups, a group may be created"
\* (work_server.cpp:331): nobody creates more groups than the maximum.
GroupQuota ==
    \A u \in DOMAIN user :
        Cardinality({g \in DOMAIN user_group : user_group[g] = u}) <= GroupMax
=============================================================================
