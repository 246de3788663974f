------------------------------ MODULE Presence ------------------------------
(***************************************************************************)
(* Who is online: the online table of GatewayServer, the directory         *)
(* snapshots it pushes to everybody when that table changes, and the rows  *)
(* of presence_history that the contact lists read.  A handler runs to its *)
(* end; the removal of a socket may run inside the handler that closes it. *)
(***************************************************************************)
EXTENDS Naturals, FiniteSets

CONSTANTS
    Caller,         \* people
    Socket,         \* connections ever accepted
    CallerAt,       \* who signs in on a socket
    NoSocket,
    MayFail,        \* may a call of the store fail?
    MaxCrashes      \* bound

ASSUME PresenceAssumption ==
    CallerAt \in [Socket -> Caller] /\ NoSocket \notin Socket /\ MayFail \in BOOLEAN

VARIABLES
    running,        \* is the gateway up?
    crashes,
    socketState,    \* none, online, closing or gone
    online,         \* onlinePeople_
    presence,       \* presence_state of each person's last row, 0 without one
    unrecorded,     \* ghost: people whose last row was not written
    shown,          \* on each socket, the people the last snapshot showed online
    overdue         \* ghost: sockets whose last snapshot could not be loaded
presenceVars == << running, crashes, socketState, online, presence, unrecorded, shown, overdue >>

OnlineIn(table) == {p \in Caller : table[p] # NoSocket}

\* updatePresence: a row, or nothing when the store fails.
updatePresence(p, state) ==
    \/ presence' = [presence EXCEPT ![p] = state] /\ unrecorded' = unrecorded \ {p}
    \/ MayFail /\ unrecorded' = unrecorded \cup {p} /\ UNCHANGED presence

\* Mutant: who signs in is told, the others are not.
PushToOne(table, k) ==
    /\ shown' = [j \in Socket |-> IF j = k THEN OnlineIn(table) ELSE shown[j]]
    /\ UNCHANGED overdue

\* A snapshot, loaded anew for each, to every socket of the online table.
broadcastPresenceSnapshots(table, k) ==
    \E failing \in IF MayFail THEN SUBSET OnlineIn(table) ELSE {{}} :
        LET Gets(j) == table[CallerAt[j]] = j /\ CallerAt[j] \notin failing IN
        /\ shown' = [j \in Socket |-> IF Gets(j) THEN OnlineIn(table) ELSE shown[j]]
        /\ overdue' = {j \in Socket : table[CallerAt[j]] = j /\ CallerAt[j] \in failing}

\* handleLogin: the person's older socket is told to disconnect, and is removed now or
\* when its output has drained; when it is removed now, its offline row and broadcast
\* are overtaken by those of the login.
handleLogin(k) ==
    LET p == CallerAt[k]
        table == [online EXCEPT ![p] = k] IN
    /\ running /\ socketState[k] = "none"
    /\ \E kicked \in {"closing", "gone"} :
          socketState' = [j \in Socket |-> IF j = k THEN "online"
                                           ELSE IF j = online[p] THEN kicked ELSE socketState[j]]
    /\ online' = table
    /\ updatePresence(p, 1)
    /\ broadcastPresenceSnapshots(table, k)
    /\ UNCHANGED << running, crashes >>

\* A socket is idle, too slow or sends nonsense: disconnectFromHost.
BeginDisconnect(k) ==
    /\ running /\ socketState[k] = "online"
    /\ socketState' = [socketState EXCEPT ![k] = "closing"]
    /\ UNCHANGED << running, crashes, online, presence, unrecorded, shown, overdue >>

\* Mutant: the socket is removed without a look at the online table.
LeavesAnyway(k) == TRUE
\* Is k the socket that makes its person online?
LeavesOnline(k) == online[CallerAt[k]] = k

removeConnection(k) ==
    LET p == CallerAt[k]
        table == [online EXCEPT ![p] = NoSocket] IN
    /\ running /\ socketState[k] \in {"online", "closing"}
    /\ socketState' = [socketState EXCEPT ![k] = "gone"]
    /\ IF LeavesOnline(k)
         THEN /\ online' = table
              /\ updatePresence(p, 0)
              /\ broadcastPresenceSnapshots(table, NoSocket)
         ELSE UNCHANGED << online, presence, unrecorded, shown, overdue >>
    /\ UNCHANGED << running, crashes >>

AllGone == [k \in Socket |-> IF socketState[k] = "none" THEN "none" ELSE "gone"]
EmptyTable == [p \in Caller |-> NoSocket]

\* stop: every signed-in socket writes an offline row, also one that is only draining.
stop ==
    /\ running /\ running' = FALSE
    /\ LET leaving == {CallerAt[k] : k \in {j \in Socket : socketState[j] \in {"online", "closing"}}} IN
       \E failed \in IF MayFail THEN SUBSET leaving ELSE {{}} :
          /\ presence' = [p \in Caller |-> IF p \in leaving \ failed THEN 0 ELSE presence[p]]
          /\ unrecorded' = (unrecorded \ leaving) \cup failed
    /\ socketState' = AllGone /\ online' = EmptyTable /\ overdue' = {}
    /\ UNCHANGED << crashes, shown >>

Crash ==
    /\ running /\ running' = FALSE
    /\ crashes < MaxCrashes /\ crashes' = crashes + 1
    /\ socketState' = AllGone /\ online' = EmptyTable /\ overdue' = {}
    /\ unrecorded' = unrecorded \cup OnlineIn(online)
    /\ UNCHANGED << presence, shown >>

start ==
    /\ ~running /\ running' = TRUE
    /\ UNCHANGED << crashes, socketState, online, presence, unrecorded, shown, overdue >>

PresenceInit ==
    /\ running = TRUE /\ crashes = 0
    /\ socketState = [k \in Socket |-> "none"]
    /\ online = EmptyTable
    /\ presence = [p \in Caller |-> 0] /\ unrecorded = {}
    /\ shown = [k \in Socket |-> {}] /\ overdue = {}
PresenceNext ==
    \/ \E k \in Socket : handleLogin(k) \/ BeginDisconnect(k) \/ removeConnection(k)
    \/ stop \/ Crash \/ start
PresenceSpec == PresenceInit /\ [][PresenceNext]_presenceVars

-----------------------------------------------------------------------------
Holders(states) == {CallerAt[k] : k \in {j \in Socket : socketState[j] \in states}}

(* Everybody who is signed in is shown who else is, and nobody who has no  *)
(* socket left, however logins, kicked sockets that drain late and         *)
(* removals interleave; only a snapshot the store could not load is        *)
(* missing (broadcastPresenceSnapshots, removeConnection).                 *)
SnapshotsShowWhoIsOnline ==
    \A k \in Socket : socketState[k] = "online" /\ k \notin overdue =>
        /\ Holders({"online"}) \subseteq shown[k]
        /\ shown[k] \subseteq Holders({"online", "closing"})

(* The last row of a person in presence_history tells the same, as long as *)
(* no row was lost with the store or with the process (updatePresence).    *)
PresenceRowsFollow ==
    \A p \in Caller \ unrecorded :
        /\ p \in Holders({"online"}) => presence[p] = 1
        /\ p \notin Holders({"online", "closing"}) => presence[p] = 0
=============================================================================
