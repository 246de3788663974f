---------------------------- MODULE DirectorySync ----------------------------
(***************************************************************************)
(* The organisation directory: the tables and the change log the triggers  *)
(* write beside them, the snapshots and deltas the gateway answers with,   *)
(* and what a client makes of them: QmlClientBackend shows every snapshot  *)
(* as it comes, LocalDirectoryRepository keeps a cache on disk.            *)
(*                                                                         *)
(* One organisation and one client of it.  A write is one SQL statement of *)
(* one transaction, so it is one step, its triggers included, and so is    *)
(* the repeatable-read transaction that loads an answer.  Parents,         *)
(* positions, sort orders and contact fields stand behind name.            *)
(***************************************************************************)
EXTENDS Integers, FiniteSets, Sequences

CONSTANTS
    Department, Person, Assignment,   \* ids of the three kinds of rows
    General,             \* the department the server's own commands use
    Administrator,       \* the person the bootstrap command maintains
    Requester,           \* the person the client signs in as
    FirstAssignments,    \* the primary assignments of the first two people
    Name,                \* what the other columns may hold
    FirstName,           \* and hold at first
    NoRow, Nothing,      \* a row that does not exist; a reference to no row
    MaximumDeltaEvents,  \* 500 in loadDirectoryDelta
    MaxRevision,         \* bound on current_revision
    MaxInFlight          \* bound on the frames under way

Entity == Department \cup Person \cup Assignment
Row == [name : Name, enabled : BOOLEAN,
        dept : Department \cup {Nothing}, person : Person \cup {Nothing}]

ASSUME EntityAssumption ==
    /\ Department \cap Person = {} /\ Department \cap Assignment = {} /\ Person \cap Assignment = {}
    /\ General \in Department
    /\ Administrator \in Person /\ Requester \in Person
    /\ FirstAssignments \in [{Administrator, Requester} -> Assignment]
    /\ FirstName \in Name
    /\ NoRow \notin Row
    /\ Nothing \notin Entity
ASSUME DirectoryLimitsAssumption ==
    MaximumDeltaEvents \in Nat /\ MaxRevision \in Nat /\ MaxInFlight \in Nat

VARIABLES
    rows,           \* departments, persons and person_assignments, by id
    revision,       \* organization_revisions.current_revision
    changeLog,      \* organization_change_logs, by revision
    history,        \* what rows held at each committed revision
    authenticated,  \* is the client signed in?
    requests,       \* frames to the gateway
    responses,      \* frames to the client
    cache,          \* the snapshot LocalDirectoryRepository keeps
    syncing         \* is an answer for the cache outstanding?

databaseVars == <<rows, revision, changeLog, history>>
directoryVars == <<rows, revision, changeLog, history, authenticated, requests, responses,
                   cache, syncing>>

Directory == [Entity -> Row \cup {NoRow}]
ChangeType == {"CREATED", "UPDATED", "DISABLED", "REMOVED", "created", "updated"}
LogEntry == [entity : Entity, type : ChangeType]
Snapshot == [revision : Nat, rows : Directory]

DepartmentRow(n, en) == [name |-> n, enabled |-> en, dept |-> Nothing, person |-> Nothing]
PersonRow(n, en, d) == [name |-> n, enabled |-> en, dept |-> d, person |-> Nothing]
AssignmentRow(p, d) == [name |-> FirstName, enabled |-> TRUE, dept |-> d, person |-> p]

Exists(e) == rows[e] # NoRow

\* Every reference of a row names a row: what the foreign keys and validateSnapshot want.
Closed(r) ==
    \A e \in Entity : r[e] # NoRow =>
        /\ r[e].dept # Nothing => r[r[e].dept] # NoRow
        /\ r[e].person # Nothing => r[r[e].person] # NoRow

-----------------------------------------------------------------------------
(* Writers.  A statement sets rows and appends its log entries; the        *)
(* revision moves once per entry.                                          *)

Write(new, entries) ==
    /\ revision + Len(entries) <= MaxRevision
    /\ rows' = new
    /\ revision' = revision + Len(entries)
    /\ changeLog' = [k \in DOMAIN changeLog \cup (revision + 1 .. revision + Len(entries)) |->
                        IF k \in DOMAIN changeLog THEN changeLog[k] ELSE entries[k - revision]]
    /\ history' = [k \in DOMAIN history \cup {revision + Len(entries)} |->
                        IF k = revision + Len(entries) THEN new ELSE history[k]]
    /\ UNCHANGED <<authenticated, requests, responses, cache, syncing>>

Entry(e, t) == [entity |-> e, type |-> t]

\* What the trigger logs for an UPDATE of a department or a person.
UpdateEntry(e, enabled) == Entry(e, IF rows[e].enabled /\ ~enabled THEN "DISABLED" ELSE "UPDATED")

\* Ids come from a sequence: one that was used is in the log or among the first rows.
Fresh(a) == /\ ~Exists(a)
            /\ a \notin {FirstAssignments[p] : p \in {Administrator, Requester}}
            /\ \A k \in DOMAIN changeLog : changeLog[k].entity # a

\* createDepartment of the web administration: the statement logs the edit itself
\* and the trigger logs the row once more.
CreateDepartment(d) ==
    /\ ~Exists(d)
    /\ Write([rows EXCEPT ![d] = DepartmentRow(FirstName, TRUE)],
             <<Entry(d, "created"), Entry(d, "CREATED")>>)

UpdateDepartment(d, n, en) ==
    /\ Exists(d)
    /\ Write([rows EXCEPT ![d] = DepartmentRow(n, en)],
             <<Entry(d, "updated"), UpdateEntry(d, en)>>)

CreatePerson(p, d, a) ==
    /\ ~Exists(p) /\ Fresh(a)
    /\ Exists(d) /\ rows[d].enabled
    /\ Write([rows EXCEPT ![p] = PersonRow(FirstName, TRUE, d), ![a] = AssignmentRow(p, d)],
             <<Entry(p, "created"), Entry(p, "CREATED"), Entry(a, "CREATED")>>)

\* updatePerson replaces the primary assignment.  PostgreSQL leaves open whether the
\* DELETE or the INSERT of the statement runs first; after an INSERT that ran first the
\* unique index refuses the statement, and nothing has happened.
UpdatePerson(p, d, old, a, n, en) ==
    /\ Exists(p) /\ Exists(d) /\ Fresh(a)
    /\ Exists(old) /\ rows[old].person = p
    /\ Write([rows EXCEPT ![p] = PersonRow(n, en, d), ![old] = NoRow, ![a] = AssignmentRow(p, d)],
             <<Entry(p, "updated"), UpdateEntry(p, en), Entry(old, "REMOVED"), Entry(a, "CREATED")>>)

UserEntries(p, a) == <<Entry(p, "CREATED"), Entry(a, "CREATED")>>

\* createOrganizationUser, the server's command line.
CreateOrganizationUser(p, a) ==
    /\ ~Exists(p) /\ Fresh(a)
    /\ Exists(General) /\ rows[General].enabled
    /\ Write([rows EXCEPT ![p] = PersonRow(FirstName, TRUE, General), ![a] = AssignmentRow(p, General)],
             UserEntries(p, a))

\* A repeated bootstrapInitialAdministrator only sets the display name; the trigger
\* ignores the rows it leaves as they are.
BootstrapInitialAdministrator(n) ==
    /\ Exists(Administrator) /\ rows[Administrator].name # n
    /\ Write([rows EXCEPT ![Administrator].name = n], <<UpdateEntry(Administrator, rows[Administrator].enabled)>>)

\* A migration that renames a department, such as 022.
MigrateDepartment(n) ==
    /\ Exists(General) /\ rows[General].name # n
    /\ Write([rows EXCEPT ![General].name = n], <<UpdateEntry(General, rows[General].enabled)>>)

WriteDirectory ==
    \/ \E d \in Department : CreateDepartment(d)
    \/ \E d \in Department, n \in Name, en \in BOOLEAN : UpdateDepartment(d, n, en)
    \/ \E p \in Person, d \in Department, a \in Assignment : CreatePerson(p, d, a)
    \/ \E p \in Person, d \in Department, old, a \in Assignment, n \in Name, en \in BOOLEAN :
            UpdatePerson(p, d, old, a, n, en)
    \/ \E p \in Person, a \in Assignment : CreateOrganizationUser(p, a)
    \/ \E n \in Name : BootstrapInitialAdministrator(n) \/ MigrateDepartment(n)

-----------------------------------------------------------------------------
(* The gateway.                                                            *)

SnapshotRequest == [type |-> "snapshot"]
DeltaRequest(r) == [type |-> "delta", from |-> r]

\* Mutant: the revision is read before the transaction that reads the rows.
SnapshotResponseInTwo ==
    [type |-> "snapshot",
     snapshot |-> [revision |-> IF revision = 1 THEN 1
                                ELSE CHOOSE k \in DOMAIN history \ {revision} : TRUE, rows |-> rows]]

SnapshotResponse == [type |-> "snapshot", snapshot |-> [revision |-> revision, rows |-> rows]]
Failure == [type |-> "failure"]
FullSnapshotRequired == [type |-> "full"]

\* Mutant: the edits of the web administration are understood as well.
AnyChangeType(t) == IF t = "updated" THEN "UPDATED" ELSE IF t = "created" THEN "CREATED" ELSE t

\* directoryChangeType knows the words of the triggers only.
DirectoryChangeType(t) == IF t \in {"created", "updated"} THEN "UNKNOWN" ELSE t

\* The log rows after revision from, with the row each one names as it is now.
Window(from) == {k \in DOMAIN changeLog : from < k /\ k <= revision}
ChangesSince(from) ==
    {[revision |-> k, type |-> DirectoryChangeType(changeLog[k].type),
      entity |-> changeLog[k].entity, row |-> rows[changeLog[k].entity]] : k \in Window(from)}

\* loadDirectoryDelta wants the whole snapshot to be fetched when it has no delta.
NeedsFullSnapshot(from) ==
    \/ from = 0 \/ from > revision \/ revision - from > MaximumDeltaEvents
    \/ Window(from) # from + 1 .. revision
    \/ \E c \in ChangesSince(from) : c.type \in {"REMOVED", "UNKNOWN"} \/ c.row = NoRow

DeltaResponse(from) ==
    IF NeedsFullSnapshot(from)
    THEN FullSnapshotRequired
    ELSE [type |-> "delta", from |-> from, current |-> revision, changes |-> ChangesSince(from)]

Answer(r) == IF r.type = "snapshot" THEN SnapshotResponse ELSE DeltaResponse(r.from)

\* The two directory requests of the message switch; a person who was disabled since
\* the login, and a database that does not answer, are told so.
HandleRequest ==
    /\ requests # <<>>
    /\ requests' = Tail(requests)
    /\ \/ /\ rows[Requester].enabled
          /\ responses' = Append(responses, Answer(Head(requests)))
       \/ responses' = Append(responses, Failure)
    /\ UNCHANGED <<databaseVars, authenticated, cache, syncing>>

\* Somebody signs in or leaves: everybody online is sent a snapshot nobody asked for.
BroadcastPresenceSnapshots ==
    /\ authenticated
    /\ Len(requests) + Len(responses) < MaxInFlight
    /\ rows[Requester].enabled
    /\ responses' = Append(responses, SnapshotResponse)
    /\ UNCHANGED <<databaseVars, authenticated, requests, cache, syncing>>

-----------------------------------------------------------------------------
(* The client.                                                             *)

NoCopy == [revision |-> 0, rows |-> [e \in Entity |-> NoRow]]

\* requestDirectorySync asks for a delta when there is a revision to start from.
RequestDirectorySync(localRevision) ==
    requests' = Append(requests, IF localRevision = 0 THEN SnapshotRequest
                                 ELSE DeltaRequest(localRevision))

\* QmlClientBackend always asks from revision 0; the cache asks from its own.
Synchronize ==
    /\ authenticated
    /\ Len(requests) + Len(responses) < MaxInFlight
    /\ \E localRevision \in {0, cache.revision} : RequestDirectorySync(localRevision)
    /\ syncing' = TRUE
    /\ UNCHANGED <<databaseVars, authenticated, responses, cache>>

\* LocalDirectoryRepository::replaceSnapshot, one SQLite transaction that may fail.
ReplaceSnapshot(s) ==
    \/ /\ s.revision # 0 /\ Closed(s.rows)
       /\ cache.revision <= s.revision
       /\ cache' = s
    \/ UNCHANGED cache

Touched(changes) == {c.entity : c \in changes}

\* Each change inserts its row or replaces it; all changes of a row carry the same one.
Merge(old, changes) ==
    [e \in Entity |-> IF e \in Touched(changes)
                      THEN (CHOOSE c \in changes : c.entity = e).row ELSE old[e]]

\* What applyDelta and the validation behind it ask of a delta.
DeltaApplies(m) ==
    /\ m.from # 0 /\ m.from <= m.current
    /\ cache.revision = m.from
    /\ {c.revision : c \in m.changes} = m.from + 1 .. m.current
    /\ \A c \in m.changes : c.type # "REMOVED" /\ (c.type = "DISABLED" => ~c.row.enabled)
    /\ Closed(Merge(cache.rows, m.changes))

ApplyDelta(m) ==
    \/ /\ DeltaApplies(m)
       /\ cache' = [revision |-> m.current, rows |-> Merge(cache.rows, m.changes)]
    \/ UNCHANGED cache

TakeResponse ==
    /\ responses # <<>>
    /\ responses' = Tail(responses)
    /\ UNCHANGED <<databaseVars, authenticated>>

ReceiveSnapshot ==
    /\ TakeResponse
    /\ Head(responses).type = "snapshot"
    /\ ReplaceSnapshot(Head(responses).snapshot)
    /\ syncing' = FALSE
    /\ UNCHANGED requests

ReceiveDelta ==
    /\ TakeResponse
    /\ Head(responses).type = "delta"
    /\ ApplyDelta(Head(responses))
    /\ syncing' = FALSE
    /\ UNCHANGED requests

\* Mutant: an error leaves the synchronisation outstanding.
OverlookFailure ==
    /\ TakeResponse
    /\ Head(responses).type = "failure"
    /\ UNCHANGED <<requests, cache, syncing>>

ReceiveFailure ==
    /\ TakeResponse
    /\ Head(responses).type = "failure"
    /\ syncing' = FALSE
    /\ UNCHANGED <<requests, cache>>

\* NetworkClient asks for the snapshot by itself; the worker drops the request when
\* the session is gone.
ReceiveFullSnapshotRequired ==
    /\ TakeResponse
    /\ Head(responses).type = "full"
    /\ IF authenticated THEN RequestDirectorySync(0) ELSE UNCHANGED requests
    /\ UNCHANGED <<cache, syncing>>

\* A disabled person's account is refused; QmlClientBackend fetches the directory at once.
Login ==
    /\ ~authenticated
    /\ rows[Requester].enabled
    /\ Len(requests) + Len(responses) < MaxInFlight
    /\ authenticated' = TRUE
    /\ RequestDirectorySync(0)
    /\ syncing' = TRUE
    /\ UNCHANGED <<databaseVars, responses, cache>>

\* Answers that had arrived are still handled after the connection is gone, unless the
\* client was closed; the cache stays on the disk.
Disconnect ==
    /\ authenticated
    /\ authenticated' = FALSE
    /\ requests' = <<>>
    /\ \E n \in 0 .. Len(responses) : responses' = SubSeq(responses, 1, n)
    /\ syncing' = FALSE
    /\ UNCHANGED <<databaseVars, cache>>

-----------------------------------------------------------------------------

FirstRows ==
    [e \in Entity |->
        IF e = General THEN DepartmentRow(FirstName, TRUE)
        ELSE IF e \in {Administrator, Requester} THEN PersonRow(FirstName, TRUE, General)
        ELSE IF \E p \in {Administrator, Requester} : e = FirstAssignments[p]
             THEN AssignmentRow(CHOOSE p \in {Administrator, Requester} : e = FirstAssignments[p], General)
             ELSE NoRow]

\* An organisation that was there before the triggers starts without a log (004).
DirectoryInit ==
    /\ rows = FirstRows
    /\ revision = 1
    /\ changeLog = <<>>
    /\ history = [k \in {1} |-> FirstRows]
    /\ authenticated = FALSE
    /\ requests = <<>> /\ responses = <<>>
    /\ cache = NoCopy
    /\ syncing = FALSE

DirectoryNext ==
    \/ WriteDirectory
    \/ HandleRequest \/ BroadcastPresenceSnapshots
    \/ Synchronize
    \/ ReceiveSnapshot \/ ReceiveDelta \/ ReceiveFailure \/ ReceiveFullSnapshotRequired
    \/ Login \/ Disconnect

DirectorySpec == DirectoryInit /\ [][DirectoryNext]_directoryVars

\* The event loops of the gateway and of the client handle what waits for them.
Receive == ReceiveSnapshot \/ ReceiveDelta \/ ReceiveFailure \/ ReceiveFullSnapshotRequired
FairDirectorySpec == DirectorySpec /\ WF_directoryVars(HandleRequest) /\ WF_directoryVars(Receive)

-----------------------------------------------------------------------------
(* Properties.                                                             *)

Request == {SnapshotRequest} \cup [type : {"delta"}, from : Nat]
Change == [revision : Nat, type : {"CREATED", "UPDATED", "DISABLED"}, entity : Entity, row : Row]
Response == [type : {"snapshot"}, snapshot : Snapshot] \cup {Failure, FullSnapshotRequired}
            \cup [type : {"delta"}, from : Nat, current : Nat, changes : SUBSET Change]

IsRevision(copy) == copy.revision \in DOMAIN history /\ copy.rows = history[copy.revision]

\* The tables, the frames under way and the copies are of their types.  The log and
\* the history reach up to the current revision, and every reference names a row.
DirectoryTypeOK ==
    /\ rows \in Directory /\ Closed(rows)
    /\ revision \in Nat \ {0}
    /\ DOMAIN changeLog = 2 .. revision
    /\ \A k \in DOMAIN changeLog : changeLog[k] \in LogEntry
    /\ DOMAIN history \subseteq 1 .. revision /\ revision \in DOMAIN history
    /\ \A k \in DOMAIN history : history[k] \in Directory
    /\ authenticated \in BOOLEAN /\ syncing \in BOOLEAN
    /\ requests \in Seq(Request)
    /\ responses \in Seq(Response)
    /\ cache \in Snapshot

\* A snapshot on its way to the screen, and the cache, hold the directory exactly as it
\* was at the revision they name, although a delta carries rows as they are when it is
\* read and not as each change left them, and although other snapshots arrive between a
\* delta and the request for it (loadDirectorySnapshot, loadDirectoryDelta, applyDelta).
CopiesAreRevisions ==
    /\ cache.revision # 0 => IsRevision(cache)
    /\ \A i \in DOMAIN responses :
            responses[i].type = "snapshot" => IsRevision(responses[i].snapshot)

\* A delta the gateway offers can be applied to the revision it was asked for: the
\* client never refuses one it could not replace (GatewayServer.cpp: "only a batch that
\* can be applied locally is returned").  A row disabled and enabled again would come as
\* a DISABLED change of an enabled row, which applyDelta refuses.
OfferedDeltasApply ==
    \A i \in DOMAIN responses :
        responses[i].type = "delta" /\ responses[i].from = cache.revision => DeltaApplies(responses[i])

\* A client that asked for the directory gets a snapshot, a delta or an error, whatever
\* detour over a full snapshot it takes, unless the connection is lost.
SynchronizationEnds == syncing ~> ~syncing

=============================================================================
