----------------------------- MODULE FileUpload -----------------------------
(***************************************************************************)
(* How an uploaded file becomes visible: the transfer task and its asset   *)
(* in the database, the object in the object store, and the handler of the *)
(* gateway that keeps the two together (GatewayServer::handleFileUpload).  *)
(* The handler waits for the object store in a nested event loop, so other *)
(* uploads run inside it, and the process may die at any point.            *)
(*                                                                         *)
(* The uploads of one person are modelled: keys, tasks and quota of two    *)
(* people never meet.  A task and its asset are created together and refer *)
(* to each other, so they are one record; every file has size 1.           *)
(***************************************************************************)
EXTENDS Integers, FiniteSets, Sequences, SequencesExt

CONSTANTS
    Key,               \* client message ids
    Conversation,      \* chats a file can be sent to
    FileCenter,        \* conversationId = 0: a document of its own
    Content,           \* file contents
    Requests,          \* the upload requests clients make
    Quota,             \* storage_quota_bytes
    MaxNested,         \* bound on handlers suspended at a time
    DatabaseFails,     \* may a transaction fail, or its outcome be lost?
    MembershipChanges  \* may the person leave and rejoin chats?

Target == Conversation \cup {FileCenter}
Request == [key : Key, target : Target, content : Content]

ASSUME FileCenterAssumption == FileCenter \notin Conversation
ASSUME RequestsAssumption == Requests \subseteq Request
ASSUME UploadLimitsAssumption == /\ Quota \in Nat /\ MaxNested \in Nat
                                 /\ DatabaseFails \in BOOLEAN
                                 /\ MembershipChanges \in BOOLEAN

VARIABLES
    task,       \* file_transfer_tasks and file_assets, by client_message_id
    object,     \* the object store, by the key whose asset names the object
    member,     \* the chats the person is in
    handlers,   \* stack of the suspended calls of handleFileUpload
    confirmed   \* requests that were answered with success

uploadVars == <<task, object, member, handlers, confirmed>>

\* Task status 1, 2 and 3; files counts the messages and documents made for it,
\* deleted is file_assets.deleted_at_utc.
Task == [target : Target, content : Content, status : {"running", "done", "failed"},
         files : Nat, deleted : BOOLEAN]

NoTask == [status |-> "none"]
NoObject == "no object"

\* Which call of the object store a handler waits for, and has it taken effect?
Handler == [request : Request, at : {"put", "remove"}, landed : BOOLEAN]

Exists(k) == task[k] # NoTask
Visible(k) == Exists(k) /\ task[k].files > 0

UploadInit ==
    /\ task = [k \in Key |-> NoTask]
    /\ object = [k \in Key |-> NoObject]
    /\ member = Conversation
    /\ handlers = <<>>
    /\ confirmed = {}

-----------------------------------------------------------------------------
(* prepareFileUpload.                                                      *)

\* Only documents count against the quota, and only once they are visible.
Used == Cardinality({k \in Key : Visible(k) /\ task[k].target = FileCenter /\ ~task[k].deleted})

Permitted(r) == IF r.target = FileCenter THEN Used + 1 <= Quota ELSE r.target \in member

NewTask(r) == [target |-> r.target, content |-> r.content, status |-> "running",
               files |-> 0, deleted |-> FALSE]

\* An earlier task with this key is taken up again if the content is the same,
\* whatever became of it; nothing else is checked a second time.
Prepare(r) ==
    \/ /\ Exists(r.key)
       /\ task[r.key].content = r.content
       /\ UNCHANGED task
    \/ /\ ~Exists(r.key)
       /\ Permitted(r)
       /\ task' = [task EXCEPT ![r.key] = NewTask(r)]

\* The file is prepared and put is called.
BeginUpload(r) ==
    /\ Len(handlers) < MaxNested
    /\ Prepare(r)
    /\ handlers' = Append(handlers, [request |-> r, at |-> "put", landed |-> FALSE])
    /\ UNCHANGED <<object, member, confirmed>>

\* The task is created, but the answer to COMMIT is lost: the upload is refused.
LosePreparation(r) ==
    /\ DatabaseFails
    /\ ~Exists(r.key) /\ Permitted(r)
    /\ task' = [task EXCEPT ![r.key] = NewTask(r)]
    /\ UNCHANGED <<object, member, handlers, confirmed>>

-----------------------------------------------------------------------------
(* The object store.                                                       *)

\* A request of any suspended handler reaches the object store.
Land(i) ==
    /\ ~handlers[i].landed
    /\ handlers' = [handlers EXCEPT ![i].landed = TRUE]
    /\ LET h == handlers[i]
       IN object' = [object EXCEPT ![h.request.key] =
                        IF h.at = "put" THEN h.request.content ELSE NoObject]
    /\ UNCHANGED <<task, member, confirmed>>

-----------------------------------------------------------------------------
(* The rest of the handler; nested event loops return in the reverse order. *)

Top == Last(handlers)
Waits(call) == handlers # <<>> /\ Top.at = call

\* Mutant: the conversation of the task is not compared.
CompletableAnywhere(r) == ~task[r.key].deleted

\* completeFileUpload finds the task of this very request, not given up.
Completable(r) ==
    /\ task[r.key].target = r.target
    /\ ~task[r.key].deleted

\* Mutant: every completion makes a file.
CompleteAgain(r) ==
    /\ Completable(r)
    /\ r.target = FileCenter \/ r.target \in member
    /\ task' = [task EXCEPT ![r.key].files = @ + 1, ![r.key].status = "done"]

\* A second completion finds the file the first one made.
Complete(r) ==
    /\ Completable(r)
    /\ \/ /\ Visible(r.key)
          /\ UNCHANGED task
       \/ /\ ~Visible(r.key)
          /\ r.target = FileCenter \/ r.target \in member
          /\ task' = [task EXCEPT ![r.key].files = @ + 1, ![r.key].status = "done"]

\* failFileUpload gives up a task nothing visible hangs on; it may fail silently.
Fail(k) ==
    \/ /\ ~Visible(k)
       /\ task' = [task EXCEPT ![k].status = "failed", ![k].deleted = TRUE]
    \/ (Visible(k) \/ DatabaseFails) /\ UNCHANGED task

CompleteUpload ==
    /\ Waits("put") /\ Top.landed
    /\ Complete(Top.request)
    /\ confirmed' = confirmed \cup {Top.request}
    /\ handlers' = Front(handlers)
    /\ UNCHANGED <<object, member>>

\* Any failure, a COMMIT with an unknown outcome included, removes the object.
CompensateUpload ==
    /\ Waits("put") /\ Top.landed
    /\ LET r == Top.request
       IN \/ /\ \/ DatabaseFails
                \/ ~Completable(r)
                \/ ~Visible(r.key) /\ r.target # FileCenter /\ r.target \notin member
             /\ UNCHANGED task
          \/ DatabaseFails /\ Complete(r)
    /\ handlers' = [handlers EXCEPT ![Len(handlers)].at = "remove",
                                    ![Len(handlers)].landed = FALSE]
    /\ UNCHANGED <<object, member, confirmed>>

\* put failed or timed out, with or without effect.
PutFails ==
    /\ Waits("put")
    /\ Fail(Top.request.key)
    /\ handlers' = Front(handlers)
    /\ UNCHANGED <<object, member, confirmed>>

\* remove returned; its result is not looked at.
FinishCompensation ==
    /\ Waits("remove")
    /\ Fail(Top.request.key)
    /\ handlers' = Front(handlers)
    /\ UNCHANGED <<object, member, confirmed>>

\* The process dies, perhaps between the commit and the answer.
Crash ==
    /\ handlers # <<>>
    /\ handlers' = <<>>
    /\ \/ UNCHANGED task
       \/ Top.at = "put" /\ Top.landed /\ Complete(Top.request)
    /\ UNCHANGED <<object, member, confirmed>>

\* Another handler, run by the nested loop or between two uploads, changes the group.
ChangeMembership(c) ==
    /\ MembershipChanges
    /\ member' = IF c \in member THEN member \ {c} ELSE member \cup {c}
    /\ UNCHANGED <<task, object, handlers, confirmed>>

UploadNext ==
    \/ \E r \in Requests : BeginUpload(r) \/ LosePreparation(r)
    \/ \E i \in DOMAIN handlers : Land(i)
    \/ CompleteUpload \/ CompensateUpload \/ PutFails \/ FinishCompensation
    \/ Crash
    \/ \E c \in Conversation : ChangeMembership(c)

UploadSpec == UploadInit /\ [][UploadNext]_uploadVars

-----------------------------------------------------------------------------
(* Properties.                                                             *)

UploadTypeOK ==
    /\ task \in [Key -> Task \cup {NoTask}]
    /\ object \in [Key -> Content \cup {NoObject}]
    /\ member \subseteq Conversation
    /\ handlers \in Seq(Handler)
    /\ confirmed \subseteq Request

\* However often a key is retried, across nested handlers, crashes and lost
\* answers, it makes one message or document at most.
OneFilePerKey == \A k \in Key : Exists(k) => task[k].files <= 1

\* The compensation of one attempt never gives up a file another attempt made
\* visible: its task stays done and its asset is not marked deleted.
VisibleIsNotGivenUp == \A k \in Key : Visible(k) => task[k].status = "done" /\ ~task[k].deleted

\* A key that is reused with another content never overwrites an object.
ObjectsMatchAssets ==
    \A k \in Key : object[k] # NoObject => Exists(k) /\ object[k] = task[k].content

\* Tasks, assets and objects tell one story: the three above together.
UploadsAgree == OneFilePerKey /\ VisibleIsNotGivenUp /\ ObjectsMatchAssets

\* A success that was answered names a file that exists, with that content and
\* in that place.
ConfirmedIsVisible ==
    \A r \in confirmed : /\ Visible(r.key)
                         /\ task[r.key].target = r.target
                         /\ task[r.key].content = r.content

\* A visible file can be downloaded: its object is in the store.  Only the object
\* of an upload that made no visible file is ever removed.
VisibleFileKeepsObject == \A k \in Key : Visible(k) => object[k] = task[k].content

=============================================================================
