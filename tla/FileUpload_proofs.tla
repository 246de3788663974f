------------------------- MODULE FileUpload_proofs -------------------------
(***************************************************************************)
(* Proofs about FileUpload for every set of keys, chats, contents and      *)
(* requests, every quota and every depth of nested handlers: what retries, *)
(* crashes, lost answers and compensations may never do to a file.  The    *)
(* object of a visible file is not among it: see the run file_lost.        *)
(***************************************************************************)
EXTENDS FileUpload, TLAPS

\* A suspended handler works on the task of its key and on the content it checked.
HandlersHaveTasks ==
    \A i \in 1..Len(handlers) :
        LET r == handlers[i].request
        IN Exists(r.key) /\ task[r.key].content = r.content

UploadInvariant ==
    /\ UploadTypeOK
    /\ HandlersHaveTasks
    /\ OneFilePerKey
    /\ VisibleIsNotGivenUp
    /\ ObjectsMatchAssets
    /\ ConfirmedIsVisible

\* What a transaction may do to the task of a key: never take back its target,
\* its content or a file, and give it up only while nothing visible hangs on it.
Advances(k) ==
    Exists(k) => /\ task'[k] # NoTask
                 /\ task'[k].target = task[k].target
                 /\ task'[k].content = task[k].content
                 /\ task'[k].files >= task[k].files

TasksAreSound == OneFilePerKey /\ VisibleIsNotGivenUp

\* The suspended handlers without the newest, and the newest.
LEMMA TopHandler ==
    ASSUME UploadTypeOK, handlers # <<>>
    PROVE  /\ Len(handlers) \in 1..Len(handlers) /\ Top = handlers[Len(handlers)]
           /\ Top \in Handler
           /\ Front(handlers) \in Seq(Handler)
           /\ Len(Front(handlers)) = Len(handlers) - 1
           /\ \A i \in 1..Len(Front(handlers)) :
                 i \in 1..Len(handlers) /\ Front(handlers)[i] = handlers[i]
<1>1. handlers \in Seq(Handler)
  BY DEF UploadTypeOK
<1>2. Len(handlers) \in Nat /\ Len(handlers) > 0
  BY <1>1
<1>3. Len(handlers) \in 1..Len(handlers) /\ handlers[Len(handlers)] \in Handler
  BY <1>1, <1>2
<1>4. /\ Front(handlers) \in Seq(Handler)
      /\ Len(Front(handlers)) = Len(handlers) - 1
      /\ \A i \in 1..Len(Front(handlers)) : Front(handlers)[i] = handlers[i]
  BY <1>1, <1>2 DEF Front
<1>5. \A i \in 1..(Len(handlers) - 1) : i \in 1..Len(handlers)
  BY <1>2
<1> QED
  BY <1>3, <1>4, <1>5 DEF Top, Last

\* The request of a suspended handler.
LEMMA HandlerRequest ==
    ASSUME UploadTypeOK, NEW i \in 1..Len(handlers)
    PROVE  handlers[i] \in Handler /\ handlers[i].request \in Request
                                   /\ handlers[i].request.key \in Key
<1>1. handlers[i] \in Handler
  BY DEF UploadTypeOK
<1>2. handlers[i].request \in Request
  BY <1>1 DEF Handler
<1> QED
  BY <1>1, <1>2 DEF Request

\* A step that only advances tasks, and takes up no request and no object, keeps
\* what handlers, objects and confirmations rely on.
LEMMA AdvancingKeepsInvariant ==
    ASSUME UploadInvariant, UploadTypeOK', TasksAreSound',
           \A k \in Key : Advances(k),
           \A i \in 1..Len(handlers') : \E j \in 1..Len(handlers) :
                handlers'[i].request = handlers[j].request,
           \A k \in Key : object'[k] # NoObject =>
                object'[k] = object[k] \/ (Exists(k) /\ object'[k] = task[k].content),
           \A r \in confirmed' : r \in confirmed \/
                (/\ r \in Request
                 /\ task'[r.key] # NoTask /\ task'[r.key].files > 0
                 /\ task'[r.key].target = r.target /\ task'[r.key].content = r.content)
    PROVE  UploadInvariant'
<1> USE DEF UploadInvariant
<1>1. HandlersHaveTasks'
  <2>1. ASSUME NEW i \in 1..Len(handlers')
        PROVE  /\ task'[handlers'[i].request.key] # NoTask
               /\ task'[handlers'[i].request.key].content = handlers'[i].request.content
    <3>1. PICK j \in 1..Len(handlers) : handlers'[i].request = handlers[j].request
      BY <2>1
    <3>2. handlers[j].request.key \in Key
      BY HandlerRequest
    <3> QED
      BY <3>1, <3>2 DEF HandlersHaveTasks, Advances, Exists
  <2> QED
    BY <2>1 DEF HandlersHaveTasks, Exists
<1>2. ObjectsMatchAssets'
  BY DEF ObjectsMatchAssets, Advances, Exists
<1>3. ConfirmedIsVisible'
  <2>1. ASSUME NEW r \in confirmed', r \in confirmed
        PROVE  /\ task'[r.key] # NoTask /\ task'[r.key].files > 0
               /\ task'[r.key].target = r.target /\ task'[r.key].content = r.content
    <3>1. r.key \in Key
      BY <2>1 DEF UploadTypeOK, Request
    <3>2. Exists(r.key) /\ task[r.key].files > 0
      BY <2>1 DEF ConfirmedIsVisible, Visible
    <3>3. task[r.key].files \in Nat
      BY <3>1, <3>2 DEF UploadTypeOK, Task, Exists
    <3>4. task'[r.key] # NoTask /\ task'[r.key].files >= task[r.key].files
      BY <3>1, <3>2 DEF Advances
    <3>5. task'[r.key].files \in Nat
      BY <3>1, <3>4 DEF UploadTypeOK, Task
    <3> QED
      BY <2>1, <3>1, <3>2, <3>3, <3>4, <3>5 DEF ConfirmedIsVisible, Advances
  <2> QED
    BY <2>1 DEF ConfirmedIsVisible, Visible, Exists
<1> QED
  BY <1>1, <1>2, <1>3 DEF TasksAreSound

\* The record of a task that is done.
LEMMA DoneTask ==
    ASSUME NEW t \in Task
    PROVE  LET new == [t EXCEPT !.files = @ + 1, !.status = "done"]
           IN  /\ new \in Task
               /\ new.files = t.files + 1 /\ new.status = "done" /\ new.deleted = t.deleted
               /\ new.target = t.target /\ new.content = t.content
<1> DEFINE one == [t EXCEPT !.files = @ + 1]
           new == [one EXCEPT !.status = "done"]
<1>1. /\ one \in Task
      /\ one.files = t.files + 1 /\ one.deleted = t.deleted
      /\ one.target = t.target /\ one.content = t.content
  BY DEF Task
<1> HIDE DEF one
<1>2. /\ new \in Task
      /\ new.files = one.files /\ new.status = "done" /\ new.deleted = one.deleted
      /\ new.target = one.target /\ new.content = one.content
  BY <1>1 DEF Task
<1> HIDE DEF new
<1>3. new = [t EXCEPT !.files = @ + 1, !.status = "done"]
  BY DEF new, one
<1> QED
  BY <1>1, <1>2, <1>3

\* completeFileUpload makes the first file of a task that was not given up.
LEMMA CompleteAdvances ==
    ASSUME UploadInvariant, NEW r \in Request, Exists(r.key), Complete(r)
    PROVE  /\ task' \in [Key -> Task \cup {NoTask}]
           /\ TasksAreSound'
           /\ \A k \in Key : Advances(k)
           /\ task'[r.key] # NoTask /\ task'[r.key].files > 0
           /\ task'[r.key].target = r.target
           /\ task'[r.key].content = task[r.key].content
<1> DEFINE key == r.key
<1> USE DEF UploadInvariant, UploadTypeOK
<1>1. key \in Key /\ task[key] \in Task /\ task[key].target = r.target
  BY DEF Request, Exists, Complete, Completable
<1>2. \A k \in Key : Exists(k) => task[k] \in Task /\ task[k].files \in Nat
  BY DEF Exists, Task
<1>3. CASE Visible(key) /\ UNCHANGED task
  BY <1>1, <1>2, <1>3 DEF TasksAreSound, OneFilePerKey, VisibleIsNotGivenUp, Advances, Visible, Exists
<1>4. CASE ~Visible(key) /\ task' = [task EXCEPT ![key].files = @ + 1, ![key].status = "done"]
  <2>0. PICK t \in Task : t = task[key]
    BY <1>1
  <2> DEFINE new == [t EXCEPT !.files = @ + 1, !.status = "done"]
  <2>1. task' = [task EXCEPT ![key] = new]
    BY <1>1, <1>4, <2>0
  <2>2. /\ new \in Task /\ new.files = 1 /\ new.status = "done" /\ ~new.deleted
        /\ new.target = task[key].target /\ new.content = task[key].content
    <3>1. t.files = 0 /\ ~t.deleted
      BY <1>1, <1>2, <1>4, <2>0 DEF Visible, Complete, Completable
    <3>2. /\ new \in Task /\ new.files = t.files + 1 /\ new.status = "done"
          /\ new.deleted = t.deleted /\ new.target = t.target /\ new.content = t.content
      BY DoneTask
    <3> HIDE DEF new
    <3> QED
      BY <2>0, <3>1, <3>2
  <2>3. new # NoTask
    BY <2>2 DEF NoTask
  <2> HIDE DEF new
  <2>4. task' \in [Key -> Task \cup {NoTask}] /\ task'[key] = new
    BY <1>1, <2>1, <2>2
  <2>5. \A k \in Key : k # key => task'[k] = task[k]
    BY <2>1
  <2>6. TasksAreSound'
    BY <2>2, <2>3, <2>4, <2>5 DEF TasksAreSound, OneFilePerKey, VisibleIsNotGivenUp, Visible, Exists
  <2>7. \A k \in Key : Advances(k)
    <3>1. task[key].files = 0
      BY <1>1, <1>2, <1>4 DEF Visible
    <3> QED
      BY <1>1, <1>2, <2>2, <2>3, <2>4, <2>5, <3>1 DEF Advances, Exists
  <2> QED
    BY <1>1, <2>2, <2>3, <2>4, <2>6, <2>7
<1> QED
  BY <1>1, <1>3, <1>4 DEF Complete

\* failFileUpload only gives up a task without a visible file.
LEMMA FailAdvances ==
    ASSUME UploadInvariant, NEW key \in Key, Exists(key), Fail(key)
    PROVE  /\ task' \in [Key -> Task \cup {NoTask}]
           /\ TasksAreSound'
           /\ \A k \in Key : Advances(k)
<1> USE DEF UploadInvariant, UploadTypeOK
<1>1. task[key] \in Task
  BY DEF Exists
<1>2. \A k \in Key : Exists(k) => task[k] \in Task /\ task[k].files \in Nat
  BY DEF Exists, Task
<1>3. CASE UNCHANGED task
  BY <1>2, <1>3 DEF TasksAreSound, OneFilePerKey, VisibleIsNotGivenUp, Advances, Visible, Exists
<1>4. CASE ~Visible(key) /\ task' = [task EXCEPT ![key].status = "failed", ![key].deleted = TRUE]
  <2>0. PICK t \in Task : t = task[key]
    BY <1>1
  <2> DEFINE new == [t EXCEPT !.status = "failed", !.deleted = TRUE]
  <2>1. task' = [task EXCEPT ![key] = new]
    BY <1>4, <2>0
  <2>2. /\ new \in Task /\ new.files = 0 /\ task[key].files = 0 /\ new.status = "failed"
        /\ new.target = task[key].target /\ new.content = task[key].content
    <3>1. t.files = 0
      BY <1>1, <1>2, <1>4, <2>0 DEF Visible
    <3>2. /\ new \in Task /\ new.files = t.files /\ new.status = "failed"
          /\ new.target = t.target /\ new.content = t.content
      BY DEF Task
    <3> HIDE DEF new
    <3> QED
      BY <2>0, <3>1, <3>2
  <2>3. new # NoTask
    BY <2>2 DEF NoTask
  <2> HIDE DEF new
  <2>4. task' \in [Key -> Task \cup {NoTask}] /\ task'[key] = new
    BY <2>1, <2>2
  <2>5. \A k \in Key : k # key => task'[k] = task[k]
    BY <2>1
  <2>6. TasksAreSound'
    BY <2>2, <2>4, <2>5 DEF TasksAreSound, OneFilePerKey, VisibleIsNotGivenUp, Visible, Exists
  <2>7. \A k \in Key : Advances(k)
    BY <1>2, <2>2, <2>3, <2>4, <2>5 DEF Advances, Exists
  <2> QED
    BY <2>4, <2>6, <2>7
<1> QED
  BY <1>3, <1>4 DEF Fail

-----------------------------------------------------------------------------
(* The steps.                                                              *)

\* A handler enters: a new task, or an old one with the same content.
LEMMA PreparationKeepsInvariant ==
    ASSUME UploadInvariant, NEW r \in Requests, BeginUpload(r) \/ LosePreparation(r)
    PROVE  UploadInvariant'
<1> DEFINE key == r.key
           new == NewTask(r)
<1> USE DEF UploadInvariant
<1>1. r \in Request /\ key \in Key
  BY RequestsAssumption DEF Request
<1>2. new \in Task /\ new.files = 0 /\ new.content = r.content /\ new # NoTask
  BY <1>1 DEF NewTask, Task, Request, NoTask
<1>3. \/ UNCHANGED task /\ Exists(key) /\ task[key].content = r.content
      \/ ~Exists(key) /\ task' = [task EXCEPT ![key] = new]
  BY DEF BeginUpload, LosePreparation, Prepare
<1>4. UNCHANGED <<object, member, confirmed>>
  BY DEF BeginUpload, LosePreparation
<1> HIDE DEF new
<1>5. /\ task' \in [Key -> Task \cup {NoTask}]
      /\ task'[key] # NoTask /\ task'[key].content = r.content
      /\ \A k \in Key : Exists(k) => task'[k] = task[k]
      /\ \A k \in Key : ~Exists(k) => task'[k] = NoTask \/ task'[k] = new
  BY <1>1, <1>2, <1>3 DEF UploadTypeOK, Exists
<1>6. /\ handlers' \in Seq(Handler)
      /\ \A i \in 1..Len(handlers') : \/ handlers'[i].request = r
                                      \/ i \in 1..Len(handlers) /\ handlers'[i] = handlers[i]
  <2>1. handlers \in Seq(Handler)
    BY DEF UploadTypeOK
  <2>2. CASE UNCHANGED handlers
    BY <2>1, <2>2
  <2>3. CASE handlers' = Append(handlers, [request |-> r, at |-> "put", landed |-> FALSE])
    <3>1. PICK h \in Handler : h = [request |-> r, at |-> "put", landed |-> FALSE]
      BY <1>1 DEF Handler
    <3>2. handlers' = Append(handlers, h) /\ h.request = r
      BY <2>3, <3>1
    <3>3. /\ handlers' \in Seq(Handler) /\ Len(handlers') = Len(handlers) + 1
          /\ \A i \in 1..Len(handlers') :
                handlers'[i] = IF i <= Len(handlers) THEN handlers[i] ELSE h
      BY <2>1, <3>2
    <3>4. \A i \in 1..Len(handlers') : i <= Len(handlers) => i \in 1..Len(handlers)
      BY <2>1, <3>3
    <3> QED
      BY <3>2, <3>3, <3>4
  <2> QED
    BY <2>2, <2>3 DEF BeginUpload, LosePreparation
<1>7. UploadTypeOK'
  BY <1>4, <1>5, <1>6 DEF UploadTypeOK
<1>8. HandlersHaveTasks'
  <2>1. ASSUME NEW i \in 1..Len(handlers'), i \in 1..Len(handlers), handlers'[i] = handlers[i]
        PROVE  /\ task'[handlers'[i].request.key] # NoTask
               /\ task'[handlers'[i].request.key].content = handlers'[i].request.content
    BY <1>5, <2>1, HandlerRequest DEF HandlersHaveTasks, Exists
  <2> QED
    BY <1>5, <1>6, <2>1 DEF HandlersHaveTasks, Exists
<1>9. OneFilePerKey' /\ VisibleIsNotGivenUp'
  BY <1>2, <1>5 DEF OneFilePerKey, VisibleIsNotGivenUp, Visible, Exists
<1>10. ObjectsMatchAssets'
  BY <1>4, <1>5 DEF ObjectsMatchAssets, Exists
<1>11. ConfirmedIsVisible'
  <2>1. \A q \in confirmed : q.key \in Key
    BY DEF UploadTypeOK, Request
  <2> QED
    BY <1>4, <1>5, <2>1 DEF ConfirmedIsVisible, Visible, Exists
<1> QED
  BY <1>7, <1>8, <1>9, <1>10, <1>11

\* A put or a remove takes effect.
LEMMA LandingKeepsInvariant ==
    ASSUME UploadInvariant, NEW i \in 1..Len(handlers), Land(i)
    PROVE  UploadInvariant'
<1> USE DEF UploadInvariant
<1> DEFINE r == handlers[i].request
<1>1. /\ handlers[i] \in Handler /\ r \in Request /\ r.key \in Key
      /\ Exists(r.key) /\ task[r.key].content = r.content
  BY HandlerRequest DEF HandlersHaveTasks
<1>2. PICK new \in Content \cup {NoObject} :
         /\ object' = [object EXCEPT ![r.key] = new]
         /\ new \in {r.content, NoObject}
  BY <1>1 DEF Land, Request
<1>3. UNCHANGED <<task, member, confirmed>>
  BY DEF Land
<1>4. PICK h \in Handler : handlers' = [handlers EXCEPT ![i] = h] /\ h.request = r
  <2>1. PICK g \in Handler : g = handlers[i]
    BY <1>1
  <2>2. [g EXCEPT !.landed = TRUE] \in Handler /\ [g EXCEPT !.landed = TRUE].request = g.request
    BY DEF Handler
  <2>3. handlers' = [handlers EXCEPT ![i] = [g EXCEPT !.landed = TRUE]]
    BY <2>1 DEF Land
  <2> QED
    BY <2>1, <2>2, <2>3
<1>5. /\ handlers' \in Seq(Handler) /\ Len(handlers') = Len(handlers)
      /\ \A j \in 1..Len(handlers') : handlers'[j].request = handlers[j].request
  <2>1. handlers \in Seq(Handler)
    BY DEF UploadTypeOK
  <2> QED
    BY <1>4, <2>1
<1>6. UploadTypeOK'
  BY <1>1, <1>2, <1>3, <1>5 DEF UploadTypeOK
<1>7. \A k \in Key : object'[k] # NoObject =>
         object'[k] = object[k] \/ (Exists(k) /\ object'[k] = task[k].content)
  BY <1>1, <1>2 DEF UploadTypeOK
<1>8. TasksAreSound' /\ \A k \in Key : Advances(k)
  <2>1. \A k \in Key : Exists(k) => task[k].files \in Nat
    BY DEF UploadTypeOK, Exists, Task
  <2> QED
    BY <1>3, <2>1 DEF TasksAreSound, OneFilePerKey, VisibleIsNotGivenUp, Visible, Exists, Advances
<1> QED
  BY <1>3, <1>5, <1>6, <1>7, <1>8, AdvancingKeepsInvariant

\* A handler goes on after a call of the object store, or the process dies: tasks
\* only advance, and the handlers that remain are the ones that were suspended.
LEMMA ReturnKeepsInvariant ==
    ASSUME UploadInvariant,
           CompleteUpload \/ CompensateUpload \/ PutFails \/ FinishCompensation \/ Crash
    PROVE  UploadInvariant'
<1> USE DEF UploadInvariant
<1>1. handlers # <<>> /\ UNCHANGED <<object, member>>
  BY DEF CompleteUpload, CompensateUpload, PutFails, FinishCompensation, Crash, Waits
<1>2. PICK top \in Handler : top = Top /\ top = handlers[Len(handlers)]
  BY <1>1, TopHandler
<1> DEFINE r == top.request
<1>3. /\ r \in Request /\ r.key \in Key
      /\ Exists(r.key) /\ task[r.key].content = r.content
  BY <1>1, <1>2, TopHandler, HandlerRequest DEF HandlersHaveTasks
<1>4. /\ handlers' \in Seq(Handler)
      /\ \A i \in 1..Len(handlers') : \E j \in 1..Len(handlers) :
            handlers'[i].request = handlers[j].request
  <2>1. CASE handlers' = Front(handlers)
    BY <1>1, <2>1, TopHandler
  <2>2. CASE handlers' = <<>>
    BY <2>2
  <2>3. CASE CompensateUpload
    <3> DEFINE h == [[top EXCEPT !.at = "remove"] EXCEPT !.landed = FALSE]
    <3>1. h \in Handler /\ h.request = top.request
      BY DEF Handler
    <3>2. handlers \in Seq(Handler) /\ Len(handlers) \in 1..Len(handlers)
      BY <1>1, TopHandler DEF UploadTypeOK
    <3>3. handlers' = [handlers EXCEPT ![Len(handlers)] = h]
      BY <1>2, <2>3, <3>2 DEF CompensateUpload
    <3> HIDE DEF h
    <3> QED
      BY <1>2, <3>1, <3>2, <3>3
  <2> QED
    BY <2>1, <2>2, <2>3 DEF CompleteUpload, PutFails, FinishCompensation, Crash
<1>5. /\ task' \in [Key -> Task \cup {NoTask}]
      /\ TasksAreSound'
      /\ \A k \in Key : Advances(k)
  <2>1. CASE UNCHANGED task
    <3>1. \A k \in Key : Exists(k) => task[k].files \in Nat
      BY DEF UploadTypeOK, Exists, Task
    <3> QED
      BY <2>1, <3>1 DEF UploadTypeOK, TasksAreSound, OneFilePerKey, VisibleIsNotGivenUp,
                        Visible, Exists, Advances
  <2>2. CASE Complete(r)
    BY <1>3, <2>2, CompleteAdvances
  <2>3. CASE Fail(r.key)
    BY <1>3, <2>3, FailAdvances
  <2> QED
    BY <1>2, <2>1, <2>2, <2>3
       DEF CompleteUpload, CompensateUpload, PutFails, FinishCompensation, Crash
<1>6. confirmed' = confirmed \/ (Complete(r) /\ confirmed' = confirmed \cup {r})
  BY <1>2 DEF CompleteUpload, CompensateUpload, PutFails, FinishCompensation, Crash
<1>7. \A q \in confirmed' : q \in confirmed \/
         (/\ q \in Request
          /\ task'[q.key] # NoTask /\ task'[q.key].files > 0
          /\ task'[q.key].target = q.target /\ task'[q.key].content = q.content)
  <2>1. CASE Complete(r)
    BY <1>3, <1>6, <2>1, CompleteAdvances
  <2> QED
    BY <1>6, <2>1
<1>8. UploadTypeOK'
  BY <1>1, <1>3, <1>4, <1>5, <1>6 DEF UploadTypeOK
<1>9. \A k \in Key : object'[k] # NoObject =>
         object'[k] = object[k] \/ (Exists(k) /\ object'[k] = task[k].content)
  BY <1>1
<1> QED
  BY <1>4, <1>5, <1>7, <1>8, <1>9, AdvancingKeepsInvariant

\* An empty database and an empty object store.
LEMMA UploadInitEstablishesInvariant == UploadInit => UploadInvariant
<1> SUFFICES ASSUME UploadInit PROVE UploadInvariant
  OBVIOUS
<1>1. handlers = <<>> /\ \A k \in Key : task[k] = NoTask /\ object[k] = NoObject
  BY DEF UploadInit
<1>2. UploadTypeOK
  BY DEF UploadInit, UploadTypeOK
<1> QED
  BY <1>1, <1>2 DEF UploadInit, UploadInvariant, HandlersHaveTasks, OneFilePerKey,
                    VisibleIsNotGivenUp, ObjectsMatchAssets, ConfirmedIsVisible, Visible, Exists

\* No upload, retry, answer, failure or crash breaks the invariant.
LEMMA UploadStepKeepsInvariant == UploadInvariant /\ [UploadNext]_uploadVars => UploadInvariant'
<1> SUFFICES ASSUME UploadInvariant, [UploadNext]_uploadVars
             PROVE  UploadInvariant'
  OBVIOUS
<1>1. ASSUME NEW r \in Requests, BeginUpload(r) \/ LosePreparation(r)
      PROVE  UploadInvariant'
  BY <1>1, PreparationKeepsInvariant
<1>2. ASSUME NEW i \in DOMAIN handlers, Land(i)
      PROVE  UploadInvariant'
  <2>1. i \in 1..Len(handlers)
    BY <1>2 DEF UploadInvariant, UploadTypeOK
  <2> QED
    BY <1>2, <2>1, LandingKeepsInvariant
<1>3. CASE CompleteUpload \/ CompensateUpload \/ PutFails \/ FinishCompensation \/ Crash
  BY <1>3, ReturnKeepsInvariant
<1>4. CASE /\ member' \subseteq Conversation
           /\ UNCHANGED <<task, object, handlers, confirmed>>
  <2>1. UploadTypeOK'
    BY <1>4 DEF UploadInvariant, UploadTypeOK
  <2>2. (HandlersHaveTasks /\ OneFilePerKey /\ VisibleIsNotGivenUp)'
    BY <1>4 DEF UploadInvariant, HandlersHaveTasks, OneFilePerKey, VisibleIsNotGivenUp, Visible, Exists
  <2>3. (ObjectsMatchAssets /\ ConfirmedIsVisible)'
    BY <1>4 DEF UploadInvariant, ObjectsMatchAssets, ConfirmedIsVisible, Visible, Exists
  <2> QED
    BY <2>1, <2>2, <2>3 DEF UploadInvariant
<1>5. ASSUME NEW c \in Conversation, ChangeMembership(c)
      PROVE  /\ member' \subseteq Conversation
             /\ UNCHANGED <<task, object, handlers, confirmed>>
  BY <1>5 DEF ChangeMembership, UploadInvariant, UploadTypeOK
<1>6. CASE UNCHANGED uploadVars
  BY <1>4, <1>6 DEF uploadVars, UploadInvariant, UploadTypeOK
<1> QED
  BY <1>1, <1>2, <1>3, <1>4, <1>5, <1>6 DEF UploadNext

\* The inductive invariant, for every instance.
THEOREM UploadsAreCorrect == UploadSpec => []UploadInvariant
BY UploadInitEstablishesInvariant, UploadStepKeepsInvariant, PTL DEF UploadSpec

\* The type invariant, for every instance.
THEOREM UploadTypeIsCorrect == UploadSpec => []UploadTypeOK
BY UploadsAreCorrect, PTL DEF UploadInvariant

\* A key makes one message or document at most, a compensation never gives up what
\* another attempt made visible, and an object has the content its asset names:
\* across nested handlers, crashes, lost answers.
THEOREM UploadsAreIdempotent == UploadSpec => []UploadsAgree
BY UploadsAreCorrect, PTL DEF UploadInvariant, UploadsAgree

\* A success that was answered stays true.
THEOREM FilesAreWhatWasConfirmed == UploadSpec => []ConfirmedIsVisible
BY UploadsAreCorrect, PTL DEF UploadInvariant

=============================================================================
