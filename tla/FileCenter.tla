----------------------------- MODULE FileCenter -----------------------------
(***************************************************************************)
(* The file centre of PostgresRuntimeStore: documents, the shares made of  *)
(* them, folders and the audit, with the two operations the web            *)
(* administration has on them.  An operation of a user is one transaction  *)
(* that locks the document, hence one step; what is refused writes nothing *)
(* and is a stuttering step.  A user may expect any revision he has seen.  *)
(*                                                                         *)
(* The administration works in one statement: it sees the shares of the    *)
(* moment it begins, then waits for the lock of the document.              *)
(***************************************************************************)
EXTENDS People

CONSTANTS Document, DocumentName, FolderName, MaxDocumentRevision

VARIABLES
    documents,       \* file_documents by id
    shares,          \* file_document_shares of persons, per document
    fileEvents,      \* file_document_events per document
    folders,         \* file_folders: [owner, parent, name], parent "" at the root
    administration   \* statement that waits for a document: [document, action, seen] or none
fileCenterVars == << enabled, documents, shares, fileEvents, folders, administration >>

NoName == ""
Idle == [document |-> NoName, action |-> NoName, seen |-> {}]
Uploaded == DOMAIN documents
Recycled(d) == documents[d].deleted
ActiveShares(d) == {k \in DOMAIN shares[d] : ~shares[d][k].revoked}
SharedWith(d, p) == \E k \in ActiveShares(d) : shares[d][k].grantee = p
Audited(d) == [name |-> documents[d].name, favorite |-> documents[d].favorite,
               deleted |-> documents[d].deleted, revision |-> documents[d].revision]

\* an entry of the administration tells neither the name nor the revision
Unaudited == [name |-> NoName, favorite |-> FALSE, deleted |-> FALSE, revision |-> 0]

RevokeRows(d, rows) ==
    [k \in DOMAIN shares[d] |-> IF k \in rows THEN [shares[d][k] EXCEPT !.revoked = TRUE]
                                ELSE shares[d][k]]

-----------------------------------------------------------------------------
(* completeFileUpload of an upload without a conversation.                 *)
completeStandaloneUpload(p, d, name) ==
    /\ d \notin Uploaded
    /\ documents' = With(documents, d, [owner |-> p, name |-> name, favorite |-> FALSE,
                                        deleted |-> FALSE, revision |-> 1])
    /\ UNCHANGED << enabled, shares, fileEvents, folders, administration >>

(* What follows the UPDATE of the action: revision and audit.              *)
AuditFileAction(p, d, action, row) ==
    /\ documents' = [documents EXCEPT ![d] = [row EXCEPT !.revision = @ + 1]]
    /\ fileEvents' = [fileEvents EXCEPT ![d] =
           Append(@, [actor |-> p, action |-> action, from |-> Audited(d),
                      to |-> [name |-> row.name, favorite |-> row.favorite,
                              deleted |-> row.deleted, revision |-> row.revision + 1]])]
    /\ UNCHANGED << enabled, folders, administration >>

(* The row of its owner, at the revision he expects; a recycled document   *)
(* can only be restored.                                                   *)
ManagedDocument(p, d, expectedRevision, action) ==
    /\ d \in Uploaded
    /\ documents[d].owner = p
    /\ documents[d].revision = expectedRevision
    /\ expectedRevision < MaxDocumentRevision
    /\ Recycled(d) => action = "restore"

updateFileCenterItem(p, d, expectedRevision) ==
    LET Update(action, row) ==
            /\ ManagedDocument(p, d, expectedRevision, action)
            /\ AuditFileAction(p, d, action, row)
            /\ UNCHANGED shares
    IN \/ \E desired \in BOOLEAN :
             Update("favorite", [documents[d] EXCEPT !.favorite = desired])
       \/ Update("recycle", [documents[d] EXCEPT !.deleted = TRUE, !.favorite = FALSE])
       \/ Update("restore", [documents[d] EXCEPT !.deleted = FALSE])
       \/ \E name \in DocumentName : Update("rename", [documents[d] EXCEPT !.name = name])

ShareTarget(p, q) == p \in Person /\ q \in {x \in enabled : OrganizationOf[x] = OrganizationOf[p]} \ {p}

\* Mutant: a second share is made beside the first.
AnotherShare(d, q, permission) ==
    Append(shares[d], [grantee |-> q, permission |-> permission, revoked |-> FALSE])

(* An active share of that person is changed, else one is made.            *)
SharedRows(d, q, permission) ==
    IF SharedWith(d, q)
      THEN [k \in DOMAIN shares[d] |->
               IF k \in ActiveShares(d) /\ shares[d][k].grantee = q
                 THEN [shares[d][k] EXCEPT !.permission = permission] ELSE shares[d][k]]
      ELSE Append(shares[d], [grantee |-> q, permission |-> permission, revoked |-> FALSE])

shareFileCenterItem(p, d, expectedRevision, q) ==
    /\ ManagedDocument(p, d, expectedRevision, "share_person")
    /\ ShareTarget(p, q)
    /\ \E permission \in 1..2 : shares' = [shares EXCEPT ![d] = SharedRows(d, q, permission)]
    /\ AuditFileAction(p, d, "share_person", documents[d])

revokeFileCenterItem(p, d, expectedRevision, q) ==
    /\ ManagedDocument(p, d, expectedRevision, "revoke_person")
    /\ ShareTarget(p, q)
    /\ shares' = [shares EXCEPT ![d] =
                     RevokeRows(d, {k \in ActiveShares(d) : shares[d][k].grantee = q})]
    /\ AuditFileAction(p, d, "revoke_person", documents[d])

(* The unique indexes refuse a second name under one parent.               *)
createFileCenterFolder(p, parent, name) ==
    /\ parent # NoName => \E f \in folders : f.owner = p /\ f.name = parent /\ f.parent = NoName
    /\ [owner |-> p, parent |-> parent, name |-> name] \notin folders
    /\ folders' = folders \cup {[owner |-> p, parent |-> parent, name |-> name]}
    /\ UNCHANGED << enabled, documents, shares, fileEvents, administration >>

-----------------------------------------------------------------------------
(* revokeFileShares and deleteFile: the statement takes its snapshot, then *)
(* the lock; the shares it revokes are those of the snapshot.              *)
BeginAdministration(d, action) ==
    /\ administration = Idle /\ d \in Uploaded
    /\ documents[d].revision < MaxDocumentRevision
    /\ administration' = [document |-> d, action |-> action, seen |-> ActiveShares(d)]
    /\ UNCHANGED << enabled, documents, shares, fileEvents, folders >>

ApplyAdministration ==
    LET d == administration.document
        deletes == administration.action = "admin_soft_delete" IN
    /\ administration # Idle
    /\ shares' = [shares EXCEPT ![d] = RevokeRows(d, administration.seen \cap ActiveShares(d))]
    /\ documents' = [documents EXCEPT ![d] =
           [documents[d] EXCEPT !.revision = @ + 1, !.deleted = @ \/ deletes,
                                !.favorite = @ /\ ~deletes]]
    /\ fileEvents' = [fileEvents EXCEPT ![d] =
           Append(@, [actor |-> "administrator", action |-> administration.action,
                      from |-> Unaudited, to |-> Unaudited])]
    /\ administration' = Idle
    /\ UNCHANGED << enabled, folders >>

-----------------------------------------------------------------------------
(* What p sees.                                                            *)
InScope(p, d, scope) ==
    LET mine == documents[d].owner = p  shared == SharedWith(d, p) IN
    CASE scope = 0 -> mine /\ ~Recycled(d)
      [] scope = 1 -> ~Recycled(d) /\ (mine \/ shared)
      [] scope = 2 -> ~Recycled(d) /\ ~mine /\ shared
      [] scope = 3 -> FALSE                         \* nothing writes shares of groups
      [] scope = 4 -> mine /\ documents[d].favorite /\ ~Recycled(d)
      [] scope = 5 -> mine /\ Recycled(d)
listFileCenter(p, scope) == {d \in Uploaded : InScope(p, d, scope)}
sharedCount(d) == Cardinality(ActiveShares(d))

loadFileCenterDetail(p, d) == documents[d].owner = p \/ (~Recycled(d) /\ SharedWith(d, p))
authorizeFileDownload(p, d) == ~Recycled(d) /\ (documents[d].owner = p \/ SharedWith(d, p))

handleFileCenter(p) ==
    \/ \E d \in Document :
          \/ \E name \in DocumentName : completeStandaloneUpload(p, d, name)
          \/ \E r \in 1..MaxDocumentRevision :
                \/ updateFileCenterItem(p, d, r)
                \/ \E q \in Person : shareFileCenterItem(p, d, r, q) \/ revokeFileCenterItem(p, d, r, q)
    \/ \E parent \in FolderName \cup {NoName}, name \in FolderName : createFileCenterFolder(p, parent, name)

FileCenterInit ==
    /\ PeopleInit
    /\ documents = << >> /\ folders = {} /\ administration = Idle
    /\ shares = [d \in Document |-> << >>] /\ fileEvents = [d \in Document |-> << >>]
FileCenterNext ==
    \/ \E p \in Person : handleFileCenter(p)
    \/ \E d \in Document, action \in {"admin_revoke_shares", "admin_soft_delete"} :
          BeginAdministration(d, action)
    \/ ApplyAdministration
    \/ \E p \in Person :
          updatePerson(p) /\ UNCHANGED << documents, shares, fileEvents, folders, administration >>
FileCenterSpec == FileCenterInit /\ [][FileCenterNext]_fileCenterVars

-----------------------------------------------------------------------------
(* The audit is the document's history (docs/file-center.md: every write   *)
(* checks the revision and audits in one transaction): one entry per       *)
(* revision; an owner's entry starts from the state the owner's entry just *)
(* before it left, and the last one left what is stored, although the      *)
(* administration's statements, which expect no revision, come in between. *)
DocumentsHaveOneHistory ==
    \A d \in Uploaded :
        LET events == fileEvents[d]
            ByOwner(k) == events[k].to # Unaudited
        IN
        /\ Len(events) = documents[d].revision - 1
        /\ \A k \in DOMAIN events : ByOwner(k) =>
              /\ events[k].from.revision = k /\ events[k].to.revision = k + 1
              /\ k > 1 /\ ByOwner(k - 1) => events[k].from = events[k - 1].to
              /\ k = Len(events) => events[k].to = Audited(d)

(* Lists, details, downloads and counts agree: what is listed outside the  *)
(* recycle bin can be opened and downloaded, what is recycled is seen by   *)
(* its owner alone, and the shown number of shares is the number of other  *)
(* people who can download.                                                *)
SharesAreReaders ==
    \A d \in Uploaded :
        LET readers == {p \in Person : authorizeFileDownload(p, d)} IN
        /\ \A p \in Person :
              /\ (\E scope \in 0..4 : d \in listFileCenter(p, scope))
                    <=> (loadFileCenterDetail(p, d) /\ p \in readers)
              /\ loadFileCenterDetail(p, d) /\ p \notin readers <=> d \in listFileCenter(p, 5)
        /\ ~Recycled(d) => Cardinality(readers \ {documents[d].owner}) = sharedCount(d)

(* Owner, grantees and audit see one document: both of the above.          *)
DocumentsAgree == DocumentsHaveOneHistory /\ SharesAreReaders
=============================================================================
