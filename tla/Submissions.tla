---------------------------- MODULE Submissions ----------------------------
(***************************************************************************)
(* submitMessage, and the message completeFileUpload writes, as the        *)
(* statements of their transactions, for several gateway processes on one  *)
(* database.  Every statement sees what is committed when it begins (READ  *)
(* COMMITTED, nothing else is asked for); what a transaction writes is     *)
(* seen by others from its commit on.  MessageStore takes each call as one *)
(* step: SubmissionsAreCalls says how far that is right.                   *)
(*                                                                         *)
(* Statements whose snapshots nobody can tell apart are one step: the row  *)
(* lock with the counter read under it, the insert with the outbox rows    *)
(* behind it.  The members read for the live pushes are left out.          *)
(***************************************************************************)
EXTENDS MessageStoreLog

CONSTANT GatewayProcess

VARIABLE submissions   \* the transactions under way, at most one of a process

submissionVars == << storeVars, submissions >>

(* step: what was done last.  sequence and rows are the counter and the    *)
(* recipients of the outbox rows, 0 and {} until they are written.         *)
Submission == [gateway : GatewayProcess, device : Device, conversation : Conversation,
               clientId : ClientMessageId, kind : Kind,
               step : {"looked", "waits", "locked", "inserted"},
               sequence : 0..MaxSequence, rows : SUBSET Person]

Sender(s) == OwnerOf[s.device]
Advance(s, next) == submissions' = (submissions \ {s}) \cup {next}

(* FOR UPDATE OF c is held from the row lock to the end of the transaction.*)
Holds(s, c) == s.conversation = c /\ s.step \in {"locked", "inserted"}

-----------------------------------------------------------------------------
(* The first statement finds no earlier row.  submitMessage looks without  *)
(* a lock; completeFileUpload locks the transfer task of the person and    *)
(* the key until it ends, and reads the message id in it.                  *)
BeginSubmission(g, d, c, id, kind) ==
    /\ \A s \in submissions : s.gateway # g
    /\ kind = "text" => Submitted(d, id) = {}
    /\ kind = "file" =>
          /\ \A s \in submissions : ~(s.kind = "file" /\ s.clientId = id /\ Sender(s) = OwnerOf[d])
          /\ Uploaded(OwnerOf[d], id) = {}
    /\ submissions' = submissions \cup
         {[gateway |-> g, device |-> d, conversation |-> c, clientId |-> id, kind |-> kind,
           step |-> "looked", sequence |-> 0, rows |-> {}]}
    /\ UNCHANGED storeVars

(* SELECT ... FOR UPDATE OF c begins: the member row is the one committed  *)
(* now, however long the statement waits for the conversation.             *)
FindConversation(s) ==
    /\ s.step = "looked"
    /\ membership[s.conversation][Sender(s)] = "active"
    /\ Advance(s, [s EXCEPT !.step = "waits"])
    /\ UNCHANGED storeVars

(* It gets the row, and reads the counter again in the version it locks.   *)
LockConversation(s) ==
    /\ s.step = "waits"
    /\ \A t \in submissions : ~Holds(t, s.conversation)
    /\ lastMessageSequence[s.conversation] < MaxSequence
    /\ Advance(s, [s EXCEPT !.step = "locked",
                            !.sequence = lastMessageSequence[s.conversation] + 1])
    /\ UNCHANGED storeVars

\* Mutant: the table has no UNIQUE (sender_device_id, client_message_id).
OnlySequenceIsFree(s) ==
    ~\E m \in messages : m.conversation = s.conversation /\ m.sequence = s.sequence

(* Neither UNIQUE constraint of messages refuses the row, and no row with  *)
(* this key that is not committed yet keeps the insert waiting.            *)
RowIsFree(s) ==
    /\ Submitted(s.device, s.clientId) = {}
    /\ \A t \in submissions \ {s} :
          ~(t.step = "inserted" /\ t.device = s.device /\ t.clientId = s.clientId)
    /\ ~\E m \in messages : m.conversation = s.conversation /\ m.sequence = s.sequence

InsertRows(s) ==
    /\ s.step = "locked"
    /\ RowIsFree(s)
    /\ Advance(s, [s EXCEPT !.step = "inserted",
                            !.rows = Recipients(s.conversation, Sender(s))])
    /\ UNCHANGED storeVars

CommitSubmission(s) ==
    /\ s.step = "inserted"
    /\ lastMessageSequence' = [lastMessageSequence EXCEPT ![s.conversation] = s.sequence]
    /\ messages' = messages \cup
         {[conversation |-> s.conversation, sequence |-> s.sequence, sender |-> Sender(s),
           device |-> s.device, clientId |-> s.clientId, kind |-> s.kind]}
    /\ outbox' = outbox \cup {<< s.conversation, s.sequence, q >> : q \in s.rows}
    /\ submissions' = submissions \ {s}
    /\ UNCHANGED << membership, lastDelivered, lastRead, receipts >>

(* ROLLBACK: the sender is no member, a constraint refuses the row, a      *)
(* statement or the commit fails, the process dies.                        *)
AbandonSubmission(s) ==
    /\ submissions' = submissions \ {s}
    /\ UNCHANGED storeVars

(* A new member row refers to its conversation: the foreign key waits for  *)
(* who holds that row FOR UPDATE.  Reviving a member row does not.         *)
JoinBeside(c, p) ==
    /\ membership[c][p] = "none" => \A s \in submissions : ~Holds(s, c)
    /\ JoinConversation(c, p)
    /\ UNCHANGED submissions

SubmissionInit == Init /\ submissions = {}

SubmissionNext ==
    \/ \E g \in GatewayProcess, d \in Device, c \in Conversation, id \in ClientMessageId,
          kind \in Kind : BeginSubmission(g, d, c, id, kind)
    \/ \E s \in submissions :
          \/ FindConversation(s) \/ LockConversation(s) \/ InsertRows(s)
          \/ CommitSubmission(s) \/ AbandonSubmission(s)
    \/ \E c \in Conversation, p \in Person :
          \/ \E s \in Sequence : /\ MarkDelivered(p, c, s) \/ MarkRead(p, c, s)
                                 /\ UNCHANGED submissions
          \/ JoinBeside(c, p)
          \/ LeaveConversation(c, p) /\ UNCHANGED submissions

SubmissionSpec == SubmissionInit /\ [][SubmissionNext]_submissionVars

-----------------------------------------------------------------------------
(* The members a submission read are not those of the conversation now.    *)
MembersChanged(s) ==
    \/ membership[s.conversation][Sender(s)] # "active"
    \/ s.rows # Recipients(s.conversation, Sender(s))

(* Whatever the gateways interleave, the tables change by the one-step     *)
(* calls of MessageStore: a commit finds its key still free, although it   *)
(* was looked up before the lock, and takes the next number.  Except that  *)
(* who joined or left while a submission was open may be missing from its  *)
(* outbox rows or stand in them, and who left may still have sent.         *)
SubmissionsAreCalls ==
    [][StoreNext \/ \E s \in submissions : MembersChanged(s) /\ CommitSubmission(s)]_storeVars
=============================================================================
