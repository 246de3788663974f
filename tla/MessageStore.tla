---------------------------- MODULE MessageStore ----------------------------
(***************************************************************************)
(* The conversation tables behind the gateway: messages, the sequence      *)
(* counter of each conversation, the delivered and read watermarks of each *)
(* member, the outbox and the receipts.  One action per store call that    *)
(* changes them (PostgresRuntimeStore); each call is one transaction that  *)
(* locks the conversation or group row, so it is one step.  Calls arrive   *)
(* in any order from any person: what the callers really do is added by    *)
(* the modules that extend this one.                                       *)
(*                                                                         *)
(* A server message id stands for one row, so <<conversation, sequence>>   *)
(* identifies a message in receipts; text, encryption and timestamps are   *)
(* left out.                                                               *)
(***************************************************************************)
EXTENDS Integers, FiniteSets

CONSTANTS
    Person,           \* person ids
    Device,           \* rows of user_devices
    OwnerOf,          \* the person whose account registered a device
    Conversation,     \* conversation ids
    ClientMessageId,  \* uuids chosen by the sending clients
    MaxSequence       \* bound on the sequence of one conversation (a bigint in the code)

ASSUME OwnerAssumption == OwnerOf \in [Device -> Person]
ASSUME MaxSequenceAssumption == MaxSequence \in Nat

VARIABLES
    messages,             \* table messages
    lastMessageSequence,  \* conversations.last_message_sequence
    membership,           \* conversation_members: no row, a live row, or left_at_utc set
    lastDelivered,        \* conversation_members.last_delivered_sequence
    lastRead,             \* conversation_members.last_read_sequence
    outbox,               \* rows of message_outbox with dispatched_at_utc IS NULL
    receipts              \* table message_receipts

storeVars == <<messages, lastMessageSequence, membership, lastDelivered,
               lastRead, outbox, receipts>>

Membership == {"none", "active", "left"}
Kind == {"text", "file"}
Sequence == 1..MaxSequence

Message == [conversation : Conversation, sequence : Sequence, sender : Person,
            device : Device, clientId : ClientMessageId, kind : Kind]

OutboxRow == Conversation \X Sequence \X Person
Receipt == [conversation : Conversation, sequence : Sequence, person : Person,
            type : {"delivered", "read"}]

TypeOK ==
    /\ messages \subseteq Message
    /\ lastMessageSequence \in [Conversation -> 0..MaxSequence]
    /\ membership \in [Conversation -> [Person -> Membership]]
    /\ lastDelivered \in [Conversation -> [Person -> 0..MaxSequence]]
    /\ lastRead \in [Conversation -> [Person -> 0..MaxSequence]]
    /\ outbox \subseteq OutboxRow
    /\ receipts \subseteq Receipt

-----------------------------------------------------------------------------
(* Queries.                                                                *)

Active(c) == {p \in Person : membership[c][p] = "active"}

Recipients(c, p) == Active(c) \ {p}

\* The row an earlier submission of the same client message left behind.
Submitted(d, id) == {m \in messages : m.device = d /\ m.clientId = id}

\* The message of an earlier upload: its transfer task is found by the person.
Uploaded(p, id) == {m \in messages : m.sender = p /\ m.clientId = id /\ m.kind = "file"}

\* Messages of other members above the delivered watermark of p: what a login replays.
Pending(p) == {m \in messages : /\ m.sender # p
                                /\ membership[m.conversation][p] = "active"
                                /\ m.sequence > lastDelivered[m.conversation][p]}

\* The anchor a receipt must name: somebody else's message in a conversation p is in.
Anchor(p, c, s) == {m \in messages : /\ m.conversation = c
                                     /\ m.sequence = s
                                     /\ m.sender # p
                                     /\ membership[c][p] = "active"}

Max2(a, b) == IF a >= b THEN a ELSE b
Min2(a, b) == IF a <= b THEN a ELSE b

-----------------------------------------------------------------------------
(* Store calls.                                                            *)

Init ==
    /\ messages = {}
    /\ lastMessageSequence = [c \in Conversation |-> 0]
    /\ membership \in [Conversation -> [Person -> {"none", "active"}]]
    /\ lastDelivered = [c \in Conversation |-> [p \in Person |-> 0]]
    /\ lastRead = [c \in Conversation |-> [p \in Person |-> 0]]
    /\ outbox = {}
    /\ receipts = {}

\* Mutant: the counter is read but not incremented before the insert.
InsertAtOldCounter(d, c, id, kind) ==
    LET s == lastMessageSequence[c]
        p == OwnerOf[d]
    IN /\ lastMessageSequence' = [lastMessageSequence EXCEPT ![c] = s + 1]
       /\ messages' = messages \cup
            {[conversation |-> c, sequence |-> s, sender |-> p,
              device |-> d, clientId |-> id, kind |-> kind]}
       /\ outbox' = outbox \cup {<<c, s, q>> : q \in Recipients(c, p)}
       /\ UNCHANGED <<membership, lastDelivered, lastRead, receipts>>

\* Mutant: the incremented counter is not written back.
InsertWithoutCounter(d, c, id, kind) ==
    LET s == lastMessageSequence[c] + 1
        p == OwnerOf[d]
    IN /\ messages' = messages \cup
            {[conversation |-> c, sequence |-> s, sender |-> p,
              device |-> d, clientId |-> id, kind |-> kind]}
       /\ outbox' = outbox \cup {<<c, s, q>> : q \in Recipients(c, p)}
       /\ UNCHANGED <<lastMessageSequence, membership, lastDelivered, lastRead, receipts>>

\* Allocate the next sequence, insert the message and one outbox row for each
\* other live member, all in the transaction that holds the conversation row.
InsertMessage(d, c, id, kind) ==
    LET s == lastMessageSequence[c] + 1
        p == OwnerOf[d]
    IN /\ lastMessageSequence' = [lastMessageSequence EXCEPT ![c] = s]
       /\ messages' = messages \cup
            {[conversation |-> c, sequence |-> s, sender |-> p,
              device |-> d, clientId |-> id, kind |-> kind]}
       /\ outbox' = outbox \cup {<<c, s, q>> : q \in Recipients(c, p)}
       /\ UNCHANGED <<membership, lastDelivered, lastRead, receipts>>

\* Mutant: no lookup of an earlier row.
CanSubmitAgain(d, c, id) ==
    /\ membership[c][OwnerOf[d]] = "active"
    /\ lastMessageSequence[c] < MaxSequence

CanSubmit(d, c, id) ==
    /\ Submitted(d, id) = {}
    /\ membership[c][OwnerOf[d]] = "active"
    /\ lastMessageSequence[c] < MaxSequence

\* submitMessage, the accepting path.  When the key (sender_device_id,
\* client_message_id) is taken the first row is acknowledged again and nothing
\* is written, which is a stuttering step here; a refusal writes nothing either.
SubmitMessage(d, c, id) ==
    /\ CanSubmit(d, c, id)
    /\ InsertMessage(d, c, id, "text")

\* completeFileUpload for a conversation: the file becomes a message of its own.
AcceptFileMessage(d, c, id) ==
    /\ Uploaded(OwnerOf[d], id) = {}
    /\ CanSubmit(d, c, id)
    /\ InsertMessage(d, c, id, "file")

\* Mutant: the watermark is set, not raised.
MarkDeliveredBackwards(p, c, s) ==
    /\ Anchor(p, c, s) # {}
    /\ lastDelivered' = [lastDelivered EXCEPT ![c][p] = s]
    /\ receipts' = receipts \cup
         {[conversation |-> c, sequence |-> s, person |-> p, type |-> "delivered"]}
    /\ outbox' = outbox \ {<<c, s, p>>}
    /\ UNCHANGED <<messages, lastMessageSequence, membership, lastRead>>

\* markDelivered: the anchor is checked, then the watermark moves to it at once,
\* whatever lies between the old watermark and the anchor.
MarkDelivered(p, c, s) ==
    /\ Anchor(p, c, s) # {}
    /\ lastDelivered' = [lastDelivered EXCEPT
         ![c][p] = Max2(@, Min2(s, lastMessageSequence[c]))]
    /\ receipts' = receipts \cup
         {[conversation |-> c, sequence |-> s, person |-> p, type |-> "delivered"]}
    /\ outbox' = outbox \ {<<c, s, p>>}
    /\ UNCHANGED <<messages, lastMessageSequence, membership, lastRead>>

\* markRead: refused above the delivered watermark.
CanRead(p, c, s) == Anchor(p, c, s) # {} /\ lastDelivered[c][p] >= s

\* Mutant: an older receipt takes the read watermark back.
MarkReadBackwards(p, c, s) ==
    /\ CanRead(p, c, s)
    /\ lastRead' = [lastRead EXCEPT ![c][p] = s]
    /\ receipts' = receipts \cup
         {[conversation |-> c, sequence |-> s, person |-> p, type |-> "read"]}
    /\ UNCHANGED <<messages, lastMessageSequence, membership, lastDelivered, outbox>>

MarkRead(p, c, s) ==
    /\ CanRead(p, c, s)
    /\ lastRead' = [lastRead EXCEPT ![c][p] = Max2(@, s)]
    /\ receipts' = receipts \cup
         {[conversation |-> c, sequence |-> s, person |-> p, type |-> "read"]}
    /\ UNCHANGED <<messages, lastMessageSequence, membership, lastDelivered, outbox>>

\* joinGroup and updateGroupMembers(Add): a new row starts at watermark 0, a row
\* with left_at_utc set is revived with the watermarks it had.
JoinConversation(c, p) ==
    /\ membership[c][p] # "active"
    /\ membership' = [membership EXCEPT ![c][p] = "active"]
    /\ UNCHANGED <<messages, lastMessageSequence, lastDelivered, lastRead, outbox, receipts>>

\* updateGroupMembers(Remove): only left_at_utc is set.
LeaveConversation(c, p) ==
    /\ membership[c][p] = "active"
    /\ membership' = [membership EXCEPT ![c][p] = "left"]
    /\ UNCHANGED <<messages, lastMessageSequence, lastDelivered, lastRead, outbox, receipts>>

StoreNext ==
    \E c \in Conversation :
        \/ \E d \in Device, id \in ClientMessageId :
              SubmitMessage(d, c, id) \/ AcceptFileMessage(d, c, id)
        \/ \E p \in Person, s \in Sequence : MarkDelivered(p, c, s) \/ MarkRead(p, c, s)
        \/ \E p \in Person : JoinConversation(c, p) \/ LeaveConversation(c, p)

StoreSpec == Init /\ [][StoreNext]_storeVars

-----------------------------------------------------------------------------
(* Properties of the store, whoever calls it.                              *)

\* Sequences of a conversation are handed out without a gap and without a
\* repetition: the rows of a conversation carry exactly 1..last_message_sequence.
SequencesAreDense ==
    \A c \in Conversation :
        /\ \A s \in 1..lastMessageSequence[c] :
              \E m \in messages : m.conversation = c /\ m.sequence = s
        /\ \A m \in messages : m.conversation = c => m.sequence <= lastMessageSequence[c]
        /\ \A m, n \in messages : m.conversation = c /\ n.conversation = c
                                  /\ m.sequence = n.sequence => m = n

\* Idempotence of sending: one (device, client message id) never owns two rows,
\* in whatever conversation or of whatever kind it is submitted again, and an
\* upload repeated from another device of the person makes no second message.
OneMessagePerKey ==
    \A m, n \in messages :
        /\ m.clientId = n.clientId
        /\ m.device = n.device \/ (m.sender = n.sender /\ m.kind = "file" /\ n.kind = "file")
        => m = n

\* last_read <= last_delivered <= last_message_sequence for every member row,
\* through leaving and coming back.
WatermarksAreOrdered ==
    \A c \in Conversation, p \in Person :
        /\ lastRead[c][p] <= lastDelivered[c][p]
        /\ lastDelivered[c][p] <= lastMessageSequence[c]

\* A receipt row is never ahead of the watermark it is evidence for, and always
\* names a message of somebody else.
ReceiptsBackWatermarks ==
    \A r \in receipts :
        /\ r.sequence <= IF r.type = "read" THEN lastRead[r.conversation][r.person]
                                            ELSE lastDelivered[r.conversation][r.person]
        /\ \E m \in messages : /\ m.conversation = r.conversation
                               /\ m.sequence = r.sequence
                               /\ m.sender # r.person

\* A watermark above 0 stands on a receipt: somebody confirmed that very message.
WatermarksHaveReceipts ==
    \A c \in Conversation, p \in Person :
        lastDelivered[c][p] > 0 =>
            \E r \in receipts : /\ r.conversation = c /\ r.person = p
                                /\ r.type = "delivered"
                                /\ r.sequence = lastDelivered[c][p]

\* An outbox row is dispatched by its own delivery receipt and by nothing else.
OutboxAgreesWithReceipts ==
    \A row \in outbox :
        [conversation |-> row[1], sequence |-> row[2], person |-> row[3],
         type |-> "delivered"] \notin receipts

\* Watermarks, receipts and the outbox tell one story: the four above together.
ReceiptsFollowWatermarks ==
    /\ WatermarksAreOrdered
    /\ ReceiptsBackWatermarks
    /\ WatermarksHaveReceipts
    /\ OutboxAgreesWithReceipts

\* No call takes a message back, renumbers it, or moves a watermark backwards.
HistoryOnlyGrows ==
    [][/\ messages \subseteq messages'
       /\ receipts \subseteq receipts'
       /\ \A c \in Conversation :
            /\ lastMessageSequence[c] <= lastMessageSequence'[c]
            /\ \A p \in Person : /\ lastDelivered[c][p] <= lastDelivered'[c][p]
                                 /\ lastRead[c][p] <= lastRead'[c][p]]_storeVars

=============================================================================
