-------------------------- MODULE ConversationLog --------------------------
(***************************************************************************)
(* What the message store promises its users, without tables: every        *)
(* conversation is one append-only log, a client message id of a device is *)
(* logged at most once, and each person has two cursors per conversation,  *)
(* read behind delivered behind the end of the log, that only move         *)
(* forward.  MessageStore implements it (MCMessageStore checks this with   *)
(* the refinement mapping).                                                *)
(***************************************************************************)
EXTENDS Integers, Sequences

CONSTANTS Person, Device, OwnerOf, Conversation, ClientMessageId

VARIABLES log, delivered, read

logVars == <<log, delivered, read>>

\* What a log entry is identified by: the sending device and its message id.
Key == Device \X ClientMessageId

Logged(key) == \E c \in Conversation : \E s \in 1..Len(log[c]) : log[c][s] = key

Init ==
    /\ log = [c \in Conversation |-> <<>>]
    /\ delivered = [c \in Conversation |-> [p \in Person |-> 0]]
    /\ read = [c \in Conversation |-> [p \in Person |-> 0]]

Accept(c, key) ==
    /\ ~Logged(key)
    /\ log' = [log EXCEPT ![c] = Append(@, key)]
    /\ UNCHANGED <<delivered, read>>

\* A cursor only ever comes to rest on a message of somebody else.
ByOther(c, s, p) == OwnerOf[log[c][s][1]] # p

Deliver(c, p) ==
    \E s \in (delivered[c][p] + 1)..Len(log[c]) :
        /\ ByOther(c, s, p)
        /\ delivered' = [delivered EXCEPT ![c][p] = s]
        /\ UNCHANGED <<log, read>>

Read(c, p) ==
    \E s \in (read[c][p] + 1)..delivered[c][p] :
        /\ ByOther(c, s, p)
        /\ read' = [read EXCEPT ![c][p] = s]
        /\ UNCHANGED <<log, delivered>>

Next == \E c \in Conversation :
            \/ \E key \in Key : Accept(c, key)
            \/ \E p \in Person : Deliver(c, p) \/ Read(c, p)

Spec == Init /\ [][Next]_logVars

=============================================================================
