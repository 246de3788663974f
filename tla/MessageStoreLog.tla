-------------------------- MODULE MessageStoreLog --------------------------
(***************************************************************************)
(* The refinement mapping from the tables of MessageStore to               *)
(* ConversationLog: the log of a conversation lists, sequence by sequence, *)
(* the keys of its rows; the cursors are the watermarks themselves.        *)
(***************************************************************************)
EXTENDS MessageStore, Sequences

RowAt(c, s) == CHOOSE m \in messages : m.conversation = c /\ m.sequence = s

LogOf == [c \in Conversation |->
            [s \in 1..lastMessageSequence[c] |-> <<RowAt(c, s).device, RowAt(c, s).clientId>>]]

Log == INSTANCE ConversationLog WITH log <- LogOf, delivered <- lastDelivered, read <- lastRead

\* The tables behave as the log and the cursors of ConversationLog: no call
\* reorders, drops or rewrites what an earlier call appended, and no receipt
\* moves a cursor past the log or behind itself.
ImplementsConversationLog == Log!Spec

=============================================================================
