------------------------ MODULE WireTypes ------------------------
(***************************************************************************)
(* What the wire tables of libs/protocol are written with: member types,   *)
(* field numbers an encoder writes, the rules a decoder reads them by, and *)
(* the limits of ApplicationMessages.cpp.  Codec.tla gives them meaning.   *)
(***************************************************************************)
EXTENDS Naturals, Sequences, TLC

KiB == 1024

(* The member types of a message struct, each with its default value.      *)
Member(kind, of, default) == [kind |-> kind, of |-> of, default |-> default]
U64 == Member("u64", "", 0)
U32 == Member("u32", "", 0)
U32From(default) == Member("u32", "", default)
I32 == Member("i32", "", 0)
Bool == Member("bool", "", 0)
Text == Member("text", "", 0)
TextFrom(length) == Member("text", "", length)
One(struct) == Member("one", struct, 0)
Opt(struct) == Member("opt", struct, 0)
Many(of) == Member("many", of, 0)
NoMembers == [m \in {} |-> U64]

(* What an encoder writes: position = field number, "" = unused number;    *)
(* counts = the lists whose length it refuses above a limit.               *)
Plain(names) == [names |-> names, counts |-> [m \in {} |-> 0]]
Counted(names, counts) == [names |-> names, counts |-> counts]

(* How a decoder reads a field number: an integer of 64 or 32 bits, signed *)
(* or a truth value; a text (S) or nested message (M) of at most so many   *)
(* bytes; a list (R) of at most so many elements; Gap = not handled.       *)
Rule(kind, limit, of) == [kind |-> kind, limit |-> limit, of |-> of, count |-> 0]
N64 == Rule("u64", 0, "")
N32 == Rule("u32", 0, "")
N32s == Rule("i32", 0, "")
B == Rule("bool", 0, "")
Gap == Rule("gap", 0, "")
S(limit) == Rule("text", limit, "")
M(struct, limit) == Rule("one", limit, struct)
R(count, rule) == [rule EXCEPT !.count = count]

(* Every response starts with the same three members.                      *)
Status == [success |-> Bool, errorCode |-> U32, errorMessage |-> Text]
Reply == << "success", "errorCode", "errorMessage" >>

MaximumLoginNameBytes == 128
MaximumPasswordBytes == 1024
MaximumIdentifierBytes == 128
MaximumFriendlyTextBytes == 512
MaximumMessageContentBytes == 64 * KiB
MaximumFileContentBytes == 8 * KiB * KiB
MaximumConversationCount == 200
MaximumHistoryCount == 100
MaximumDirectoryRecordBytes == 8 * KiB
MaximumDirectoryRecordCount == 300000
MaximumDirectoryDeltaCount == 500
MaximumGroupCount == 200
MaximumGroupMemberCount == 500
MaximumGroupFileCount == 50
MaximumGroupTagCount == 12
MaximumNotificationCount == 100
MaximumNotificationFieldCount == 32
MaximumNotificationAttachmentCount == 20
MaximumContactSummaryCount == 100
MaximumContactGroupCount == 100
MaximumContactTagCount == 12
MaximumFileCenterItemCount == 100
MaximumFileCenterVersionCount == 50
MaximumFileCenterPermissionCount == 100
MaximumCalendarEventCount == 500
MaximumCalendarParticipantCount == 64

ReplyRules == << B, N32, S(MaximumFriendlyTextBytes) >>
=============================================================================
