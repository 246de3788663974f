------------------------------- MODULE Codec -------------------------------
(***************************************************************************)
(* What encodeMessage and decode... do with the tables of                  *)
(* ApplicationMessages.  Bytes are abstracted to tokens, one per field: a  *)
(* varint with its value, or a length-delimited field with its length and, *)
(* for a nested message, its own tokens.  A text is its length.            *)
(*                                                                         *)
(* Integers keep their widths, scaled to what TLC can count: Word stands   *)
(* for 2^32 and Wide for 2^64.                                             *)
(***************************************************************************)
EXTENDS ApplicationMessages, Integers, SequencesExt

Word == 2 ^ 15
Wide == Word * Word
MaximumBodySize == 16 * KiB * KiB
MaximumCalendarRange == 7 * Word      \* 366 days in ms: a few times 2^32

(* Bytes of a varint; above 2^14 a number is charged the most its width    *)
(* can take, a length what it really takes.                                *)
NumberBytes(n) == IF n < 128 THEN 1 ELSE IF n < 16384 THEN 2 ELSE IF n < Word THEN 5 ELSE 10
LengthBytes(n) == IF n < 128 THEN 1 ELSE IF n < 16384 THEN 2 ELSE IF n < 2097152 THEN 3 ELSE 4

Varint(field, n) == [field |-> field, wire |-> 0, value |-> n, body |-> <<>>]
Delimited(field, length, body) == [field |-> field, wire |-> 2, value |-> length, body |-> body]

TokenBytes(token) ==
    LengthBytes(8 * token.field)
    + IF token.wire = 0 THEN NumberBytes(token.value)
      ELSE LengthBytes(token.value) + token.value

(* Loops over long sequences go by halves, which keeps TLC's stack flat.   *)
FirstHalf(s) == SubSeq(s, 1, Len(s) \div 2)
SecondHalf(s) == SubSeq(s, Len(s) \div 2 + 1, Len(s))

RECURSIVE SizeOf(_)
SizeOf(tokens) ==
    IF tokens = <<>> THEN 0
    ELSE IF Len(tokens) = 1 THEN TokenBytes(tokens[1])
    ELSE SizeOf(FirstHalf(tokens)) + SizeOf(SecondHalf(tokens))

RECURSIVE Joined(_)
Joined(seqs) ==
    IF seqs = <<>> THEN <<>>
    ELSE IF Len(seqs) = 1 THEN seqs[1]
    ELSE Joined(FirstHalf(seqs)) \o Joined(SecondHalf(seqs))

-----------------------------------------------------------------------------
(* static_cast<uint64_t> of a member, and back to its declared type.       *)
AsUnsigned64(n) == IF n < 0 THEN Wide + n ELSE n
FromUnsigned64(kind, n) ==
    CASE kind = "u64" -> n
      [] kind = "u32" -> n % Word
      [] kind = "i32" -> IF n % Word >= Word \div 2 THEN (n % Word) - Word ELSE n % Word
      [] kind = "bool" -> IF n # 0 THEN 1 ELSE 0

writeUnsigned(field, n) == IF n = 0 THEN <<>> ELSE << Varint(field, AsUnsigned64(n)) >>
writeString(field, length) == IF length = 0 THEN <<>> ELSE << Delimited(field, length, <<>>) >>
writeNested(field, tokens) == << Delimited(field, SizeOf(tokens), tokens) >>

RECURSIVE Encode(_, _)
Written(field, of, x) ==
    CASE of = "text" -> writeString(field, x)
      [] of \in {"u64", "u32", "i32", "bool"} -> writeUnsigned(field, x)
      [] OTHER -> writeNested(field, Encode(of, x))

(* The fields of a value, by the coding of its struct.                     *)
WrittenFields(coding, value) ==
    LET names == coding.out.names
        WriteMember(field) ==
            LET member == coding.members[names[field]]  given == value[names[field]] IN
            CASE member.kind \in {"many", "opt"} ->
                    Joined([i \in DOMAIN given |-> Written(field, member.of, given[i])])
              [] member.kind = "one" -> Written(field, member.of, given)
              [] OTHER -> Written(field, member.kind, given)
    IN Joined([field \in DOMAIN names |->
                     IF names[field] = "" THEN <<>> ELSE WriteMember(field)])
Encode(struct, value) == WrittenFields(Schema[struct], value)

-----------------------------------------------------------------------------
(* Checks that are not about one field alone.                              *)
directoryChangePayloadMatches(value) ==
    LET Present == {name \in {"organization", "department", "position", "person", "assignment"} :
                      value[name] # <<>>} IN
    \/ value.type \in 1..3 /\ Present = {"organization"}
    \/ value.type \in 4..7 /\ Present = {"department"}
    \/ value.type \in 8..10 /\ Present = {"person"}
    \/ value.type = 11 /\ Present = {"assignment"}
    \/ value.type = 12 /\ Present = {"position"}
    \/ value.type = 13 /\ Present = {}
DirectoryChangeValid(value) ==
    value.revision # 0 /\ value.entityId # 0 /\ directoryChangePayloadMatches(value)

FileCenterFilterValid(value) == value.scope <= 5 /\ value.category <= 7
FileCenterActionValid(value) == value.action \in 1..6
CalendarRangeValid(value) ==
    /\ value.rangeStartUtcMs # 0
    /\ value.rangeEndUtcMs > value.rangeStartUtcMs
    /\ value.rangeEndUtcMs - value.rangeStartUtcMs <= MaximumCalendarRange
CalendarKindValid(value) == value.kind \in 1..3
DirectoryDeltaValid(value) ==
    /\ value.success = 1 =>
         /\ value.currentRevision # 0
         /\ value.fullSnapshotRequired = 1 \/ value.fromRevision <= value.currentRevision
    /\ value.fullSnapshotRequired = 1 => value.changes = <<>>

DecoderChecks(struct, value) ==
    CASE struct = "DirectoryChange" -> DirectoryChangeValid(value)
      [] struct = "FileCenterListRequest" -> FileCenterFilterValid(value)
      [] struct = "FileCenterUpdateRequest" -> FileCenterActionValid(value)
      [] struct = "CalendarListRequest" -> CalendarRangeValid(value)
      [] struct = "CalendarCreateRequest" -> CalendarKindValid(value)
      [] struct = "DirectoryDeltaResponse" -> DirectoryDeltaValid(value)
      [] OTHER -> TRUE

(* The values an encoder does not throw on, nested ones included.          *)
RECURSIVE Encodable(_, _)
MembersEncodable(coding, value) ==
    LET Elements(member, given) ==
            CASE member.kind = "one" -> << given >>
              [] member.kind \in {"many", "opt"} /\ member.of \notin {"text", "u64"} -> given
              [] OTHER -> <<>>
    IN /\ \A name \in DOMAIN coding.out.counts : Len(value[name]) <= coding.out.counts[name]
       /\ \A name \in DOMAIN coding.members :
             \A x \in ToSet(Elements(coding.members[name], value[name])) :
                Encodable(coding.members[name].of, x)
Encodable(struct, value) ==
    /\ struct = "DirectoryChange" => DirectoryChangeValid(value)
    /\ MembersEncodable(Schema[struct], value)

-----------------------------------------------------------------------------
RECURSIVE Default(_)
DefaultOf(members) ==
    [name \in DOMAIN members |->
        CASE members[name].kind = "one" -> Default(members[name].of)
          [] members[name].kind \in {"many", "opt"} -> <<>>
          [] OTHER -> members[name].default]
Default(struct) == DefaultOf(Schema[struct].members)

Refused == [ok |-> FALSE, value |-> <<>>]
Read(value) == [ok |-> TRUE, value |-> value]

(* A value read for a member: appended to a list that is not full, put in  *)
(* place of what an earlier field of that number left otherwise.           *)
Stored(kind, name, rule, read, x) ==
    IF kind = "many" /\ Len(read.value[name]) >= rule.count THEN Refused
    ELSE Read([read.value EXCEPT ![name] =
                 IF kind = "many" THEN Append(@, x) ELSE IF kind = "opt" THEN << x >> ELSE x])

RECURSIVE Decode(_, _)
(* One turn of decode's loop: the tag, then the handler's case or skip.    *)
ReadField(coding, read, token) ==
    LET rule == IF token.field <= Len(coding.in) THEN coding.in[token.field] ELSE Gap
        name == coding.out.names[token.field]
        nested == Decode(rule.of, token.body)
    IN IF ~read.ok \/ token.field = 0 THEN Refused
       ELSE IF rule.kind = "gap" THEN IF token.wire \in {0, 1, 2, 5} THEN read ELSE Refused
       ELSE IF token.wire # (IF rule.kind \in {"text", "one"} THEN 2 ELSE 0) THEN Refused
       ELSE IF token.wire = 2 /\ token.value > rule.limit THEN Refused
       ELSE IF rule.kind = "one" /\ ~nested.ok THEN Refused
       ELSE Stored(coding.members[name].kind, name, rule, read,
                   CASE rule.kind = "one" -> nested.value
                     [] rule.kind = "text" -> token.value
                     [] OTHER -> FromUnsigned64(rule.kind, token.value))

RECURSIVE ReadFields(_, _, _)
ReadFields(coding, read, tokens) ==
    IF ~read.ok \/ tokens = <<>> THEN read
    ELSE IF Len(tokens) = 1 THEN ReadField(coding, read, tokens[1])
    ELSE ReadFields(coding, ReadFields(coding, read, FirstHalf(tokens)), SecondHalf(tokens))

Decode(struct, tokens) ==
    LET read == ReadFields(Schema[struct], Read(Default(struct)), tokens) IN
    IF read.ok /\ DecoderChecks(struct, read.value) THEN read ELSE Refused
=============================================================================
