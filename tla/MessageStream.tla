--------------------------- MODULE MessageStream ---------------------------
(***************************************************************************)
(* The application messages on a FrameStream: what Codec encodes and what  *)
(* its decoders make of it, for the constants FrameStream leaves open.     *)
(***************************************************************************)
EXTENDS Codec, FrameStream

FrameTypes == DOMAIN MessageType \ {"LogoutNotification"}
TypeOf(number) == CHOOSE type \in DOMAIN MessageType : MessageType[type] = number

(* encodeMessage throws on values out of its bounds, encodeFrame on a body *)
(* that is too long.                                                       *)
WritableMessage(message) ==
    /\ Encodable(Payload(message.type), message.value)
    /\ SizeOf(Encode(Payload(message.type), message.value)) <= MaximumBodySize
EncodedMessage(message) == Encode(Payload(message.type), message.value)

(* The type goes through its number in the header.                         *)
DecodedMessage(type, body) == Decode(Payload(TypeOf(MessageType[type])), body)

-----------------------------------------------------------------------------
(* Every text and every list, of nested messages too, is within the limit  *)
(* its own field has in the decoder.  The byte limits of nested messages   *)
(* are not counted: that no sound record exceeds them is for the check.    *)
RECURSIVE WithinLimits(_, _)
FieldsWithinLimits(coding, value) ==
    \A field \in DOMAIN coding.in : coding.in[field].kind # "gap" =>
        LET name == coding.out.names[field]
            rule == coding.in[field]
            kind == coding.members[name].kind
            items == IF kind \in {"many", "opt"} THEN value[name] ELSE << value[name] >>
        IN /\ kind = "many" => Len(items) <= rule.count
           /\ \A i \in DOMAIN items :
                 /\ rule.kind = "text" => items[i] <= rule.limit
                 /\ rule.kind = "one" => WithinLimits(rule.of, items[i])
WithinLimits(struct, value) == FieldsWithinLimits(Schema[struct], value)

(* No member is zero whose default is not: encoders omit zero, so that it  *)
(* arrives as the default; nor is an element of a list of texts or numbers,*)
(* which would not arrive at all.                                          *)
RECURSIVE NothingOmitted(_, _)
NoMemberOmitted(members, value) ==
    \A name \in DOMAIN members :
        CASE members[name].kind = "one" -> NothingOmitted(members[name].of, value[name])
          [] members[name].kind \in {"many", "opt"} ->
                \A i \in DOMAIN value[name] :
                    IF members[name].of \in {"text", "u64"} THEN value[name][i] # 0
                    ELSE NothingOmitted(members[name].of, value[name][i])
          [] OTHER -> value[name] # 0 \/ members[name].default = 0
NothingOmitted(struct, value) == NoMemberOmitted(Schema[struct].members, value)

(* What each decoded message is: the value that was encoded, member by     *)
(* member and at every nesting, whenever its members respect their own     *)
(* limits; a member over its limit is refused, never cut short.  A number  *)
(* two messages share, members swapped between an encoder and its decoder, *)
(* an integer read too narrow or a record that outgrows the message around *)
(* it would break this.                                                    *)
DecodesWhatWasSent ==
    \A d \in DOMAIN dispatched :
        LET frame == sent[dispatched[d].frame]  struct == Payload(frame.type) IN
        IF WithinLimits(struct, frame.value)
        THEN NothingOmitted(struct, frame.value) /\ DecoderChecks(struct, frame.value)
                => dispatched[d].ok /\ dispatched[d].value = frame.value
        ELSE ~dispatched[d].ok
=============================================================================
