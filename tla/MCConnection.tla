---------------------------- MODULE MCConnection ----------------------------
(***************************************************************************)
(* A connection for TLC: the frames on it with representative values of    *)
(* every application message, the login that opens it, and the directory   *)
(* synchronised over it.  A behaviour is of one of the three, so that      *)
(* their states add up and do not multiply.                                *)
(***************************************************************************)
EXTENDS MessageStream, LoginSession, MCDirectorySync

(* Longest list a sample carries: covers every per-record limit (tags,     *)
(* fields, attachments, versions, participants).  Lists of records that    *)
(* hold lists themselves are kept to two.                                  *)
ListCap == 64

Least(a, b) == IF a < b THEN a ELSE b
RuleOf(coding, name) ==
    coding.in[CHOOSE i \in DOMAIN coding.in : coding.out.names[i] = name]
HasLists(members) ==
    \E name \in DOMAIN members : members[name].kind \in {"many", "opt", "one"}

(* The largest value of a struct its decoder's own limits allow.  A change *)
(* of a department stands for the change records.                          *)
RECURSIVE Largest(_)
LargestOf(of, rule) ==
    CASE of = "text" -> rule.limit
      [] of = "u64" -> Wide - 1
      [] of = "u32" -> Word - 1
      [] of = "i32" -> -1
      [] of = "bool" -> 1
      [] OTHER -> Largest(of)
LargestMember(name, member, rule) ==
    CASE member.kind = "many" ->
            [i \in 1..(IF member.of \notin {"text", "u64"} /\ HasLists(Schema[member.of].members)
                        THEN 2 ELSE Least(rule.count, ListCap)) |-> LargestOf(member.of, rule)]
      [] member.kind = "opt" -> IF name = "department" THEN << Largest(member.of) >> ELSE <<>>
      [] member.kind = "one" -> Largest(member.of)
      [] OTHER -> LargestOf(member.kind, rule)
LargestMembers(coding) ==
    [name \in DOMAIN coding.members |->
        LargestMember(name, coding.members[name], RuleOf(coding, name))]
Largest(struct) ==
    LET value == LargestMembers(Schema[struct])
    IN CASE struct = "CalendarCreateRequest" -> [value EXCEPT !.kind = 3]
         [] struct = "CalendarListRequest" -> [value EXCEPT !.rangeStartUtcMs = Wide - Word]
         [] struct = "FileCenterListRequest" -> [value EXCEPT !.scope = 5, !.category = 7]
         [] struct = "FileCenterUpdateRequest" -> [value EXCEPT !.action = 6]
         [] struct = "DirectoryChange" -> [value EXCEPT !.type = 4]
         [] struct = "DirectoryDeltaResponse" -> [value EXCEPT !.fullSnapshotRequired = 0]
         [] OTHER -> value

(* Every number the position of its member among the names written, so     *)
(* that no two members hold the same; texts one byte longer than that.     *)
DistinctMembers(members, names) ==
    LET place(name) == CHOOSE i \in DOMAIN names : names[i] = name
        OfKind(kind, i, unset) ==
            CASE kind \in {"u64", "u32"} -> i
              [] kind = "i32" -> -i
              [] kind = "bool" -> i % 2
              [] kind = "text" -> 1 + (i % 12)
              [] OTHER -> unset
        defaults == DefaultOf(members)
    IN [name \in DOMAIN members |-> OfKind(members[name].kind, place(name), defaults[name])]
Distinct(struct) ==
    LET value == DistinctMembers(Schema[struct].members, Schema[struct].out.names)
    IN IF struct = "CalendarCreateRequest" THEN [value EXCEPT !.kind = 2] ELSE value

(* One text a byte too long, or one list an element too long.              *)
TooLongBy(coding, short) ==
    LET members == coding.members
        Texts == {name \in DOMAIN members : members[name].kind = "text"}
        Lists == {name \in DOMAIN members :
                    members[name].kind = "many" /\ RuleOf(coding, name).count <= 200
                    /\ name \notin DOMAIN coding.out.counts}
        One1(of) == IF of = "text" THEN 1 ELSE IF of = "u64" THEN 1 ELSE Default(of)
    IN {[short EXCEPT ![name] = RuleOf(coding, name).limit + 1] : name \in Texts}
       \cup {[short EXCEPT ![name] =
                [i \in 1..(RuleOf(coding, name).count + 1) |-> One1(members[name].of)]] :
             name \in Lists}
TooLong(struct) == TooLongBy(Schema[struct], Distinct(struct))

ValuesOf(struct) ==
    {Largest(struct), Distinct(struct), Default(struct)} \cup TooLong(struct)
AllMessages ==
    UNION {{[type |-> type, value |-> value] : value \in ValuesOf(Payload(type))} :
           type \in FrameTypes}

(* Few messages, of all the ways a body can end: empty, read, refused.     *)
FewMessages ==
    { [type |-> "HeartbeatPing", value |-> Default("HeartbeatPing")],
      [type |-> "DirectoryDeltaRequest", value |-> Distinct("DirectoryDeltaRequest")],
      [type |-> "CalendarListRequest", value |-> Default("CalendarListRequest")] }

\* What damage does to a frame does not depend on its message: one message stands for all.
FewDefects(message, defect) == defect # "none" => message.type = "DirectoryDeltaRequest"

-----------------------------------------------------------------------------
VARIABLE topic
connectionVars == << topic, streamVars, loginVars, directoryVars >>
InStream == topic = "frames" /\ UNCHANGED << topic, loginVars, directoryVars >>
InLogin == topic = "login" /\ UNCHANGED << topic, streamVars, directoryVars >>
InDirectory == topic = "directory" /\ UNCHANGED << topic, streamVars, loginVars >>

ConnectionInit ==
    topic \in {"frames", "login", "directory"} /\ StreamInit /\ LoginInit /\ DirectoryInit
ConnectionNext ==
    \/ \E message \in Messages : InStream /\ \E defect \in Defects : FewDefects(message, defect) /\ WriteFrame(message, defect)
    \/ \E n \in 1..Len(wire) : InStream /\ readAvailable(n)
    \/ InStream /\ Reconnect
    \/ InLogin /\ LoginNext
    \/ InDirectory /\ DirectoryNext /\ FewNames
\* LoginFairness and the fairness of FairDirectorySpec, for the behaviours they are about.
ConnectionSpec ==
    /\ ConnectionInit /\ [][ConnectionNext]_connectionVars
    /\ WF_connectionVars(InLogin /\ ReceiveResult)
    /\ WF_connectionVars(InLogin /\ (connectAndLogin \/ connectionRefused))
    /\ WF_connectionVars(InLogin /\ LoginTimeout)
    /\ WF_connectionVars(InLogin /\ HeartbeatTimeout)
    /\ WF_connectionVars(InDirectory /\ HandleRequest)
    /\ WF_connectionVars(InDirectory /\ Receive)
=============================================================================
