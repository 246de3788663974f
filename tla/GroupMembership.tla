-------------------------- MODULE GroupMembership --------------------------
(***************************************************************************)
(* Groups of PostgresRuntimeStore: group_members with their roles, and the *)
(* members of the group's conversation.  Two gateways may serve one        *)
(* database (docs/technical-solution.md, multi-node): joinGroup and        *)
(* updateGroupMembers begin with one statement that reads the rows and     *)
(* waits for the row lock of the group.  Whoever holds the lock changes    *)
(* group_members but not the locked row, so that the statement that waited *)
(* goes on with the role it read before.                                   *)
(***************************************************************************)
EXTENDS People

CONSTANTS
    Group,
    InviteOnly,       \* groups whose join_policy refuses group codes
    MaxPersonIds,     \* 500: people of one request, and of a new group
    MaxWaiting        \* bound on the statements that wait for one group

VARIABLES
    chatGroups,            \* owner of each group there is
    groupMembers,          \* member_role: 0 member, 1 administrator, 2 owner
    conversationMembers,   \* rows: [left, pinned] of who ever was a member
    groupQueue             \* per group: statements that have read and wait for the lock
groupVars == << enabled, chatGroups, groupMembers, conversationMembers, groupQueue >>

Created == DOMAIN chatGroups
Action == {"Add", "Remove", "GrantAdministrator", "RevokeAdministrator"}
OfConversation(g) == {p \in DOMAIN conversationMembers[g] : ~conversationMembers[g][p].left}

Roles(g, people, role) ==
    [p \in DOMAIN groupMembers[g] \cup people |->
        IF p \in DOMAIN groupMembers[g] THEN groupMembers[g][p] ELSE role]

\* Mutant: the row of who left is left as it is.
RejoinedNewOnly(g, people) ==
    [p \in DOMAIN conversationMembers[g] \cup people |->
        IF p \notin DOMAIN conversationMembers[g] THEN [left |-> FALSE, pinned |-> FALSE]
        ELSE conversationMembers[g][p]]

Rejoined(g, people) ==
    [p \in DOMAIN conversationMembers[g] \cup people |->
        IF p \notin DOMAIN conversationMembers[g] THEN [left |-> FALSE, pinned |-> FALSE]
        ELSE [conversationMembers[g][p] EXCEPT !.left = @ /\ p \notin people]]

-----------------------------------------------------------------------------
createGroup(p, g, memberPersonIds) ==
    LET members == memberPersonIds \cup {p} IN
    /\ g \notin Created /\ Cardinality(memberPersonIds) < MaxPersonIds
    /\ p \in enabled /\ members \subseteq Colleagues(p)
    /\ chatGroups' = With(chatGroups, g, p)
    /\ groupMembers' = [groupMembers EXCEPT ![g] = [q \in members |-> IF q = p THEN 2 ELSE 0]]
    /\ conversationMembers' = [conversationMembers EXCEPT ![g] = Rejoined(g, members)]
    /\ UNCHANGED << enabled, groupQueue >>

(* The first statement of both: its row is found, the lock is waited for.  *)
Await(g, statement) ==
    /\ g \in Created /\ Len(groupQueue[g]) < MaxWaiting
    /\ groupQueue' = [groupQueue EXCEPT ![g] = Append(@, statement)]
    /\ UNCHANGED << enabled, chatGroups, groupMembers, conversationMembers >>

BeginJoin(p, g) ==
    /\ g \notin InviteOnly
    /\ g \in Created => p \in Colleagues(chatGroups[g])
    /\ Await(g, [person |-> p, action |-> "Join", people |-> {p}])

(* Only an owner or an administrator goes on, nobody touches the owner,    *)
(* and only the owner changes roles.                                       *)
BeginMemberUpdate(p, g, action, people) ==
    /\ g \in Created /\ p \in DOMAIN groupMembers[g] /\ groupMembers[g][p] >= 1
    /\ Cardinality(people) \in 1..MaxPersonIds /\ chatGroups[g] \notin people
    /\ action \in {"GrantAdministrator", "RevokeAdministrator"} => chatGroups[g] = p
    /\ Await(g, [person |-> p, action |-> action, people |-> people])

(* The rest of the transaction, once the lock is there.                    *)
Added(g, people) ==
    /\ groupMembers' = [groupMembers EXCEPT ![g] = Roles(g, people, 0)]
    /\ conversationMembers' = [conversationMembers EXCEPT ![g] = Rejoined(g, people)]

Removed(g, people) ==
    LET removed == people \cap DOMAIN groupMembers[g] IN
    /\ groupMembers' = [groupMembers EXCEPT ![g] = [p \in DOMAIN @ \ removed |-> @[p]]]
    /\ conversationMembers' = [conversationMembers EXCEPT ![g] =
           [p \in DOMAIN @ |-> [conversationMembers[g][p] EXCEPT !.left = @ \/ p \in removed]]]

RoleChanged(g, people, from, to) ==
    /\ groupMembers' = [groupMembers EXCEPT ![g] =
           [p \in DOMAIN @ |-> IF p \in people /\ @[p] = from THEN to ELSE @[p]]]
    /\ UNCHANGED conversationMembers

CommitStatement(g) ==
    LET s == Head(groupQueue[g]) IN
    /\ groupQueue[g] # << >>
    /\ groupQueue' = [groupQueue EXCEPT ![g] = Tail(@)]
    /\ \/ s.action = "Join" /\ Added(g, s.people)
       \/ s.action = "Add" /\ s.people \subseteq Colleagues(chatGroups[g]) /\ Added(g, s.people)
       \/ s.action = "Add" /\ ~(s.people \subseteq Colleagues(chatGroups[g]))
          /\ UNCHANGED << groupMembers, conversationMembers >>
       \/ s.action = "Remove" /\ Removed(g, s.people)
       \/ s.action = "GrantAdministrator" /\ RoleChanged(g, s.people, 0, 1)
       \/ s.action = "RevokeAdministrator" /\ RoleChanged(g, s.people, 1, 0)
    /\ UNCHANGED << enabled, chatGroups >>

updateConversationPreference(p, g, pinned) ==
    /\ p \in OfConversation(g)
    /\ conversationMembers' = [conversationMembers EXCEPT ![g][p].pinned = pinned]
    /\ UNCHANGED << enabled, chatGroups, groupMembers, groupQueue >>

-----------------------------------------------------------------------------
listGroups(p) == {g \in Created : p \in DOMAIN groupMembers[g] /\ p \in OfConversation(g)}
listConversations(p) == {g \in Created : p \in OfConversation(g)}
loadGroupDetail(p, g) ==
    [success |-> g \in listGroups(p), memberCount |-> Cardinality(DOMAIN groupMembers[g]),
     members |-> DOMAIN groupMembers[g] \cap enabled]

handleGroups(p) ==
    \E g \in Group :
        \/ \E people \in SUBSET Person : createGroup(p, g, people)
        \/ BeginJoin(p, g)
        \/ \E action \in Action, people \in SUBSET Person : BeginMemberUpdate(p, g, action, people)
        \/ \E pinned \in BOOLEAN : updateConversationPreference(p, g, pinned)

GroupInit ==
    /\ PeopleInit
    /\ chatGroups = << >>
    /\ groupMembers = [g \in Group |-> << >>] /\ conversationMembers = [g \in Group |-> << >>]
    /\ groupQueue = [g \in Group |-> << >>]
GroupNext ==
    \/ \E p \in Person : handleGroups(p)
    \/ \E g \in Group : CommitStatement(g)
    \/ \E p \in Person :
          updatePerson(p) /\ UNCHANGED << chatGroups, groupMembers, conversationMembers, groupQueue >>
GroupSpec == GroupInit /\ [][GroupNext]_groupVars

-----------------------------------------------------------------------------
(* The two tables of members agree, whatever statements overtook each      *)
(* other: who is a member of the group sees its conversation, and nobody   *)
(* who was removed does; all are of the owner's organization.              *)
MembersAgree ==
    \A g \in Created :
        /\ \A p \in Person : /\ g \in listGroups(p) <=> g \in listConversations(p)
                             /\ p \in DOMAIN groupMembers[g] => loadGroupDetail(p, g).success
        /\ \A p \in DOMAIN groupMembers[g] : OrganizationOf[p] = OrganizationOf[chatGroups[g]]

(* A group keeps one owner with the owner's role, who stays a member of    *)
(* group and conversation, also against statements that were authorized    *)
(* by a role that has been taken away since.                               *)
OneOwner ==
    \A g \in Created :
        /\ {p \in DOMAIN groupMembers[g] : groupMembers[g][p] = 2} = {chatGroups[g]}
        /\ chatGroups[g] \in OfConversation(g)

(* Group, conversation and roles agree: both of the above.                 *)
GroupsAgree == MembersAgree /\ OneOwner
=============================================================================
