------------------------- MODULE Records_proofs -------------------------
(***************************************************************************)
(* Proofs about the services of PostgresRuntimeStore beside the messages,  *)
(* for every set of people, gateways and rows and every bound on           *)
(* revisions. Each service has an invariant that says more than the run    *)
(* checks: what a waiting statement has read and still holds (groups,      *)
(* rooms, file centre), which audit entry belongs to which revision        *)
(* (calendar, file centre, contacts), which old rows a page may show       *)
(* (administration), what the online table says of the sockets (presence). *)
(***************************************************************************)
EXTENDS GroupMembership, Rooms, Calendar, FileCenter, Contacts, Administration,
        Presence, FiniteSetTheorems, FunctionTheorems, SequenceTheorems,
        WellFoundedInduction, TLAPS

----------------------------------------------------------------------------
\* Groups.


\* What a statement that waits for the lock of g has read: the owner is not among
\* those it removes or whose role it changes, who joins is of the owner's organization.
StatementIsSound(g, s) ==
    IF s.action = "Join"
      THEN \A q \in s.people : OrganizationOf[q] = OrganizationOf[chatGroups[g]]
      ELSE chatGroups[g] \notin s.people

RoleTable == UNION {[people -> 0..2] : people \in SUBSET Person}
MemberTable == UNION {[people -> [left : BOOLEAN, pinned : BOOLEAN]] : people \in SUBSET Person}
Statement == [person : Person, action : Action \cup {"Join"}, people : SUBSET Person]

GroupTypeOK ==
    /\ enabled \subseteq Person
    /\ Created \subseteq Group /\ \A g \in Created : chatGroups[g] \in Person
    /\ groupMembers \in [Group -> RoleTable]
    /\ conversationMembers \in [Group -> MemberTable]
    /\ groupQueue \in [Group -> Seq(Statement)]

StatementsAreSound ==
    \A g \in Group : \A i \in 1..Len(groupQueue[g]) :
        g \in Created /\ StatementIsSound(g, groupQueue[g][i])

\* One group: its members, those of its conversation, its owner.
GroupIsSound(g) ==
    IF g \in Created
      THEN /\ OfConversation(g) = DOMAIN groupMembers[g]
           /\ \A p \in DOMAIN groupMembers[g] :
                 /\ OrganizationOf[p] = OrganizationOf[chatGroups[g]]
                 /\ groupMembers[g][p] = 2 <=> p = chatGroups[g]
           /\ chatGroups[g] \in DOMAIN groupMembers[g]
      ELSE DOMAIN groupMembers[g] = {} /\ DOMAIN conversationMembers[g] = {}

GroupInvariant ==
    /\ GroupTypeOK
    /\ StatementsAreSound
    /\ \A g \in Group : GroupIsSound(g)

\* Tables.
LEMMA InTables ==
    /\ \A t : t \in RoleTable <=> /\ DOMAIN t \subseteq Person /\ t = [p \in DOMAIN t |-> t[p]]
                               /\ \A p \in DOMAIN t : t[p] \in 0..2
    /\ \A t : t \in MemberTable <=> /\ DOMAIN t \subseteq Person /\ t = [p \in DOMAIN t |-> t[p]]
                             /\ \A p \in DOMAIN t : t[p] \in [left : BOOLEAN, pinned : BOOLEAN]
<1>1. ASSUME NEW T, NEW t
      PROVE t \in UNION {[people -> T] : people \in SUBSET Person}
              <=> /\ DOMAIN t \subseteq Person /\ t = [p \in DOMAIN t |-> t[p]]
                  /\ \A p \in DOMAIN t : t[p] \in T
  <2>1. ASSUME t \in UNION {[people -> T] : people \in SUBSET Person}
        PROVE /\ DOMAIN t \subseteq Person /\ t = [p \in DOMAIN t |-> t[p]]
              /\ \A p \in DOMAIN t : t[p] \in T
    <3>1. PICK people \in SUBSET Person : t \in [people -> T]
      BY <2>1
    <3> QED BY <3>1
  <2>2. ASSUME DOMAIN t \subseteq Person, t = [p \in DOMAIN t |-> t[p]],
               \A p \in DOMAIN t : t[p] \in T
        PROVE t \in UNION {[people -> T] : people \in SUBSET Person}
    <3>1. t \in [DOMAIN t -> T]
      BY <2>2
    <3>2. DOMAIN t \in SUBSET Person
      BY <2>2
    <3> QED BY <3>1, <3>2
  <2> QED BY <2>1, <2>2
<1> QED BY <1>1 DEF RoleTable, MemberTable

\* An empty table.
LEMMA EmptyTables == DOMAIN << >> = {} /\ << >> \in RoleTable /\ << >> \in MemberTable
<1>1. DOMAIN << >> = {} /\ << >> = [p \in {} |-> << >>[p]]
  OBVIOUS
<1> QED BY <1>1, InTables

\* The empty tables of a fresh database satisfy the invariant of groups.
LEMMA GroupStart == GroupInit => GroupInvariant
<1> SUFFICES ASSUME GroupInit PROVE GroupInvariant
  OBVIOUS
<1>1. Created = {}
  BY EmptyTables DEF GroupInit, Created
<1>2. GroupTypeOK
  BY <1>1, EmptyTables DEF GroupInit, GroupTypeOK, PeopleInit
<1>3. StatementsAreSound
  BY DEF StatementsAreSound, GroupInit
<1>4. ASSUME NEW g \in Group PROVE GroupIsSound(g)
  BY <1>1, <1>4, EmptyTables DEF GroupIsSound, GroupInit
<1> QED BY <1>2, <1>3, <1>4 DEF GroupInvariant

-----------------------------------------------------------------------------
\* The rows of the conversation after people joined: nobody else's are opened or closed.
LEMMA RejoinedRows ==
    ASSUME GroupTypeOK, NEW g \in Group, NEW people \in SUBSET Person
    PROVE  /\ Rejoined(g, people) \in MemberTable
           /\ {p \in DOMAIN Rejoined(g, people) : ~Rejoined(g, people)[p].left}
                = OfConversation(g) \cup people
<1> DEFINE old == conversationMembers[g]
           new == Rejoined(g, people)
           row(p) == IF p \notin DOMAIN old THEN [left |-> FALSE, pinned |-> FALSE]
                     ELSE [old[p] EXCEPT !.left = @ /\ p \notin people]
<1>1. /\ DOMAIN old \subseteq Person
      /\ \A p \in DOMAIN old : old[p] \in [left : BOOLEAN, pinned : BOOLEAN]
  BY InTables DEF GroupTypeOK
<1>2. new = [p \in DOMAIN old \cup people |-> row(p)]
  BY DEF Rejoined
<1>3. \A p \in DOMAIN old \cup people :
         /\ row(p) \in [left : BOOLEAN, pinned : BOOLEAN]
         /\ row(p).left <=> p \in DOMAIN old /\ old[p].left /\ p \notin people
  BY <1>1
<1> HIDE DEF row
<1>4. DOMAIN new = DOMAIN old \cup people /\ \A p \in DOMAIN new : new[p] = row(p)
  BY <1>2
<1>5. new \in MemberTable
  <2>1. new = [p \in DOMAIN new |-> new[p]]
    BY <1>2, <1>4
  <2>2. \A p \in DOMAIN new : new[p] \in [left : BOOLEAN, pinned : BOOLEAN]
    BY <1>3, <1>4
  <2> QED BY <1>1, <1>4, <2>1, <2>2, InTables
<1>6. {p \in DOMAIN new : ~new[p].left} = OfConversation(g) \cup people
  <2> HIDE DEF new
  <2> QED BY <1>3, <1>4 DEF OfConversation
<1> QED BY <1>5, <1>6

\* The roles after people joined: those of the members are kept.
LEMMA JoinedRoles ==
    ASSUME GroupTypeOK, NEW g \in Group, NEW people \in SUBSET Person
    PROVE  /\ Roles(g, people, 0) \in RoleTable
           /\ DOMAIN Roles(g, people, 0) = DOMAIN groupMembers[g] \cup people
           /\ \A p \in DOMAIN groupMembers[g] \cup people :
                 Roles(g, people, 0)[p] = IF p \in DOMAIN groupMembers[g] THEN groupMembers[g][p] ELSE 0
<1> DEFINE old == groupMembers[g]
           new == Roles(g, people, 0)
<1>1. DOMAIN old \subseteq Person /\ \A p \in DOMAIN old : old[p] \in 0..2
  BY InTables DEF GroupTypeOK
<1>2. new = [p \in DOMAIN old \cup people |-> IF p \in DOMAIN old THEN old[p] ELSE 0]
  BY DEF Roles
<1>3. /\ DOMAIN new = DOMAIN old \cup people
      /\ \A p \in DOMAIN old \cup people : new[p] = IF p \in DOMAIN old THEN old[p] ELSE 0
  BY <1>2
<1>4. \A p \in DOMAIN new : new[p] \in 0..2
  BY <1>1, <1>3
<1>5. new \in [DOMAIN new -> 0..2]
  BY <1>2, <1>3, <1>4
<1>6. DOMAIN new \in SUBSET Person
  BY <1>1, <1>3
<1>7. new \in RoleTable
  <2> HIDE DEF new
  <2> QED BY <1>5, <1>6 DEF RoleTable
<1> QED BY <1>3, <1>7

\* A group none of whose rows change stays as sound as it was.
LEMMA OtherGroups ==
    ASSUME NEW g, GroupIsSound(g),
           g \in Created <=> g \in Created', g \in Created => chatGroups'[g] = chatGroups[g],
           groupMembers'[g] = groupMembers[g], conversationMembers'[g] = conversationMembers[g]
    PROVE  GroupIsSound(g)'
BY DEF GroupIsSound, OfConversation

\* A statement that goes on with the rows of one group leaves the others alone.
LEMMA OneGroupChanges ==
    ASSUME GroupInvariant, UNCHANGED << enabled, chatGroups >>, NEW g \in Group,
           NEW roles \in RoleTable, NEW rows \in MemberTable,
           groupMembers' = [groupMembers EXCEPT ![g] = roles],
           conversationMembers' = [conversationMembers EXCEPT ![g] = rows],
           g \in Created,
           {p \in DOMAIN rows : ~rows[p].left} = DOMAIN roles,
           \A p \in DOMAIN roles : /\ OrganizationOf[p] = OrganizationOf[chatGroups[g]]
                                   /\ roles[p] = 2 <=> p = chatGroups[g],
           chatGroups[g] \in DOMAIN roles
    PROVE  /\ groupMembers' \in [Group -> RoleTable]
           /\ conversationMembers' \in [Group -> MemberTable]
           /\ \A h \in Group : GroupIsSound(h)'
<1>1. /\ groupMembers' \in [Group -> RoleTable]
      /\ conversationMembers' \in [Group -> MemberTable]
      /\ groupMembers'[g] = roles /\ conversationMembers'[g] = rows
      /\ \A h \in Group \ {g} : groupMembers'[h] = groupMembers[h]
                                /\ conversationMembers'[h] = conversationMembers[h]
  BY DEF GroupInvariant, GroupTypeOK
<1>2. Created' = Created /\ chatGroups' = chatGroups
  BY DEF Created
<1>3. GroupIsSound(g)'
  BY <1>1, <1>2 DEF GroupIsSound, OfConversation
<1>4. ASSUME NEW h \in Group \ {g} PROVE GroupIsSound(h)'
  BY <1>1, <1>2, OtherGroups DEF GroupInvariant
<1> QED BY <1>1, <1>3, <1>4

\* Adding people of the owner's organization keeps the tables of members in step.
LEMMA AddedKeeps ==
    ASSUME GroupInvariant, UNCHANGED << enabled, chatGroups >>, NEW g \in Created,
           NEW people \in SUBSET Person, Added(g, people),
           \A q \in people : OrganizationOf[q] = OrganizationOf[chatGroups[g]]
    PROVE  /\ groupMembers' \in [Group -> RoleTable]
           /\ conversationMembers' \in [Group -> MemberTable]
           /\ \A h \in Group : GroupIsSound(h)'
<1> DEFINE roles == Roles(g, people, 0)
           rows == Rejoined(g, people)
<1>1. g \in Group /\ GroupIsSound(g) /\ GroupTypeOK
  BY DEF GroupInvariant, GroupTypeOK
<1>2. /\ roles \in RoleTable /\ DOMAIN roles = DOMAIN groupMembers[g] \cup people
      /\ \A p \in DOMAIN groupMembers[g] \cup people :
            roles[p] = IF p \in DOMAIN groupMembers[g] THEN groupMembers[g][p] ELSE 0
  BY <1>1, JoinedRoles
<1>3. rows \in MemberTable /\ {p \in DOMAIN rows : ~rows[p].left} = OfConversation(g) \cup people
  BY <1>1, RejoinedRows
<1>4. /\ groupMembers' = [groupMembers EXCEPT ![g] = roles]
      /\ conversationMembers' = [conversationMembers EXCEPT ![g] = rows]
  BY DEF Added
<1> HIDE DEF roles, rows
<1>5. {p \in DOMAIN rows : ~rows[p].left} = DOMAIN roles
  BY <1>1, <1>2, <1>3 DEF GroupIsSound
<1>6. /\ \A p \in DOMAIN roles : /\ OrganizationOf[p] = OrganizationOf[chatGroups[g]]
                                 /\ roles[p] = 2 <=> p = chatGroups[g]
      /\ chatGroups[g] \in DOMAIN roles
  BY <1>1, <1>2 DEF GroupIsSound
<1> QED BY <1>1, <1>2, <1>3, <1>4, <1>5, <1>6, OneGroupChanges

\* Removing people other than the owner closes their rows of the conversation.
LEMMA RemovedKeeps ==
    ASSUME GroupInvariant, UNCHANGED << enabled, chatGroups >>, NEW g \in Created,
           NEW people \in SUBSET Person, Removed(g, people), chatGroups[g] \notin people
    PROVE  /\ groupMembers' \in [Group -> RoleTable]
           /\ conversationMembers' \in [Group -> MemberTable]
           /\ \A h \in Group : GroupIsSound(h)'
<1> DEFINE removed == people \cap DOMAIN groupMembers[g]
           roles == [p \in DOMAIN groupMembers[g] \ removed |-> groupMembers[g][p]]
           row(p) == [conversationMembers[g][p] EXCEPT !.left = @ \/ p \in removed]
           rows == [p \in DOMAIN conversationMembers[g] |-> row(p)]
<1>1. g \in Group /\ GroupIsSound(g) /\ GroupTypeOK
  BY DEF GroupInvariant, GroupTypeOK
<1>2. /\ groupMembers[g] \in RoleTable /\ conversationMembers[g] \in MemberTable
      /\ groupMembers' = [groupMembers EXCEPT ![g] = roles]
      /\ conversationMembers' = [conversationMembers EXCEPT ![g] = rows]
  <2>1. groupMembers[g] \in RoleTable /\ conversationMembers[g] \in MemberTable
    BY <1>1 DEF GroupTypeOK
  <2>2. groupMembers' = [groupMembers EXCEPT ![g] = roles]
    BY DEF Removed
  <2>3. conversationMembers' = [conversationMembers EXCEPT ![g] = rows]
    BY DEF Removed
  <2> QED BY <2>1, <2>2, <2>3
<1>3. \A p \in DOMAIN conversationMembers[g] :
         /\ row(p) \in [left : BOOLEAN, pinned : BOOLEAN]
         /\ row(p).left <=> conversationMembers[g][p].left \/ p \in removed
  <2>1. \A p \in DOMAIN conversationMembers[g] :
           conversationMembers[g][p] \in [left : BOOLEAN, pinned : BOOLEAN]
    BY <1>2, InTables
  <2> HIDE DEF removed
  <2> QED BY <2>1
<1> HIDE DEF row
<1>4. rows \in MemberTable
  <2>1. DOMAIN rows \in SUBSET Person
    BY <1>2, InTables
  <2>2. rows \in [DOMAIN rows -> [left : BOOLEAN, pinned : BOOLEAN]]
    BY <1>3
  <2> QED BY <2>1, <2>2 DEF MemberTable
<1>5. roles \in RoleTable
  <2>1. DOMAIN roles \in SUBSET Person
    BY <1>2, InTables
  <2>2. roles \in [DOMAIN roles -> 0..2]
    BY <1>2, InTables
  <2> QED BY <2>1, <2>2 DEF RoleTable
<1>6. {p \in DOMAIN rows : ~rows[p].left} = DOMAIN roles
  BY <1>1, <1>3 DEF GroupIsSound, OfConversation
<1>7. /\ \A p \in DOMAIN roles : /\ OrganizationOf[p] = OrganizationOf[chatGroups[g]]
                                 /\ roles[p] = 2 <=> p = chatGroups[g]
      /\ chatGroups[g] \in DOMAIN roles
  BY <1>1 DEF GroupIsSound
<1> HIDE DEF roles, rows
<1> QED BY <1>1, <1>2, <1>4, <1>5, <1>6, <1>7, OneGroupChanges

\* Changing the role of people other than the owner moves nobody in or out.
LEMMA RoleChangedKeeps ==
    ASSUME GroupInvariant, UNCHANGED << enabled, chatGroups >>, NEW g \in Created,
           NEW people \in SUBSET Person, NEW from \in 0..1, NEW to \in 0..1,
           RoleChanged(g, people, from, to)
    PROVE  /\ groupMembers' \in [Group -> RoleTable]
           /\ conversationMembers' \in [Group -> MemberTable]
           /\ \A h \in Group : GroupIsSound(h)'
<1> DEFINE old == groupMembers[g]
           roles == [p \in DOMAIN old |-> IF p \in people /\ old[p] = from THEN to ELSE old[p]]
           rows == conversationMembers[g]
<1>1. g \in Group /\ GroupIsSound(g) /\ GroupTypeOK
  BY DEF GroupInvariant, GroupTypeOK
<1>2. /\ old \in RoleTable /\ rows \in MemberTable
      /\ groupMembers' = [groupMembers EXCEPT ![g] = roles]
      /\ conversationMembers' = [conversationMembers EXCEPT ![g] = rows]
  BY <1>1 DEF RoleChanged, GroupTypeOK
<1>3. \A p \in DOMAIN old : old[p] \in 0..2
  BY <1>2, InTables
<1>4. roles \in RoleTable
  <2>1. DOMAIN roles \in SUBSET Person
    BY <1>2, InTables
  <2>2. roles \in [DOMAIN roles -> 0..2]
    BY <1>3
  <2> QED BY <2>1, <2>2 DEF RoleTable
<1>5. DOMAIN roles = DOMAIN old /\ \A p \in DOMAIN old : roles[p] = 2 <=> old[p] = 2
  BY <1>3
<1> HIDE DEF roles
<1>6. {p \in DOMAIN rows : ~rows[p].left} = DOMAIN roles
  BY <1>1, <1>5 DEF GroupIsSound, OfConversation
<1>7. /\ \A p \in DOMAIN roles : /\ OrganizationOf[p] = OrganizationOf[chatGroups[g]]
                                 /\ roles[p] = 2 <=> p = chatGroups[g]
      /\ chatGroups[g] \in DOMAIN roles
  BY <1>1, <1>5 DEF GroupIsSound
<1> QED BY <1>1, <1>2, <1>4, <1>6, <1>7, OneGroupChanges

-----------------------------------------------------------------------------
\* Waiting for the lock of a group with a sound statement.
LEMMA AwaitKeeps ==
    ASSUME GroupInvariant, NEW g \in Group, NEW s \in Statement, StatementIsSound(g, s), Await(g, s)
    PROVE  GroupInvariant'
<1>1. groupQueue \in [Group -> Seq(Statement)]
  BY DEF GroupInvariant, GroupTypeOK
<1>2. /\ groupQueue' \in [Group -> Seq(Statement)]
      /\ groupQueue'[g] = Append(groupQueue[g], s)
      /\ \A h \in Group \ {g} : groupQueue'[h] = groupQueue[h]
  BY <1>1 DEF Await
<1>3. Created' = Created /\ chatGroups' = chatGroups
  BY DEF Await, Created
<1>4. GroupTypeOK'
  BY <1>2, <1>3 DEF GroupInvariant, GroupTypeOK, Await
<1>5. ASSUME NEW h \in Group, NEW i \in 1..Len(groupQueue'[h])
      PROVE (h \in Created /\ StatementIsSound(h, groupQueue[h][i]))'
  <2>1. CASE h = g
    <3>1. groupQueue[g] \in Seq(Statement) /\ Len(groupQueue'[g]) = Len(groupQueue[g]) + 1
      BY <1>1, <1>2
    <3>2. CASE i = Len(groupQueue[g]) + 1
      <4>1. groupQueue'[g][i] = s
        BY <3>1, <3>2, <1>2
      <4> QED BY <2>1, <4>1, <1>3 DEF Await, StatementIsSound
    <3>3. CASE i # Len(groupQueue[g]) + 1
      <4>1. i \in 1..Len(groupQueue[g]) /\ groupQueue'[g][i] = groupQueue[g][i]
        BY <2>1, <3>1, <3>3, <1>2
      <4> QED BY <2>1, <4>1, <1>3 DEF GroupInvariant, StatementsAreSound, StatementIsSound
    <3> QED BY <3>2, <3>3
  <2>2. CASE h # g
    BY <2>2, <1>2, <1>3 DEF GroupInvariant, StatementsAreSound, StatementIsSound
  <2> QED BY <2>1, <2>2
<1>6. StatementsAreSound'
  BY <1>5 DEF StatementsAreSound
<1>7. \A h \in Group : GroupIsSound(h)'
  BY <1>3, OtherGroups DEF GroupInvariant, Await
<1> QED BY <1>4, <1>6, <1>7 DEF GroupInvariant

\* The first statement of the queue goes on with what it read.
LEMMA GroupCommitKeeps ==
    ASSUME GroupInvariant, NEW g \in Group, CommitStatement(g)
    PROVE  GroupInvariant'
<1> DEFINE s == Head(groupQueue[g])
<1>1. groupQueue[g] \in Seq(Statement) /\ groupQueue[g] # << >>
  BY DEF CommitStatement, GroupInvariant, GroupTypeOK
<1>2. s \in Statement /\ StatementIsSound(g, s) /\ g \in Created
  <2>1. s = groupQueue[g][1] /\ 1 \in 1..Len(groupQueue[g]) /\ s \in Statement
    BY <1>1
  <2> QED BY <2>1 DEF GroupInvariant, StatementsAreSound
<1>3. s.people \in SUBSET Person
  BY <1>2 DEF Statement
<1>4. UNCHANGED << enabled, chatGroups >> /\ Created' = Created
  BY DEF CommitStatement, Created
<1> HIDE DEF s
<1>5. /\ groupMembers' \in [Group -> RoleTable]
      /\ conversationMembers' \in [Group -> MemberTable]
      /\ \A h \in Group : GroupIsSound(h)'
  <2>1. CASE s.action = "Join" /\ Added(g, s.people)
    <3>1. \A q \in s.people : OrganizationOf[q] = OrganizationOf[chatGroups[g]]
      BY <1>2, <2>1 DEF StatementIsSound
    <3> QED BY <1>2, <1>3, <1>4, <2>1, <3>1, AddedKeeps
  <2>2. CASE s.action = "Add" /\ s.people \subseteq Colleagues(chatGroups[g]) /\ Added(g, s.people)
    <3>1. \A q \in s.people : OrganizationOf[q] = OrganizationOf[chatGroups[g]]
      BY <2>2 DEF Colleagues
    <3> QED BY <1>2, <1>3, <1>4, <2>2, <3>1, AddedKeeps
  <2>3. CASE UNCHANGED << groupMembers, conversationMembers >>
    <3>1. \A h \in Group : GroupIsSound(h)'
      BY <2>3, <1>4, OtherGroups DEF GroupInvariant
    <3> QED BY <2>3, <3>1 DEF GroupInvariant, GroupTypeOK
  <2>4. CASE s.action = "Remove" /\ Removed(g, s.people)
    <3>1. chatGroups[g] \notin s.people
      BY <1>2, <2>4 DEF StatementIsSound
    <3> QED BY <1>2, <1>3, <1>4, <2>4, <3>1, RemovedKeeps
  <2>5. CASE RoleChanged(g, s.people, 0, 1) \/ RoleChanged(g, s.people, 1, 0)
    BY <1>2, <1>3, <1>4, <2>5, RoleChangedKeeps
  <2> QED BY <2>1, <2>2, <2>3, <2>4, <2>5 DEF CommitStatement, s
<1>6. /\ groupQueue' \in [Group -> Seq(Statement)]
      /\ groupQueue'[g] = Tail(groupQueue[g])
      /\ \A h \in Group \ {g} : groupQueue'[h] = groupQueue[h]
  BY <1>1 DEF CommitStatement, GroupInvariant, GroupTypeOK
<1>7. StatementsAreSound'
  <2> SUFFICES ASSUME NEW h \in Group, NEW i \in 1..Len(groupQueue'[h])
               PROVE (h \in Created /\ StatementIsSound(h, groupQueue[h][i]))'
    BY DEF StatementsAreSound
  <2>1. PICK j \in 1..Len(groupQueue[h]) : groupQueue'[h][i] = groupQueue[h][j]
    <3>1. CASE h = g
      <4>1. Len(groupQueue[g]) \in Nat /\ Len(groupQueue'[g]) = Len(groupQueue[g]) - 1
        BY <1>1, <1>6
      <4>2. i + 1 \in 1..Len(groupQueue[g]) /\ groupQueue'[g][i] = groupQueue[g][i + 1]
        BY <1>1, <1>6, <3>1, <4>1
      <4> QED BY <3>1, <4>2
    <3>2. CASE h # g
      BY <3>2, <1>6
    <3> QED BY <3>1, <3>2
  <2>2. h \in Created /\ StatementIsSound(h, groupQueue[h][j])
    BY DEF GroupInvariant, StatementsAreSound
  <2> QED BY <1>4, <2>1, <2>2 DEF StatementIsSound
<1> QED BY <1>4, <1>5, <1>6, <1>7 DEF GroupInvariant, GroupTypeOK

\* A group is created with its owner in both tables.
LEMMA CreateKeeps ==
    ASSUME GroupInvariant, NEW p \in Person, NEW g \in Group, NEW people \in SUBSET Person,
           createGroup(p, g, people)
    PROVE  GroupInvariant'
<1> DEFINE members == people \cup {p}
           roles == [q \in members |-> IF q = p THEN 2 ELSE 0]
           rows == Rejoined(g, members)
<1>1. GroupTypeOK /\ g \notin Created /\ GroupIsSound(g)
  BY DEF createGroup, GroupInvariant
<1>2. /\ \A q \in members : OrganizationOf[q] = OrganizationOf[p]
      /\ chatGroups' = With(chatGroups, g, p)
      /\ groupMembers' = [groupMembers EXCEPT ![g] = roles]
      /\ conversationMembers' = [conversationMembers EXCEPT ![g] = rows]
      /\ UNCHANGED << enabled, groupQueue >>
  BY DEF createGroup, Colleagues
<1>3. /\ Created' = Created \cup {g} /\ chatGroups'[g] = p
      /\ \A h \in Created : chatGroups'[h] = chatGroups[h]
  BY <1>1, <1>2 DEF Created, With
<1>4. rows \in MemberTable /\ {q \in DOMAIN rows : ~rows[q].left} = members
  <2>1. OfConversation(g) = {}
    BY <1>1 DEF GroupIsSound, OfConversation
  <2> QED BY <1>1, <2>1, RejoinedRows
<1>5. roles \in RoleTable
  <2>1. roles \in [members -> 0..2] /\ members \in SUBSET Person
    OBVIOUS
  <2> QED BY <2>1 DEF RoleTable
<1>6. /\ groupMembers' \in [Group -> RoleTable] /\ groupMembers'[g] = roles
      /\ conversationMembers' \in [Group -> MemberTable] /\ conversationMembers'[g] = rows
      /\ \A h \in Group \ {g} : groupMembers'[h] = groupMembers[h]
                                /\ conversationMembers'[h] = conversationMembers[h]
  BY <1>1, <1>2, <1>4, <1>5 DEF GroupTypeOK
<1>7. GroupTypeOK'
  BY <1>1, <1>2, <1>3, <1>6 DEF GroupTypeOK
<1>8. StatementsAreSound'
  <2>1. \A h \in Created : \A s : StatementIsSound(h, s)' <=> StatementIsSound(h, s)
    BY <1>3 DEF StatementIsSound
  <2> QED BY <1>2, <1>3, <2>1 DEF GroupInvariant, StatementsAreSound
<1>9. GroupIsSound(g)'
  <2>1. /\ DOMAIN roles = members /\ p \in members
        /\ \A q \in members : roles[q] = 2 <=> q = p
    OBVIOUS
  <2> HIDE DEF roles, rows
  <2> QED BY <1>2, <1>3, <1>4, <1>6, <2>1 DEF GroupIsSound, OfConversation
<1>10. ASSUME NEW h \in Group \ {g} PROVE GroupIsSound(h)'
  BY <1>3, <1>6, OtherGroups DEF GroupInvariant
<1> QED BY <1>7, <1>8, <1>9, <1>10 DEF GroupInvariant

\* Pinning a conversation leaves its members alone.
LEMMA PinningKeeps ==
    ASSUME GroupInvariant, NEW p \in Person, NEW g \in Group, NEW pinned \in BOOLEAN,
           updateConversationPreference(p, g, pinned)
    PROVE  GroupInvariant'
<1> DEFINE old == conversationMembers[g]
           rows == [old EXCEPT ![p].pinned = pinned]
<1>1. /\ old \in MemberTable /\ p \in DOMAIN old
      /\ conversationMembers \in [Group -> MemberTable]
  BY DEF GroupInvariant, GroupTypeOK, updateConversationPreference, OfConversation
<1>2. /\ conversationMembers' = [conversationMembers EXCEPT ![g] = rows]
      /\ UNCHANGED << enabled, chatGroups, groupMembers, groupQueue >> /\ Created' = Created
  BY DEF updateConversationPreference, Created
<1>3. \A q \in DOMAIN old : old[q] \in [left : BOOLEAN, pinned : BOOLEAN]
  BY <1>1, InTables
<1>4. /\ DOMAIN rows = DOMAIN old
      /\ \A q \in DOMAIN old : /\ rows[q] \in [left : BOOLEAN, pinned : BOOLEAN]
                               /\ rows[q].left = old[q].left
  BY <1>3
<1>5. rows \in MemberTable
  <2>1. DOMAIN rows \in SUBSET Person
    BY <1>1, <1>4, InTables
  <2>2. rows \in [DOMAIN rows -> [left : BOOLEAN, pinned : BOOLEAN]]
    BY <1>4
  <2> QED BY <2>1, <2>2 DEF MemberTable
<1> HIDE DEF rows
<1>6. /\ conversationMembers' \in [Group -> MemberTable] /\ conversationMembers'[g] = rows
      /\ \A h \in Group \ {g} : conversationMembers'[h] = conversationMembers[h]
  BY <1>1, <1>2, <1>5
<1>7. OfConversation(g)' = OfConversation(g)
  BY <1>4, <1>6 DEF OfConversation
<1>8. \A h \in Group : GroupIsSound(h)'
  <2>1. GroupIsSound(g)'
    BY <1>2, <1>4, <1>6, <1>7 DEF GroupIsSound, GroupInvariant
  <2>2. ASSUME NEW h \in Group \ {g} PROVE GroupIsSound(h)'
    BY <1>2, <1>6, OtherGroups DEF GroupInvariant
  <2> QED BY <2>1, <2>2
<1>9. GroupTypeOK' /\ StatementsAreSound'
  BY <1>2, <1>6 DEF GroupInvariant, GroupTypeOK, StatementsAreSound, StatementIsSound
<1> QED BY <1>8, <1>9 DEF GroupInvariant

\* Every statement of GroupNext keeps the invariant, whoever waits for a lock.
LEMMA GroupStep == GroupInvariant /\ [GroupNext]_groupVars => GroupInvariant'
<1> SUFFICES ASSUME GroupInvariant, [GroupNext]_groupVars PROVE GroupInvariant'
  OBVIOUS
<1> USE DEF GroupInvariant
<1>1. ASSUME NEW p \in Person, NEW g \in Group, NEW people \in SUBSET Person, createGroup(p, g, people)
      PROVE GroupInvariant'
  BY <1>1, CreateKeeps
<1>2. ASSUME NEW p \in Person, NEW g \in Group, BeginJoin(p, g) PROVE GroupInvariant'
  <2> DEFINE s == [person |-> p, action |-> "Join", people |-> {p}]
  <2>1. s \in Statement
    BY DEF Statement
  <2>2. StatementIsSound(g, s)
    BY <1>2 DEF BeginJoin, Await, Colleagues, StatementIsSound
  <2> QED BY <1>2, <2>1, <2>2, AwaitKeeps DEF BeginJoin
<1>3. ASSUME NEW p \in Person, NEW g \in Group, NEW action \in Action, NEW people \in SUBSET Person,
             BeginMemberUpdate(p, g, action, people)
      PROVE GroupInvariant'
  <2> DEFINE s == [person |-> p, action |-> action, people |-> people]
  <2>1. s \in Statement
    BY DEF Statement
  <2>2. StatementIsSound(g, s)
    BY <1>3 DEF BeginMemberUpdate, StatementIsSound, Action
  <2> QED BY <1>3, <2>1, <2>2, AwaitKeeps DEF BeginMemberUpdate
<1>4. ASSUME NEW p \in Person, NEW g \in Group, NEW pinned \in BOOLEAN,
             updateConversationPreference(p, g, pinned)
      PROVE GroupInvariant'
  BY <1>4, PinningKeeps
<1>5. ASSUME NEW g \in Group, CommitStatement(g) PROVE GroupInvariant'
  BY <1>5, GroupCommitKeeps
<1>6. ASSUME NEW p \in Person, updatePerson(p),
             UNCHANGED << chatGroups, groupMembers, conversationMembers, groupQueue >>
      PROVE GroupInvariant'
  <2>1. enabled' \subseteq Person
    BY <1>6 DEF updatePerson, GroupTypeOK
  <2> QED BY <1>6, <2>1 DEF GroupTypeOK, StatementsAreSound, StatementIsSound, GroupIsSound,
        OfConversation, Created
<1>7. CASE UNCHANGED groupVars
  BY <1>7 DEF groupVars, GroupTypeOK, StatementsAreSound, StatementIsSound, GroupIsSound,
     OfConversation, Created
<1> QED BY <1>1, <1>2, <1>3, <1>4, <1>5, <1>6, <1>7 DEF GroupNext, handleGroups

\* The invariant contains what the run checks.
LEMMA GroupInvariantAgrees == GroupInvariant => GroupsAgree
<1> SUFFICES ASSUME GroupInvariant, NEW g \in Created
             PROVE /\ OfConversation(g) = DOMAIN groupMembers[g]
                   /\ \A p \in DOMAIN groupMembers[g] : OrganizationOf[p] = OrganizationOf[chatGroups[g]]
                   /\ {p \in DOMAIN groupMembers[g] : groupMembers[g][p] = 2} = {chatGroups[g]}
                   /\ chatGroups[g] \in OfConversation(g)
  BY DEF GroupsAgree, MembersAgree, OneOwner, listGroups, listConversations, loadGroupDetail
<1>1. GroupIsSound(g)
  BY DEF GroupInvariant, GroupTypeOK
<1> QED BY <1>1 DEF GroupIsSound

\* GroupsAgree in every reachable state.
THEOREM GroupsAlwaysAgree == GroupSpec => []GroupsAgree
<1>1. GroupInit => GroupInvariant
  BY GroupStart
<1>2. GroupInvariant /\ [GroupNext]_groupVars => GroupInvariant'
  BY GroupStep
<1>3. GroupInvariant => GroupsAgree
  BY GroupInvariantAgrees
<1> QED BY <1>1, <1>2, <1>3, PTL DEF GroupSpec

----------------------------------------------------------------------------
\* Direct conversations and conferences.


\* The greatest of finitely many indices: there is one unless there are none.
LEMMA GreatestIndex ==
    ASSUME NEW n \in Nat, NEW found \in SUBSET (1..n), found # {}
    PROVE  \E k \in found : \A j \in found : j <= k
<1> DEFINE T == {n - k : k \in found}
<1>1. T \subseteq Nat /\ T # {}
  <2>1. \A k \in found : k \in Nat /\ k <= n
    OBVIOUS
  <2>2. \A k \in found : n - k \in Nat
    BY <2>1
  <2> QED BY <2>2
<1>2. PICK x \in T : \A y \in T : ~(<< y, x >> \in OpToRel(<, Nat))
  BY ONLY <1>1, NatLessThanWellFounded, WFMin
<1>3. \A y \in T : ~(y < x)
  BY <1>1, <1>2 DEF OpToRel
<1>4. PICK k \in found : x = n - k
  OBVIOUS
<1>5. ASSUME NEW j \in found PROVE j <= k
  <2>1. n - j \in T
    OBVIOUS
  <2>2. ~(n - j < n - k)
    BY <1>3, <1>4, <2>1
  <2> QED BY <2>2
<1> QED BY <1>5

\* Latest of a set of keys is one of them, and zero exactly when there is none.
LEMMA LatestOfNone ==
    ASSUME NEW n \in Nat, NEW found \in SUBSET (1..n)
    PROVE  Latest(found) \in 0..n /\ (Latest(found) = 0 <=> found = {})
                /\ (Latest(found) # 0 => Latest(found) \in found)
<1>1. CASE found = {}
  BY <1>1 DEF Latest
<1>2. CASE found # {}
  <2>1. \E k \in found : \A j \in found : j <= k
    BY <1>2, GreatestIndex
  <2>2. Latest(found) \in found
    BY <1>2, <2>1, Zenon DEF Latest
  <2>3. Latest(found) \in 1..n
    BY <2>2
  <2> QED BY <1>2, <2>2, <2>3
<1> QED BY <1>1, <1>2

\* The rows of a table that is a sequence.
LEMMA RowOf ==
    ASSUME NEW T, NEW s \in Seq(T)
    PROVE  /\ Len(s) \in Nat /\ DOMAIN s = 1..Len(s)
           /\ \A k \in DOMAIN s : s[k] \in T
OBVIOUS

\* One row of such a table is replaced.
LEMMA RowReplaced ==
    ASSUME NEW T, NEW s \in Seq(T), NEW k \in DOMAIN s, NEW x \in T
    PROVE  /\ [s EXCEPT ![k] = x] \in Seq(T)
           /\ Len([s EXCEPT ![k] = x]) = Len(s)
           /\ DOMAIN [s EXCEPT ![k] = x] = DOMAIN s
           /\ [s EXCEPT ![k] = x][k] = x
           /\ \A j \in DOMAIN s \ {k} : [s EXCEPT ![k] = x][j] = s[j]
OBVIOUS

Conversation == [pair : SUBSET Person, members : SUBSET Person]
Room == [conversation : Nat, expired : BOOLEAN, present : SUBSET Person]
CallType ==
    [kind : {"none", "direct", "conference"}, person : Person \cup {""},
     key : SUBSET (Person \cup Nat), phase : {"", "allowed", "locked"}, found : Nat,
     expired : SUBSET Nat]
RoomsTypeOK ==
    /\ enabled \subseteq Person
    /\ conversations \in Seq(Conversation)
    /\ Len(conversations) >= 1 /\ conversations[1].pair = {}
    /\ conferenceRooms \in Seq(Room)
    /\ calls \in [GatewayProcess -> CallType]

\* What a transaction has read is still true, or can only have become more true.
CallIsSound(gateway) ==
    LET call == calls[gateway] IN
    /\ call.phase \in {"allowed", "locked"} => call.person \in Person
    /\ call.kind = "direct" => call.key \in SUBSET Person /\ call.key # {}
    /\ call.kind = "conference" => \E c \in DOMAIN conversations : call.key = {c}
    /\ \A k \in call.expired : k \in DOMAIN conferenceRooms /\ ~Live(k)

\* Two transactions that hold a lock hold different ones.
LocksExclude ==
    \A g, h \in GatewayProcess :
        /\ calls[g].phase = "locked" /\ calls[h].phase = "locked"
        /\ calls[g].kind = calls[h].kind /\ calls[g].key = calls[h].key
        => g = h

\* Who holds the lock and has found nothing: there is still nothing.
NothingToFind(gateway) ==
    LET call == calls[gateway] IN
    call.phase = "locked" /\ call.found = 0 =>
        /\ call.kind = "direct" => \A c \in DOMAIN conversations : conversations[c].pair # call.key
        /\ call.kind = "conference" =>
              \A k \in DOMAIN conferenceRooms : conferenceRooms[k].conversation \in call.key => ~Live(k)

RoomsInvariant ==
    /\ RoomsTypeOK
    /\ LocksExclude
    /\ \A gateway \in GatewayProcess : CallIsSound(gateway) /\ NothingToFind(gateway)
    /\ MeetingPlacesAgree

\* The empty tables and idle gateway processes satisfy the invariant of rooms.
LEMMA RoomsStart == RoomsInit => RoomsInvariant
<1> SUFFICES ASSUME RoomsInit PROVE RoomsInvariant
  OBVIOUS
<1>1. /\ Len(conversations) = 1 /\ conversations[1].pair = {} /\ DOMAIN conversations = {1}
      /\ conversations \in Seq(Conversation)
  BY DEF RoomsInit, Conversation
<1>2. /\ conferenceRooms \in Seq(Room)
      /\ DOMAIN conferenceRooms = {}
  BY DEF RoomsInit
<1>3. NoCall \in CallType
  BY DEF NoCall, CallType
<1>4. RoomsTypeOK
  BY <1>1, <1>2, <1>3 DEF RoomsInit, PeopleInit, RoomsTypeOK
<1>5. LocksExclude /\ \A gateway \in GatewayProcess : CallIsSound(gateway) /\ NothingToFind(gateway)
  BY DEF RoomsInit, NoCall, LocksExclude, CallIsSound, NothingToFind
<1>6. MeetingPlacesAgree
  BY <1>1, <1>2 DEF MeetingPlacesAgree, OneConversationPerPair, OneLiveRoom
<1> QED BY <1>4, <1>5, <1>6 DEF RoomsInvariant

\* A transaction begins, ends or is rolled back: one call changes and no table.
LEMMA OneCallChanges ==
    ASSUME RoomsInvariant, NEW gateway \in GatewayProcess, NEW call \in CallType,
           calls' = [calls EXCEPT ![gateway] = call], call.phase # "locked",
           call.phase = "allowed" => call.person \in Person,
           call.kind = "direct" => call.key \in SUBSET Person /\ call.key # {},
           call.kind = "conference" => \E c \in DOMAIN conversations : call.key = {c},
           \A k \in call.expired : k \in DOMAIN conferenceRooms /\ ~Live(k),
           UNCHANGED << enabled, conversations, conferenceRooms, joined >>
    PROVE  RoomsInvariant'
<1> USE DEF RoomsInvariant
<1>1. /\ calls' \in [GatewayProcess -> CallType] /\ calls'[gateway] = call
      /\ \A g \in GatewayProcess \ {gateway} : calls'[g] = calls[g]
  BY DEF RoomsTypeOK
<1>2. RoomsTypeOK' /\ MeetingPlacesAgree'
  BY <1>1 DEF RoomsTypeOK, MeetingPlacesAgree, OneConversationPerPair, OneLiveRoom, Live
<1>3. LocksExclude'
  BY <1>1 DEF LocksExclude
<1>4. CallIsSound(gateway)' /\ NothingToFind(gateway)'
  BY <1>1 DEF CallIsSound, NothingToFind, Live, CallType
<1>5. ASSUME NEW g \in GatewayProcess \ {gateway} PROVE CallIsSound(g)' /\ NothingToFind(g)'
  BY <1>1 DEF CallIsSound, NothingToFind, Live
<1> QED BY <1>2, <1>3, <1>4, <1>5

\* The record of a gateway process without a call is a call in no phase.
LEMMA EndedCall == NoCall \in CallType /\ NoCall.phase = "" /\ NoCall.kind = "none" /\ NoCall.expired = {}
BY DEF NoCall, CallType

\* A call that begins is in the phase before the lock: it has read who may meet.
LEMMA BeginKeeps ==
    ASSUME RoomsInvariant, NEW gateway \in GatewayProcess, NEW p \in Person
    PROVE  /\ \A q \in Person : BeginConversation(gateway, p, q) => RoomsInvariant'
           /\ \A c \in DOMAIN conversations : BeginConference(gateway, p, c) => RoomsInvariant'
<1> DEFINE expired == {k \in DOMAIN conferenceRooms : ~Live(k)}
           begun(kind, key) == [kind |-> kind, person |-> p, key |-> key, phase |-> "allowed",
                                found |-> 0, expired |-> expired]
<1>1. expired \in SUBSET Nat
  BY DEF RoomsInvariant, RoomsTypeOK
<1>2. ASSUME NEW q \in Person, BeginConversation(gateway, p, q) PROVE RoomsInvariant'
  <2>1. begun("direct", {p, q}) \in CallType
    BY <1>1 DEF CallType
  <2> QED BY <1>2, <2>1, OneCallChanges DEF BeginConversation, BeginCall
<1>3. ASSUME NEW c \in DOMAIN conversations, BeginConference(gateway, p, c) PROVE RoomsInvariant'
  <2>1. c \in Nat
    BY DEF RoomsInvariant, RoomsTypeOK
  <2>2. begun("conference", {c}) \in CallType
    BY <1>1, <2>1 DEF CallType
  <2> QED BY <1>3, <2>2, OneCallChanges DEF BeginConference, BeginCall
<1> QED BY <1>2, <1>3

\* What the lookup under the lock finds, and what it means to find nothing.
LEMMA LookupFinds ==
    ASSUME RoomsInvariant, NEW gateway \in GatewayProcess
    PROVE  LET call == calls[gateway] IN
           /\ Lookup(call) \in Nat
           /\ Lookup(call) = 0 /\ call.kind = "direct" =>
                 \A c \in DOMAIN conversations : conversations[c].pair # call.key
           /\ Lookup(call) = 0 /\ call.kind = "conference" =>
                 \A k \in DOMAIN conferenceRooms : conferenceRooms[k].conversation \in call.key => ~Live(k)
<1> DEFINE call == calls[gateway]
           pairs == {c \in DOMAIN conversations : conversations[c].pair = call.key}
           rooms == {k \in DOMAIN conferenceRooms :
                        conferenceRooms[k].conversation \in call.key /\ k \notin call.expired}
<1>1. /\ Len(conversations) \in Nat /\ DOMAIN conversations = 1..Len(conversations)
      /\ Len(conferenceRooms) \in Nat /\ DOMAIN conferenceRooms = 1..Len(conferenceRooms)
  BY DEF RoomsInvariant, RoomsTypeOK
<1>2. pairs \in SUBSET (1..Len(conversations)) /\ rooms \in SUBSET (1..Len(conferenceRooms))
  BY <1>1
<1>3. /\ Latest(pairs) \in Nat /\ (Latest(pairs) = 0 <=> pairs = {})
      /\ Latest(rooms) \in Nat /\ (Latest(rooms) = 0 <=> rooms = {})
  <2> HIDE DEF pairs, rooms
  <2>1. Latest(pairs) \in 0..Len(conversations) /\ (Latest(pairs) = 0 <=> pairs = {})
    BY <1>1, <1>2, LatestOfNone
  <2>2. Latest(rooms) \in 0..Len(conferenceRooms) /\ (Latest(rooms) = 0 <=> rooms = {})
    BY <1>1, <1>2, LatestOfNone
  <2> QED BY <1>1, <2>1, <2>2
<1>4. Lookup(call) = IF call.kind = "direct" THEN Latest(pairs) ELSE Latest(rooms)
  BY DEF Lookup
<1>5. \A k \in call.expired : ~Live(k)
  BY DEF RoomsInvariant, CallIsSound
<1> QED BY <1>3, <1>4, <1>5

\* The advisory lock of a key is granted to one call only, and what the call then looks up
\* stays the latest until it ends.
LEMMA TakeLockKeeps ==
    ASSUME RoomsInvariant, NEW gateway \in GatewayProcess, TakeLock(gateway)
    PROVE  RoomsInvariant'
<1> DEFINE call == calls[gateway]
<1> USE DEF RoomsInvariant
<1>1. /\ calls \in [GatewayProcess -> CallType] /\ call \in CallType /\ call.phase = "allowed"
      /\ Free(gateway) /\ UNCHANGED << enabled, conversations, conferenceRooms, joined >>
      /\ calls' = [calls EXCEPT ![gateway] = [call EXCEPT !.phase = "locked", !.found = Lookup(call)]]
      /\ Lookup(call) \in Nat
  BY LookupFinds DEF TakeLock, RoomsTypeOK
<1>2. /\ calls' \in [GatewayProcess -> CallType]
      /\ \A g \in GatewayProcess \ {gateway} : calls'[g] = calls[g]
      /\ calls'[gateway].phase = "locked" /\ calls'[gateway].found = Lookup(call)
      /\ calls'[gateway].kind = call.kind /\ calls'[gateway].key = call.key
      /\ calls'[gateway].person = call.person /\ calls'[gateway].expired = call.expired
  BY <1>1 DEF CallType
<1>3. RoomsTypeOK' /\ MeetingPlacesAgree'
  BY <1>1, <1>2 DEF RoomsTypeOK, MeetingPlacesAgree, OneConversationPerPair, OneLiveRoom, Live
<1>4. LocksExclude'
  BY <1>1, <1>2 DEF LocksExclude, Free
<1>5. CallIsSound(gateway)'
  <2>1. CallIsSound(gateway)
    OBVIOUS
  <2> QED BY <1>1, <1>2, <2>1 DEF CallIsSound, Live
<1>6. NothingToFind(gateway)'
  <2>1. /\ Lookup(call) = 0 /\ call.kind = "direct" =>
              \A c \in DOMAIN conversations : conversations[c].pair # call.key
        /\ Lookup(call) = 0 /\ call.kind = "conference" =>
              \A k \in DOMAIN conferenceRooms : conferenceRooms[k].conversation \in call.key => ~Live(k)
    BY LookupFinds
  <2> HIDE DEF call
  <2> QED BY <1>1, <1>2, <2>1 DEF NothingToFind, Live
<1>7. ASSUME NEW g \in GatewayProcess \ {gateway} PROVE CallIsSound(g)' /\ NothingToFind(g)'
  BY <1>1, <1>2 DEF CallIsSound, NothingToFind, Live
<1> QED BY <1>3, <1>4, <1>5, <1>6, <1>7

\* The rooms and conversations only grow, and no room comes back to life: what others
\* have read of them stays true if they do not hold the lock of what is new.
LEMMA OthersStaySound ==
    ASSUME RoomsInvariant, NEW g \in GatewayProcess, calls'[g] = calls[g],
           DOMAIN conversations \subseteq DOMAIN conversations',
           DOMAIN conferenceRooms \subseteq DOMAIN conferenceRooms',
           \A c \in DOMAIN conversations : conversations'[c].pair = conversations[c].pair,
           \A c \in DOMAIN conversations' \ DOMAIN conversations :
              ~(/\ calls[g].phase = "locked" /\ calls[g].kind = "direct"
                /\ conversations'[c].pair = calls[g].key),
           \A k \in DOMAIN conferenceRooms :
              /\ conferenceRooms'[k].conversation = conferenceRooms[k].conversation
              /\ ~Live(k) => conferenceRooms'[k].expired,
           \A k \in DOMAIN conferenceRooms' \ DOMAIN conferenceRooms :
              ~(/\ calls[g].phase = "locked" /\ calls[g].kind = "conference"
                /\ conferenceRooms'[k].conversation \in calls[g].key)
    PROVE  CallIsSound(g)' /\ NothingToFind(g)'
<1>1. CallIsSound(g) /\ NothingToFind(g)
  BY DEF RoomsInvariant
<1>2. CallIsSound(g)'
  BY <1>1 DEF CallIsSound, Live
<1>3. NothingToFind(g)'
  BY <1>1 DEF NothingToFind, Live
<1> QED BY <1>2, <1>3

\* The end of the transaction of one gateway.
LEMMA EndCallKeeps ==
    ASSUME RoomsTypeOK, LocksExclude, NEW gateway \in GatewayProcess, EndCall(gateway)
    PROVE  /\ calls' \in [GatewayProcess -> CallType] /\ calls'[gateway] = NoCall
           /\ \A g \in GatewayProcess \ {gateway} : calls'[g] = calls[g]
           /\ LocksExclude'
           /\ CallIsSound(gateway)' /\ NothingToFind(gateway)'
<1>1. /\ calls' \in [GatewayProcess -> CallType] /\ calls'[gateway] = NoCall
      /\ \A g \in GatewayProcess \ {gateway} : calls'[g] = calls[g]
  BY EndedCall DEF EndCall, RoomsTypeOK
<1>2. LocksExclude'
  BY <1>1, EndedCall DEF LocksExclude
<1>3. CallIsSound(gateway)' /\ NothingToFind(gateway)'
  BY <1>1, EndedCall DEF CallIsSound, NothingToFind
<1> QED BY <1>1, <1>2, <1>3

\* A direct conversation inserted under the lock of its pair is the only one
\* of the pair, and one found under it is returned as it is.
LEMMA DirectConversationKeeps ==
    ASSUME RoomsInvariant, NEW gateway \in GatewayProcess, getOrCreateDirectConversation(gateway)
    PROVE  RoomsInvariant'
<1> DEFINE call == calls[gateway]
           row == [pair |-> call.key, members |-> call.key]
<1>1. /\ RoomsTypeOK /\ LocksExclude /\ MeetingPlacesAgree
      /\ CallIsSound(gateway) /\ NothingToFind(gateway)
  BY DEF RoomsInvariant
<1>2. /\ call.phase = "locked" /\ call.kind = "direct" /\ EndCall(gateway)
      /\ UNCHANGED << enabled, conferenceRooms, joined >>
      /\ conversations' = IF call.found # 0 THEN conversations ELSE Append(conversations, row)
  BY DEF getOrCreateDirectConversation
<1>3. /\ call.key \in SUBSET Person /\ call.key # {}
      /\ call.found = 0 => \A c \in DOMAIN conversations : conversations[c].pair # call.key
  BY <1>1, <1>2 DEF CallIsSound, NothingToFind
<1>4. /\ calls' \in [GatewayProcess -> CallType]
      /\ \A g \in GatewayProcess \ {gateway} : calls'[g] = calls[g]
      /\ LocksExclude' /\ CallIsSound(gateway)' /\ NothingToFind(gateway)'
  BY <1>1, <1>2, EndCallKeeps
<1>5. /\ conversations' \in Seq(Conversation)
      /\ DOMAIN conversations \subseteq DOMAIN conversations' /\ Len(conversations') >= 1
      /\ \A c \in DOMAIN conversations : conversations'[c] = conversations[c]
      /\ \A c \in DOMAIN conversations' \ DOMAIN conversations :
            conversations'[c] = row /\ c = Len(conversations) + 1 /\ call.found = 0
  <2>1. row \in Conversation
    BY <1>3 DEF Conversation
  <2>2. conversations \in Seq(Conversation)
        /\ Len(conversations) >= 1
    BY <1>1 DEF RoomsTypeOK
  <2> HIDE DEF row, call
  <2>3. CASE call.found # 0
    BY <1>2, <2>2, <2>3
  <2>4. CASE call.found = 0
    BY <1>2, <2>1, <2>2, <2>4
  <2> QED BY <2>3, <2>4
<1>6. RoomsTypeOK'
  <2>1. 1 \in DOMAIN conversations
    BY <1>1 DEF RoomsTypeOK
  <2> QED BY <1>1, <1>2, <1>4, <1>5, <2>1 DEF RoomsTypeOK
<1>7. ASSUME NEW g \in GatewayProcess \ {gateway} PROVE CallIsSound(g)' /\ NothingToFind(g)'
  <2>1. ~(calls[g].phase = "locked" /\ calls[g].kind = "direct" /\ calls[g].key = call.key)
    BY <1>1, <1>2 DEF LocksExclude
  <2> QED BY <1>2, <1>4, <1>5, <2>1, OthersStaySound DEF Live
<1>8. MeetingPlacesAgree'
  <2>1. row.pair = call.key /\ row.members = call.key
    OBVIOUS
  <2>2. ASSUME NEW c \in DOMAIN conversations', NEW d \in DOMAIN conversations', conversations'[c].pair # {}
        PROVE /\ conversations'[c].members = conversations'[c].pair
              /\ conversations'[d].pair = conversations'[c].pair => c = d
    <3> HIDE DEF row, call
    <3> QED BY <1>1, <1>3, <1>5, <2>1, <2>2 DEF MeetingPlacesAgree, OneConversationPerPair
  <2>3. OneConversationPerPair'
    BY <2>2 DEF OneConversationPerPair
  <2>4. OneLiveRoom'
    BY <1>1, <1>2 DEF MeetingPlacesAgree, OneLiveRoom, Live
  <2> QED BY <2>3, <2>4 DEF MeetingPlacesAgree
<1> QED BY <1>4, <1>6, <1>7, <1>8 DEF RoomsInvariant

\* A conference room entered or created under the lock of its conversation is
\* the only active one, and the participant row goes to that room.
LEMMA JoinConferenceKeeps ==
    ASSUME RoomsInvariant, NEW gateway \in GatewayProcess, joinConference(gateway)
    PROVE  RoomsInvariant'
<1> DEFINE call == calls[gateway]
           row == [conversation |-> CHOOSE c \in call.key : TRUE, expired |-> FALSE, present |-> {}]
           room == IF call.found # 0 THEN call.found ELSE Len(conferenceRooms) + 1
           rooms == IF call.found # 0 THEN conferenceRooms ELSE Append(conferenceRooms, row)
<1>1. /\ RoomsTypeOK /\ LocksExclude /\ MeetingPlacesAgree
      /\ CallIsSound(gateway) /\ NothingToFind(gateway)
  BY DEF RoomsInvariant
<1>2. /\ call.phase = "locked" /\ call.kind = "conference" /\ EndCall(gateway)
      /\ UNCHANGED << enabled, conversations >>
      /\ conferenceRooms' = [rooms EXCEPT ![room].present = @ \cup {call.person}]
      /\ joined' = IF rooms[room].expired THEN joined ELSE joined \cup {room}
  BY DEF joinConference
<1>3. PICK c \in DOMAIN conversations : call.key = {c}
  BY <1>1, <1>2 DEF CallIsSound
<1>4. /\ c \in Nat /\ row \in Room /\ row.conversation = c /\ row.expired = FALSE
      /\ call.person \in Person
      /\ call.found = 0 =>
            \A k \in DOMAIN conferenceRooms : conferenceRooms[k].conversation = c => ~Live(k)
  <2>1. c \in Nat /\ (CHOOSE e \in call.key : TRUE) = c
    BY <1>1, <1>3 DEF RoomsTypeOK
  <2> QED BY <1>1, <1>2, <1>3, <2>1 DEF CallIsSound, NothingToFind, Room
<1>5. /\ calls' \in [GatewayProcess -> CallType]
      /\ \A g \in GatewayProcess \ {gateway} : calls'[g] = calls[g]
      /\ LocksExclude' /\ CallIsSound(gateway)' /\ NothingToFind(gateway)'
  BY <1>1, <1>2, EndCallKeeps
<1>6. /\ rooms \in Seq(Room) /\ DOMAIN conferenceRooms \subseteq DOMAIN rooms
      /\ \A k \in DOMAIN conferenceRooms : rooms[k] = conferenceRooms[k]
      /\ \A k \in DOMAIN rooms \ DOMAIN conferenceRooms : rooms[k] = row /\ k = room /\ call.found = 0
  <2>1. conferenceRooms \in Seq(Room)
    BY <1>1 DEF RoomsTypeOK
  <2> HIDE DEF row, call
  <2>2. CASE call.found # 0
    BY <2>1, <2>2
  <2>3. CASE call.found = 0
    BY <1>4, <2>1, <2>3
  <2> QED BY <2>2, <2>3
<1>7. /\ conferenceRooms' \in Seq(Room) /\ DOMAIN conferenceRooms' = DOMAIN rooms
      /\ \A k \in DOMAIN rooms : /\ conferenceRooms'[k].conversation = rooms[k].conversation
                                 /\ conferenceRooms'[k].expired = rooms[k].expired
  <2> HIDE DEF row, call, rooms, room
  <2>1. \A k \in DOMAIN rooms : rooms[k] \in Room
    <3> QED BY <1>6, RowOf
  <2>2. \A k \in DOMAIN rooms : [rooms[k] EXCEPT !.present = @ \cup {call.person}] \in Room
    BY <1>4, <2>1 DEF Room
  <2>3. DOMAIN conferenceRooms' = DOMAIN rooms
    BY <1>2
  <2>4. \A k \in DOMAIN rooms :
           conferenceRooms'[k] = IF k = room THEN [rooms[k] EXCEPT !.present = @ \cup {call.person}]
                                 ELSE rooms[k]
    BY <1>2
  <2>5. conferenceRooms' \in Seq(Room)
    <3>1. Len(rooms) \in Nat /\ DOMAIN rooms = 1..Len(rooms)
      BY <1>6
    <3>2. conferenceRooms' \in [1..Len(rooms) -> Room]
      <4>1. conferenceRooms' = [k \in DOMAIN rooms |-> conferenceRooms'[k]]
        BY <1>2
      <4> QED BY <2>1, <2>2, <2>3, <2>4, <3>1, <4>1
    <3> QED BY <3>1, <3>2, SeqDef
  <2> QED BY <2>1, <2>3, <2>4, <2>5 DEF Room
<1>8. RoomsTypeOK'
  BY <1>1, <1>2, <1>5, <1>7 DEF RoomsTypeOK
<1>9. ASSUME NEW g \in GatewayProcess \ {gateway} PROVE CallIsSound(g)' /\ NothingToFind(g)'
  <2>1. ~(calls[g].phase = "locked" /\ calls[g].kind = "conference" /\ c \in calls[g].key)
    <3>1. ~(calls[g].phase = "locked" /\ calls[g].kind = "conference" /\ calls[g].key = {c})
      BY <1>1, <1>2, <1>3 DEF LocksExclude
    <3>2. calls[g].kind = "conference" => \E d \in DOMAIN conversations : calls[g].key = {d}
      BY DEF RoomsInvariant, CallIsSound
    <3> QED BY <3>1, <3>2
  <2> HIDE DEF row, call, rooms, room
  <2> QED BY <1>2, <1>4, <1>5, <1>6, <1>7, <2>1, OthersStaySound DEF Live
<1>10. MeetingPlacesAgree'
  <2> HIDE DEF row, call, rooms, room
  <2>1. OneConversationPerPair'
    BY <1>1, <1>2 DEF MeetingPlacesAgree, OneConversationPerPair
  <2>2. ASSUME NEW k \in DOMAIN conferenceRooms', Live(k)'
        PROVE  /\ k \in joined'
               /\ k \in DOMAIN conferenceRooms => Live(k)
               /\ k \notin DOMAIN conferenceRooms => k = room
    BY <1>1, <1>2, <1>4, <1>6, <1>7, <2>2 DEF MeetingPlacesAgree, OneLiveRoom, Live
  <2>3. ASSUME NEW j \in DOMAIN conferenceRooms', NEW k \in DOMAIN conferenceRooms',
               conferenceRooms'[j].conversation = conferenceRooms'[k].conversation,
               Live(j)', Live(k)'
        PROVE  j = k
    <3>1. CASE j \in DOMAIN conferenceRooms /\ k \in DOMAIN conferenceRooms
      BY <1>1, <1>6, <1>7, <2>2, <2>3, <3>1 DEF MeetingPlacesAgree, OneLiveRoom
    <3>2. CASE j \in DOMAIN conferenceRooms /\ k \notin DOMAIN conferenceRooms
      BY <1>4, <1>6, <1>7, <2>2, <2>3, <3>2
    <3>3. CASE j \notin DOMAIN conferenceRooms /\ k \in DOMAIN conferenceRooms
      BY <1>4, <1>6, <1>7, <2>2, <2>3, <3>3
    <3>4. CASE j \notin DOMAIN conferenceRooms /\ k \notin DOMAIN conferenceRooms
      BY <2>2, <2>3, <3>4
    <3> QED BY <3>1, <3>2, <3>3, <3>4
  <2>4. OneLiveRoom'
    BY <2>2, <2>3 DEF OneLiveRoom
  <2> QED BY <2>1, <2>4 DEF MeetingPlacesAgree
<1> QED BY <1>5, <1>8, <1>9, <1>10 DEF RoomsInvariant

\* A room is left or its time is over: no room appears, none comes back.
LEMMA RoomEndsKeeps ==
    ASSUME RoomsInvariant, NEW p, NEW k \in DOMAIN conferenceRooms,
           leaveConference(p, k) \/ Expire(k)
    PROVE  RoomsInvariant'
<1>1. RoomsTypeOK /\ LocksExclude /\ MeetingPlacesAgree
  BY DEF RoomsInvariant
<1>2. UNCHANGED << enabled, conversations, calls, joined >>
  BY DEF leaveConference, Expire
<1>3. /\ conferenceRooms' \in Seq(Room) /\ DOMAIN conferenceRooms' = DOMAIN conferenceRooms
      /\ \A j \in DOMAIN conferenceRooms :
            /\ conferenceRooms'[j].conversation = conferenceRooms[j].conversation
            /\ conferenceRooms[j].expired => conferenceRooms'[j].expired
  <2>1. conferenceRooms \in Seq(Room) /\ conferenceRooms[k] \in Room
    <3>1. conferenceRooms \in Seq(Room)
      BY <1>1 DEF RoomsTypeOK
    <3> QED BY <3>1, RowOf
  <2>2. CASE leaveConference(p, k)
    <3>1. [conferenceRooms[k] EXCEPT !.present = @ \ {p}] \in Room
      BY <2>1 DEF Room
    <3>2. conferenceRooms' = [conferenceRooms EXCEPT ![k] = [conferenceRooms[k] EXCEPT !.present = @ \ {p}]]
      BY <2>2 DEF leaveConference
    <3> QED BY <2>1, <3>1, <3>2, RowReplaced
  <2>3. CASE Expire(k)
    <3> DEFINE row == [conferenceRooms[k] EXCEPT !.expired = TRUE]
    <3>1. row \in Room /\ row.conversation = conferenceRooms[k].conversation /\ row.expired
      BY <2>1 DEF Room
    <3>2. conferenceRooms' = [conferenceRooms EXCEPT ![k] = row]
      BY <2>3 DEF Expire
    <3> HIDE DEF row
    <3>3. /\ conferenceRooms' \in Seq(Room) /\ DOMAIN conferenceRooms' = DOMAIN conferenceRooms
          /\ conferenceRooms'[k] = row
          /\ \A j \in DOMAIN conferenceRooms \ {k} : conferenceRooms'[j] = conferenceRooms[j]
      BY <2>1, <3>1, <3>2, RowReplaced
    <3> QED BY <3>1, <3>3
  <2> QED BY <2>2, <2>3
<1>4. RoomsTypeOK' /\ LocksExclude'
  BY <1>1, <1>2, <1>3 DEF RoomsTypeOK, LocksExclude
<1>5. MeetingPlacesAgree'
  BY <1>1, <1>2, <1>3 DEF MeetingPlacesAgree, OneConversationPerPair, OneLiveRoom, Live
<1>6. ASSUME NEW g \in GatewayProcess PROVE CallIsSound(g)' /\ NothingToFind(g)'
  BY <1>2, <1>3, OthersStaySound DEF Live
<1> QED BY <1>4, <1>5, <1>6 DEF RoomsInvariant

\* Joining or leaving a group between the steps of a call disturbs no room.
LEMMA ChangeGroupKeeps ==
    ASSUME RoomsInvariant, NEW p \in Person, ChangeGroup(p)
    PROVE  RoomsInvariant'
<1>1. RoomsTypeOK /\ LocksExclude /\ MeetingPlacesAgree
  BY DEF RoomsInvariant
<1>2. UNCHANGED << enabled, conferenceRooms, calls, joined >>
  BY DEF ChangeGroup
<1>3. /\ conversations' \in Seq(Conversation) /\ DOMAIN conversations' = DOMAIN conversations
      /\ Len(conversations') = Len(conversations) /\ conversations'[1].pair = {}
      /\ \A c \in DOMAIN conversations :
            /\ conversations'[c].pair = conversations[c].pair
            /\ c # 1 => conversations'[c] = conversations[c]
  <2>1. /\ conversations \in Seq(Conversation) /\ Len(conversations) >= 1
        /\ conversations[1] \in Conversation /\ conversations[1].pair = {}
        /\ 1 \in DOMAIN conversations
    <3>1. conversations \in Seq(Conversation) /\ Len(conversations) >= 1 /\ conversations[1].pair = {}
      BY <1>1 DEF RoomsTypeOK
    <3> QED BY <3>1, RowOf
  <2> DEFINE members == conversations[1].members
             changed == IF p \in members THEN members \ {p} ELSE members \cup {p}
             row == [conversations[1] EXCEPT !.members = changed]
  <2>2. row \in Conversation /\ row.pair = {}
    BY <2>1 DEF Conversation
  <2>3. conversations' = [conversations EXCEPT ![1] = row]
    BY DEF ChangeGroup
  <2> HIDE DEF row
  <2>4. /\ conversations' \in Seq(Conversation) /\ DOMAIN conversations' = DOMAIN conversations
        /\ Len(conversations') = Len(conversations) /\ conversations'[1] = row
        /\ \A c \in DOMAIN conversations \ {1} : conversations'[c] = conversations[c]
    BY <2>1, <2>2, <2>3, RowReplaced
  <2> QED BY <2>1, <2>2, <2>4
<1>4. RoomsTypeOK' /\ LocksExclude'
  BY <1>1, <1>2, <1>3 DEF RoomsTypeOK, LocksExclude
<1>5. MeetingPlacesAgree'
  <2>1. conversations[1].pair = {}
    BY <1>1 DEF RoomsTypeOK
  <2> QED BY <1>1, <1>2, <1>3, <2>1 DEF MeetingPlacesAgree, OneConversationPerPair, OneLiveRoom, Live
<1>6. ASSUME NEW g \in GatewayProcess PROVE CallIsSound(g)' /\ NothingToFind(g)'
  BY <1>2, <1>3, OthersStaySound DEF Live
<1> QED BY <1>4, <1>5, <1>6 DEF RoomsInvariant

\* Every step of a gateway process keeps the invariant of rooms.
LEMMA RoomsStep == RoomsInvariant /\ [RoomsNext]_roomVars => RoomsInvariant'
<1> SUFFICES ASSUME RoomsInvariant, [RoomsNext]_roomVars PROVE RoomsInvariant'
  OBVIOUS
<1>1. ASSUME NEW gateway \in GatewayProcess, NEW p \in Person, NEW q \in Person,
             BeginConversation(gateway, p, q)
      PROVE RoomsInvariant'
  BY <1>1, BeginKeeps
<1>2. ASSUME NEW gateway \in GatewayProcess, NEW p \in Person, NEW c \in DOMAIN conversations,
             BeginConference(gateway, p, c)
      PROVE RoomsInvariant'
  BY <1>2, BeginKeeps
<1>3. ASSUME NEW gateway \in GatewayProcess, TakeLock(gateway) PROVE RoomsInvariant'
  BY <1>3, TakeLockKeeps
<1>4. ASSUME NEW gateway \in GatewayProcess, getOrCreateDirectConversation(gateway) PROVE RoomsInvariant'
  BY <1>4, DirectConversationKeeps
<1>5. ASSUME NEW gateway \in GatewayProcess, joinConference(gateway) PROVE RoomsInvariant'
  BY <1>5, JoinConferenceKeeps
<1>6. ASSUME NEW gateway \in GatewayProcess, RollBack(gateway) PROVE RoomsInvariant'
  BY <1>6, OneCallChanges, EndedCall DEF RollBack, EndCall
<1>7. ASSUME NEW p \in Person, NEW k \in DOMAIN conferenceRooms, leaveConference(p, k)
      PROVE RoomsInvariant'
  BY <1>7, RoomEndsKeeps
<1>8. ASSUME NEW k \in DOMAIN conferenceRooms, Expire(k) PROVE RoomsInvariant'
  BY <1>8, RoomEndsKeeps
<1>9. ASSUME NEW p \in Dismissible, ChangeGroup(p) PROVE RoomsInvariant'
  BY <1>9, ChangeGroupKeeps, PeopleAssumption
<1>10. ASSUME NEW p \in Dismissible, updatePerson(p),
             UNCHANGED << conversations, interactions, conferenceRooms, calls, joined >>
      PROVE RoomsInvariant'
  <2>1. enabled' \subseteq Person
    BY <1>10, PeopleAssumption DEF updatePerson, RoomsInvariant, RoomsTypeOK
  <2> QED BY <1>10, <2>1 DEF RoomsInvariant, RoomsTypeOK, LocksExclude, CallIsSound, NothingToFind, Live,
        MeetingPlacesAgree, OneConversationPerPair, OneLiveRoom
<1>11. CASE UNCHANGED roomVars
  BY <1>11 DEF roomVars, RoomsInvariant, RoomsTypeOK, LocksExclude, CallIsSound, NothingToFind, Live,
     MeetingPlacesAgree, OneConversationPerPair, OneLiveRoom
<1> QED BY <1>1, <1>2, <1>3, <1>4, <1>5, <1>6, <1>7, <1>8, <1>9, <1>10, <1>11 DEF RoomsNext

\* A pair of people has one direct conversation and a conversation one active
\* conference, for every set of people and gateways and every interleaving of
\* the steps of getOrCreateDirectConversation and joinConference.
THEOREM MeetingPlacesAlwaysAgree == RoomsSpec => []MeetingPlacesAgree
<1>1. RoomsInvariant => MeetingPlacesAgree
  BY DEF RoomsInvariant
<1> QED BY <1>1, RoomsStart, RoomsStep, PTL DEF RoomsSpec

----------------------------------------------------------------------------
\* Calendar.


EventRow == [organizer : Person, title : Title, meeting : BOOLEAN, cancelled : BOOLEAN, revision : Nat]
ParticipantTable == UNION {[people -> {"accepted", "pending"}] : people \in SUBSET Person}
AuditEntry == [actor : Person, action : {"create", "update", "cancel"}, from : Nat, to : Nat]
CalendarTypeOK ==
    /\ StoredEvents \subseteq Event /\ DOMAIN eventParticipants = StoredEvents
    /\ \A e \in StoredEvents : /\ calendarEvents[e] \in EventRow
                               /\ eventParticipants[e] \in ParticipantTable
    /\ eventAudit \in [Event -> Seq(AuditEntry)]
    /\ eventVersions \in [Event -> Seq(EventRow \X ParticipantTable)]

EventHistory(e) ==
    /\ calendarEvents[e].revision >= 1
    /\ Len(eventAudit[e]) = calendarEvents[e].revision
    /\ \A k \in DOMAIN eventAudit[e] : eventAudit[e][k].from = k - 1 /\ eventAudit[e][k].to = k
    /\ Len(eventVersions[e]) = calendarEvents[e].revision
    /\ eventVersions[e][calendarEvents[e].revision]
          = ShownEvent(calendarEvents[e], eventParticipants[e])

TakesPart(organizer, people) ==
    /\ organizer \in DOMAIN people /\ people[organizer] = "accepted"
    /\ \A p \in DOMAIN people : OrganizationOf[p] = OrganizationOf[organizer]

\* One event: its history and its participants, or nothing at all.
EventIsSound(e) ==
    IF e \in StoredEvents
      THEN EventHistory(e) /\ TakesPart(calendarEvents[e].organizer, eventParticipants[e])
      ELSE eventAudit[e] = << >> /\ eventVersions[e] = << >>

CalendarInvariant == CalendarTypeOK /\ \A e \in Event : EventIsSound(e)

\* The empty calendar satisfies the invariant.
LEMMA CalendarStart == CalendarInit => CalendarInvariant
<1> SUFFICES ASSUME CalendarInit PROVE CalendarInvariant
  OBVIOUS
<1>1. StoredEvents = {} /\ DOMAIN eventParticipants = {}
  BY DEF CalendarInit, StoredEvents
<1> QED BY <1>1 DEF CalendarInit, CalendarInvariant, CalendarTypeOK, EventIsSound

\* An event none of whose rows change.
LEMMA EventStays ==
    ASSUME NEW e, EventIsSound(e), e \in StoredEvents' <=> e \in StoredEvents,
           e \in StoredEvents => /\ calendarEvents'[e] = calendarEvents[e]
                                 /\ eventParticipants'[e] = eventParticipants[e],
           eventAudit'[e] = eventAudit[e], eventVersions'[e] = eventVersions[e]
    PROVE  EventIsSound(e)'
BY DEF EventIsSound, EventHistory, TakesPart, ShownEvent

\* One transaction writes the rows of one event, the audit entry that leads to them
\* and the version the answer shows; r is the revision before, 0 of a new event.
Written(e, r, row, people, entry) ==
    /\ r = IF e \in StoredEvents THEN calendarEvents[e].revision ELSE 0
    /\ row.revision = r + 1 /\ entry.from = r /\ entry.to = r + 1
    /\ StoredEvents' = StoredEvents \cup {e} /\ DOMAIN eventParticipants' = StoredEvents'
    /\ calendarEvents'[e] = row /\ eventParticipants'[e] = people
    /\ \A other \in StoredEvents \ {e} :
          calendarEvents'[other] = calendarEvents[other]
          /\ eventParticipants'[other] = eventParticipants[other]
    /\ eventAudit' = [eventAudit EXCEPT ![e] = Append(@, entry)] /\ ShowEventVersion(e)
    /\ TakesPart(row.organizer, people)

\* A transaction that writes an event row of the next revision, its
\* participants and one audit entry keeps the history of every event.
LEMMA EventWritten ==
    ASSUME CalendarInvariant, NEW e \in Event, NEW row \in EventRow, NEW people \in ParticipantTable,
           NEW r \in Nat, NEW entry \in AuditEntry, Written(e, r, row, people, entry)
    PROVE  CalendarInvariant'
<1> DEFINE audit == eventAudit[e]
           versions == eventVersions[e]
           result == ShownEvent(row, people)
<1>1. CalendarTypeOK /\ EventIsSound(e)
  BY DEF CalendarInvariant
<1>2. /\ audit \in Seq(AuditEntry) /\ Len(audit) = r
      /\ versions \in Seq(EventRow \X ParticipantTable) /\ Len(versions) = r
      /\ \A k \in DOMAIN audit : audit[k].from = k - 1 /\ audit[k].to = k
  BY <1>1 DEF CalendarTypeOK, EventIsSound, EventHistory, Written
<1>3. result \in EventRow \X ParticipantTable
  BY DEF ShownEvent
<1>4. eventVersions' = [eventVersions EXCEPT ![e] = Append(versions, result)]
  <2>1. calendarEvents'[e] = row /\ eventParticipants'[e] = people /\ row.revision = r + 1
    BY DEF Written
  <2>2. Len(versions) < calendarEvents'[e].revision
    BY <1>2, <2>1
  <2>3. ShownEvent(calendarEvents'[e], eventParticipants'[e]) = result
    BY <2>1
  <2>4. ShowEventVersion(e)
    BY DEF Written
  <2> HIDE DEF result
  <2> QED BY <2>2, <2>3, <2>4 DEF ShowEventVersion
<1> HIDE DEF result
<1>5. /\ eventAudit' \in [Event -> Seq(AuditEntry)] /\ eventAudit'[e] = Append(audit, entry)
      /\ \A other \in Event \ {e} : eventAudit'[other] = eventAudit[other]
  <2>1. Append(audit, entry) \in Seq(AuditEntry)
    BY <1>2
  <2> QED BY <1>1, <2>1 DEF CalendarTypeOK, Written
<1>6. /\ eventVersions' \in [Event -> Seq(EventRow \X ParticipantTable)]
      /\ eventVersions'[e] = Append(versions, result)
      /\ \A other \in Event \ {e} : eventVersions'[other] = eventVersions[other]
  <2>1. Append(versions, result) \in Seq(EventRow \X ParticipantTable)
    BY <1>2, <1>3
  <2> QED BY <1>1, <1>4, <2>1 DEF CalendarTypeOK
<1>7. CalendarTypeOK'
  BY <1>1, <1>5, <1>6 DEF CalendarTypeOK, Written
<1>8. EventHistory(e)'
  <2>1. /\ Len(eventAudit'[e]) = r + 1
        /\ \A k \in DOMAIN eventAudit'[e] : eventAudit'[e][k].from = k - 1 /\ eventAudit'[e][k].to = k
    <3>1. /\ Len(eventAudit'[e]) = r + 1 /\ DOMAIN eventAudit'[e] = 1..(r + 1)
          /\ eventAudit'[e][r + 1] = entry
          /\ \A k \in 1..r : k \in DOMAIN audit /\ eventAudit'[e][k] = audit[k]
      BY <1>2, <1>5
    <3>2. ASSUME NEW k \in DOMAIN eventAudit'[e]
          PROVE eventAudit'[e][k].from = k - 1 /\ eventAudit'[e][k].to = k
      <4>1. CASE k = r + 1
        BY <3>1, <4>1 DEF Written
      <4>2. CASE k # r + 1
        <5>1. k \in 1..r
          BY <3>1, <4>2
        <5> QED BY <1>2, <3>1, <5>1
      <4> QED BY <4>1, <4>2
    <3> QED BY <3>1, <3>2
  <2>2. Len(eventVersions'[e]) = r + 1 /\ eventVersions'[e][r + 1] = result
    BY <1>2, <1>6
  <2> QED BY <2>1, <2>2 DEF EventHistory, result, Written
<1>9. EventIsSound(e)'
  BY <1>8 DEF EventIsSound, TakesPart, Written
<1>10. ASSUME NEW other \in Event \ {e} PROVE EventIsSound(other)'
  BY <1>5, <1>6, EventStays DEF CalendarInvariant, Written
<1> QED BY <1>7, <1>9, <1>10 DEF CalendarInvariant

\* The participants of a request: the organizer, accepted, and colleagues of his.
LEMMA RequestedPeople ==
    ASSUME NEW p \in Person, NEW draft \in EventDraft, ResolvedGuests(p, draft)
    PROVE  Participants(p, draft) \in ParticipantTable /\ TakesPart(p, Participants(p, draft))
<1> DEFINE people == {p} \cup draft.participantLoginNames
<1>1. people \in SUBSET Person /\ \A q \in people : OrganizationOf[q] = OrganizationOf[p]
  BY DEF EventDraft, ResolvedGuests, Colleagues
<1>2. Participants(p, draft) \in [people -> {"accepted", "pending"}]
  BY DEF Participants
<1>3. Participants(p, draft) \in ParticipantTable
  BY <1>1, <1>2 DEF ParticipantTable
<1>4. TakesPart(p, Participants(p, draft))
  BY <1>1 DEF Participants, TakesPart
<1> QED BY <1>3, <1>4

\* createCalendarEvent writes revision 1 and the first audit entry.
LEMMA CreateEventKeeps ==
    ASSUME CalendarInvariant, NEW p \in Person, NEW e \in Event, NEW draft \in EventDraft,
           createCalendarEvent(p, e, draft)
    PROVE  CalendarInvariant'
<1> DEFINE row == [organizer |-> p, title |-> draft.title, meeting |-> draft.conferenceEnabled,
                   cancelled |-> FALSE, revision |-> 1]
           people == Participants(p, draft)
           entry == [actor |-> p, action |-> "create", from |-> 0, to |-> 1]
<1>1. /\ e \notin StoredEvents /\ ResolvedGuests(p, draft)
      /\ calendarEvents' = With(calendarEvents, e, row)
      /\ eventParticipants' = With(eventParticipants, e, people)
      /\ eventAudit' = [eventAudit EXCEPT ![e] = Append(@, entry)] /\ ShowEventVersion(e)
  BY DEF createCalendarEvent, CalendarAudit
<1>2. row \in EventRow /\ row.organizer = p /\ row.revision = 0 + 1
  BY DEF EventRow, EventDraft
<1>3. entry \in AuditEntry /\ entry.from = 0 /\ entry.to = 0 + 1
  BY DEF AuditEntry
<1>4. people \in ParticipantTable /\ TakesPart(p, people)
  BY <1>1, RequestedPeople
<1> HIDE DEF row, people, entry
<1>5. /\ StoredEvents' = StoredEvents \cup {e} /\ calendarEvents'[e] = row
      /\ \A other \in StoredEvents \ {e} : calendarEvents'[other] = calendarEvents[other]
  BY <1>1 DEF With, StoredEvents
<1>6. /\ DOMAIN eventParticipants' = StoredEvents' /\ eventParticipants'[e] = people
      /\ \A other \in StoredEvents \ {e} : eventParticipants'[other] = eventParticipants[other]
  BY <1>1, <1>5 DEF With, CalendarInvariant, CalendarTypeOK
<1>7. Written(e, 0, row, people, entry)
  BY <1>1, <1>2, <1>3, <1>4, <1>5, <1>6 DEF Written
<1> QED BY <1>2, <1>3, <1>4, <1>7, EventWritten

\* updateCalendarEvent keeps the history: revision, rows and audit go together.
LEMMA UpdateEventKeeps ==
    ASSUME CalendarInvariant, NEW p \in Person, NEW e \in Event, NEW r \in 1..MaxEventRevision,
           NEW draft \in EventDraft, updateCalendarEvent(p, e, r, draft)
    PROVE  CalendarInvariant'
<1> DEFINE old == calendarEvents[e]
           row == [old EXCEPT !.title = draft.title, !.meeting = draft.conferenceEnabled,
                              !.revision = @ + 1]
           people == IF draft.participantLoginNames = {} THEN eventParticipants[e]
                     ELSE Participants(p, draft)
           entry == [actor |-> p, action |-> "update", from |-> r, to |-> r + 1]
<1>1. /\ e \in StoredEvents /\ old.organizer = p /\ old.revision = r /\ ResolvedGuests(p, draft)
      /\ calendarEvents' = [calendarEvents EXCEPT ![e] = row]
      /\ eventParticipants' = IF draft.participantLoginNames = {} THEN eventParticipants
                              ELSE [eventParticipants EXCEPT ![e] = Participants(p, draft)]
      /\ CalendarAudit(e, p, "update", r, calendarEvents'[e].revision) /\ ShowEventVersion(e)
  BY DEF updateCalendarEvent, EditableEvent
<1>2. /\ CalendarTypeOK /\ EventIsSound(e) /\ old \in EventRow /\ r \in Nat
      /\ eventParticipants[e] \in ParticipantTable
      /\ DOMAIN eventParticipants = DOMAIN calendarEvents /\ e \in DOMAIN calendarEvents
  BY <1>1 DEF CalendarInvariant, CalendarTypeOK, StoredEvents
<1>3. row \in EventRow /\ row.organizer = p /\ row.revision = r + 1
  <2>1. draft.title \in Title /\ draft.conferenceEnabled \in BOOLEAN
    BY DEF EventDraft
  <2>2. old.revision + 1 \in Nat
    BY <1>1, <1>2
  <2> HIDE DEF old
  <2>3. row \in EventRow
    BY <1>2, <2>1, <2>2 DEF EventRow
  <2>4. row.organizer = old.organizer /\ row.revision = old.revision + 1
    BY <1>2, <2>1, <2>2 DEF EventRow
  <2> QED BY <1>1, <2>3, <2>4
<1>4. people \in ParticipantTable /\ TakesPart(p, people)
  BY <1>1, <1>2, RequestedPeople DEF EventIsSound
<1>5. entry \in AuditEntry /\ entry.from = r /\ entry.to = r + 1
  BY <1>2 DEF AuditEntry
<1> HIDE DEF row
<1>6. /\ StoredEvents' = StoredEvents \cup {e} /\ calendarEvents'[e] = row
      /\ \A other \in StoredEvents \ {e} : calendarEvents'[other] = calendarEvents[other]
  BY <1>1, <1>2 DEF StoredEvents
<1>7. /\ DOMAIN eventParticipants' = StoredEvents' /\ eventParticipants'[e] = people
      /\ \A other \in StoredEvents \ {e} : eventParticipants'[other] = eventParticipants[other]
  BY <1>1, <1>2, <1>6 DEF StoredEvents
<1>8. eventAudit' = [eventAudit EXCEPT ![e] = Append(@, entry)]
  BY <1>1, <1>3, <1>6 DEF CalendarAudit
<1> HIDE DEF people, entry
<1>9. Written(e, r, row, people, entry)
  BY <1>1, <1>2, <1>3, <1>4, <1>5, <1>6, <1>7, <1>8 DEF Written
<1> QED BY <1>2, <1>3, <1>4, <1>5, <1>9, EventWritten

\* deleteCalendarEvent cancels with one more revision and one more entry.
LEMMA DeleteEventKeeps ==
    ASSUME CalendarInvariant, NEW p \in Person, NEW e \in Event, NEW r \in 1..MaxEventRevision,
           deleteCalendarEvent(p, e, r)
    PROVE  CalendarInvariant'
<1> DEFINE old == calendarEvents[e]
           row == [old EXCEPT !.cancelled = TRUE, !.revision = @ + 1]
           people == eventParticipants[e]
           entry == [actor |-> p, action |-> "cancel", from |-> r, to |-> r + 1]
<1>1. /\ e \in StoredEvents /\ old.organizer = p /\ old.revision = r
      /\ calendarEvents' = [calendarEvents EXCEPT ![e] = row]
      /\ UNCHANGED eventParticipants
      /\ CalendarAudit(e, p, "cancel", r, calendarEvents'[e].revision) /\ ShowEventVersion(e)
  BY DEF deleteCalendarEvent, EditableEvent
<1>2. /\ CalendarTypeOK /\ EventIsSound(e) /\ old \in EventRow /\ r \in Nat
      /\ people \in ParticipantTable
      /\ DOMAIN eventParticipants = DOMAIN calendarEvents /\ e \in DOMAIN calendarEvents
  BY <1>1 DEF CalendarInvariant, CalendarTypeOK, StoredEvents
<1>3. row \in EventRow /\ row.organizer = p /\ row.revision = r + 1
  <2>1. old.revision + 1 \in Nat
    BY <1>1, <1>2
  <2> HIDE DEF old
  <2>2. row \in EventRow
    BY <1>2, <2>1 DEF EventRow
  <2>3. row.organizer = old.organizer /\ row.revision = old.revision + 1
    BY <1>2, <2>1 DEF EventRow
  <2> QED BY <1>1, <2>2, <2>3
<1>4. TakesPart(p, people)
  BY <1>1, <1>2 DEF EventIsSound
<1>5. entry \in AuditEntry /\ entry.from = r /\ entry.to = r + 1
  BY <1>2 DEF AuditEntry
<1> HIDE DEF row
<1>6. /\ StoredEvents' = StoredEvents \cup {e} /\ calendarEvents'[e] = row
      /\ \A other \in StoredEvents \ {e} : calendarEvents'[other] = calendarEvents[other]
  BY <1>1, <1>2 DEF StoredEvents
<1>7. /\ DOMAIN eventParticipants' = StoredEvents' /\ eventParticipants'[e] = people
      /\ \A other \in StoredEvents \ {e} : eventParticipants'[other] = eventParticipants[other]
  BY <1>1, <1>2, <1>6 DEF StoredEvents
<1>8. eventAudit' = [eventAudit EXCEPT ![e] = Append(@, entry)]
  BY <1>1, <1>3, <1>6 DEF CalendarAudit
<1> HIDE DEF people, entry
<1>9. Written(e, r, row, people, entry)
  BY <1>1, <1>2, <1>3, <1>4, <1>5, <1>6, <1>7, <1>8 DEF Written
<1> QED BY <1>2, <1>3, <1>4, <1>5, <1>9, EventWritten

\* Every calendar transaction keeps the invariant.
LEMMA CalendarStep == CalendarInvariant /\ [CalendarNext]_calendarVars => CalendarInvariant'
<1> SUFFICES ASSUME CalendarInvariant, [CalendarNext]_calendarVars PROVE CalendarInvariant'
  OBVIOUS
<1>1. ASSUME NEW p \in Person, NEW e \in Event, NEW draft \in EventDraft,
             createCalendarEvent(p, e, draft)
      PROVE CalendarInvariant'
  BY <1>1, CreateEventKeeps
<1>2. ASSUME NEW p \in Person, NEW e \in Event, NEW r \in 1..MaxEventRevision,
             NEW draft \in EventDraft, updateCalendarEvent(p, e, r, draft)
      PROVE CalendarInvariant'
  BY <1>2, UpdateEventKeeps
<1>3. ASSUME NEW p \in Person, NEW e \in Event, NEW r \in 1..MaxEventRevision,
             deleteCalendarEvent(p, e, r)
      PROVE CalendarInvariant'
  BY <1>3, DeleteEventKeeps
<1>4. CASE UNCHANGED << calendarEvents, eventParticipants, eventAudit, eventVersions >>
  <2>1. StoredEvents' = StoredEvents
    BY <1>4 DEF StoredEvents
  <2>2. CalendarTypeOK'
    BY <1>4, <2>1 DEF CalendarInvariant, CalendarTypeOK
  <2>3. \A e \in Event : EventIsSound(e)'
    BY <1>4, <2>1, EventStays DEF CalendarInvariant
  <2> QED BY <2>2, <2>3 DEF CalendarInvariant
<1> QED BY <1>1, <1>2, <1>3, <1>4 DEF CalendarNext, handleCalendar, calendarVars

\* The invariant contains what the run checks.
LEMMA CalendarInvariantAgrees == CalendarInvariant => CalendarsAgree
<1> SUFFICES ASSUME CalendarInvariant PROVE CalendarsAgree
  OBVIOUS
<1>1. ASSUME NEW e \in StoredEvents
      PROVE EventHistory(e) /\ TakesPart(calendarEvents[e].organizer, eventParticipants[e])
  BY DEF CalendarInvariant, CalendarTypeOK, EventIsSound
<1>2. EventsHaveOneHistory
  BY <1>1 DEF EventHistory, EventsHaveOneHistory
<1>3. ParticipantsSeeTheEvent
  BY <1>1 DEF TakesPart, ParticipantsSeeTheEvent, listCalendarEvents, CalendarVisible
<1> QED BY <1>2, <1>3 DEF CalendarsAgree

\* What the list, the detail and the audit trail say of an event agrees, for
\* every set of people and events and whatever revision a client sends.
THEOREM CalendarsAlwaysAgree == CalendarSpec => []CalendarsAgree
BY CalendarStart, CalendarStep, CalendarInvariantAgrees, PTL DEF CalendarSpec

----------------------------------------------------------------------------
\* File centre.


DocumentRow == [owner : Person, name : DocumentName, favorite : BOOLEAN, deleted : BOOLEAN,
                revision : Nat]
ShareRow == [grantee : Person, permission : 1..2, revoked : BOOLEAN]
Audit == [name : DocumentName \cup {NoName}, favorite : BOOLEAN, deleted : BOOLEAN, revision : Nat]
OwnerAction == {"favorite", "recycle", "restore", "rename", "share_person", "revoke_person"}
AdministratorAction == {"admin_revoke_shares", "admin_soft_delete"}
FileEvent == [actor : Person \cup {"administrator"}, action : OwnerAction \cup AdministratorAction,
              from : Audit, to : Audit]

FileTypeOK ==
    /\ Uploaded \subseteq Document /\ \A d \in Uploaded : documents[d] \in DocumentRow
    /\ shares \in [Document -> Seq(ShareRow)]
    /\ fileEvents \in [Document -> Seq(FileEvent)]
    /\ administration # Idle =>
          administration.document \in Uploaded /\ administration.action \in AdministratorAction

\* Each person has one active share of a document, and its owner has none.
SharesAreSound(d) ==
    \A k \in ActiveShares(d) :
        /\ shares[d][k].grantee # documents[d].owner
        /\ \A j \in ActiveShares(d) : shares[d][j].grantee = shares[d][k].grantee => j = k

DocumentHistory(d) ==
    LET events == fileEvents[d]
        ByOwner(k) == events[k].to # Unaudited
    IN
    /\ documents[d].revision >= 1 /\ Len(events) = documents[d].revision - 1
    /\ \A k \in DOMAIN events : ByOwner(k) =>
          /\ events[k].from.revision = k /\ events[k].to.revision = k + 1
          /\ k > 1 /\ ByOwner(k - 1) => events[k].from = events[k - 1].to
          /\ k = Len(events) => events[k].to = Audited(d)

DocumentIsSound(d) ==
    IF d \in Uploaded THEN DocumentHistory(d) /\ SharesAreSound(d)
    ELSE fileEvents[d] = << >> /\ shares[d] = << >>

FileInvariant == FileTypeOK /\ \A d \in Document : DocumentIsSound(d)

\* The empty file centre satisfies the invariant.
LEMMA FileStart == FileCenterInit => FileInvariant
<1> SUFFICES ASSUME FileCenterInit PROVE FileInvariant
  OBVIOUS
<1>1. Uploaded = {}
  BY DEF FileCenterInit, Uploaded
<1>2. FileTypeOK
  BY <1>1 DEF FileCenterInit, FileTypeOK
<1>3. \A d \in Document : DocumentIsSound(d)
  BY <1>1 DEF FileCenterInit, DocumentIsSound
<1> QED BY <1>2, <1>3 DEF FileInvariant

\* A document none of whose rows change.
LEMMA DocumentStays ==
    ASSUME NEW d, DocumentIsSound(d), d \in Uploaded' <=> d \in Uploaded,
           d \in Uploaded => documents'[d] = documents[d],
           fileEvents'[d] = fileEvents[d], shares'[d] = shares[d]
    PROVE  DocumentIsSound(d)'
BY DEF DocumentIsSound, DocumentHistory, SharesAreSound, ActiveShares, Audited

\* One transaction writes the row of a document and one entry of its audit; the entry
\* is the owner's, from the state there was to the state there is, or tells nothing.
FileWritten(d, row, entry) ==
    /\ d \in Uploaded
    /\ documents' = [documents EXCEPT ![d] = row]
    /\ row.owner = documents[d].owner /\ row.revision = documents[d].revision + 1
    /\ fileEvents' = [fileEvents EXCEPT ![d] = Append(@, entry)]
    /\ \/ entry.to = Unaudited
       \/ /\ entry.from = Audited(d)
          /\ entry.to = [name |-> row.name, favorite |-> row.favorite, deleted |-> row.deleted,
                         revision |-> row.revision]

\* A transaction that writes the row of one document, one event and shares
\* that are sound for that row keeps the invariant.
LEMMA FileWrittenKeeps ==
    ASSUME FileInvariant, NEW d, NEW row \in DocumentRow, NEW entry \in FileEvent,
           FileWritten(d, row, entry), NEW rows \in Seq(ShareRow),
           shares' = [shares EXCEPT ![d] = rows], SharesAreSound(d)',
           administration' = administration \/ administration' = Idle
    PROVE  FileInvariant'
<1> DEFINE events == fileEvents[d]
           later == fileEvents'[d]
           r == documents[d].revision
<1>1. FileTypeOK /\ d \in Uploaded /\ d \in Document /\ DocumentIsSound(d) /\ DocumentHistory(d)
  BY DEF FileInvariant, FileTypeOK, FileWritten, DocumentIsSound
<1>2. /\ events \in Seq(FileEvent) /\ r \in Nat /\ r >= 1 /\ Len(events) = r - 1
      /\ documents[d] \in DocumentRow
  BY <1>1 DEF FileTypeOK, DocumentHistory, DocumentRow
<1>3. /\ Uploaded' = Uploaded /\ documents'[d] = row
      /\ \A other \in Uploaded \ {d} : documents'[other] = documents[other]
  BY <1>1 DEF FileWritten, Uploaded
<1>4. /\ fileEvents' \in [Document -> Seq(FileEvent)] /\ later = Append(events, entry)
      /\ \A other \in Document \ {d} : fileEvents'[other] = fileEvents[other]
  <2>1. Append(events, entry) \in Seq(FileEvent)
    BY <1>2
  <2> QED BY <1>1, <2>1 DEF FileTypeOK, FileWritten
<1>5. /\ shares' \in [Document -> Seq(ShareRow)]
      /\ \A other \in Document \ {d} : shares'[other] = shares[other]
  BY <1>1 DEF FileTypeOK
<1>6. FileTypeOK'
  BY <1>1, <1>3, <1>4, <1>5 DEF FileTypeOK
<1>7. DocumentHistory(d)'
  <2> HIDE DEF later
  <2>1. /\ Len(later) = r /\ DOMAIN later = 1..r /\ later[r] = entry
        /\ \A k \in 1..(r - 1) : k \in DOMAIN events /\ later[k] = events[k]
    BY <1>2, <1>4
  <2>2. row.revision = r + 1 /\ Audited(d)' = [name |-> row.name, favorite |-> row.favorite,
                                               deleted |-> row.deleted, revision |-> row.revision]
    BY <1>3 DEF Audited, FileWritten
  <2>3. Audited(d).revision = r
    BY DEF Audited
  <2>4. ASSUME NEW k \in 1..r, later[k].to # Unaudited
        PROVE /\ later[k].from.revision = k /\ later[k].to.revision = k + 1
              /\ k > 1 /\ later[k - 1].to # Unaudited => later[k].from = later[k - 1].to
              /\ k = r => later[k].to = Audited(d)'
    <3>1. CASE k = r
      <4>1. entry.from = Audited(d) /\ entry.to = Audited(d)'
        BY <2>1, <2>2, <2>4, <3>1 DEF FileWritten
      <4>2. Audited(d)'.revision = r + 1
        BY <1>3, <2>2 DEF Audited
      <4>3. k > 1 /\ later[k - 1].to # Unaudited => later[k].from = later[k - 1].to
        <5> SUFFICES ASSUME k > 1, later[k - 1].to # Unaudited PROVE later[k].from = later[k - 1].to
          OBVIOUS
        <5>1. k - 1 \in DOMAIN events /\ k - 1 = Len(events) /\ later[k - 1] = events[k - 1]
          BY <1>2, <2>1, <3>1
        <5>2. events[k - 1].to = Audited(d)
          BY <1>1, <5>1 DEF DocumentHistory
        <5> QED BY <2>1, <3>1, <4>1, <5>1, <5>2
      <4> QED BY <2>1, <2>3, <3>1, <4>1, <4>2, <4>3
    <3>2. CASE k # r
      <4>1. /\ k \in DOMAIN events /\ later[k] = events[k]
            /\ k > 1 => later[k - 1] = events[k - 1]
        BY <1>2, <2>1, <3>2
      <4> QED BY <1>1, <2>4, <3>2, <4>1 DEF DocumentHistory
    <3> QED BY <3>1, <3>2
  <2>5. documents'[d].revision = r + 1
    BY <1>3, <2>2
  <2>6. documents'[d].revision >= 1 /\ Len(later) = documents'[d].revision - 1
    BY <1>2, <2>1, <2>5
  <2>7. \A k \in DOMAIN later : later[k].to # Unaudited =>
           /\ later[k].from.revision = k /\ later[k].to.revision = k + 1
           /\ k > 1 /\ later[k - 1].to # Unaudited => later[k].from = later[k - 1].to
           /\ k = Len(later) => later[k].to = Audited(d)'
    BY <2>1, <2>4
  <2> QED BY <2>6, <2>7 DEF DocumentHistory, later, Unaudited
<1>8. DocumentIsSound(d)'
  BY <1>1, <1>3, <1>7 DEF DocumentIsSound
<1>9. ASSUME NEW other \in Document \ {d} PROVE DocumentIsSound(other)'
  BY <1>3, <1>4, <1>5, DocumentStays DEF FileInvariant
<1> QED BY <1>6, <1>8, <1>9 DEF FileInvariant

\* Rows that only lose active shares, or get one for somebody who had none.
LEMMA SharesStaySound ==
    ASSUME NEW d, SharesAreSound(d), documents'[d].owner = documents[d].owner,
           NEW q, q # documents[d].owner,
           \A k \in ActiveShares(d)' :
              \/ k \in ActiveShares(d) /\ shares'[d][k].grantee = shares[d][k].grantee
              \/ ~SharedWith(d, q) /\ shares'[d][k].grantee = q /\ k = Len(shares[d]) + 1
    PROVE  SharesAreSound(d)'
BY DEF SharesAreSound, SharedWith

\* Revoking rows keeps the others as they are.
LEMMA RevokedRows ==
    ASSUME FileTypeOK, NEW d \in Document, NEW revoked
    PROVE  /\ RevokeRows(d, revoked) \in Seq(ShareRow)
           /\ DOMAIN RevokeRows(d, revoked) = DOMAIN shares[d]
           /\ \A k \in DOMAIN shares[d] :
                 /\ RevokeRows(d, revoked)[k].grantee = shares[d][k].grantee
                 /\ ~RevokeRows(d, revoked)[k].revoked => ~shares[d][k].revoked
<1> DEFINE row(k) == IF k \in revoked THEN [shares[d][k] EXCEPT !.revoked = TRUE] ELSE shares[d][k]
<1>1. shares[d] \in Seq(ShareRow)
  BY DEF FileTypeOK
<1>2. \A k \in DOMAIN shares[d] : shares[d][k] \in ShareRow
  BY <1>1
<1>3. \A k \in DOMAIN shares[d] : /\ row(k) \in ShareRow /\ row(k).grantee = shares[d][k].grantee
                                  /\ ~row(k).revoked => ~shares[d][k].revoked
  BY <1>2 DEF ShareRow
<1>4. RevokeRows(d, revoked) = [k \in 1..Len(shares[d]) |-> row(k)]
  BY <1>1 DEF RevokeRows
<1> HIDE DEF row
<1>5. RevokeRows(d, revoked) \in Seq(ShareRow)
  BY <1>1, <1>3, <1>4
<1> QED BY <1>1, <1>3, <1>4, <1>5

\* What the entry of an owner's action and the row after it are.
LEMMA OwnerWrites ==
    ASSUME FileInvariant, NEW p \in Person, NEW d, NEW action \in OwnerAction,
           NEW row \in DocumentRow, d \in Uploaded,
           row.owner = documents[d].owner, row.revision = documents[d].revision,
           AuditFileAction(p, d, action, row),
           NEW rows \in Seq(ShareRow), shares' = [shares EXCEPT ![d] = rows],
           d \in Document => SharesAreSound(d)'
    PROVE  FileInvariant'
<1> DEFINE next == [row EXCEPT !.revision = @ + 1]
           entry == [actor |-> p, action |-> action, from |-> Audited(d),
                     to |-> [name |-> row.name, favorite |-> row.favorite,
                             deleted |-> row.deleted, revision |-> row.revision + 1]]
<1>1. /\ documents[d] \in DocumentRow /\ d \in Document
      /\ documents' = [documents EXCEPT ![d] = next]
      /\ fileEvents' = [fileEvents EXCEPT ![d] = Append(@, entry)]
      /\ administration' = administration
  BY DEF FileInvariant, FileTypeOK, AuditFileAction
<1>2. /\ next \in DocumentRow /\ next.owner = row.owner /\ next.revision = row.revision + 1
      /\ next.name = row.name /\ next.favorite = row.favorite /\ next.deleted = row.deleted
  BY DEF DocumentRow
<1>3. entry \in FileEvent
  <2>1. Audited(d) \in Audit
    BY <1>1 DEF Audited, Audit, DocumentRow
  <2>2. entry.to \in Audit
    BY DEF Audit, DocumentRow
  <2> HIDE DEF Audit
  <2> QED BY <2>1, <2>2 DEF FileEvent
<1>4. /\ entry.from = Audited(d)
      /\ entry.to = [name |-> next.name, favorite |-> next.favorite, deleted |-> next.deleted,
                     revision |-> next.revision]
  BY <1>2
<1> HIDE DEF next, entry
<1>5. FileWritten(d, next, entry)
  BY <1>1, <1>2, <1>4 DEF FileWritten
<1> QED BY <1>1, <1>2, <1>3, <1>5, FileWrittenKeeps

\* An action of the owner that leaves the shares alone.
LEMMA ActionKeeps ==
    ASSUME FileInvariant, NEW p \in Person, NEW d, NEW action \in OwnerAction,
           NEW row \in DocumentRow, d \in Uploaded,
           row.owner = documents[d].owner, row.revision = documents[d].revision,
           AuditFileAction(p, d, action, row), UNCHANGED shares
    PROVE  FileInvariant'
<1>1. /\ d \in Document /\ SharesAreSound(d) /\ shares[d] \in Seq(ShareRow)
      /\ shares \in [Document -> Seq(ShareRow)] /\ documents[d] \in DocumentRow
  BY DEF FileInvariant, FileTypeOK, DocumentIsSound
<1>2. documents'[d].owner = documents[d].owner
  BY DEF AuditFileAction, DocumentRow
<1>3. SharesAreSound(d)'
  BY <1>1, <1>2 DEF SharesAreSound, ActiveShares
<1>4. shares' = [shares EXCEPT ![d] = shares[d]]
  BY <1>1
<1> QED BY <1>1, <1>3, <1>4, OwnerWrites

\* Every action of updateFileItem keeps the invariant of the file centre.
LEMMA UpdateItemKeeps ==
    ASSUME FileInvariant, NEW p \in Person, NEW d \in Document, NEW r,
           updateFileCenterItem(p, d, r)
    PROVE  FileInvariant'
<1> DEFINE old == documents[d]
<1>1. d \in Uploaded /\ old \in DocumentRow /\ UNCHANGED shares
  BY DEF updateFileCenterItem, ManagedDocument, FileInvariant, FileTypeOK
<1>2. ASSUME NEW desired \in BOOLEAN,
             AuditFileAction(p, d, "favorite", [old EXCEPT !.favorite = desired])
      PROVE  FileInvariant'
  <2> DEFINE row == [old EXCEPT !.favorite = desired]
  <2>1. row \in DocumentRow /\ row.owner = old.owner /\ row.revision = old.revision
    BY <1>1 DEF DocumentRow
  <2> HIDE DEF row
  <2> QED BY <1>1, <1>2, <2>1, ActionKeeps DEF OwnerAction, row
<1>3. ASSUME AuditFileAction(p, d, "recycle", [old EXCEPT !.deleted = TRUE, !.favorite = FALSE])
      PROVE  FileInvariant'
  <2> DEFINE row == [old EXCEPT !.deleted = TRUE, !.favorite = FALSE]
  <2>1. row \in DocumentRow /\ row.owner = old.owner /\ row.revision = old.revision
    BY <1>1 DEF DocumentRow
  <2> HIDE DEF row
  <2> QED BY <1>1, <1>3, <2>1, ActionKeeps DEF OwnerAction, row
<1>4. ASSUME AuditFileAction(p, d, "restore", [old EXCEPT !.deleted = FALSE])
      PROVE  FileInvariant'
  <2> DEFINE row == [old EXCEPT !.deleted = FALSE]
  <2>1. row \in DocumentRow /\ row.owner = old.owner /\ row.revision = old.revision
    BY <1>1 DEF DocumentRow
  <2> HIDE DEF row
  <2> QED BY <1>1, <1>4, <2>1, ActionKeeps DEF OwnerAction, row
<1>5. ASSUME NEW name \in DocumentName,
             AuditFileAction(p, d, "rename", [old EXCEPT !.name = name])
      PROVE  FileInvariant'
  <2> DEFINE row == [old EXCEPT !.name = name]
  <2>1. row \in DocumentRow /\ row.owner = old.owner /\ row.revision = old.revision
    BY <1>1 DEF DocumentRow
  <2> HIDE DEF row
  <2> QED BY <1>1, <1>5, <2>1, ActionKeeps DEF OwnerAction, row
<1> QED BY <1>2, <1>3, <1>4, <1>5 DEF updateFileCenterItem

\* The rows of a share that is made or changed.
LEMMA SharedRowsAdd ==
    ASSUME FileTypeOK, NEW d \in Document, NEW q \in Person, NEW permission \in 1..2
    PROVE  /\ SharedRows(d, q, permission) \in Seq(ShareRow)
           /\ \A k \in DOMAIN SharedRows(d, q, permission) :
                 LET row == SharedRows(d, q, permission)[k] IN
                 ~row.revoked =>
                    \/ k \in ActiveShares(d) /\ row.grantee = shares[d][k].grantee
                    \/ ~SharedWith(d, q) /\ row.grantee = q /\ k = Len(shares[d]) + 1
<1> DEFINE old == shares[d]
           new == SharedRows(d, q, permission)
           made == [grantee |-> q, permission |-> permission, revoked |-> FALSE]
           row(k) == IF k \in ActiveShares(d) /\ old[k].grantee = q
                       THEN [old[k] EXCEPT !.permission = permission] ELSE old[k]
<1>1. old \in Seq(ShareRow) /\ \A k \in DOMAIN old : old[k] \in ShareRow
  BY DEF FileTypeOK
<1>2. \A k \in DOMAIN old : /\ row(k) \in ShareRow /\ row(k).grantee = old[k].grantee
                            /\ row(k).revoked = old[k].revoked
  BY <1>1 DEF ShareRow
<1>3. made \in ShareRow /\ made.grantee = q
  BY DEF ShareRow
<1>4. CASE SharedWith(d, q)
  <2>1. new = [k \in 1..Len(old) |-> row(k)]
    BY <1>1, <1>4 DEF SharedRows
  <2> HIDE DEF row, new
  <2>2. new \in Seq(ShareRow)
    BY <1>1, <1>2, <2>1
  <2>3. \A k \in DOMAIN new : k \in DOMAIN old /\ new[k] = row(k)
    BY <1>1, <2>1
  <2>4. \A k \in DOMAIN new : ~new[k].revoked =>
           k \in ActiveShares(d) /\ new[k].grantee = shares[d][k].grantee
    BY <1>2, <2>3 DEF ActiveShares
  <2> QED BY <2>2, <2>4 DEF new
<1>5. CASE ~SharedWith(d, q)
  <2>1. new = Append(old, made)
    BY <1>5 DEF SharedRows
  <2> HIDE DEF made, new
  <2>2. /\ new \in Seq(ShareRow) /\ DOMAIN new = 1..(Len(old) + 1) /\ new[Len(old) + 1] = made
        /\ \A k \in 1..Len(old) : k \in DOMAIN old /\ new[k] = old[k]
    BY <1>1, <1>3, <2>1
  <2>3. \A k \in DOMAIN new : ~new[k].revoked =>
           \/ k \in ActiveShares(d) /\ new[k].grantee = shares[d][k].grantee
           \/ new[k].grantee = q /\ k = Len(shares[d]) + 1
    <3> SUFFICES ASSUME NEW k \in DOMAIN new, ~new[k].revoked
                 PROVE  \/ k \in ActiveShares(d) /\ new[k].grantee = shares[d][k].grantee
                        \/ new[k].grantee = q /\ k = Len(shares[d]) + 1
      OBVIOUS
    <3>1. CASE k = Len(old) + 1
      BY <1>3, <2>2, <3>1
    <3>2. CASE k # Len(old) + 1
      <4>1. k \in 1..Len(old)
        BY <1>1, <2>2, <3>2
      <4> QED BY <2>2, <4>1 DEF ActiveShares
    <3> QED BY <3>1, <3>2
  <2> QED BY <1>5, <2>2, <2>3 DEF new
<1> QED BY <1>4, <1>5

\* A share row granted by somebody who may share keeps the invariant.
LEMMA ShareKeeps ==
    ASSUME FileInvariant, NEW p \in Person, NEW d \in Document, NEW r, NEW q \in Person,
           shareFileCenterItem(p, d, r, q)
    PROVE  FileInvariant'
<1>1. PICK permission \in 1..2 : shares' = [shares EXCEPT ![d] = SharedRows(d, q, permission)]
  BY DEF shareFileCenterItem
<1>2. /\ FileTypeOK /\ d \in Uploaded /\ documents[d] \in DocumentRow /\ documents[d].owner = p
      /\ SharesAreSound(d) /\ q # p /\ AuditFileAction(p, d, "share_person", documents[d])
  BY DEF FileInvariant, FileTypeOK, DocumentIsSound, shareFileCenterItem, ManagedDocument, ShareTarget
<1> DEFINE rows == SharedRows(d, q, permission)
<1>3. rows \in Seq(ShareRow) /\ shares'[d] = rows
  BY <1>1, <1>2, SharedRowsAdd DEF FileTypeOK
<1>4. documents'[d].owner = documents[d].owner
  BY <1>2 DEF AuditFileAction, DocumentRow
<1>5. \A k \in ActiveShares(d)' :
         \/ k \in ActiveShares(d) /\ shares'[d][k].grantee = shares[d][k].grantee
         \/ ~SharedWith(d, q) /\ shares'[d][k].grantee = q /\ k = Len(shares[d]) + 1
  <2>1. \A k \in DOMAIN rows : ~rows[k].revoked =>
           \/ k \in ActiveShares(d) /\ rows[k].grantee = shares[d][k].grantee
           \/ ~SharedWith(d, q) /\ rows[k].grantee = q /\ k = Len(shares[d]) + 1
    BY <1>2, SharedRowsAdd
  <2> HIDE DEF rows
  <2> QED BY <1>3, <2>1 DEF ActiveShares
<1>6. SharesAreSound(d)'
  BY <1>2, <1>4, <1>5, SharesStaySound
<1> HIDE DEF rows
<1>7. shares' = [shares EXCEPT ![d] = rows]
  BY <1>1 DEF rows
<1> QED BY <1>2, <1>3, <1>6, <1>7, OwnerWrites DEF OwnerAction

\* A revoked share stays in the table and no longer gives access.
LEMMA RevokeKeeps ==
    ASSUME FileInvariant, NEW p \in Person, NEW d \in Document, NEW r, NEW q \in Person,
           revokeFileCenterItem(p, d, r, q)
    PROVE  FileInvariant'
<1> DEFINE revoked == {k \in ActiveShares(d) : shares[d][k].grantee = q}
           rows == RevokeRows(d, revoked)
<1>1. /\ FileTypeOK /\ d \in Uploaded /\ documents[d] \in DocumentRow /\ documents[d].owner = p
      /\ SharesAreSound(d) /\ q # p /\ AuditFileAction(p, d, "revoke_person", documents[d])
      /\ shares' = [shares EXCEPT ![d] = rows]
  BY DEF FileInvariant, FileTypeOK, DocumentIsSound, revokeFileCenterItem, ManagedDocument, ShareTarget
<1> HIDE DEF revoked
<1>2. /\ rows \in Seq(ShareRow) /\ shares'[d] = rows /\ DOMAIN rows = DOMAIN shares[d]
      /\ \A k \in DOMAIN shares[d] : /\ rows[k].grantee = shares[d][k].grantee
                                     /\ ~rows[k].revoked => ~shares[d][k].revoked
  BY <1>1, RevokedRows DEF FileTypeOK
<1> HIDE DEF rows
<1>3. documents'[d].owner = documents[d].owner
  BY <1>1 DEF AuditFileAction, DocumentRow
<1>4. \A k \in ActiveShares(d)' : k \in ActiveShares(d) /\ shares'[d][k].grantee = shares[d][k].grantee
  BY <1>2 DEF ActiveShares
<1>5. SharesAreSound(d)'
  BY <1>1, <1>3, <1>4, SharesStaySound
<1> QED BY <1>1, <1>2, <1>5, OwnerWrites DEF OwnerAction

\* The waiting statement of the administration: only shares that were active are revoked,
\* and its entry of the audit tells nothing.
LEMMA ApplyAdministrationKeeps ==
    ASSUME FileInvariant, NEW d, d = administration.document, ApplyAdministration
    PROVE  FileInvariant'
<1> DEFINE old == documents[d]
           deletes == administration.action = "admin_soft_delete"
           row == [old EXCEPT !.revision = @ + 1, !.deleted = @ \/ deletes, !.favorite = @ /\ ~deletes]
           revoked == administration.seen \cap ActiveShares(d)
           rows == RevokeRows(d, revoked)
           entry == [actor |-> "administrator", action |-> administration.action,
                     from |-> Unaudited, to |-> Unaudited]
<1>1. /\ FileTypeOK /\ d \in Uploaded /\ d \in Document /\ old \in DocumentRow
      /\ SharesAreSound(d) /\ administration.action \in AdministratorAction
      /\ administration' = Idle
      /\ shares' = [shares EXCEPT ![d] = rows]
      /\ documents' = [documents EXCEPT ![d] = row]
      /\ fileEvents' = [fileEvents EXCEPT ![d] = Append(@, entry)]
  BY DEF FileInvariant, FileTypeOK, DocumentIsSound, ApplyAdministration
<1> HIDE DEF revoked
<1>2. /\ rows \in Seq(ShareRow) /\ shares'[d] = rows /\ DOMAIN rows = DOMAIN shares[d]
      /\ \A k \in DOMAIN shares[d] : /\ rows[k].grantee = shares[d][k].grantee
                                     /\ ~rows[k].revoked => ~shares[d][k].revoked
  BY <1>1, RevokedRows DEF FileTypeOK
<1> HIDE DEF rows
<1>3. row \in DocumentRow /\ row.owner = old.owner /\ row.revision = old.revision + 1
  <2> HIDE DEF old, deletes
  <2>1. /\ old.revision + 1 \in Nat /\ old.deleted \in BOOLEAN /\ old.favorite \in BOOLEAN
    BY <1>1 DEF DocumentRow
  <2> QED BY <1>1, <2>1 DEF DocumentRow
<1>4. entry \in FileEvent
  BY <1>1 DEF FileEvent, Audit, Unaudited
<1> HIDE DEF row
<1>5. documents'[d].owner = documents[d].owner
  BY <1>1, <1>3 DEF Uploaded
<1>6. \A k \in ActiveShares(d)' : k \in ActiveShares(d) /\ shares'[d][k].grantee = shares[d][k].grantee
  BY <1>2 DEF ActiveShares
<1>7. SharesAreSound(d)'
  <2>1. \A j, k \in ActiveShares(d) : /\ shares[d][k].grantee # old.owner
                                      /\ shares[d][j].grantee = shares[d][k].grantee => j = k
    BY <1>1 DEF SharesAreSound
  <2> QED BY <1>5, <1>6, <2>1 DEF SharesAreSound
<1>8. FileWritten(d, row, entry)
  BY <1>1, <1>3 DEF FileWritten
<1> HIDE DEF entry
<1> QED BY <1>1, <1>2, <1>3, <1>4, <1>7, <1>8, FileWrittenKeeps

\* An upload without a conversation: the document is new, without history and shares.
LEMMA UploadKeeps ==
    ASSUME FileInvariant, NEW p \in Person, NEW d \in Document, NEW name \in DocumentName,
           completeStandaloneUpload(p, d, name)
    PROVE  FileInvariant'
<1> DEFINE row == [owner |-> p, name |-> name, favorite |-> FALSE, deleted |-> FALSE, revision |-> 1]
<1>1. /\ FileTypeOK /\ d \notin Uploaded /\ fileEvents[d] = << >> /\ shares[d] = << >>
      /\ documents' = With(documents, d, row)
      /\ UNCHANGED << shares, fileEvents, administration >>
  BY DEF FileInvariant, DocumentIsSound, completeStandaloneUpload
<1>2. row \in DocumentRow /\ row.revision = 1
  BY DEF DocumentRow
<1> HIDE DEF row
<1>3. /\ Uploaded' = Uploaded \cup {d} /\ documents'[d] = row
      /\ \A other \in Uploaded : documents'[other] = documents[other]
  BY <1>1 DEF Uploaded, With
<1>4. FileTypeOK'
  BY <1>1, <1>2, <1>3 DEF FileTypeOK, Idle
<1>5. DocumentIsSound(d)'
  BY <1>1, <1>2, <1>3 DEF DocumentIsSound, DocumentHistory, SharesAreSound, ActiveShares
<1>6. ASSUME NEW other \in Document \ {d} PROVE DocumentIsSound(other)'
  BY <1>1, <1>3, DocumentStays DEF FileInvariant
<1> QED BY <1>4, <1>5, <1>6 DEF FileInvariant

\* Steps that touch no document: folders, people, and a statement that begins to wait.
LEMMA DocumentsStay ==
    ASSUME FileInvariant, UNCHANGED << documents, shares, fileEvents >>,
           \/ administration' = administration
           \/ /\ administration'.document \in Uploaded
              /\ administration'.action \in AdministratorAction
    PROVE  FileInvariant'
<1>1. Uploaded' = Uploaded /\ FileTypeOK'
  BY DEF FileInvariant, FileTypeOK, Uploaded, Idle
<1>2. ASSUME NEW d \in Document PROVE DocumentIsSound(d)'
  BY <1>1, DocumentStays DEF FileInvariant
<1> QED BY <1>1, <1>2 DEF FileInvariant

\* Every step of the file centre keeps the invariant.
LEMMA FileStep == FileInvariant /\ [FileCenterNext]_fileCenterVars => FileInvariant'
<1> SUFFICES ASSUME FileInvariant, [FileCenterNext]_fileCenterVars PROVE FileInvariant'
  OBVIOUS
<1>1. ASSUME NEW p \in Person, handleFileCenter(p) PROVE FileInvariant'
  <2>1. ASSUME NEW parent, NEW name, createFileCenterFolder(p, parent, name) PROVE FileInvariant'
    BY <2>1, DocumentsStay DEF createFileCenterFolder
  <2> QED BY <1>1, <2>1, UploadKeeps, UpdateItemKeeps, ShareKeeps, RevokeKeeps DEF handleFileCenter
<1>2. ASSUME NEW d \in Document, NEW action \in AdministratorAction, BeginAdministration(d, action)
      PROVE  FileInvariant'
  BY <1>2, DocumentsStay DEF BeginAdministration
<1>3. CASE ApplyAdministration
  BY <1>3, ApplyAdministrationKeeps
<1>4. ASSUME UNCHANGED << documents, shares, fileEvents, administration >> PROVE FileInvariant'
  BY <1>4, DocumentsStay
<1> QED BY <1>1, <1>2, <1>3, <1>4 DEF FileCenterNext, fileCenterVars, AdministratorAction

\* Of a document that is not recycled, the people besides its owner who can download it are
\* those with an active share, one share each.
LEMMA ReadersAreCounted ==
    ASSUME FileInvariant, NEW d \in Uploaded, ~Recycled(d)
    PROVE  Cardinality({p \in Person : authorizeFileDownload(p, d)} \ {documents[d].owner})
              = sharedCount(d)
<1> DEFINE readers == {p \in Person : authorizeFileDownload(p, d)} \ {documents[d].owner}
           active == ActiveShares(d)
           reader == [k \in active |-> shares[d][k].grantee]
<1>1. /\ shares[d] \in Seq(ShareRow) /\ SharesAreSound(d)
  BY DEF FileInvariant, FileTypeOK, DocumentIsSound
<1>2. \A k \in active : shares[d][k].grantee \in Person
  <2>1. \A k \in DOMAIN shares[d] : shares[d][k] \in ShareRow
    BY <1>1
  <2> QED BY <2>1 DEF ActiveShares, ShareRow
<1>3. IsFiniteSet(active)
  <2>1. IsFiniteSet(1..Len(shares[d])) /\ active \subseteq 1..Len(shares[d])
    BY <1>1, FS_Interval DEF ActiveShares
  <2> QED BY <2>1, FS_Subset
<1>4. reader \in Bijection(active, readers)
  <2>1. reader \in [active -> readers]
    BY <1>1, <1>2 DEF SharesAreSound, authorizeFileDownload, SharedWith
  <2>2. \A j, k \in active : reader[j] = reader[k] => j = k
    BY <1>1 DEF SharesAreSound
  <2>3. \A p \in readers : \E k \in active : reader[k] = p
    BY DEF authorizeFileDownload, SharedWith
  <2> HIDE DEF reader, active, readers
  <2> QED BY <2>1, <2>2, <2>3, Fun_IsBij
<1> HIDE DEF reader, active, readers
<1>5. Cardinality(readers) = Cardinality(active)
  BY <1>3, <1>4, FS_Bijection DEF ExistsBijection
<1> QED BY <1>5 DEF readers, active, sharedCount

\* The invariant says all of DocumentsAgree.
LEMMA FileInvariantAgrees == FileInvariant => DocumentsAgree
<1> SUFFICES ASSUME FileInvariant PROVE DocumentsAgree
  OBVIOUS
<1>1. DocumentsHaveOneHistory
  BY DEF FileInvariant, FileTypeOK, DocumentIsSound, DocumentHistory, DocumentsHaveOneHistory
<1>2. ASSUME NEW d \in Uploaded, NEW p \in Person
      PROVE  /\ (\E scope \in 0..4 : d \in listFileCenter(p, scope))
                   <=> (loadFileCenterDetail(p, d) /\ authorizeFileDownload(p, d))
             /\ loadFileCenterDetail(p, d) /\ ~authorizeFileDownload(p, d) <=> d \in listFileCenter(p, 5)
  <2>1. /\ InScope(p, d, 0) <=> documents[d].owner = p /\ ~Recycled(d)
        /\ InScope(p, d, 1) <=> ~Recycled(d) /\ (documents[d].owner = p \/ SharedWith(d, p))
        /\ InScope(p, d, 2) <=> ~Recycled(d) /\ documents[d].owner # p /\ SharedWith(d, p)
        /\ ~InScope(p, d, 3)
        /\ InScope(p, d, 4) => documents[d].owner = p /\ ~Recycled(d)
        /\ InScope(p, d, 5) <=> documents[d].owner = p /\ Recycled(d)
    BY DEF InScope
  <2>2. \A scope \in 0..4 : scope = 0 \/ scope = 1 \/ scope = 2 \/ scope = 3 \/ scope = 4
    OBVIOUS
  <2>3. (\E scope \in 0..4 : InScope(p, d, scope))
           <=> ~Recycled(d) /\ (documents[d].owner = p \/ SharedWith(d, p))
    <3>1. 1 \in 0..4
      OBVIOUS
    <3> QED BY <2>1, <2>2, <3>1
  <2>4. \A scope : d \in listFileCenter(p, scope) <=> InScope(p, d, scope)
    BY DEF listFileCenter
  <2> QED BY <2>1, <2>3, <2>4 DEF loadFileCenterDetail, authorizeFileDownload
<1>3. SharesAreReaders
  BY <1>2, ReadersAreCounted DEF SharesAreReaders
<1> QED BY <1>1, <1>3 DEF DocumentsAgree

\* DocumentsAgree for every set of people, documents, names and folders and every bound
\* on revisions.
THEOREM DocumentsAlwaysAgree == FileCenterSpec => []DocumentsAgree
<1>1. FileCenterSpec => []FileInvariant
  BY FileStart, FileStep, PTL DEF FileCenterSpec
<1> QED BY <1>1, FileInvariantAgrees, PTL

----------------------------------------------------------------------------
\* Contacts.


Said == BOOLEAN \X (Note \cup {NoNote})
ContactEvent == [revision : Nat, previous : Said, current : Said]
Profile == [favorite : BOOLEAN, note : Note \cup {NoNote}, revision : Nat]
ContactsTypeOK ==
    /\ DOMAIN contactProfiles \subseteq Pair
    /\ \A pair \in DOMAIN contactProfiles : contactProfiles[pair] \in Profile
    /\ contactEvents \in [Pair -> Seq(ContactEvent)]

\* The audit of one pair leads from the fresh profile to the stored one.
PairHasOneHistory(pair) ==
    LET events == contactEvents[pair] IN
    /\ Preference(pair).revision = Len(events) + 1
    /\ \A k \in DOMAIN events :
          /\ events[k].revision = k + 1
          /\ events[k].previous = IF k = 1 THEN << FALSE, NoNote >> ELSE events[k - 1].current
    /\ << Preference(pair).favorite, Preference(pair).note >>
          = IF events = << >> THEN << FALSE, NoNote >> ELSE events[Len(events)].current
    /\ events # << >> => OrganizationOf[pair[1]] = OrganizationOf[pair[2]] /\ pair[1] # pair[2]

ContactsInvariant == ContactsTypeOK /\ \A pair \in Pair : PairHasOneHistory(pair)

\* The empty contact tables satisfy the invariant.
LEMMA ContactsStart == ContactsInit => ContactsInvariant
<1> SUFFICES ASSUME ContactsInit PROVE ContactsInvariant
  OBVIOUS
<1>1. DOMAIN contactProfiles = {} /\ \A pair \in Pair : contactEvents[pair] = << >>
  BY DEF ContactsInit
<1>2. ContactsTypeOK
  BY <1>1 DEF ContactsInit, ContactsTypeOK
<1>3. ASSUME NEW pair \in Pair PROVE PairHasOneHistory(pair)
  <2>1. Preference(pair) = FreshProfile /\ contactEvents[pair] = << >>
    BY <1>1 DEF Preference, HasProfile
  <2>2. FreshProfile.favorite = FALSE /\ FreshProfile.note = NoNote /\ FreshProfile.revision = 1
    BY DEF FreshProfile
  <2>3. << Preference(pair).favorite, Preference(pair).note >> = << FALSE, NoNote >>
    BY <2>1, <2>2
  <2>4. Len(contactEvents[pair]) = 0 /\ DOMAIN contactEvents[pair] = {}
    BY <2>1
  <2>5. Preference(pair).revision = Len(contactEvents[pair]) + 1
    BY <2>1, <2>2, <2>4
  <2> QED BY <2>1, <2>3, <2>4, <2>5, Zenon DEF PairHasOneHistory
<1> QED BY <1>2, <1>3 DEF ContactsInvariant

\* What is said of a contact, with a row or without.
LEMMA PreferenceIsProfile ==
    ASSUME ContactsTypeOK, NEW pair PROVE Preference(pair) \in Profile
BY DEF ContactsTypeOK, Preference, HasProfile, FreshProfile, Profile

\* A pair whose row and audit stay.
LEMMA PairStays ==
    ASSUME NEW pair, PairHasOneHistory(pair), contactEvents'[pair] = contactEvents[pair],
           Preference(pair)' = Preference(pair)
    PROVE  PairHasOneHistory(pair)'
BY DEF PairHasOneHistory

\* An accepted preference writes the row of the pair with the next revision
\* and the event that leads to it.
LEMMA ContactUpdateKeeps ==
    ASSUME ContactsInvariant, NEW p \in Person, NEW q \in Person, NEW r \in 1..MaxContactRevision,
           NEW favorite \in BOOLEAN, NEW note \in Note,
           updateContactPreference(p, q, r, favorite, note)
    PROVE  ContactsInvariant'
<1> DEFINE pair == << p, q >>
           old == Preference(pair)
           new == [favorite |-> favorite, note |-> note, revision |-> r + 1]
           said == << favorite, note >>
           event == [revision |-> new.revision, previous |-> << old.favorite, old.note >>,
                     current |-> said]
           events == contactEvents[pair]
<1>1. /\ ContactsTypeOK /\ pair \in Pair /\ PairHasOneHistory(pair)
      /\ r \in Nat /\ old \in Profile
  BY PreferenceIsProfile DEF ContactsInvariant, Pair
<1>2. /\ p # q /\ OrganizationOf[p] = OrganizationOf[q] /\ old.revision = r
      /\ contactProfiles' = With(contactProfiles, pair, new)
      /\ contactEvents' = [contactEvents EXCEPT ![pair] = Append(events, event)]
  BY DEF updateContactPreference, MayContact, Colleagues
<1>3. new \in Profile /\ event \in ContactEvent /\ said \in Said
      /\ new.revision = r + 1 /\ << new.favorite, new.note >> = said
      /\ event.revision = r + 1 /\ event.current = said
      /\ event.previous = << old.favorite, old.note >>
  <2>1. new \in Profile /\ said \in Said /\ << old.favorite, old.note >> \in Said
    <3>1. new \in Profile
      <4>1. r + 1 \in Nat /\ note \in Note \cup {NoNote}
        BY <1>1
      <4> QED BY <4>1, Zenon DEF Profile
    <3>2. said \in Said
      BY DEF Said
    <3>3. old.favorite \in BOOLEAN /\ old.note \in Note \cup {NoNote}
      BY <1>1 DEF Profile
    <3>4. << old.favorite, old.note >> \in Said
      BY <3>3 DEF Said
    <3> QED BY <3>1, <3>2, <3>4
  <2>2. event \in ContactEvent
    BY <1>1, <2>1 DEF ContactEvent
  <2>3. new.revision = r + 1 /\ new.favorite = favorite /\ new.note = note
    OBVIOUS
  <2>4. << new.favorite, new.note >> = said
    BY <2>3, Zenon
  <2> HIDE DEF said
  <2> QED BY <2>1, <2>2, <2>3, <2>4
<1> HIDE DEF new, event, said
<1>4. /\ DOMAIN contactProfiles' = DOMAIN contactProfiles \cup {pair}
      /\ \A other \in DOMAIN contactProfiles' :
            contactProfiles'[other] = IF other = pair THEN new ELSE contactProfiles[other]
  BY <1>2 DEF With
<1>5. Preference(pair)' = new /\ \A other : other # pair => Preference(other)' = Preference(other)
  BY <1>4 DEF Preference, HasProfile
<1>6. /\ contactEvents' \in [Pair -> Seq(ContactEvent)]
      /\ contactEvents'[pair] = Append(events, event)
      /\ \A other \in Pair \ {pair} : contactEvents'[other] = contactEvents[other]
  <2>1. Append(events, event) \in Seq(ContactEvent)
    BY <1>1, <1>3 DEF ContactsTypeOK
  <2> QED BY <1>1, <1>2, <2>1 DEF ContactsTypeOK
<1>7. ContactsTypeOK'
  BY <1>1, <1>3, <1>4, <1>6 DEF ContactsTypeOK
<1>8. PairHasOneHistory(pair)'
  <2>1. events \in Seq(ContactEvent) /\ Len(events) \in Nat /\ r = Len(events) + 1
    <3>1. events \in Seq(ContactEvent)
      BY <1>1 DEF ContactsTypeOK
    <3>2. old.revision = Len(events) + 1
      BY <1>1 DEF PairHasOneHistory
    <3> QED BY <1>2, <3>1, <3>2
  <2> DEFINE later == contactEvents'[pair]
  <2>2. /\ Len(later) = r /\ DOMAIN later = 1..r /\ later # << >> /\ later[r] = event
        /\ \A k \in 1..(r - 1) : k \in DOMAIN events /\ later[k] = events[k]
    BY <1>6, <2>1
  <2>3. event.previous = IF events = << >> THEN << FALSE, NoNote >> ELSE events[Len(events)].current
    BY <1>1, <1>3 DEF PairHasOneHistory
  <2>4. ASSUME NEW k \in DOMAIN later
        PROVE /\ later[k].revision = k + 1
              /\ later[k].previous = IF k = 1 THEN << FALSE, NoNote >> ELSE later[k - 1].current
    <3>1. CASE k = r
      <4>1. CASE r = 1
        <5>1. events = << >>
          BY <2>1, <4>1
        <5> QED BY <1>3, <2>2, <2>3, <3>1, <4>1, <5>1
      <4>2. CASE r # 1
        <5>1. events # << >> /\ later[k - 1] = events[Len(events)]
          BY <1>1, <2>1, <2>2, <3>1, <4>2
        <5> QED BY <1>3, <2>2, <2>3, <3>1, <4>2, <5>1
      <4> QED BY <4>1, <4>2
    <3>2. CASE k # r
      <4>1. /\ k \in DOMAIN events /\ later[k] = events[k]
            /\ k # 1 => later[k - 1] = events[k - 1]
        BY <1>1, <2>2, <3>2
      <4> QED BY <1>1, <4>1 DEF PairHasOneHistory
    <3> QED BY <3>1, <3>2
  <2>5. Preference(pair)'.revision = r + 1 /\ << Preference(pair)'.favorite, Preference(pair)'.note >> = said
    BY <1>3, <1>5
  <2> HIDE DEF pair
  <2> QED BY <1>2, <1>3, <2>2, <2>4, <2>5 DEF PairHasOneHistory, pair
<1>9. ASSUME NEW other \in Pair, other # pair PROVE PairHasOneHistory(other)'
  BY <1>5, <1>6, <1>9, PairStays DEF ContactsInvariant
<1> QED BY <1>7, <1>8, <1>9 DEF ContactsInvariant

\* Every contact transaction keeps the invariant.
LEMMA ContactsStep == ContactsInvariant /\ [ContactsNext]_contactVars => ContactsInvariant'
<1> SUFFICES ASSUME ContactsInvariant, [ContactsNext]_contactVars PROVE ContactsInvariant'
  OBVIOUS
<1>1. ASSUME NEW p \in Person, NEW q \in Person, NEW r \in 1..MaxContactRevision,
             NEW favorite \in BOOLEAN, NEW note \in Note,
             updateContactPreference(p, q, r, favorite, note)
      PROVE ContactsInvariant'
  BY <1>1, ContactUpdateKeeps
<1>2. ASSUME UNCHANGED << contactProfiles, contactEvents >> PROVE ContactsInvariant'
  <2>1. ContactsTypeOK'
    BY <1>2 DEF ContactsInvariant, ContactsTypeOK
  <2>2. ASSUME NEW pair \in Pair PROVE PairHasOneHistory(pair)'
    <3>1. Preference(pair)' = Preference(pair)
      BY <1>2 DEF Preference, HasProfile
    <3> QED BY <1>2, <3>1, PairStays DEF ContactsInvariant
  <2> QED BY <2>1, <2>2 DEF ContactsInvariant
<1> QED BY <1>1, <1>2 DEF ContactsNext, handleContacts, Interact, contactVars

\* The invariant implies what the run checks: overview, detail and history agree.
LEMMA ContactsInvariantAgrees == ContactsInvariant => ContactsAgree
<1> SUFFICES ASSUME ContactsInvariant PROVE ContactsAgree
  OBVIOUS
<1>1. ASSUME NEW pair \in Pair
      PROVE  LET events == contactEvents[pair] IN
             /\ Preference(pair).revision = Len(events) + 1
             /\ \A k \in DOMAIN events :
                   /\ events[k].revision = k + 1
                   /\ events[k].previous = IF k = 1 THEN << FALSE, NoNote >> ELSE events[k - 1].current
             /\ events # << >> =>
                   /\ events[Len(events)].current = << Preference(pair).favorite, Preference(pair).note >>
                   /\ OrganizationOf[pair[1]] = OrganizationOf[pair[2]] /\ pair[1] # pair[2]
  BY DEF ContactsInvariant, PairHasOneHistory
<1>2. ASSUME NEW p \in Person,
             NEW entry \in loadContactCenter(p).recent \cup loadContactCenter(p).favorites
      PROVE  /\ loadContactDetail(p, entry.person).success
             /\ loadContactDetail(p, entry.person).detail.favorite = entry.favorite
  <2>1. PICK q \in Colleagues(p) : p \in enabled /\ entry = ContactSummary(p, q)
    BY <1>2 DEF loadContactCenter
  <2>2. entry.person = q /\ entry.favorite = Preference(<< p, q >>).favorite
    BY <2>1 DEF ContactSummary
  <2> QED BY <2>1, <2>2 DEF loadContactDetail, MayContact
<1> QED BY <1>1, <1>2 DEF ContactsAgree

\* What the overview, the detail and the event history say of a contact agrees,
\* for every set of people and every order of edits and messages.
THEOREM ContactsAlwaysAgree == ContactsSpec => []ContactsAgree
BY ContactsStart, ContactsStep, ContactsInvariantAgrees, PTL DEF ContactsSpec

----------------------------------------------------------------------------
\* Admin service.


AdministrationTypeOK ==
    /\ accounts \in [Person -> [password : Nat, failures : Nat, locked : BOOLEAN]]
    /\ wrongGuesses \in [Person -> Nat] /\ quarters \in [Person -> Nat]
    /\ DOMAIN webSession = Browser
    /\ \A b \in Browser : webSession[b].valid => webSession[b].owner \in Person
    /\ \A d \in DOMAIN departments : departments[d].revision \in Nat
    /\ personRevision \in [Person -> Nat]
    /\ DOMAIN page = Browser

\* The ghost counts what the account counts, and a guess more is possible only after
\* the right password, a reset or another quarter of an hour.
GuessesAreCounted ==
    \A p \in Person :
        /\ wrongGuesses[p] = accounts[p].failures
        /\ wrongGuesses[p] <= MaximumFailures + quarters[p]
        /\ ~Locked(p) => wrongGuesses[p] < MaximumFailures + quarters[p]

\* No session outlives a reset of its password, whether its owner is enabled or not.
SessionsAreRevoked ==
    \A b \in Browser : webSession[b].valid =>
        webSession[b].password = accounts[webSession[b].owner].password

PersonRow(p) == [enabled |-> p \in enabled, revision |-> personRevision[p]]

\* What a page shows is a row as it is or an older one, never another one of the same
\* revision.
PagesShowOldRows ==
    \A b \in Browser :
        /\ \A d \in DOMAIN page[b].departments :
              LET read == page[b].departments[d] IN
              /\ d \in DOMAIN departments
              /\ read.revision \in Nat /\ read.revision <= departments[d].revision
              /\ read.revision = departments[d].revision => read = departments[d]
        /\ \A p \in DOMAIN page[b].people :
              LET read == page[b].people[p] IN
              /\ p \in Person
              /\ read.revision \in Nat /\ read.revision <= personRevision[p]
              /\ read.revision = personRevision[p] => read = PersonRow(p)

AdministrationInvariant ==
    /\ AdministrationTypeOK
    /\ GuessesAreCounted
    /\ SessionsAreRevoked
    /\ PagesShowOldRows

\* Accounts nobody guessed at and empty departments satisfy the invariant.
LEMMA AdministrationStart == AdministrationInit => AdministrationInvariant
<1> SUFFICES ASSUME AdministrationInit PROVE AdministrationInvariant
  OBVIOUS
<1>1. DOMAIN << >> = {}
  OBVIOUS
<1>2. AdministrationTypeOK
  BY <1>1 DEF AdministrationInit, AdministrationTypeOK, NoSession
<1>3. GuessesAreCounted
  BY AdministrationAssumption DEF AdministrationInit, GuessesAreCounted, Locked
<1>4. SessionsAreRevoked
  BY DEF AdministrationInit, SessionsAreRevoked, NoSession
<1>5. PagesShowOldRows
  BY <1>1 DEF AdministrationInit, PagesShowOldRows
<1> QED BY <1>2, <1>3, <1>4, <1>5 DEF AdministrationInvariant

\* A step that leaves the rows administrators edit and the pages alone.
LEMMA PagesKeep ==
    ASSUME PagesShowOldRows, UNCHANGED << enabled, departments, personRevision, page >>
    PROVE  PagesShowOldRows'
BY DEF PagesShowOldRows, PersonRow

\* A guess, right or wrong, keeps the counters: a wrong one is counted in the
\* row and in its quarter of an hour, the one that reaches the limit locks.
LEMMA AuthenticateKeeps ==
    ASSUME AdministrationInvariant, NEW p \in Person, authenticate(p)
    PROVE  AdministrationInvariant'
<1> USE DEF AdministrationInvariant
<1>1. UNCHANGED << enabled, webSession, departments, personRevision, page >>
  BY DEF authenticate
<1>2. PagesShowOldRows'
  BY <1>1, PagesKeep
<1>3. CASE RightPassword(p)
  <2>1. /\ accounts' \in [Person -> [password : Nat, failures : Nat, locked : BOOLEAN]]
        /\ \A q \in Person : /\ accounts'[q].password = accounts[q].password
                             /\ q # p => accounts'[q] = accounts[q]
        /\ accounts'[p].failures = 0
    BY <1>3 DEF RightPassword, AdministrationTypeOK
  <2>2. AdministrationTypeOK'
    BY <1>1, <1>3, <2>1 DEF RightPassword, AdministrationTypeOK
  <2>3. GuessesAreCounted'
    BY <1>3, <2>1, AdministrationAssumption DEF RightPassword, AdministrationTypeOK, GuessesAreCounted, Locked
  <2>4. SessionsAreRevoked'
    BY <1>1, <2>1 DEF AdministrationTypeOK, SessionsAreRevoked
  <2> QED BY <1>2, <2>2, <2>3, <2>4
<1>4. CASE WrongPassword(p)
  <2>1. /\ accounts' \in [Person -> [password : Nat, failures : Nat, locked : BOOLEAN]]
        /\ \A q \in Person : /\ accounts'[q].password = accounts[q].password
                             /\ q # p => accounts'[q] = accounts[q]
        /\ accounts'[p].failures = accounts[p].failures + 1
        /\ accounts'[p].locked <=> accounts[p].failures + 1 >= MaximumFailures
    <3> DEFINE counted(locks) == [accounts EXCEPT ![p].failures = @ + 1, ![p].locked = locks]
    <3>1. \A locks \in BOOLEAN :
             /\ counted(locks) \in [Person -> [password : Nat, failures : Nat, locked : BOOLEAN]]
             /\ \A q \in Person : /\ counted(locks)[q].password = accounts[q].password
                                  /\ q # p => counted(locks)[q] = accounts[q]
             /\ counted(locks)[p].failures = accounts[p].failures + 1
             /\ counted(locks)[p].locked = locks
      <4> SUFFICES ASSUME NEW locks \in BOOLEAN
                   PROVE /\ counted(locks) \in [Person -> [password : Nat, failures : Nat, locked : BOOLEAN]]
                         /\ \A q \in Person : /\ counted(locks)[q].password = accounts[q].password
                                              /\ q # p => counted(locks)[q] = accounts[q]
                         /\ counted(locks)[p].failures = accounts[p].failures + 1
                         /\ counted(locks)[p].locked = locks
        OBVIOUS
      <4>1. accounts \in [Person -> [password : Nat, failures : Nat, locked : BOOLEAN]]
        BY DEF AdministrationTypeOK
      <4> DEFINE failed == [accounts EXCEPT ![p].failures = @ + 1]
      <4>2. /\ failed \in [Person -> [password : Nat, failures : Nat, locked : BOOLEAN]]
            /\ \A q \in Person : /\ failed[q].password = accounts[q].password
                                 /\ q # p => failed[q] = accounts[q]
            /\ failed[p].failures = accounts[p].failures + 1
        BY <4>1
      <4>3. counted(locks) = [failed EXCEPT ![p].locked = locks]
        OBVIOUS
      <4> HIDE DEF failed, counted
      <4> QED BY <4>2, <4>3
    <3>2. accounts' = counted(LockedAfter(accounts[p].failures + 1))
      BY <1>4 DEF WrongPassword
    <3> HIDE DEF counted
    <3>3. CASE accounts[p].failures + 1 >= MaximumFailures
      <4>1. LockedAfter(accounts[p].failures + 1) = TRUE
        BY <3>3 DEF LockedAfter
      <4> QED BY <3>1, <3>2, <3>3, <4>1
    <3>4. CASE ~(accounts[p].failures + 1 >= MaximumFailures)
      <4>1. LockedAfter(accounts[p].failures + 1) = FALSE
        BY <3>4 DEF LockedAfter
      <4> QED BY <3>1, <3>2, <3>4, <4>1
    <3> QED BY <3>3, <3>4
  <2>2. AdministrationTypeOK'
    BY <1>1, <1>4, <2>1 DEF WrongPassword, AdministrationTypeOK
  <2>3. GuessesAreCounted'
    BY <1>4, <2>1, AdministrationAssumption DEF WrongPassword, AdministrationTypeOK, GuessesAreCounted, Locked
  <2>4. SessionsAreRevoked'
    BY <1>1, <2>1 DEF AdministrationTypeOK, SessionsAreRevoked
  <2> QED BY <1>2, <2>2, <2>3, <2>4
<1> QED BY <1>3, <1>4 DEF authenticate

\* A lock that runs out opens the account with a counter that starts again.
LEMMA LockRunsOutKeeps ==
    ASSUME AdministrationInvariant, NEW p \in Person, LockRunsOut(p)
    PROVE  AdministrationInvariant'
<1> USE DEF AdministrationInvariant
<1>1. /\ accounts' \in [Person -> [password : Nat, failures : Nat, locked : BOOLEAN]]
      /\ \A q \in Person : /\ accounts'[q].password = accounts[q].password
                           /\ accounts'[q].failures = accounts[q].failures
                           /\ q # p => accounts'[q] = accounts[q]
  BY DEF LockRunsOut, AdministrationTypeOK
<1>2. AdministrationTypeOK'
  BY <1>1 DEF LockRunsOut, AdministrationTypeOK
<1>3. GuessesAreCounted'
  BY <1>1, AdministrationAssumption DEF LockRunsOut, AdministrationTypeOK, GuessesAreCounted, Locked
<1>4. SessionsAreRevoked'
  BY <1>1 DEF LockRunsOut, AdministrationTypeOK, SessionsAreRevoked
<1>5. PagesShowOldRows'
  BY PagesKeep DEF LockRunsOut
<1> QED BY <1>2, <1>3, <1>4, <1>5

\* A web session is opened only with the password the row holds.
LEMMA AdminLoginKeeps ==
    ASSUME AdministrationInvariant, NEW b \in Browser, NEW p \in Person, login(b, p)
    PROVE  AdministrationInvariant'
<1> USE DEF AdministrationInvariant
<1>1. AdministrationTypeOK' /\ GuessesAreCounted'
  BY DEF login, AdministrationTypeOK, GuessesAreCounted, Locked
<1>2. SessionsAreRevoked'
  BY DEF login, AdministrationTypeOK, SessionsAreRevoked
<1>3. PagesShowOldRows'
  <2>1. /\ DOMAIN page'[b].departments = {} /\ DOMAIN page'[b].people = {}
        /\ \A c \in Browser \ {b} : page'[c] = page[c]
    BY DEF login, AdministrationTypeOK
  <2>2. UNCHANGED << enabled, departments, personRevision >>
    BY DEF login
  <2> QED BY <2>1, <2>2 DEF PagesShowOldRows, PersonRow
<1> QED BY <1>1, <1>2, <1>3

\* A session that expires or logs out takes its page with it.
LEMMA SessionEndsKeeps ==
    ASSUME AdministrationInvariant, NEW b \in Browser, SessionEnds(b)
    PROVE  AdministrationInvariant'
<1> USE DEF AdministrationInvariant
<1>1. /\ DOMAIN webSession' = Browser /\ ~webSession'[b].valid
      /\ \A c \in Browser \ {b} : webSession'[c] = webSession[c]
  BY DEF SessionEnds, AdministrationTypeOK
<1>2. AdministrationTypeOK' /\ GuessesAreCounted' /\ SessionsAreRevoked'
  BY <1>1 DEF SessionEnds, AdministrationTypeOK, GuessesAreCounted, Locked, SessionsAreRevoked
<1>3. PagesShowOldRows'
  BY PagesKeep DEF SessionEnds
<1> QED BY <1>2, <1>3

\* A password reset ends every session that was opened with the old one.
LEMMA ResetPasswordKeeps ==
    ASSUME AdministrationInvariant, NEW b \in Browser, NEW p \in Person, resetPassword(b, p)
    PROVE  AdministrationInvariant'
<1> USE DEF AdministrationInvariant
<1>1. /\ accounts' \in [Person -> [password : Nat, failures : Nat, locked : BOOLEAN]]
      /\ \A q \in Person \ {p} : accounts'[q] = accounts[q]
      /\ accounts'[p].failures = 0
  BY DEF resetPassword, AdministrationTypeOK
<1>2. /\ DOMAIN webSession' = Browser
      /\ \A c \in Browser : webSession'[c].valid =>
            webSession[c].owner # p /\ webSession'[c] = webSession[c]
  BY DEF resetPassword, RevokedSessions
<1>3. AdministrationTypeOK'
  BY <1>1, <1>2 DEF resetPassword, AdministrationTypeOK
<1>4. GuessesAreCounted'
  BY <1>1, AdministrationAssumption DEF resetPassword, AdministrationTypeOK, GuessesAreCounted, Locked
<1>5. SessionsAreRevoked'
  BY <1>1, <1>2 DEF AdministrationTypeOK, SessionsAreRevoked
<1>6. PagesShowOldRows'
  BY PagesKeep DEF resetPassword
<1> QED BY <1>3, <1>4, <1>5, <1>6

\* A page shows the rows as they are at that moment.
LEMMA ShowKeeps ==
    ASSUME AdministrationInvariant, NEW b \in Browser, Show(b)
    PROVE  AdministrationInvariant'
<1> USE DEF AdministrationInvariant
<1>1. AdministrationTypeOK' /\ GuessesAreCounted' /\ SessionsAreRevoked'
  BY DEF Show, AdministrationTypeOK, GuessesAreCounted, Locked, SessionsAreRevoked
<1>2. /\ page'[b].departments = departments
      /\ page'[b].people = [p \in Person |-> PersonRow(p)]
      /\ \A c \in Browser \ {b} : page'[c] = page[c]
      /\ UNCHANGED << enabled, departments, personRevision >>
  BY DEF Show, PersonRow, AdministrationTypeOK
<1>3. \A p \in Person : PersonRow(p)' = PersonRow(p) /\ PersonRow(p).revision = personRevision[p]
  BY <1>2 DEF PersonRow
<1>4. PagesShowOldRows'
  BY <1>2, <1>3 DEF PagesShowOldRows, AdministrationTypeOK
<1> QED BY <1>1, <1>4

\* The statements that change rows of departments.
LEMMA DepartmentKeeps ==
    ASSUME AdministrationInvariant, NEW b \in Browser, NEW d \in Department, NEW parent,
           \/ createDepartment(b, d, parent)
           \/ \E open \in BOOLEAN : updateDepartment(b, d, parent, open)
    PROVE  AdministrationInvariant'
<1> USE DEF AdministrationInvariant
<1>1. UNCHANGED << enabled, accounts, wrongGuesses, quarters, webSession, personRevision, page >>
  BY DEF createDepartment, updateDepartment
<1>2. /\ DOMAIN departments \subseteq DOMAIN departments'
      /\ \A e \in DOMAIN departments' :
            /\ departments'[e].revision \in Nat
            /\ e \in DOMAIN departments =>
                  departments'[e] = departments[e] \/ departments'[e].revision > departments[e].revision
  <2>1. CASE createDepartment(b, d, parent)
    BY <2>1 DEF createDepartment, With, AdministrationTypeOK
  <2>2. ASSUME NEW open \in BOOLEAN, updateDepartment(b, d, parent, open)
        PROVE /\ DOMAIN departments \subseteq DOMAIN departments'
              /\ \A e \in DOMAIN departments' :
                    /\ departments'[e].revision \in Nat
                    /\ e \in DOMAIN departments =>
                          \/ departments'[e] = departments[e]
                          \/ departments'[e].revision > departments[e].revision
    BY <2>2 DEF updateDepartment, AdministrationTypeOK
  <2> QED BY <2>1, <2>2
<1>3. AdministrationTypeOK' /\ GuessesAreCounted' /\ SessionsAreRevoked'
  BY <1>1, <1>2 DEF AdministrationTypeOK, GuessesAreCounted, Locked, SessionsAreRevoked
<1>4. PagesShowOldRows'
  BY <1>1, <1>2 DEF PagesShowOldRows, AdministrationTypeOK, PersonRow
<1> QED BY <1>3, <1>4

\* An edit of a person raises the revision, so the pages that show the old
\* row show an older revision.
LEMMA EditPersonKeeps ==
    ASSUME AdministrationInvariant, NEW b \in Browser, NEW p \in Person, editPerson(b, p)
    PROVE  AdministrationInvariant'
<1> USE DEF AdministrationInvariant
<1>1. UNCHANGED << accounts, wrongGuesses, quarters, webSession, departments, page >>
  BY DEF editPerson
<1>2. /\ personRevision' \in [Person -> Nat] /\ personRevision'[p] = personRevision[p] + 1
      /\ \A q \in Person \ {p} : personRevision'[q] = personRevision[q]
  BY DEF editPerson, AdministrationTypeOK
<1>3. \A q \in Person \ {p} : PersonRow(q)' = PersonRow(q)
  <2>1. \A q \in Person \ {p} : q \in enabled' <=> q \in enabled
    BY DEF editPerson, updatePerson
  <2> QED BY <1>2, <2>1 DEF PersonRow
<1>4. AdministrationTypeOK' /\ GuessesAreCounted' /\ SessionsAreRevoked'
  BY <1>1, <1>2 DEF AdministrationTypeOK, GuessesAreCounted, Locked, SessionsAreRevoked
<1>5. PagesShowOldRows'
  BY <1>1, <1>2, <1>3 DEF PagesShowOldRows, AdministrationTypeOK
<1> QED BY <1>4, <1>5

\* Every handler of the admin service keeps the invariant.
LEMMA AdministrationStep ==
    AdministrationInvariant /\ [AdministrationNext]_adminVars => AdministrationInvariant'
<1> SUFFICES ASSUME AdministrationInvariant, [AdministrationNext]_adminVars
             PROVE  AdministrationInvariant'
  OBVIOUS
<1>1. ASSUME NEW p \in Person, authenticate(p) PROVE AdministrationInvariant'
  BY <1>1, AuthenticateKeeps
<1>2. ASSUME NEW p \in Person, LockRunsOut(p) PROVE AdministrationInvariant'
  BY <1>2, LockRunsOutKeeps
<1>3. ASSUME NEW b \in Browser, SessionEnds(b) PROVE AdministrationInvariant'
  BY <1>3, SessionEndsKeeps
<1>4. ASSUME NEW b \in Browser, NEW p \in Person,
             login(b, p) \/ resetPassword(b, p) \/ editPerson(b, p)
      PROVE AdministrationInvariant'
  BY <1>4, AdminLoginKeeps, ResetPasswordKeeps, EditPersonKeeps
<1>5. ASSUME NEW b \in Browser, NEW d \in Department, NEW parent,
             \/ createDepartment(b, d, parent)
             \/ \E open \in BOOLEAN : updateDepartment(b, d, parent, open)
      PROVE AdministrationInvariant'
  BY <1>5, DepartmentKeeps
<1>6. ASSUME NEW b \in Browser, Show(b) PROVE AdministrationInvariant'
  BY <1>6, ShowKeeps
<1>7. CASE UNCHANGED adminVars
  BY <1>7, PagesKeep DEF adminVars, AdministrationInvariant, AdministrationTypeOK, GuessesAreCounted,
     Locked, SessionsAreRevoked
<1> QED BY <1>1, <1>2, <1>3, <1>4, <1>5, <1>6, <1>7 DEF AdministrationNext, processRequest

\* Five wrong guesses, and one more per quarter of an hour (authenticate), for every set of
\* people and every limit.
THEOREM GuessesAreAlwaysLimited == AdministrationSpec => []GuessesAreLimited
<1>1. AdministrationInvariant => GuessesAreLimited
  BY DEF AdministrationInvariant, GuessesAreCounted, GuessesAreLimited
<1> QED BY <1>1, AdministrationStart, AdministrationStep, PTL DEF AdministrationSpec

\* A session is of somebody who knows the password the account has now.
THEOREM SessionsAlwaysKnowThePassword == AdministrationSpec => []SessionsKnowThePassword
<1>1. AdministrationInvariant => SessionsKnowThePassword
  BY DEF AdministrationInvariant, SessionsAreRevoked, SessionsKnowThePassword, authorize
<1> QED BY <1>1, AdministrationStart, AdministrationStep, PTL DEF AdministrationSpec

RowsChangeAsShown ==
    /\ \A d \in DOMAIN departments : departments'[d] # departments[d] =>
            \E b \in Browser : /\ authorize(b)
                               /\ d \in DOMAIN page[b].departments
                               /\ page[b].departments[d] = departments[d]
    /\ \A p \in Person : personRevision'[p] # personRevision[p] =>
            \E b \in Browser :
                /\ authorize(b)
                /\ p \in DOMAIN page[b].people
                /\ page[b].people[p] =
                       [enabled |-> p \in enabled, revision |-> personRevision[p]]

\* A step that changes a department or a person changes it from the row the
\* page shows.
LEMMA EditsFollow ==
    ASSUME AdministrationInvariant, AdministrationNext PROVE RowsChangeAsShown
<1>1. ASSUME NEW e \in DOMAIN departments, departments'[e] # departments[e]
      PROVE \E b \in Browser : /\ authorize(b) /\ e \in DOMAIN page[b].departments
                               /\ page[b].departments[e] = departments[e]
  <2>1. PICK b \in Browser, d \in Department : \E parent, open : updateDepartment(b, d, parent, open)
    <3>1. ~(UNCHANGED departments)
      BY <1>1
    <3>2. ASSUME NEW b \in Browser, NEW d, NEW parent, createDepartment(b, d, parent) PROVE FALSE
      BY <1>1, <3>2 DEF createDepartment, With
    <3> QED BY <3>1, <3>2 DEF AdministrationNext, authenticate, LockRunsOut, processRequest, login,
          resetPassword, editPerson, Show, SessionEnds
  <2>2. /\ d = e /\ authorize(b) /\ d \in DOMAIN page[b].departments
        /\ page[b].departments[d].revision = departments[d].revision
    BY <1>1, <2>1 DEF updateDepartment, IsCurrent
  <2> QED BY <2>2 DEF AdministrationInvariant, PagesShowOldRows
<1>2. ASSUME NEW q \in Person, personRevision'[q] # personRevision[q]
      PROVE \E b \in Browser : /\ authorize(b) /\ q \in DOMAIN page[b].people
                               /\ page[b].people[q] = PersonRow(q)
  <2>1. PICK b \in Browser, p \in Person : editPerson(b, p)
    BY <1>2 DEF AdministrationNext, authenticate, LockRunsOut, processRequest, login,
          resetPassword, createDepartment, updateDepartment, Show, SessionEnds
  <2>2. /\ p = q /\ authorize(b) /\ p \in DOMAIN page[b].people
        /\ page[b].people[p].revision = personRevision[p]
    BY <1>2, <2>1 DEF editPerson, IsCurrent, AdministrationInvariant, AdministrationTypeOK
  <2> QED BY <2>2 DEF AdministrationInvariant, PagesShowOldRows
<1> QED BY <1>1, <1>2 DEF RowsChangeAsShown, PersonRow

\* No edit overwrites a row its editor was not shown, for every set of people,
\* browsers and departments and every interleaving of two editors.
THEOREM EditsAlwaysFollowWhatIsShown == AdministrationSpec => EditsFollowWhatIsShown
<1>1. AdministrationInvariant /\ [AdministrationNext]_adminVars => [RowsChangeAsShown]_adminVars
  BY EditsFollow
<1>2. AdministrationSpec => [][RowsChangeAsShown]_adminVars
  BY <1>1, AdministrationStart, AdministrationStep, PTL DEF AdministrationSpec
<1> QED BY <1>2 DEF EditsFollowWhatIsShown, RowsChangeAsShown

----------------------------------------------------------------------------
\* Presence.


PresenceTypeOK ==
    /\ running \in BOOLEAN
    /\ socketState \in [Socket -> {"none", "online", "closing", "gone"}]
    /\ online \in [Caller -> Socket \cup {NoSocket}]
    /\ presence \in [Caller -> {0, 1}]
    /\ unrecorded \in SUBSET Caller
    /\ shown \in [Socket -> SUBSET Caller]
    /\ overdue \in SUBSET Socket

\* The table holds sockets of their people that are not gone, and every socket that
\* is signed in and not told to leave.
TableHoldsSockets ==
    /\ \A p \in OnlineIn(online) : /\ CallerAt[online[p]] = p
                                   /\ socketState[online[p]] \in {"online", "closing"}
    /\ \A k \in Socket : socketState[k] = "online" => online[CallerAt[k]] = k

\* Every socket of the table whose last snapshot was loaded shows the table.
SnapshotsShowTheTable ==
    \A k \in Socket : online[CallerAt[k]] = k /\ k \notin overdue => shown[k] = OnlineIn(online)

\* A row that was written last tells whether its person is in the table.
RowsShowTheTable ==
    \A p \in Caller \ unrecorded : presence[p] = IF p \in OnlineIn(online) THEN 1 ELSE 0

PresenceInvariant ==
    /\ PresenceTypeOK
    /\ TableHoldsSockets
    /\ SnapshotsShowTheTable
    /\ RowsShowTheTable

\* A gateway nobody is connected to satisfies the invariant of presence.
LEMMA PresenceStart == PresenceInit => PresenceInvariant
BY PresenceAssumption DEF PresenceInit, PresenceInvariant, PresenceTypeOK, TableHoldsSockets,
   SnapshotsShowTheTable, RowsShowTheTable, OnlineIn, EmptyTable

\* After a broadcast every socket of the new table shows it or is overdue.
LEMMA BroadcastShowsTheTable ==
    ASSUME PresenceTypeOK, NEW table \in [Caller -> Socket \cup {NoSocket}], NEW k,
           broadcastPresenceSnapshots(table, k), online' = table
    PROVE  /\ shown' \in [Socket -> SUBSET Caller] /\ overdue' \in SUBSET Socket
           /\ SnapshotsShowTheTable'
<1>1. PICK failing : 
         /\ shown' = [j \in Socket |-> IF table[CallerAt[j]] = j /\ CallerAt[j] \notin failing
                                         THEN OnlineIn(table) ELSE shown[j]]
         /\ overdue' = {j \in Socket : table[CallerAt[j]] = j /\ CallerAt[j] \in failing}
  BY DEF broadcastPresenceSnapshots
<1>2. OnlineIn(table) \in SUBSET Caller /\ OnlineIn(online)' = OnlineIn(table)
  BY DEF OnlineIn
<1>3. shown' \in [Socket -> SUBSET Caller] /\ overdue' \in SUBSET Socket
  BY <1>1, <1>2 DEF PresenceTypeOK
<1>4. ASSUME NEW j \in Socket, table[CallerAt[j]] = j, j \notin overdue'
      PROVE shown'[j] = OnlineIn(table)
  BY <1>1, <1>4
<1> QED BY <1>2, <1>3, <1>4 DEF SnapshotsShowTheTable

\* One row is written, or its person counts as unrecorded.
LEMMA RowFollowsTheTable ==
    ASSUME PresenceInvariant, NEW p \in Caller, NEW k \in Socket \cup {NoSocket},
           NEW state \in {0, 1}, updatePresence(p, state), online' = [online EXCEPT ![p] = k],
           state = IF k = NoSocket THEN 0 ELSE 1
    PROVE  /\ presence' \in [Caller -> {0, 1}] /\ unrecorded' \in SUBSET Caller
           /\ RowsShowTheTable'
<1> USE DEF PresenceInvariant, PresenceTypeOK, RowsShowTheTable, OnlineIn
<1>1. CASE presence' = [presence EXCEPT ![p] = state] /\ unrecorded' = unrecorded \ {p}
  BY <1>1
<1>2. CASE unrecorded' = unrecorded \cup {p} /\ UNCHANGED presence
  BY <1>2
<1> QED BY <1>1, <1>2 DEF updatePresence

\* A login registers the connection, records the person online when it is the
\* first, and answers with the snapshot the registry gives.
LEMMA PresenceLoginKeeps ==
    ASSUME PresenceInvariant, NEW k \in Socket, handleLogin(k)
    PROVE  PresenceInvariant'
<1> DEFINE p == CallerAt[k]
           table == [online EXCEPT ![p] = k]
<1>1. p \in Caller /\ NoSocket \notin Socket /\ PresenceTypeOK
  BY PresenceAssumption DEF PresenceInvariant
<1>2. /\ online' = table /\ table \in [Caller -> Socket \cup {NoSocket}]
      /\ updatePresence(p, 1) /\ broadcastPresenceSnapshots(table, k) /\ running' = running
  BY <1>1 DEF handleLogin, PresenceTypeOK
<1>3. PICK kicked \in {"closing", "gone"} :
         socketState' = [j \in Socket |-> IF j = k THEN "online"
                                          ELSE IF j = online[p] THEN kicked ELSE socketState[j]]
  BY DEF handleLogin
<1>4. TableHoldsSockets'
  <2>1. /\ \A q \in Caller : online'[q] = IF q = p THEN k ELSE online[q]
        /\ \A j \in Socket : socketState'[j] = IF j = k THEN "online"
                                ELSE IF j = online[p] THEN kicked ELSE socketState[j]
    BY <1>1, <1>2, <1>3 DEF PresenceTypeOK
  <2>2. ASSUME NEW q \in Caller, online'[q] # NoSocket
        PROVE /\ CallerAt[online'[q]] = q /\ socketState'[online'[q]] \in {"online", "closing"}
    BY <1>1, <2>1, <2>2 DEF PresenceInvariant, PresenceTypeOK, TableHoldsSockets, OnlineIn
  <2>3. ASSUME NEW j \in Socket, socketState'[j] = "online" PROVE online'[CallerAt[j]] = j
    BY <1>1, <2>1, <2>3, PresenceAssumption DEF PresenceInvariant, PresenceTypeOK, TableHoldsSockets
  <2> QED BY <2>2, <2>3 DEF TableHoldsSockets, OnlineIn
<1>5. /\ presence' \in [Caller -> {0, 1}] /\ unrecorded' \in SUBSET Caller /\ RowsShowTheTable'
  BY <1>1, <1>2, RowFollowsTheTable
<1>6. /\ shown' \in [Socket -> SUBSET Caller] /\ overdue' \in SUBSET Socket /\ SnapshotsShowTheTable'
  BY <1>1, <1>2, BroadcastShowsTheTable
<1>7. PresenceTypeOK'
  BY <1>1, <1>2, <1>3, <1>5, <1>6 DEF PresenceTypeOK
<1> QED BY <1>4, <1>5, <1>6, <1>7 DEF PresenceInvariant

\* Removing the last connection of a person records and announces it; removing
\* another one changes what nobody sees.
LEMMA RemovalKeeps ==
    ASSUME PresenceInvariant, NEW k \in Socket, removeConnection(k)
    PROVE  PresenceInvariant'
<1> DEFINE p == CallerAt[k]
           table == [online EXCEPT ![p] = NoSocket]
<1>1. p \in Caller /\ NoSocket \notin Socket /\ PresenceTypeOK
  BY PresenceAssumption DEF PresenceInvariant
<1>2. socketState' = [socketState EXCEPT ![k] = "gone"] /\ running' = running
  BY DEF removeConnection
<1>3. CASE online[p] = k
  <2>1. /\ online' = table /\ table \in [Caller -> Socket \cup {NoSocket}]
        /\ updatePresence(p, 0) /\ broadcastPresenceSnapshots(table, NoSocket)
    BY <1>1, <1>3 DEF removeConnection, LeavesOnline, PresenceTypeOK
  <2>2. TableHoldsSockets'
    BY <1>1, <1>2, <1>3, <2>1, PresenceAssumption
       DEF PresenceInvariant, PresenceTypeOK, TableHoldsSockets, OnlineIn
  <2>3. /\ presence' \in [Caller -> {0, 1}] /\ unrecorded' \in SUBSET Caller /\ RowsShowTheTable'
    BY <1>1, <2>1, RowFollowsTheTable
  <2>4. /\ shown' \in [Socket -> SUBSET Caller] /\ overdue' \in SUBSET Socket
        /\ SnapshotsShowTheTable'
    BY <1>1, <2>1, BroadcastShowsTheTable
  <2>5. PresenceTypeOK'
    BY <1>1, <1>2, <2>1, <2>3, <2>4 DEF PresenceTypeOK
  <2> QED BY <2>2, <2>3, <2>4, <2>5 DEF PresenceInvariant
<1>4. CASE online[p] # k
  <2>1. UNCHANGED << online, presence, unrecorded, shown, overdue >>
    BY <1>4 DEF removeConnection, LeavesOnline
  <2>2. TableHoldsSockets'
    BY <1>1, <1>2, <1>4, <2>1 DEF PresenceInvariant, PresenceTypeOK, TableHoldsSockets, OnlineIn
  <2>3. PresenceTypeOK' /\ SnapshotsShowTheTable' /\ RowsShowTheTable'
    BY <1>1, <1>2, <2>1 DEF PresenceInvariant, PresenceTypeOK, SnapshotsShowTheTable,
       RowsShowTheTable, OnlineIn
  <2> QED BY <2>2, <2>3 DEF PresenceInvariant
<1> QED BY <1>3, <1>4

\* The table is emptied and every socket is gone.
LEMMA EmptiedKeeps ==
    ASSUME PresenceInvariant, running' \in BOOLEAN, socketState' = AllGone, online' = EmptyTable,
           overdue' = {}, shown' = shown, presence' \in [Caller -> {0, 1}],
           unrecorded' \in SUBSET Caller, \A p \in Caller \ unrecorded' : presence'[p] = 0
    PROVE  PresenceInvariant'
<1>1. NoSocket \notin Socket /\ CallerAt \in [Socket -> Caller] /\ OnlineIn(online)' = {}
  BY PresenceAssumption DEF EmptyTable, OnlineIn
<1>2. PresenceTypeOK'
  BY DEF PresenceInvariant, PresenceTypeOK, AllGone, EmptyTable
<1>3. TableHoldsSockets'
  BY <1>1 DEF TableHoldsSockets, AllGone
<1>4. SnapshotsShowTheTable'
  BY <1>1 DEF SnapshotsShowTheTable, EmptyTable
<1>5. RowsShowTheTable'
  BY <1>1 DEF RowsShowTheTable
<1> QED BY <1>2, <1>3, <1>4, <1>5 DEF PresenceInvariant

\* stop empties the registry, and what was recorded stays to be repaired.
LEMMA StopKeeps == ASSUME PresenceInvariant, stop PROVE PresenceInvariant'
<1> DEFINE leaving == {CallerAt[k] : k \in {j \in Socket : socketState[j] \in {"online", "closing"}}}
<1>1. PICK failed \in SUBSET leaving :
         /\ presence' = [p \in Caller |-> IF p \in leaving \ failed THEN 0 ELSE presence[p]]
         /\ unrecorded' = (unrecorded \ leaving) \cup failed
  BY DEF stop
<1>2. leaving \in SUBSET Caller /\ OnlineIn(online) \subseteq leaving
  BY PresenceAssumption DEF PresenceInvariant, PresenceTypeOK, TableHoldsSockets, OnlineIn
<1> HIDE DEF leaving
<1>3. \A p \in Caller \ unrecorded' : presence'[p] = 0
  BY <1>1, <1>2 DEF PresenceInvariant, RowsShowTheTable
<1>4. presence' \in [Caller -> {0, 1}] /\ unrecorded' \in SUBSET Caller
  BY <1>1, <1>2 DEF PresenceInvariant, PresenceTypeOK
<1> QED BY <1>3, <1>4, EmptiedKeeps DEF stop

\* A crash forgets the registry and leaves the rows as they are.
LEMMA CrashKeeps == ASSUME PresenceInvariant, Crash PROVE PresenceInvariant'
<1>1. /\ presence' \in [Caller -> {0, 1}] /\ unrecorded' \in SUBSET Caller
      /\ \A p \in Caller \ unrecorded' : presence'[p] = 0
  BY DEF Crash, PresenceInvariant, PresenceTypeOK, RowsShowTheTable, OnlineIn
<1> QED BY <1>1, EmptiedKeeps DEF Crash

\* Every step of the gateway keeps the invariant of presence.
LEMMA PresenceStep == PresenceInvariant /\ [PresenceNext]_presenceVars => PresenceInvariant'
<1> SUFFICES ASSUME PresenceInvariant, [PresenceNext]_presenceVars PROVE PresenceInvariant'
  OBVIOUS
<1>1. ASSUME NEW k \in Socket, handleLogin(k) PROVE PresenceInvariant'
  BY <1>1, PresenceLoginKeeps
<1>2. ASSUME NEW k \in Socket, BeginDisconnect(k) PROVE PresenceInvariant'
  <2>1. PresenceTypeOK' /\ SnapshotsShowTheTable' /\ RowsShowTheTable'
    BY <1>2 DEF BeginDisconnect, PresenceInvariant, PresenceTypeOK, SnapshotsShowTheTable,
       RowsShowTheTable, OnlineIn
  <2>2. TableHoldsSockets'
    BY <1>2 DEF BeginDisconnect, PresenceInvariant, PresenceTypeOK, TableHoldsSockets, OnlineIn
  <2> QED BY <2>1, <2>2 DEF PresenceInvariant
<1>3. ASSUME NEW k \in Socket, removeConnection(k) PROVE PresenceInvariant'
  BY <1>3, RemovalKeeps
<1>4. CASE stop
  BY <1>4, StopKeeps
<1>5. CASE Crash
  BY <1>5, CrashKeeps
<1>6. CASE start
  BY <1>6 DEF start, PresenceInvariant, PresenceTypeOK, TableHoldsSockets, SnapshotsShowTheTable,
     RowsShowTheTable, OnlineIn
<1>7. CASE UNCHANGED presenceVars
  BY <1>7 DEF presenceVars, PresenceInvariant, PresenceTypeOK, TableHoldsSockets,
     SnapshotsShowTheTable, RowsShowTheTable, OnlineIn
<1> QED BY <1>1, <1>2, <1>3, <1>4, <1>5, <1>6, <1>7 DEF PresenceNext

\* The sockets behind the table: whoever is signed in is in it, whoever is in it has one.
LEMMA HoldersAreInTheTable ==
    ASSUME PresenceInvariant
    PROVE  /\ Holders({"online"}) \subseteq OnlineIn(online)
           /\ OnlineIn(online) \subseteq Holders({"online", "closing"})
<1>1. ASSUME NEW p \in Holders({"online"}) PROVE p \in OnlineIn(online)
  <2>1. PICK k \in Socket : socketState[k] = "online" /\ p = CallerAt[k]
    BY <1>1 DEF Holders
  <2> QED BY <2>1, PresenceAssumption DEF PresenceInvariant, TableHoldsSockets, OnlineIn
<1>2. ASSUME NEW p \in OnlineIn(online) PROVE p \in Holders({"online", "closing"})
  <2>1. /\ online[p] \in Socket /\ CallerAt[online[p]] = p
        /\ socketState[online[p]] \in {"online", "closing"}
    BY <1>2 DEF PresenceInvariant, PresenceTypeOK, TableHoldsSockets, OnlineIn
  <2> QED BY <2>1 DEF Holders
<1> QED BY <1>1, <1>2

\* Whoever is signed in is shown all who are and nobody without a socket, unless the store
\* failed to load the snapshot, for every set of sockets and people.
THEOREM SnapshotsAlwaysShowWhoIsOnline == PresenceSpec => []SnapshotsShowWhoIsOnline
<1>1. PresenceInvariant => SnapshotsShowWhoIsOnline
  BY HoldersAreInTheTable
     DEF PresenceInvariant, TableHoldsSockets, SnapshotsShowTheTable, SnapshotsShowWhoIsOnline
<1> QED BY <1>1, PresenceStart, PresenceStep, PTL DEF PresenceSpec

\* The last row of presence_history tells who is online, of everybody whose row was not
\* lost with the store or with the process.
THEOREM PresenceRowsAlwaysFollow == PresenceSpec => []PresenceRowsFollow
<1>1. PresenceInvariant => PresenceRowsFollow
  BY HoldersAreInTheTable DEF PresenceInvariant, RowsShowTheTable, PresenceRowsFollow
<1> QED BY <1>1, PresenceStart, PresenceStep, PTL DEF PresenceSpec
============================================================================
