------------------------ MODULE DirectorySync_proofs ------------------------
(***************************************************************************)
(* Proofs about DirectorySync: what is cached and offered is what the      *)
(* tables held at a committed revision, and every delta can be applied.    *)
(***************************************************************************)
EXTENDS DirectorySync, SequenceTheorems, TLAPS

-----------------------------------------------------------------------------
(* The inductive invariant.                                                *)

\* The history ends with the tables, and every reference of it named a row.
HistoryIsClosed ==
    /\ history[revision] = rows
    /\ \A r \in DOMAIN history : Closed(history[r])

\* Whatever is not as it was at a committed revision was logged after it.
ChangesAreLogged ==
    \A r \in DOMAIN history, e \in Entity :
        rows[e] # history[r][e] => \E k \in DOMAIN changeLog : r < k /\ changeLog[k].entity = e

\* A row is only disabled by a statement that logs an edit of the web administration
\* too: no committed revision lies between the two entries.
AdminEdit(j) == j \in DOMAIN changeLog /\ changeLog[j].type \in {"created", "updated"}
SameStatement(j, k) == \A r \in DOMAIN history : r < k <=> r < j
DisablingIsAdminEdit ==
    \A k \in DOMAIN changeLog :
        changeLog[k].type = "DISABLED" => \E j \in DOMAIN changeLog : AdminEdit(j) /\ SameStatement(j, k)

\* Deltas are asked for from committed revisions.
TrueRequest == {q \in Request : q.type = "delta" => q.from \in DOMAIN history}

\* A delta lists every difference between the two revisions it names, each with the row
\* as it was at the later one.
DeltaIsTrue(m) ==
    m.type = "delta" =>
        /\ m.from \in DOMAIN history /\ m.current \in DOMAIN history
        /\ m.from <= m.current
        /\ {c.revision : c \in m.changes} = m.from + 1 .. m.current
        /\ \A c \in m.changes : c.type # "DISABLED" /\ c.row = history[m.current][c.entity]
        /\ \A e \in Entity : history[m.current][e] # history[m.from][e] => e \in Touched(m.changes)
TrueResponse ==
    {x \in Response : (x.type = "snapshot" => IsRevision(x.snapshot)) /\ DeltaIsTrue(x)}

FramesAreTrue ==
    /\ requests \in Seq(TrueRequest)
    /\ responses \in Seq(TrueResponse)
    /\ cache.revision # 0 => IsRevision(cache)

\* The tables' half of the invariant, and the whole.
DatabaseInv == HistoryIsClosed /\ ChangesAreLogged /\ DisablingIsAdminEdit
DirectoryInv == DirectoryTypeOK /\ DatabaseInv /\ FramesAreTrue

-----------------------------------------------------------------------------
(* Writing.                                                                *)

\* A statement names what it changes, and disables only together with an admin edit.
Names(new, entries) ==
    \A e \in Entity : new[e] # rows[e] => \E i \in 1..Len(entries) : entries[i].entity = e
Marks(entries) ==
    \A i \in 1..Len(entries) : entries[i].type = "DISABLED" =>
        \E j \in 1..Len(entries) : entries[j].type \in {"created", "updated"}

\* What Write does to the log and the history.
LEMMA WriteExtends ==
    ASSUME DirectoryTypeOK,
           NEW new \in Directory, NEW entries \in Seq(LogEntry), Len(entries) > 0,
           Write(new, entries)
    PROVE  /\ rows' = new
           /\ revision' \in Nat /\ revision' = revision + Len(entries) /\ revision' > revision
           /\ DOMAIN changeLog' = 2 .. revision'
           /\ \A k \in DOMAIN changeLog : k \in DOMAIN changeLog' /\ changeLog'[k] = changeLog[k]
           /\ \A i \in 1..Len(entries) :
                 revision + i \in DOMAIN changeLog' /\ changeLog'[revision + i] = entries[i]
           /\ \A k \in DOMAIN changeLog' : k \in DOMAIN changeLog
                 \/ \E i \in 1..Len(entries) : k = revision + i
           /\ DOMAIN history' = DOMAIN history \cup {revision'}
           /\ \A r \in DOMAIN history : history'[r] = history[r] /\ r <= revision
           /\ history'[revision'] = new
<1>1. revision \in Nat \ {0} /\ Len(entries) \in Nat
  BY DEF DirectoryTypeOK
<1>2. rows' = new /\ revision' = revision + Len(entries)
  BY DEF Write
<1>3. DOMAIN changeLog = 2 .. revision /\ DOMAIN history \subseteq 1 .. revision
  BY DEF DirectoryTypeOK
<1>4. /\ DOMAIN changeLog' = (2 .. revision) \cup (revision + 1 .. revision + Len(entries))
      /\ \A k \in DOMAIN changeLog' :
            changeLog'[k] = IF k \in DOMAIN changeLog THEN changeLog[k] ELSE entries[k - revision]
  BY <1>3 DEF Write
<1>5. DOMAIN changeLog' = 2 .. revision'
  BY <1>1, <1>2, <1>4
<1>6. \A k \in DOMAIN changeLog : k \in DOMAIN changeLog' /\ changeLog'[k] = changeLog[k]
  BY <1>3, <1>4
<1>7. ASSUME NEW i \in 1..Len(entries)
      PROVE  revision + i \in DOMAIN changeLog' /\ changeLog'[revision + i] = entries[i]
  <2>1. revision + i \in DOMAIN changeLog' /\ revision + i \notin DOMAIN changeLog
    BY <1>1, <1>3, <1>4
  <2>2. changeLog'[revision + i] = entries[(revision + i) - revision]
    BY <1>4, <2>1
  <2>3. (revision + i) - revision = i
    BY <1>1
  <2> QED
    BY <2>1, <2>2, <2>3
<1>8. ASSUME NEW k \in DOMAIN changeLog', k \notin DOMAIN changeLog
      PROVE  \E i \in 1..Len(entries) : k = revision + i
  <2>1. k \in revision + 1 .. revision + Len(entries)
    BY <1>3, <1>4, <1>8
  <2>2. k - revision \in 1..Len(entries) /\ k = revision + (k - revision)
    BY <1>1, <2>1
  <2> QED
    BY <2>2
<1>9. /\ DOMAIN history' = DOMAIN history \cup {revision'}
      /\ \A k \in DOMAIN history' : history'[k] = IF k = revision' THEN new ELSE history[k]
  BY <1>2 DEF Write
<1>10. \A r \in DOMAIN history : r <= revision /\ r # revision'
  BY <1>1, <1>2, <1>3
<1> QED
  BY <1>1, <1>2, <1>5, <1>6, <1>7, <1>8, <1>9, <1>10

\* A statement that names what it changes keeps the tables' half of the invariant.
LEMMA WriteKeepsDatabase ==
    ASSUME DirectoryTypeOK, DatabaseInv,
           NEW new \in Directory, NEW entries \in Seq(LogEntry), Len(entries) > 0,
           Closed(new), Names(new, entries), Marks(entries),
           Write(new, entries)
    PROVE  DatabaseInv'
<1> USE WriteExtends
<1>0. /\ revision \in Nat /\ DOMAIN changeLog = 2 .. revision
      /\ \A r \in DOMAIN history : r \in Nat /\ r <= revision
      /\ revision \in DOMAIN history /\ Len(entries) \in Nat
  BY DEF DirectoryTypeOK
<1>1. HistoryIsClosed'
  BY DEF DatabaseInv, HistoryIsClosed, Closed
<1>2. ChangesAreLogged'
  <2> SUFFICES ASSUME NEW r \in DOMAIN history', NEW e \in Entity, new[e] # history'[r][e]
               PROVE  \E k \in DOMAIN changeLog' : r < k /\ changeLog'[k].entity = e
    BY DEF ChangesAreLogged
  <2>1. r \in DOMAIN history /\ history'[r] = history[r]
    OBVIOUS
  <2>2. CASE new[e] # rows[e]
    <3>1. PICK i \in 1..Len(entries) : entries[i].entity = e
      BY <2>2 DEF Names
    <3>2. r < revision + i
      BY <1>0, <2>1
    <3> QED
      BY <3>1, <3>2
  <2>3. CASE new[e] = rows[e]
    <3>1. PICK k \in DOMAIN changeLog : r < k /\ changeLog[k].entity = e
      BY <2>1, <2>3 DEF DatabaseInv, ChangesAreLogged
    <3> QED
      BY <3>1
  <2> QED
    BY <2>2, <2>3
<1>3. DisablingIsAdminEdit'
  <2> SUFFICES ASSUME NEW k \in DOMAIN changeLog', changeLog'[k].type = "DISABLED"
               PROVE  \E j \in DOMAIN changeLog' : AdminEdit(j)' /\ SameStatement(j, k)'
    BY DEF DisablingIsAdminEdit
  <2>1. CASE k \in DOMAIN changeLog
    <3>1. PICK j \in DOMAIN changeLog : AdminEdit(j) /\ SameStatement(j, k)
      BY <2>1 DEF DatabaseInv, DisablingIsAdminEdit
    <3>2. AdminEdit(j)'
      BY <3>1 DEF AdminEdit
    <3>3. ~(revision' < k) /\ ~(revision' < j)
      BY <1>0, <2>1, <3>1
    <3>4. SameStatement(j, k)'
      BY <3>1, <3>3 DEF SameStatement
    <3> QED
      BY <3>1, <3>2, <3>4
  <2>2. CASE k \notin DOMAIN changeLog
    <3>1. PICK i \in 1..Len(entries) : k = revision + i
      BY <2>2
    <3>2. PICK j \in 1..Len(entries) : entries[j].type \in {"created", "updated"}
      BY <3>1 DEF Marks
    <3>. PICK n \in Nat : n = revision + j
      BY <1>0
    <3>3. n \in DOMAIN changeLog' /\ AdminEdit(n)'
      BY <3>2 DEF AdminEdit
    <3>4. ASSUME NEW r \in DOMAIN history'
          PROVE  r < k <=> r < n
      <4>1. CASE r \in DOMAIN history
        BY <1>0, <3>1, <4>1
      <4>2. CASE r = revision'
        <5>1. revision' = revision + Len(entries)
          OBVIOUS
        <5>2. n = revision + j
          OBVIOUS
        <5> QED
          BY ONLY <1>0, <3>1, <4>2, <5>1, <5>2
      <4> QED
        BY <4>1, <4>2
    <3> QED
      BY <3>3, <3>4 DEF SameStatement
  <2> QED
    BY <2>1, <2>2
<1> QED
  BY <1>1, <1>2, <1>3 DEF DatabaseInv

\* What a statement has to be like for the invariant to survive it.
SoundStatement(new, entries) ==
    /\ new \in Directory /\ Closed(new)
    /\ entries \in Seq(LogEntry) /\ Len(entries) > 0
    /\ Names(new, entries) /\ Marks(entries)

\* An update of a department or person that leaves the references as they are.
Updated(e, row) == [rows EXCEPT ![e] = row]

LEMMA UpdateIsSound ==
    ASSUME DirectoryTypeOK,
           NEW e \in Department \cup Person, NEW row \in Row, Exists(e),
           row.dept # Nothing => Exists(row.dept), row.person # Nothing => Exists(row.person)
    PROVE  /\ Updated(e, row) \in Directory /\ Closed(Updated(e, row))
           /\ \A f \in Entity : f # e => Updated(e, row)[f] = rows[f]
<1>. PICK new : new = Updated(e, row)
  OBVIOUS
<1>1. rows \in Directory /\ Closed(rows) /\ e \in Entity
  BY DEF DirectoryTypeOK, Entity
<1>2. new \in Directory /\ new[e] = row /\ \A f \in Entity : f # e => new[f] = rows[f]
  BY <1>1 DEF Directory, Updated
<1>3. row # NoRow
  BY EntityAssumption
<1>4. \A f \in Entity : rows[f] # NoRow => new[f] # NoRow
  BY <1>2, <1>3
<1>5. \A f \in Entity : rows[f] # NoRow => rows[f] \in Row
  BY <1>1 DEF Directory
<1>6. Closed(new)
  <2> SUFFICES ASSUME NEW f \in Entity, new[f] # NoRow
               PROVE  /\ new[f].dept # Nothing => new[new[f].dept] # NoRow
                      /\ new[f].person # Nothing => new[new[f].person] # NoRow
    BY DEF Closed
  <2>1. CASE f = e
    BY <1>2, <1>4, <2>1 DEF Exists, Row, Entity
  <2>2. CASE f # e
    BY <1>1, <1>2, <1>4, <1>5, <2>2 DEF Closed, Row, Entity
  <2> QED
    BY <2>1, <2>2
<1> QED
  BY <1>2, <1>6

\* A new person with an assignment.
Hired(base, p, row, a, d) == [base EXCEPT ![p] = row, ![a] = AssignmentRow(p, d)]

LEMMA HireIsSound ==
    ASSUME DirectoryTypeOK,
           NEW p \in Person, NEW a \in Assignment, NEW d \in Department,
           NEW base \in Directory, Closed(base), base[a] = NoRow, base[d] # NoRow,
           NEW row \in Row, row.dept = d, row.person = Nothing
    PROVE  /\ Hired(base, p, row, a, d) \in Directory /\ Closed(Hired(base, p, row, a, d))
           /\ \A f \in Entity : f \notin {p, a} => Hired(base, p, row, a, d)[f] = base[f]
<1>. PICK new : new = Hired(base, p, row, a, d)
  OBVIOUS
<1>1. p \in Entity /\ a \in Entity /\ d \in Entity /\ p # a /\ d # a /\ d # p
      /\ p # Nothing /\ d # Nothing
  BY EntityAssumption DEF Entity
<1>2. AssignmentRow(p, d) \in Row
  BY EntityAssumption DEF AssignmentRow, Row
<1>3. /\ new \in Directory /\ new[p] = row /\ new[a] = AssignmentRow(p, d)
      /\ \A f \in Entity : f \notin {p, a} => new[f] = base[f]
  BY <1>1, <1>2 DEF Directory, Hired
<1>4. row # NoRow /\ AssignmentRow(p, d) # NoRow
  BY <1>2, EntityAssumption
<1>5. \A f \in Entity : base[f] # NoRow => new[f] # NoRow /\ base[f] \in Row
  BY <1>3, <1>4 DEF Directory
<1>6. Closed(new)
  <2> SUFFICES ASSUME NEW f \in Entity, new[f] # NoRow
               PROVE  /\ new[f].dept # Nothing => new[new[f].dept] # NoRow
                      /\ new[f].person # Nothing => new[new[f].person] # NoRow
    BY DEF Closed
  <2>1. CASE f = p
    BY <1>1, <1>3, <1>5, <2>1
  <2>2. CASE f = a
    <3>1. new[f].dept = d /\ new[f].person = p
      BY <1>3, <2>2 DEF AssignmentRow
    <3>2. new[d] # NoRow /\ new[p] # NoRow
      BY <1>1, <1>3, <1>4, <1>5
    <3> QED
      BY <3>1, <3>2
  <2>3. CASE f \notin {p, a}
    BY <1>3, <1>5, <2>3 DEF Closed, Row, Entity
  <2> QED
    BY <2>1, <2>2, <2>3
<1> QED
  BY <1>3, <1>6

LEMMA WritersAreSound ==
    ASSUME DirectoryTypeOK, WriteDirectory
    PROVE  \E new, entries : SoundStatement(new, entries) /\ Write(new, entries)
<1>0. /\ rows \in Directory /\ Closed(rows) /\ FirstName \in Name
      /\ \A e \in Entity : rows[e] # NoRow => rows[e] \in Row
  BY EntityAssumption DEF DirectoryTypeOK, Directory
<1>1. ASSUME NEW d \in Department, CreateDepartment(d)
      PROVE  \E new, entries : SoundStatement(new, entries) /\ Write(new, entries)
  <2>. PICK row : row = DepartmentRow(FirstName, TRUE)
    OBVIOUS
  <2>. PICK new : new = [rows EXCEPT ![d] = row]
    OBVIOUS
  <2>. PICK entries : entries = <<Entry(d, "created"), Entry(d, "CREATED")>>
    OBVIOUS
  <2>0. d \in Entity /\ row \in Row
    BY <1>0 DEF DepartmentRow, Row, Entity
  <2>1. d \in Entity /\ row \in Row /\ row # NoRow
    BY <2>0, EntityAssumption
  <2>2. new \in Directory /\ new[d] = row /\ \A f \in Entity : f # d => new[f] = rows[f]
    BY <1>0, <2>1 DEF Directory
  <2>3. Closed(new)
    <3> SUFFICES ASSUME NEW f \in Entity, new[f] # NoRow
                 PROVE  /\ new[f].dept # Nothing => new[new[f].dept] # NoRow
                        /\ new[f].person # Nothing => new[new[f].person] # NoRow
      BY DEF Closed
    <3>1. CASE f = d
      BY <2>2, <3>1 DEF DepartmentRow
    <3>2. CASE f # d
      BY <1>0, <2>1, <2>2, <3>2 DEF Closed, Row, Entity
    <3> QED
      BY <3>1, <3>2
  <2>4. entries \in Seq(LogEntry) /\ Len(entries) = 2 /\ entries[1].entity = d
        /\ entries[1].type = "created" /\ entries[2].type = "CREATED"
    BY <2>1 DEF Entry, LogEntry, ChangeType
  <2>5. Names(new, entries)
    BY ONLY <2>2, <2>4 DEF Names
  <2>6. Marks(entries)
    BY ONLY <2>4 DEF Marks
  <2>10. SoundStatement(new, entries)
    BY ONLY <2>2, <2>3, <2>4, <2>5, <2>6 DEF SoundStatement
  <2>11. Write(new, entries)
    BY <1>1 DEF CreateDepartment
  <2> QED
    BY ONLY <2>10, <2>11
<1>2. ASSUME NEW d \in Department, NEW n \in Name, NEW en \in BOOLEAN, UpdateDepartment(d, n, en)
      PROVE  \E new, entries : SoundStatement(new, entries) /\ Write(new, entries)
  <2>. PICK row : row = DepartmentRow(n, en)
    OBVIOUS
  <2>. PICK new : new = [rows EXCEPT ![d] = row]
    OBVIOUS
  <2>. PICK entries : entries = <<Entry(d, "updated"), UpdateEntry(d, en)>>
    OBVIOUS
  <2>1. d \in Entity /\ row \in Row /\ row.dept = Nothing /\ row.person = Nothing /\ Exists(d)
    BY <1>2 DEF DepartmentRow, Row, Entity, UpdateDepartment
  <2>2. new \in Directory /\ Closed(new) /\ \A f \in Entity : f # d => new[f] = rows[f]
    <3>1. new = Updated(d, row)
      BY DEF Updated
    <3> QED
      BY ONLY <2>1, <3>1, UpdateIsSound, DirectoryTypeOK, d \in Department
  <2>4. /\ entries \in Seq(LogEntry) /\ Len(entries) = 2
        /\ entries[1].entity = d /\ entries[1].type = "updated"
    BY <2>1 DEF Entry, UpdateEntry, LogEntry, ChangeType
  <2>5. Names(new, entries)
    BY ONLY <2>2, <2>4 DEF Names
  <2>6. Marks(entries)
    BY ONLY <2>4 DEF Marks
  <2>10. SoundStatement(new, entries)
    BY ONLY <2>2, <2>4, <2>5, <2>6 DEF SoundStatement
  <2>11. Write(new, entries)
    BY <1>2 DEF UpdateDepartment
  <2> QED
    BY ONLY <2>10, <2>11
<1>3. ASSUME NEW p \in Person, NEW d \in Department, NEW a \in Assignment, CreatePerson(p, d, a)
      PROVE  \E new, entries : SoundStatement(new, entries) /\ Write(new, entries)
  <2>. PICK row : row = PersonRow(FirstName, TRUE, d)
    OBVIOUS
  <2>. PICK new : new = [rows EXCEPT ![p] = row, ![a] = AssignmentRow(p, d)]
    OBVIOUS
  <2>. PICK entries : entries = <<Entry(p, "created"), Entry(p, "CREATED"), Entry(a, "CREATED")>>
    OBVIOUS
  <2>1. row \in Row /\ row.dept = d /\ row.person = Nothing
    BY <1>0 DEF PersonRow, Row
  <2>2. p \in Entity /\ a \in Entity /\ rows[a] = NoRow /\ rows[d] # NoRow
    BY <1>3 DEF CreatePerson, Fresh, Exists, Entity
  <2>3. new \in Directory /\ Closed(new) /\ \A f \in Entity : f \notin {p, a} => new[f] = rows[f]
    <3>1. new = Hired(rows, p, row, a, d)
      BY DEF Hired
    <3> QED
      BY ONLY <1>0, <2>1, <2>2, <3>1, HireIsSound, DirectoryTypeOK,
         p \in Person, a \in Assignment, d \in Department
  <2>4. /\ entries \in Seq(LogEntry) /\ Len(entries) = 3
        /\ entries[1].entity = p /\ entries[1].type = "created" /\ entries[3].entity = a
    BY <2>2 DEF Entry, LogEntry, ChangeType
  <2>5. Names(new, entries)
    BY ONLY <2>3, <2>4 DEF Names
  <2>6. Marks(entries)
    BY ONLY <2>4 DEF Marks
  <2>10. SoundStatement(new, entries)
    BY ONLY <2>3, <2>4, <2>5, <2>6 DEF SoundStatement
  <2>11. Write(new, entries)
    BY <1>3 DEF CreatePerson
  <2> QED
    BY ONLY <2>10, <2>11
<1>4. ASSUME NEW p \in Person, NEW d \in Department, NEW old \in Assignment, NEW a \in Assignment,
             NEW n \in Name, NEW en \in BOOLEAN, UpdatePerson(p, d, old, a, n, en)
      PROVE  \E new, entries : SoundStatement(new, entries) /\ Write(new, entries)
  <2>. PICK row : row = PersonRow(n, en, d)
    OBVIOUS
  <2>. PICK base : base = [rows EXCEPT ![old] = NoRow]
    OBVIOUS
  <2>. PICK new : new = [rows EXCEPT ![p] = row, ![old] = NoRow, ![a] = AssignmentRow(p, d)]
    OBVIOUS
  <2>. PICK entries : entries = <<Entry(p, "updated"), UpdateEntry(p, en), Entry(old, "REMOVED"), Entry(a, "CREATED")>>
    OBVIOUS
  <2>1. row \in Row /\ row.dept = d /\ row.person = Nothing
    BY DEF PersonRow, Row
  <2>2. /\ p \in Entity /\ a \in Entity /\ old \in Entity /\ d \in Entity
        /\ rows[a] = NoRow /\ rows[d] # NoRow /\ rows[old] # NoRow
        /\ a # old /\ p # old /\ p # a /\ d # old
    BY <1>4, EntityAssumption DEF UpdatePerson, Fresh, Exists, Entity
  <2>3. /\ base \in Directory /\ base[old] = NoRow
        /\ \A f \in Entity : f # old => base[f] = rows[f]
    BY <1>0, <2>2 DEF Directory
  <2>4. Closed(base)
    <3> SUFFICES ASSUME NEW f \in Entity, base[f] # NoRow
                 PROVE  /\ base[f].dept # Nothing => base[base[f].dept] # NoRow
                        /\ base[f].person # Nothing => base[base[f].person] # NoRow
      BY DEF Closed
    <3>1. f # old /\ base[f] = rows[f] /\ rows[f] \in Row
      BY <1>0, <2>3
    <3>2. \A g \in Department \cup Person : g \in Entity /\ g # old
      BY EntityAssumption DEF Entity
    <3> QED
      BY <1>0, <2>3, <3>1, <3>2 DEF Closed, Row
  <2>5. new = [base EXCEPT ![p] = row, ![a] = AssignmentRow(p, d)]
    BY <1>0, <2>2 DEF Directory
  <2>6. new \in Directory /\ Closed(new) /\ \A f \in Entity : f \notin {p, a} => new[f] = base[f]
    <3>1. base[a] = NoRow /\ base[d] # NoRow
      BY <2>2, <2>3
    <3>2. new = Hired(base, p, row, a, d)
      BY <2>5 DEF Hired
    <3> QED
      BY ONLY <2>1, <2>3, <2>4, <3>1, <3>2, HireIsSound, DirectoryTypeOK,
         p \in Person, a \in Assignment, d \in Department
  <2>7. /\ entries \in Seq(LogEntry) /\ Len(entries) = 4
        /\ entries[1].entity = p /\ entries[1].type = "updated"
        /\ entries[3].entity = old /\ entries[4].entity = a
    BY <2>2 DEF Entry, UpdateEntry, LogEntry, ChangeType
  <2>8. Names(new, entries)
    <3>1. \A f \in Entity : f \notin {p, a, old} => new[f] = rows[f]
      BY <2>3, <2>6
    <3> QED
      BY ONLY <2>7, <3>1 DEF Names
  <2>9. Marks(entries)
    BY ONLY <2>7 DEF Marks
  <2>10. SoundStatement(new, entries)
    BY ONLY <2>6, <2>7, <2>8, <2>9 DEF SoundStatement
  <2>11. Write(new, entries)
    BY <1>4 DEF UpdatePerson
  <2> QED
    BY ONLY <2>10, <2>11
<1>5. ASSUME NEW p \in Person, NEW a \in Assignment, CreateOrganizationUser(p, a)
      PROVE  \E new, entries : SoundStatement(new, entries) /\ Write(new, entries)
  <2>. PICK row : row = PersonRow(FirstName, TRUE, General)
    OBVIOUS
  <2>. PICK new : new = [rows EXCEPT ![p] = row, ![a] = AssignmentRow(p, General)]
    OBVIOUS
  <2>. PICK entries : entries = <<Entry(p, "CREATED"), Entry(a, "CREATED")>>
    OBVIOUS
  <2>1. row \in Row /\ row.dept = General /\ row.person = Nothing /\ General \in Department
    BY <1>0, EntityAssumption DEF PersonRow, Row
  <2>2. p \in Entity /\ a \in Entity /\ rows[a] = NoRow /\ rows[General] # NoRow
    BY <1>5 DEF CreateOrganizationUser, Fresh, Exists, Entity
  <2>3. new \in Directory /\ Closed(new) /\ \A f \in Entity : f \notin {p, a} => new[f] = rows[f]
    <3>1. new = Hired(rows, p, row, a, General)
      BY DEF Hired
    <3> QED
      BY ONLY <1>0, <2>1, <2>2, <3>1, HireIsSound, DirectoryTypeOK, p \in Person, a \in Assignment
  <2>4. /\ entries \in Seq(LogEntry) /\ Len(entries) = 2
        /\ entries[1].entity = p /\ entries[2].entity = a
        /\ entries[1].type = "CREATED" /\ entries[2].type = "CREATED"
    BY <2>2 DEF Entry, LogEntry, ChangeType
  <2>5. Names(new, entries)
    BY ONLY <2>3, <2>4 DEF Names
  <2>6. Marks(entries)
    BY ONLY <2>4 DEF Marks
  <2>10. SoundStatement(new, entries)
    BY ONLY <2>3, <2>4, <2>5, <2>6 DEF SoundStatement
  <2>11. Write(new, entries)
    BY <1>5 DEF CreateOrganizationUser, UserEntries
  <2> QED
    BY ONLY <2>10, <2>11
<1>6. ASSUME NEW e \in {Administrator, General}, NEW n \in Name, Exists(e),
             Write([rows EXCEPT ![e].name = n], <<UpdateEntry(e, rows[e].enabled)>>)
      PROVE  \E new, entries : SoundStatement(new, entries) /\ Write(new, entries)
  <2>. PICK row : row = [rows[e] EXCEPT !.name = n]
    OBVIOUS
  <2>. PICK new : new = [rows EXCEPT ![e] = row]
    OBVIOUS
  <2>. PICK entries : entries = <<UpdateEntry(e, rows[e].enabled)>>
    OBVIOUS
  <2>1. e \in Department \cup Person /\ e \in Entity /\ rows[e] \in Row
    BY <1>0, <1>6, EntityAssumption DEF Exists, Entity
  <2>2. row \in Row /\ row.dept = rows[e].dept /\ row.person = rows[e].person
    BY <2>1 DEF Row
  <2>3. /\ row.dept # Nothing => Exists(row.dept)
        /\ row.person # Nothing => Exists(row.person)
    BY <1>0, <1>6, <2>1, <2>2 DEF Closed, Exists
  <2>4. new = [rows EXCEPT ![e].name = n]
    OBVIOUS
  <2>5. new \in Directory /\ Closed(new) /\ \A f \in Entity : f # e => new[f] = rows[f]
    <3>1. new = Updated(e, row)
      BY DEF Updated
    <3> QED
      BY ONLY <1>6, <2>1, <2>2, <2>3, <3>1, UpdateIsSound, DirectoryTypeOK
  <2>6. /\ entries \in Seq(LogEntry) /\ Len(entries) = 1
        /\ entries[1].entity = e /\ entries[1].type = "UPDATED"
    BY <2>1 DEF Entry, UpdateEntry, LogEntry, ChangeType
  <2>7. Names(new, entries)
    BY ONLY <2>5, <2>6 DEF Names
  <2>8. Marks(entries)
    BY ONLY <2>6 DEF Marks
  <2>10. SoundStatement(new, entries)
    BY ONLY <2>4, <2>5, <2>6, <2>7, <2>8 DEF SoundStatement
  <2>11. Write(new, entries)
    BY <1>6
  <2> QED
    BY ONLY <2>10, <2>11
<1>7. ASSUME NEW n \in Name, BootstrapInitialAdministrator(n) \/ MigrateDepartment(n)
      PROVE  \E new, entries : SoundStatement(new, entries) /\ Write(new, entries)
  BY <1>6, <1>7 DEF BootstrapInitialAdministrator, MigrateDepartment
<1> QED
  BY <1>1, <1>2, <1>3, <1>4, <1>5, <1>7 DEF WriteDirectory

\* What was true of a committed revision stays true when another one is committed.
LEMMA WriteKeepsFrames ==
    ASSUME DirectoryTypeOK, FramesAreTrue,
           NEW new \in Directory, NEW entries \in Seq(LogEntry), Len(entries) > 0,
           Write(new, entries)
    PROVE  FramesAreTrue'
<1>1. /\ UNCHANGED <<requests, responses, cache>>
      /\ \A r \in DOMAIN history : r \in DOMAIN history' /\ history'[r] = history[r]
  BY WriteExtends DEF Write
<1>2. ASSUME NEW x \in TrueResponse
      PROVE  x \in TrueResponse'
  BY <1>1, <1>2 DEF TrueResponse, DeltaIsTrue, IsRevision
<1>3. TrueRequest \subseteq TrueRequest'
  BY <1>1 DEF TrueRequest
<1>4. requests' \in Seq(TrueRequest') /\ responses' \in Seq(TrueResponse')
  BY ONLY <1>1, <1>2, <1>3, FramesAreTrue DEF FramesAreTrue
<1>5. cache'.revision # 0 => IsRevision(cache)'
  BY <1>1 DEF FramesAreTrue, IsRevision
<1> QED
  BY <1>4, <1>5 DEF FramesAreTrue

LEMMA WriteKeepsTypes ==
    ASSUME DirectoryTypeOK,
           NEW new \in Directory, NEW entries \in Seq(LogEntry), Len(entries) > 0,
           Closed(new), Write(new, entries)
    PROVE  DirectoryTypeOK'
<1>0. /\ revision \in Nat \ {0} /\ DOMAIN history \subseteq 1 .. revision
      /\ \A k \in DOMAIN changeLog : changeLog[k] \in LogEntry
      /\ \A k \in DOMAIN history : history[k] \in Directory
  BY DEF DirectoryTypeOK
<1>1. rows' \in Directory /\ Closed(rows')
  BY WriteExtends
<1>2. revision' \in Nat \ {0} /\ revision < revision'
  BY <1>0, WriteExtends
<1>3. DOMAIN history' \subseteq 1 .. revision' /\ revision' \in DOMAIN history'
  BY <1>0, <1>2, WriteExtends
<1>4. ASSUME NEW k \in DOMAIN changeLog'
      PROVE  changeLog'[k] \in LogEntry
  <2>1. CASE k \in DOMAIN changeLog
    BY <1>0, <2>1, WriteExtends
  <2>2. CASE k \notin DOMAIN changeLog
    <3>1. PICK i \in 1..Len(entries) : k = revision + i
      BY <2>2, WriteExtends
    <3>2. changeLog'[k] = entries[i]
      BY <3>1, WriteExtends
    <3> QED
      BY <3>2
  <2> QED
    BY <2>1, <2>2
<1>5. \A k \in DOMAIN history' : history'[k] \in Directory
  BY <1>0, WriteExtends
<1>6. DOMAIN changeLog' = 2 .. revision'
  BY WriteExtends
<1> QED
  BY <1>1, <1>2, <1>3, <1>4, <1>5, <1>6 DEF DirectoryTypeOK, Write, Closed, Request, Response

LEMMA WriteDirectoryKeepsInv ==
    ASSUME DirectoryInv, WriteDirectory
    PROVE  DirectoryInv'
<1>1. PICK new, entries : SoundStatement(new, entries) /\ Write(new, entries)
  BY WritersAreSound DEF DirectoryInv
<1>2. DirectoryTypeOK'
  BY <1>1, WriteKeepsTypes DEF SoundStatement, DirectoryInv
<1>3. DatabaseInv'
  BY <1>1, WriteKeepsDatabase DEF SoundStatement, DirectoryInv
<1>4. FramesAreTrue'
  BY <1>1, WriteKeepsFrames DEF SoundStatement, DirectoryInv
<1> QED
  BY <1>2, <1>3, <1>4 DEF DirectoryInv

-----------------------------------------------------------------------------
(* Answering.                                                              *)

\* The gateway's answers are true.
LEMMA SnapshotIsTrue ==
    ASSUME DirectoryTypeOK, DatabaseInv
    PROVE  SnapshotResponse \in TrueResponse
BY DEF DirectoryTypeOK, DatabaseInv, HistoryIsClosed, SnapshotResponse, TrueResponse, Response,
       Snapshot, IsRevision, DeltaIsTrue

\* A delta lists the window of the log; a window with a DISABLED entry has the admin
\* edit that goes with it, and is not offered.
LEMMA DeltaIsOffered ==
    ASSUME DirectoryTypeOK, DatabaseInv, NEW from \in DOMAIN history, ~NeedsFullSnapshot(from),
           NEW m, m = [type |-> "delta", from |-> from, current |-> revision,
                       changes |-> ChangesSince(from)]
    PROVE  m \in Response /\ DeltaIsTrue(m)
<1>1. /\ revision \in Nat /\ revision \in DOMAIN history /\ from \in Nat /\ from <= revision
      /\ DOMAIN history \subseteq 1 .. revision
      /\ DOMAIN changeLog = 2 .. revision
      /\ \A k \in DOMAIN changeLog : changeLog[k] \in LogEntry
      /\ rows \in Directory /\ history[revision] = rows
  BY DEF DirectoryTypeOK, DatabaseInv, HistoryIsClosed
<1>2. /\ Window(from) = from + 1 .. revision
      /\ \A c \in ChangesSince(from) : c.type \notin {"REMOVED", "UNKNOWN"} /\ c.row # NoRow
  BY DEF NeedsFullSnapshot
<1>3. ASSUME NEW k \in Window(from)
      PROVE  \E c \in ChangesSince(from) :
                /\ c.revision = k /\ c.entity = changeLog[k].entity
                /\ c.type = DirectoryChangeType(changeLog[k].type)
  <2>. PICK c : c = [revision |-> k, type |-> DirectoryChangeType(changeLog[k].type),
                     entity |-> changeLog[k].entity, row |-> rows[changeLog[k].entity]]
    OBVIOUS
  <2>1. c \in ChangesSince(from)
    BY DEF ChangesSince
  <2> QED
    BY <2>1
<1>4. ASSUME NEW c \in ChangesSince(from)
      PROVE  \E k \in Window(from) :
                c = [revision |-> k, type |-> DirectoryChangeType(changeLog[k].type),
                     entity |-> changeLog[k].entity, row |-> rows[changeLog[k].entity]]
  BY DEF ChangesSince
<1>5. \A k \in Window(from) : changeLog[k].type \notin {"created", "updated", "REMOVED"}
  BY <1>2, <1>3 DEF DirectoryChangeType
<1>6. \A k \in Window(from) : changeLog[k].type # "DISABLED"
  <2> SUFFICES ASSUME NEW k \in Window(from), changeLog[k].type = "DISABLED"
               PROVE  FALSE
    OBVIOUS
  <2>1. PICK j \in DOMAIN changeLog : AdminEdit(j) /\ SameStatement(j, k)
    BY DEF Window, DatabaseInv, DisablingIsAdminEdit
  <2>2. from < j
    BY <2>1 DEF Window, SameStatement
  <2>3. j <= revision
    BY <1>1, <2>1
  <2> QED
    BY <1>5, <2>1, <2>2, <2>3 DEF Window, AdminEdit
<1>7. ASSUME NEW c \in ChangesSince(from)
      PROVE  c \in Change /\ c.type # "DISABLED" /\ c.row = rows[c.entity]
  <2>1. PICK k \in Window(from) :
            c = [revision |-> k, type |-> DirectoryChangeType(changeLog[k].type),
                 entity |-> changeLog[k].entity, row |-> rows[changeLog[k].entity]]
    BY <1>4
  <2>2. k \in Nat /\ changeLog[k] \in LogEntry
    BY <1>1 DEF Window
  <2>3. changeLog[k].type \in {"CREATED", "UPDATED"} /\ changeLog[k].entity \in Entity
    BY <1>5, <1>6, <2>2 DEF LogEntry, ChangeType
  <2>4. rows[changeLog[k].entity] \in Row
    BY <1>1, <1>2, <2>1, <2>3 DEF Directory
  <2> QED
    BY <2>1, <2>2, <2>3, <2>4 DEF Change, DirectoryChangeType
<1>8. {c.revision : c \in ChangesSince(from)} = from + 1 .. revision
  BY <1>2, <1>3, <1>4
<1>9. ASSUME NEW e \in Entity, rows[e] # history[from][e]
      PROVE  e \in Touched(ChangesSince(from))
  <2>1. PICK k \in DOMAIN changeLog : from < k /\ changeLog[k].entity = e
    BY <1>9 DEF DatabaseInv, ChangesAreLogged
  <2>2. k \in Window(from)
    BY <1>1, <2>1 DEF Window
  <2> QED
    BY <1>3, <2>1, <2>2 DEF Touched
<1>10. m \in Response
  BY <1>1, <1>7 DEF Response
<1>11. DeltaIsTrue(m)
  BY <1>1, <1>7, <1>8, <1>9 DEF DeltaIsTrue
<1> QED
  BY <1>10, <1>11

LEMMA AnswerIsTrue ==
    ASSUME DirectoryTypeOK, DatabaseInv, NEW q \in TrueRequest
    PROVE  Answer(q) \in TrueResponse
<1>1. CASE q.type = "snapshot"
  BY <1>1, SnapshotIsTrue DEF Answer
<1>2. CASE q.type # "snapshot"
  <2>1. q.type = "delta" /\ q.from \in DOMAIN history
    BY <1>2 DEF TrueRequest, Request, SnapshotRequest
  <2>2. CASE NeedsFullSnapshot(q.from)
    BY <1>2, <2>2 DEF Answer, DeltaResponse, TrueResponse, Response, FullSnapshotRequired, DeltaIsTrue
  <2>3. CASE ~NeedsFullSnapshot(q.from)
    <3>. PICK m : m = [type |-> "delta", from |-> q.from, current |-> revision,
                       changes |-> ChangesSince(q.from)]
      OBVIOUS
    <3>1. m \in Response /\ DeltaIsTrue(m)
      BY <2>1, <2>3, DeltaIsOffered
    <3>2. Answer(q) = m /\ m.type = "delta"
      BY <1>2, <2>3 DEF Answer, DeltaResponse
    <3> QED
      BY <3>1, <3>2 DEF TrueResponse
  <2> QED
    BY <2>2, <2>3
<1> QED
  BY <1>1, <1>2

-----------------------------------------------------------------------------
(* Receiving.                                                              *)

\* A delta takes the revision it starts from to the one it ends at.
LEMMA MergeReaches ==
    ASSUME DirectoryTypeOK, NEW m \in TrueResponse, m.type = "delta"
    PROVE  Merge(history[m.from], m.changes) = history[m.current]
<1>1. /\ m.from \in DOMAIN history /\ m.current \in DOMAIN history
      /\ \A c \in m.changes : c.row = history[m.current][c.entity]
      /\ \A e \in Entity : history[m.current][e] # history[m.from][e] => e \in Touched(m.changes)
  BY DEF TrueResponse, DeltaIsTrue
<1>2. history[m.current] \in Directory
  BY <1>1 DEF DirectoryTypeOK
<1>3. ASSUME NEW e \in Entity
      PROVE  Merge(history[m.from], m.changes)[e] = history[m.current][e]
  <2>1. CASE e \in Touched(m.changes)
    <3>1. \E c \in m.changes : c.entity = e
      BY <2>1 DEF Touched
    <3>2. (CHOOSE c \in m.changes : c.entity = e) \in m.changes
          /\ (CHOOSE c \in m.changes : c.entity = e).entity = e
      BY <3>1
    <3> QED
      BY <1>1, <2>1, <3>2 DEF Merge
  <2>2. CASE e \notin Touched(m.changes)
    BY <1>1, <2>2 DEF Merge
  <2> QED
    BY <2>1, <2>2
<1> QED
  BY <1>2, <1>3 DEF Merge, Directory

\* A snapshot or a delta leaves the cache with a committed revision, or as it was.
LEMMA CacheStaysTrue ==
    ASSUME DirectoryInv, NEW x \in TrueResponse, UNCHANGED databaseVars,
           \/ x.type = "snapshot" /\ ReplaceSnapshot(x.snapshot)
           \/ x.type = "delta" /\ ApplyDelta(x)
           \/ UNCHANGED cache
    PROVE  cache' \in Snapshot /\ (cache'.revision # 0 => IsRevision(cache)')
<1>0. /\ cache \in Snapshot /\ history' = history
      /\ cache.revision # 0 => IsRevision(cache)
  BY DEF DirectoryInv, DirectoryTypeOK, FramesAreTrue, databaseVars
<1>1. CASE cache' = cache
  BY <1>0, <1>1 DEF IsRevision
<1>2. CASE x.type = "snapshot" /\ cache' = x.snapshot
  <2>1. x.snapshot \in Snapshot
    BY <1>2 DEF TrueResponse, Response, Failure, FullSnapshotRequired
  <2> QED
    BY <1>0, <1>2, <2>1 DEF TrueResponse, IsRevision
<1>3. CASE /\ x.type = "delta" /\ DeltaApplies(x)
           /\ cache' = [revision |-> x.current, rows |-> Merge(cache.rows, x.changes)]
  <2>1. cache.rows = history[x.from]
    BY <1>0, <1>3 DEF DeltaApplies, IsRevision
  <2>2. Merge(cache.rows, x.changes) = history[x.current]
    BY <1>3, <2>1, MergeReaches DEF DirectoryInv
  <2>3. x.current \in DOMAIN history
    BY <1>3 DEF TrueResponse, DeltaIsTrue
  <2>4. x.current \in Nat /\ history[x.current] \in Directory
    BY <2>3 DEF DirectoryInv, DirectoryTypeOK
  <2> QED
    BY <1>0, <1>3, <2>2, <2>3, <2>4 DEF Snapshot, IsRevision
<1> QED
  BY <1>1, <1>2, <1>3 DEF ReplaceSnapshot, ApplyDelta

-----------------------------------------------------------------------------
(* The steps that leave the tables alone.                                  *)

LEMMA TruthDependsOnDatabase ==
    ASSUME UNCHANGED databaseVars
    PROVE  /\ TrueRequest' = TrueRequest /\ TrueResponse' = TrueResponse
           /\ DatabaseInv <=> DatabaseInv'
BY DEF databaseVars, TrueRequest, TrueResponse, DeltaIsTrue, IsRevision, DatabaseInv,
       HistoryIsClosed, ChangesAreLogged, DisablingIsAdminEdit, AdminEdit, SameStatement

\* What such a step has to keep.
LEMMA FramesKeepInv ==
    ASSUME DirectoryInv, UNCHANGED databaseVars,
           requests' \in Seq(TrueRequest), responses' \in Seq(TrueResponse),
           cache' \in Snapshot, cache'.revision # 0 => IsRevision(cache)',
           authenticated' \in BOOLEAN, syncing' \in BOOLEAN
    PROVE  DirectoryInv'
<1>1. requests' \in Seq(Request) /\ responses' \in Seq(Response)
  <2>1. TrueRequest \subseteq Request /\ TrueResponse \subseteq Response
    BY DEF TrueRequest, TrueResponse
  <2> QED
    BY <2>1
<1>2. DirectoryTypeOK'
  BY <1>1 DEF DirectoryInv, DirectoryTypeOK, databaseVars
<1>3. FramesAreTrue'
  BY TruthDependsOnDatabase DEF FramesAreTrue
<1> QED
  BY <1>2, <1>3, TruthDependsOnDatabase DEF DirectoryInv

\* Adding a frame, taking the first, and losing the last ones.
LEMMA SequenceSteps ==
    ASSUME NEW S, NEW s \in Seq(S)
    PROVE  /\ \A x \in S : Append(s, x) \in Seq(S)
           /\ s # <<>> => Head(s) \in S /\ Tail(s) \in Seq(S)
           /\ \A n \in 0 .. Len(s) : SubSeq(s, 1, n) \in Seq(S)
<1>1. \A x \in S : Append(s, x) \in Seq(S)
  OBVIOUS
<1>2. s # <<>> => Head(s) \in S /\ Tail(s) \in Seq(S)
  BY HeadTailProperties
<1>3. ASSUME NEW n \in 0 .. Len(s)
      PROVE  SubSeq(s, 1, n) \in Seq(S)
  <2>1. n \in Int /\ \A i \in 1 .. n : s[i] \in S
    OBVIOUS
  <2> QED
    BY <2>1, SubSeqProperties
<1> QED
  BY <1>1, <1>2, <1>3

LEMMA RequestIsTrue ==
    ASSUME DirectoryInv, NEW r \in {0, cache.revision}, RequestDirectorySync(r)
    PROVE  requests' \in Seq(TrueRequest)
<1>1. SnapshotRequest \in TrueRequest
  BY DEF SnapshotRequest, TrueRequest, Request
<1>2. ASSUME r # 0
      PROVE  DeltaRequest(r) \in TrueRequest
  <2>1. r \in DOMAIN history /\ r \in Nat
    BY <1>2 DEF DirectoryInv, DirectoryTypeOK, FramesAreTrue, IsRevision, Snapshot
  <2> QED
    BY <2>1 DEF DeltaRequest, TrueRequest, Request
<1>3. requests \in Seq(TrueRequest)
  BY DEF DirectoryInv, FramesAreTrue
<1> QED
  BY <1>1, <1>2, <1>3, SequenceSteps DEF RequestDirectorySync

LEMMA ReceiveKeepsInv ==
    ASSUME DirectoryInv, Receive
    PROVE  DirectoryInv'
<1>1. /\ TakeResponse /\ UNCHANGED databaseVars /\ UNCHANGED authenticated
      /\ responses # <<>> /\ responses' = Tail(responses)
  BY DEF Receive, ReceiveSnapshot, ReceiveDelta, ReceiveFailure, ReceiveFullSnapshotRequired, TakeResponse
<1>2. /\ responses \in Seq(TrueResponse) /\ requests \in Seq(TrueRequest)
      /\ authenticated \in BOOLEAN /\ syncing \in BOOLEAN
  BY DEF DirectoryInv, FramesAreTrue, DirectoryTypeOK
<1>3. responses' \in Seq(TrueResponse) /\ Head(responses) \in TrueResponse
  BY <1>1, <1>2, SequenceSteps
<1>4. cache' \in Snapshot /\ (cache'.revision # 0 => IsRevision(cache)')
  <2>. PICK x \in TrueResponse : x = Head(responses)
    BY <1>3
  <2>1. \/ x.type = "snapshot" /\ ReplaceSnapshot(x.snapshot)
        \/ x.type = "delta" /\ ApplyDelta(x)
        \/ UNCHANGED cache
    BY DEF Receive, ReceiveSnapshot, ReceiveDelta, ReceiveFailure, ReceiveFullSnapshotRequired
  <2> QED
    BY <1>1, <2>1, CacheStaysTrue
<1>5. requests' \in Seq(TrueRequest) /\ syncing' \in BOOLEAN
  <2>1. CASE RequestDirectorySync(0) /\ UNCHANGED syncing
    BY <1>2, <2>1, RequestIsTrue
  <2>2. CASE UNCHANGED requests /\ syncing' \in BOOLEAN
    BY <1>2, <2>2
  <2> QED
    BY <1>2, <2>1, <2>2 DEF Receive, ReceiveSnapshot, ReceiveDelta, ReceiveFailure, ReceiveFullSnapshotRequired
<1> QED
  BY <1>1, <1>2, <1>3, <1>4, <1>5, FramesKeepInv

LEMMA OtherStepsKeepInv ==
    ASSUME DirectoryInv,
           HandleRequest \/ BroadcastPresenceSnapshots \/ Synchronize \/ Login \/ Disconnect
    PROVE  DirectoryInv'
<1>0. /\ responses \in Seq(TrueResponse) /\ requests \in Seq(TrueRequest)
      /\ cache \in Snapshot /\ (cache.revision # 0 => IsRevision(cache))
      /\ authenticated \in BOOLEAN /\ syncing \in BOOLEAN
      /\ DirectoryTypeOK /\ DatabaseInv
  BY DEF DirectoryInv, FramesAreTrue, DirectoryTypeOK
<1>1. UNCHANGED databaseVars /\ UNCHANGED cache
  BY DEF HandleRequest, BroadcastPresenceSnapshots, Synchronize, Login, Disconnect
<1>2. cache' \in Snapshot /\ (cache'.revision # 0 => IsRevision(cache)')
  BY <1>0, <1>1 DEF IsRevision, databaseVars
<1>3. CASE HandleRequest
  <2>1. requests' \in Seq(TrueRequest) /\ Answer(Head(requests)) \in TrueResponse
    BY <1>0, <1>3, SequenceSteps, AnswerIsTrue DEF HandleRequest
  <2>2. Failure \in TrueResponse
    BY DEF Failure, TrueResponse, Response, DeltaIsTrue
  <2>3. responses' \in Seq(TrueResponse)
    BY <1>0, <1>3, <2>1, <2>2, SequenceSteps DEF HandleRequest
  <2> QED
    BY <1>0, <1>1, <1>2, <1>3, <2>1, <2>3, FramesKeepInv DEF HandleRequest
<1>4. CASE BroadcastPresenceSnapshots
  <2>1. responses' \in Seq(TrueResponse)
    BY <1>0, <1>4, SnapshotIsTrue, SequenceSteps DEF BroadcastPresenceSnapshots
  <2> QED
    BY <1>0, <1>1, <1>2, <1>4, <2>1, FramesKeepInv DEF BroadcastPresenceSnapshots
<1>5. CASE Synchronize
  <2>1. requests' \in Seq(TrueRequest)
    BY <1>5, RequestIsTrue DEF Synchronize
  <2> QED
    BY <1>0, <1>1, <1>2, <1>5, <2>1, FramesKeepInv DEF Synchronize
<1>6. CASE Login
  <2>1. requests' \in Seq(TrueRequest)
    BY <1>6, RequestIsTrue DEF Login
  <2> QED
    BY <1>0, <1>1, <1>2, <1>6, <2>1, FramesKeepInv DEF Login
<1>7. CASE Disconnect
  <2>1. requests' \in Seq(TrueRequest)
    BY <1>7 DEF Disconnect
  <2>2. responses' \in Seq(TrueResponse)
    BY <1>0, <1>7, SequenceSteps DEF Disconnect
  <2> QED
    BY <1>0, <1>1, <1>2, <1>7, <2>1, <2>2, FramesKeepInv DEF Disconnect
<1> QED
  BY <1>3, <1>4, <1>5, <1>6, <1>7

-----------------------------------------------------------------------------
(* The theorems.                                                           *)

LEMMA FirstRowsAreClosed == FirstRows \in Directory /\ Closed(FirstRows)
<1> DEFINE FirstPeople == {Administrator, Requester}
<1>0. /\ General \in Department /\ FirstPeople \subseteq Person /\ FirstName \in Name
      /\ \A p \in FirstPeople : FirstAssignments[p] \in Assignment
      /\ Department \subseteq Entity /\ Person \subseteq Entity /\ Assignment \subseteq Entity
      /\ General \notin FirstPeople /\ Nothing \notin Entity
  BY EntityAssumption DEF Entity
<1>1. DepartmentRow(FirstName, TRUE) \in Row /\ PersonRow(FirstName, TRUE, General) \in Row
  BY <1>0 DEF DepartmentRow, PersonRow, Row
<1>2. \A p \in Person : AssignmentRow(p, General) \in Row
  BY <1>0 DEF AssignmentRow, Row
<1>3. ASSUME NEW e \in Entity
      PROVE  \/ e = General /\ FirstRows[e] = DepartmentRow(FirstName, TRUE)
             \/ e \in FirstPeople /\ FirstRows[e] = PersonRow(FirstName, TRUE, General)
             \/ \E p \in FirstPeople : FirstRows[e] = AssignmentRow(p, General)
             \/ FirstRows[e] = NoRow
  <2>1. CASE e = General
    BY <2>1 DEF FirstRows
  <2>2. CASE e \in FirstPeople
    BY <1>0, <2>2 DEF FirstRows
  <2>3. CASE e # General /\ e \notin FirstPeople /\ \E p \in FirstPeople : e = FirstAssignments[p]
    <3>1. FirstRows[e] = AssignmentRow(CHOOSE p \in FirstPeople : e = FirstAssignments[p], General)
      BY <2>3 DEF FirstRows
    <3>2. (CHOOSE p \in FirstPeople : e = FirstAssignments[p]) \in FirstPeople
      BY <2>3
    <3> QED
      BY <3>1, <3>2
  <2>4. CASE e # General /\ e \notin FirstPeople /\ ~\E p \in FirstPeople : e = FirstAssignments[p]
    BY <2>4 DEF FirstRows
  <2> QED
    BY <2>1, <2>2, <2>3, <2>4
<1>4. \A e \in Entity : FirstRows[e] \in Row \cup {NoRow}
  BY <1>0, <1>1, <1>2, <1>3
<1>5. FirstRows \in Directory
  BY <1>4 DEF FirstRows, Directory
<1>6. /\ FirstRows[General] # NoRow
      /\ \A p \in FirstPeople : FirstRows[p] # NoRow
  <2>1. FirstRows[General] = DepartmentRow(FirstName, TRUE)
    BY <1>0 DEF FirstRows
  <2>2. \A p \in FirstPeople : FirstRows[p] = PersonRow(FirstName, TRUE, General)
    BY <1>0 DEF FirstRows
  <2> QED
    BY <1>1, <2>1, <2>2, EntityAssumption
<1>7. Closed(FirstRows)
  <2> SUFFICES ASSUME NEW e \in Entity, FirstRows[e] # NoRow
               PROVE  /\ FirstRows[e].dept # Nothing => FirstRows[FirstRows[e].dept] # NoRow
                      /\ FirstRows[e].person # Nothing => FirstRows[FirstRows[e].person] # NoRow
    BY DEF Closed
  <2>1. /\ FirstRows[e].dept \in {General, Nothing}
        /\ FirstRows[e].person \in FirstPeople \cup {Nothing}
    BY <1>3 DEF DepartmentRow, PersonRow, AssignmentRow
  <2> QED
    BY <1>6, <2>1
<1> QED
  BY <1>5, <1>7

LEMMA InitEstablishesInv == DirectoryInit => DirectoryInv
<1> SUFFICES ASSUME DirectoryInit PROVE DirectoryInv
  OBVIOUS
<1>1. /\ rows = FirstRows /\ revision = 1 /\ changeLog = <<>> /\ history = [k \in {1} |-> FirstRows]
      /\ requests = <<>> /\ responses = <<>> /\ authenticated = FALSE /\ syncing = FALSE
      /\ cache.revision = 0 /\ cache \in Snapshot
  BY DEF DirectoryInit, NoCopy, Snapshot, Directory
<1>2. DOMAIN changeLog = {} /\ DOMAIN history = {1} /\ history[1] = FirstRows
  BY <1>1
<1>3. DirectoryTypeOK
  <2>1. 2 .. revision = {}
    BY <1>1
  <2>2. requests \in Seq(Request) /\ responses \in Seq(Response)
    BY <1>1
  <2>3. rows \in Directory /\ Closed(rows)
    BY <1>1, FirstRowsAreClosed
  <2>4. \A k \in DOMAIN history : history[k] \in Directory
    BY <1>2, FirstRowsAreClosed
  <2>5. DOMAIN changeLog = 2 .. revision /\ \A k \in DOMAIN changeLog : changeLog[k] \in LogEntry
    BY ONLY <1>2, <2>1
  <2>6. revision \in Nat \ {0} /\ DOMAIN history \subseteq 1 .. revision /\ revision \in DOMAIN history
    <3>1. revision = 1
      BY <1>1
    <3> QED
      BY ONLY <1>2, <3>1
  <2>7. authenticated \in BOOLEAN /\ syncing \in BOOLEAN /\ cache \in Snapshot
    BY <1>1
  <2> QED
    BY ONLY <2>2, <2>3, <2>4, <2>5, <2>6, <2>7 DEF DirectoryTypeOK
<1>4. DatabaseInv
  BY <1>1, <1>2, FirstRowsAreClosed
     DEF DatabaseInv, HistoryIsClosed, ChangesAreLogged, DisablingIsAdminEdit
<1>5. FramesAreTrue
  BY <1>1 DEF FramesAreTrue
<1> QED
  BY <1>3, <1>4, <1>5 DEF DirectoryInv

LEMMA StepKeepsInv == DirectoryInv /\ [DirectoryNext]_directoryVars => DirectoryInv'
<1> SUFFICES ASSUME DirectoryInv, [DirectoryNext]_directoryVars PROVE DirectoryInv'
  OBVIOUS
<1>1. CASE WriteDirectory
  BY <1>1, WriteDirectoryKeepsInv
<1>2. CASE Receive
  BY <1>2, ReceiveKeepsInv
<1>3. CASE HandleRequest \/ BroadcastPresenceSnapshots \/ Synchronize \/ Login \/ Disconnect
  BY <1>3, OtherStepsKeepInv
<1>4. CASE UNCHANGED directoryVars
  <2>1. /\ UNCHANGED databaseVars
        /\ UNCHANGED <<authenticated, requests, responses, cache, syncing>>
    BY <1>4 DEF directoryVars, databaseVars
  <2>2. cache'.revision # 0 => IsRevision(cache)'
    BY <2>1 DEF DirectoryInv, FramesAreTrue, IsRevision, databaseVars
  <2> QED
    BY <2>1, <2>2, FramesKeepInv DEF DirectoryInv, FramesAreTrue, DirectoryTypeOK
<1> QED
  BY <1>1, <1>2, <1>3, <1>4 DEF DirectoryNext, Receive

LEMMA InvariantHolds == DirectorySpec => []DirectoryInv
BY InitEstablishesInv, StepKeepsInv, PTL DEF DirectorySpec

\* The tables, the log, the frames and the cache are of their types; the log has an
\* entry for every revision after the first.
THEOREM DirectoryTypeIsCorrect == DirectorySpec => []DirectoryTypeOK
<1>1. DirectoryInv => DirectoryTypeOK
  BY DEF DirectoryInv
<1> QED
  BY <1>1, InvariantHolds, PTL

\* Every snapshot on its way, and the cache, hold what the tables held at the revision
\* they name.
THEOREM CopiesAreTrue == DirectorySpec => []CopiesAreRevisions
<1>1. DirectoryInv => CopiesAreRevisions
  <2> SUFFICES ASSUME DirectoryInv PROVE CopiesAreRevisions
    OBVIOUS
  <2>1. \A i \in DOMAIN responses : responses[i] \in TrueResponse
    BY DEF DirectoryInv, FramesAreTrue
  <2> QED
    BY <2>1 DEF DirectoryInv, FramesAreTrue, CopiesAreRevisions, TrueResponse
<1> QED
  BY <1>1, InvariantHolds, PTL

\* A delta that starts from the cached revision is never refused by applyDelta.
THEOREM OfferedDeltasAreApplicable == DirectorySpec => []OfferedDeltasApply
<1>1. DirectoryInv => OfferedDeltasApply
  <2> SUFFICES ASSUME DirectoryInv, NEW i \in DOMAIN responses,
                      responses[i].type = "delta", responses[i].from = cache.revision
               PROVE  DeltaApplies(responses[i])
    BY DEF OfferedDeltasApply
  <2>. PICK m : m = responses[i]
    OBVIOUS
  <2>1. m \in TrueResponse /\ m.type = "delta" /\ cache.revision = m.from
    BY DEF DirectoryInv, FramesAreTrue
  <2>2. /\ m.from \in DOMAIN history /\ m.current \in DOMAIN history /\ m.from <= m.current
        /\ {c.revision : c \in m.changes} = m.from + 1 .. m.current
        /\ \A c \in m.changes : c.type # "DISABLED"
    BY <2>1 DEF TrueResponse, DeltaIsTrue
  <2>3. \A c \in m.changes : c.type # "REMOVED"
    BY <2>1 DEF TrueResponse, Response, Change, Failure, FullSnapshotRequired
  <2>4. m.from # 0
    BY <2>2 DEF DirectoryInv, DirectoryTypeOK
  <2>5. cache.rows = history[m.from]
    BY <2>1, <2>4 DEF DirectoryInv, FramesAreTrue, IsRevision
  <2>6. Closed(Merge(cache.rows, m.changes))
    <3>1. Merge(cache.rows, m.changes) = history[m.current]
      BY <2>1, <2>5, MergeReaches DEF DirectoryInv
    <3> QED
      BY <2>2, <3>1 DEF DirectoryInv, DatabaseInv, HistoryIsClosed
  <2> QED
    BY <2>1, <2>2, <2>3, <2>4, <2>6 DEF DeltaApplies
<1> QED
  BY <1>1, InvariantHolds, PTL

=============================================================================
