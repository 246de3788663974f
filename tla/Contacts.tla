------------------------------ MODULE Contacts ------------------------------
(***************************************************************************)
(* The contacts of PostgresRuntimeStore: what a person noted about a       *)
(* colleague (contact_profiles), the audit of it, and the lists made from  *)
(* it and from the interactions that direct conversations leave.  A change *)
(* is one transaction that makes the row, locks it and checks the revision *)
(* the device expects; what is refused is rolled back.  A device may       *)
(* expect any revision it was shown.                                       *)
(***************************************************************************)
EXTENDS People

CONSTANTS
    Note,                  \* what note and tags may hold, "" at first
    MaxContactRevision     \* bound

VARIABLES
    contactProfiles,       \* rows by << owner, contact >>
    contactEvents,         \* contact_preference_events of each pair
    contactInteractions    \* pairs of contact_interactions
contactVars == << enabled, contactProfiles, contactEvents, contactInteractions >>

Pair == Person \X Person
NoNote == ""
FreshProfile == [favorite |-> FALSE, note |-> NoNote, revision |-> 1]
HasProfile(pair) == pair \in DOMAIN contactProfiles
Preference(pair) == IF HasProfile(pair) THEN contactProfiles[pair] ELSE FreshProfile
MayContact(p, q) == p \in enabled /\ q \in Colleagues(p)

updateContactPreference(p, q, expectedRevision, favorite, note) ==
    LET pair == << p, q >>
        previous == Preference(pair)
        current == [favorite |-> favorite, note |-> note, revision |-> expectedRevision + 1] IN
    /\ p # q /\ MayContact(p, q)
    /\ previous.revision = expectedRevision /\ expectedRevision < MaxContactRevision
    /\ contactProfiles' = With(contactProfiles, pair, current)
    /\ contactEvents' = [contactEvents EXCEPT ![pair] =
           Append(@, [revision |-> current.revision, previous |-> << previous.favorite, previous.note >>,
                      current |-> << favorite, note >>])]
    /\ UNCHANGED << enabled, contactInteractions >>

(* getOrCreateDirectConversation counts the interaction of who asked.      *)
Interact(p, q) ==
    /\ p # q /\ MayContact(p, q)
    /\ contactInteractions' = contactInteractions \cup {<< p, q >>}
    /\ UNCHANGED << enabled, contactProfiles, contactEvents >>

-----------------------------------------------------------------------------
ContactSummary(p, q) == [person |-> q, favorite |-> Preference(<< p, q >>).favorite]

\* The three SELECTs of loadContactCenter see one state here, and the lists are whole:
\* LIMIT 20 of the recent and LIMIT 100 of the favourites only shorten them.
\* Mutant: people who were disabled stay listed.
loadContactCenterOfAll(p) ==
    LET contacts == {q \in Person : OrganizationOf[q] = OrganizationOf[p]} IN
    [recent |-> {ContactSummary(p, q) : q \in {x \in contacts : << p, x >> \in contactInteractions}},
     favorites |-> {ContactSummary(p, q) : q \in {x \in contacts : Preference(<< p, x >>).favorite}}]

loadContactCenter(p) ==
    LET contacts == IF p \in enabled THEN Colleagues(p) ELSE {} IN
    [recent |-> {ContactSummary(p, q) : q \in {x \in contacts : << p, x >> \in contactInteractions}},
     favorites |-> {ContactSummary(p, q) : q \in {x \in contacts : Preference(<< p, x >>).favorite}}]

loadContactDetail(p, q) ==
    IF MayContact(p, q) THEN [success |-> TRUE, detail |-> Preference(<< p, q >>)]
    ELSE [success |-> FALSE, detail |-> FreshProfile]

handleContacts(p) ==
    \E q \in Person :
        \/ Interact(p, q)
        \/ \E r \in 1..MaxContactRevision, favorite \in BOOLEAN, note \in Note :
              updateContactPreference(p, q, r, favorite, note)

ContactsInit ==
    /\ PeopleInit
    /\ contactProfiles = << >> /\ contactInteractions = {}
    /\ contactEvents = [pair \in Pair |-> << >>]
ContactsNext ==
    \/ \E p \in Person : handleContacts(p)
    \/ \E p \in Person : updatePerson(p)
          /\ UNCHANGED << contactProfiles, contactEvents, contactInteractions >>
ContactsSpec == ContactsInit /\ [][ContactsNext]_contactVars

-----------------------------------------------------------------------------
(* A row, its audit and the three ways to see it tell one story: the audit *)
(* leads from the fresh profile to the stored one, a step per revision;    *)
(* who is listed can be opened and is shown there as in the list; and only *)
(* colleagues have rows, although a contact may be disabled meanwhile and  *)
(* come back with what was noted.                                          *)
ContactsAgree ==
    /\ \A pair \in Pair :
          LET events == contactEvents[pair] IN
          /\ Preference(pair).revision = Len(events) + 1
          /\ \A k \in DOMAIN events :
                /\ events[k].revision = k + 1
                /\ events[k].previous = IF k = 1 THEN << FALSE, NoNote >> ELSE events[k - 1].current
          /\ events # << >> =>
                /\ events[Len(events)].current = << Preference(pair).favorite, Preference(pair).note >>
                /\ OrganizationOf[pair[1]] = OrganizationOf[pair[2]] /\ pair[1] # pair[2]
    /\ \A p \in Person :
          \A shown \in loadContactCenter(p).recent \cup loadContactCenter(p).favorites :
              LET answer == loadContactDetail(p, shown.person) IN
              answer.success /\ answer.detail.favorite = shown.favorite
=============================================================================
