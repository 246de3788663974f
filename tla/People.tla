------------------------------- MODULE People -------------------------------
(***************************************************************************)
(* The rows of persons as the service tables see them: an organization     *)
(* that never changes and whether the person is enabled.  The              *)
(* administration enables and disables people at any time, also while they *)
(* are signed in.                                                          *)
(***************************************************************************)
EXTENDS Naturals, FiniteSets, Sequences

CONSTANTS
    Person, OrganizationOf,
    Dismissible        \* bound: the people whose row the administration changes

ASSUME PeopleAssumption == Dismissible \subseteq Person

VARIABLE enabled

\* people of p's organization who are enabled
Colleagues(p) == {q \in enabled : OrganizationOf[q] = OrganizationOf[p]}

PeopleInit == enabled = Person

updatePerson(p) ==
    /\ p \in Dismissible
    /\ enabled' = IF p \in enabled THEN enabled \ {p} ELSE enabled \cup {p}

\* a table by id with the row x of e
With(table, e, x) == [d \in DOMAIN table \cup {e} |-> IF d = e THEN x ELSE table[d]]
=============================================================================
