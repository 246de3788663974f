--------------------------- MODULE Administration ---------------------------
(***************************************************************************)
(* The web administration: AdminHttpServer answers one request at a time   *)
(* and every answer is one statement of PostgresAdminRepository.  Kept     *)
(* here are the accounts, with the lock that the gateway's login also      *)
(* reads, the web sessions, and the rows administrators edit from pages    *)
(* that may be old.  What an edit logs for the clients is in               *)
(* DirectorySync, and what it does to files in FileCenter.                 *)
(***************************************************************************)
EXTENDS People

CONSTANTS
    Administrator,       \* people with an enabled administrator role
    Browser, Department, NoDepartment,
    MaximumFailures,     \* 5: failed_login_count that locks
    MaxGuesses, MaxResets, MaxRevision    \* bounds

ASSUME AdministrationAssumption ==
    /\ Administrator \subseteq Person
    /\ NoDepartment \notin Department
    /\ MaximumFailures \in Nat \ {0}

VARIABLES
    accounts,       \* user_accounts by person; the password is its number of resets
    wrongGuesses,   \* ghost: wrong passwords told to be wrong since the last right one
    quarters,       \* ghost: locks that ran out since then
    webSession,     \* the row of administrator_web_sessions behind a browser's cookie
    departments,    \* by id, those that exist
    personRevision,
    page            \* what a browser shows: the answers of organizationTree and persons
adminVars == << enabled, accounts, wrongGuesses, quarters, webSession, departments,
                personRevision, page >>

NoSession == [owner |-> "", password |-> 0, valid |-> FALSE]
Locked(p) == accounts[p].locked
\* The account's status follows the person's row, see updatePerson.
Active(p) == p \in enabled

-----------------------------------------------------------------------------
(* The login of the gateway, PostgresRuntimeStore::authenticate.           *)

\* Mutant: the lock comes with the failure after the fifth.
LockedLate(failures) == failures > MaximumFailures
LockedAfter(failures) == failures >= MaximumFailures

RightPassword(p) ==
    /\ Active(p) /\ ~Locked(p)
    /\ accounts' = [accounts EXCEPT ![p].failures = 0, ![p].locked = FALSE]
    /\ wrongGuesses' = [wrongGuesses EXCEPT ![p] = 0]
    /\ quarters' = [quarters EXCEPT ![p] = 0]

WrongPassword(p) ==
    /\ Active(p) /\ ~Locked(p)
    /\ accounts[p].failures < MaxGuesses
    /\ accounts' = [accounts EXCEPT ![p].failures = @ + 1,
                                    ![p].locked = LockedAfter(accounts[p].failures + 1)]
    /\ wrongGuesses' = [wrongGuesses EXCEPT ![p] = @ + 1]
    /\ UNCHANGED quarters

authenticate(p) ==
    /\ RightPassword(p) \/ WrongPassword(p)
    /\ UNCHANGED << enabled, webSession, departments, personRevision, page >>

\* Fifteen minutes have passed; the count of failures stays.
LockRunsOut(p) ==
    /\ Locked(p)
    /\ accounts' = [accounts EXCEPT ![p].locked = FALSE]
    /\ quarters' = [quarters EXCEPT ![p] = @ + 1]
    /\ UNCHANGED << enabled, wrongGuesses, webSession, departments, personRevision, page >>

-----------------------------------------------------------------------------
(* Sessions.  A browser has one cookie: a new login puts it out of reach.  *)

login(b, p) ==
    /\ p \in Administrator /\ Active(p)
    /\ webSession' = [webSession EXCEPT
           ![b] = [owner |-> p, password |-> accounts[p].password, valid |-> TRUE]]
    /\ page' = [page EXCEPT ![b] = [departments |-> << >>, people |-> << >>]]
    /\ UNCHANGED << enabled, accounts, wrongGuesses, quarters, departments, personRevision >>

\* logout, and the eight hours of a session.
SessionEnds(b) ==
    /\ webSession[b].valid
    /\ webSession' = [webSession EXCEPT ![b].valid = FALSE]
    /\ UNCHANGED << enabled, accounts, wrongGuesses, quarters, departments, personRevision, page >>

authorize(b) == webSession[b].valid /\ Active(webSession[b].owner)

\* Mutant: only the client's sessions are revoked.
KeptSessions(p) == webSession
RevokedSessions(p) ==
    [b \in Browser |-> IF webSession[b].owner = p THEN [webSession[b] EXCEPT !.valid = FALSE]
                       ELSE webSession[b]]

resetPassword(b, p) ==
    /\ authorize(b)
    /\ accounts[p].password < MaxResets
    /\ accounts' = [accounts EXCEPT ![p] =
           [password |-> @.password + 1, failures |-> 0, locked |-> FALSE]]
    /\ wrongGuesses' = [wrongGuesses EXCEPT ![p] = 0]
    /\ quarters' = [quarters EXCEPT ![p] = 0]
    /\ webSession' = RevokedSessions(p)
    /\ UNCHANGED << enabled, departments, personRevision, page >>

-----------------------------------------------------------------------------
(* Pages and edits.  An edit names the revision its page shows.            *)

Show(b) ==
    /\ authorize(b)
    /\ page' = [page EXCEPT ![b] = [departments |-> departments, people |->
           [p \in Person |-> [enabled |-> p \in enabled, revision |-> personRevision[p]]]]]
    /\ UNCHANGED << enabled, accounts, wrongGuesses, quarters, webSession, departments,
                    personRevision >>

createDepartment(b, d, parent) ==
    /\ authorize(b) /\ d \notin DOMAIN departments
    /\ \/ parent = NoDepartment
       \/ parent \in DOMAIN departments /\ departments[parent].enabled
    /\ departments' = With(departments, d, [parent |-> parent, enabled |-> TRUE, revision |-> 1])
    /\ UNCHANGED << enabled, accounts, wrongGuesses, quarters, webSession, personRevision, page >>

\* Mutant: the statement does not look at the revision.
AnyRevision(shown, current) == TRUE
IsCurrent(shown, current) == shown = current

\* The parent must exist and be another row; it may be a row below this one.
updateDepartment(b, d, parent, open) ==
    /\ authorize(b)
    /\ d \in DOMAIN departments /\ d \in DOMAIN page[b].departments
    /\ parent # d /\ parent \in DOMAIN departments \cup {NoDepartment}
    /\ IsCurrent(page[b].departments[d].revision, departments[d].revision)
    /\ departments[d].revision < MaxRevision
    /\ departments' = [departments EXCEPT ![d] =
           [parent |-> parent, enabled |-> open, revision |-> @.revision + 1]]
    /\ UNCHANGED << enabled, accounts, wrongGuesses, quarters, webSession, personRevision, page >>

\* The name or the department of p changes, or whether p is enabled, the account with it.
editPerson(b, p) ==
    /\ authorize(b) /\ p \in DOMAIN page[b].people
    /\ IsCurrent(page[b].people[p].revision, personRevision[p])
    /\ personRevision[p] < MaxRevision
    /\ personRevision' = [personRevision EXCEPT ![p] = @ + 1]
    /\ updatePerson(p) \/ UNCHANGED enabled
    /\ UNCHANGED << accounts, wrongGuesses, quarters, webSession, departments, page >>

processRequest(b) ==
    \/ \E p \in Person : login(b, p) \/ resetPassword(b, p) \/ editPerson(b, p)
    \/ \E d \in Department, parent \in Department \cup {NoDepartment} :
          \/ createDepartment(b, d, parent)
          \/ \E open \in BOOLEAN : updateDepartment(b, d, parent, open)
    \/ Show(b)

AdministrationInit ==
    /\ PeopleInit
    /\ accounts = [p \in Person |-> [password |-> 0, failures |-> 0, locked |-> FALSE]]
    /\ wrongGuesses = [p \in Person |-> 0] /\ quarters = [p \in Person |-> 0]
    /\ webSession = [b \in Browser |-> NoSession]
    /\ departments = << >> /\ personRevision = [p \in Person |-> 1]
    /\ page = [b \in Browser |-> [departments |-> << >>, people |-> << >>]]
AdministrationNext ==
    \/ \E p \in Person : authenticate(p) \/ LockRunsOut(p)
    \/ \E b \in Browser : processRequest(b) \/ SessionEnds(b)
AdministrationSpec == AdministrationInit /\ [][AdministrationNext]_adminVars

-----------------------------------------------------------------------------
(* Whoever guesses a password at the gateway is told of five wrong ones    *)
(* and then of one more per quarter of an hour, until the right one or a   *)
(* reset (authenticate, "the fifth failure in a row locks for 15 minutes").*)
GuessesAreLimited ==
    \A p \in Person : wrongGuesses[p] <= MaximumFailures + quarters[p]

(* A cookie that still opens the administration was given for the password *)
(* the account has now, however resets, disabled people who come back and  *)
(* logins follow each other (resetPassword, authorize).                    *)
SessionsKnowThePassword ==
    \A b \in Browser : authorize(b) =>
        webSession[b].password = accounts[webSession[b].owner].password

(* Nobody overwrites what they have not seen: a row that exists changes    *)
(* only while an authorized browser shows it exactly as it is.  Browsers   *)
(* and not the commands on the server's host, which name no revision.      *)
EditsFollowWhatIsShown ==
    [][/\ \A d \in DOMAIN departments : departments'[d] # departments[d] =>
            \E b \in Browser : /\ authorize(b)
                               /\ d \in DOMAIN page[b].departments
                               /\ page[b].departments[d] = departments[d]
       /\ \A p \in Person : personRevision'[p] # personRevision[p] =>
            \E b \in Browser :
                /\ authorize(b)
                /\ p \in DOMAIN page[b].people
                /\ page[b].people[p] =
                       [enabled |-> p \in enabled, revision |-> personRevision[p]]]_adminVars
=============================================================================
