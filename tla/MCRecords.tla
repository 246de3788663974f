------------------------------ MODULE MCRecords ------------------------------
(***************************************************************************)
(* The services of PostgresRuntimeStore that share nothing but the people, *)
(* for TLC.  Each behaviour runs one of them, so that the states of the    *)
(* services add up and do not multiply.  Three colleagues and one person   *)
(* of another organization; the row of bob changes.  The bounds named Few..*)
(* keep one service small.                                                 *)
(***************************************************************************)
EXTENDS Calendar, FileCenter, GroupMembership, Rooms, Contacts, Administration, Presence, TLC

CONSTANTS alice, bob, carol, dave, event, document, group

VARIABLE service
allVars == << service, calendarVars, fileCenterVars, groupVars, roomVars, contactVars,
              adminVars, presenceVars >>

MCOrganizationOf == [p \in Person |-> IF p = dave THEN "o2" ELSE "o1"]
MCCallerAt == [k \in Socket |-> IF k = 3 THEN bob ELSE alice]

(* Bounds that keep one service small: carol is shared nothing, there are  *)
(* no folders beside documents, only bob's conversation rows are pinned,   *)
(* member updates name one person, and two people call.                    *)
FewFiles ==
    /\ folders' = {} \/ documents' = << >>
    /\ \A d \in Document : \A k \in DOMAIN shares'[d] : shares'[d][k].grantee # carol
    /\ \A d \in DOMAIN documents' : documents'[d].owner # carol
FewMembers ==
    \A g \in Group :
        /\ \A p \in DOMAIN conversationMembers'[g] \ {bob} : ~conversationMembers'[g][p].pinned
        /\ \A k \in DOMAIN groupQueue'[g] : Cardinality(groupQueue'[g][k].people) = 1
FewCalls ==
    \A g \in GatewayProcess : /\ calls'[g].person \in {"", alice, bob}
                              /\ calls'[g].key \in {{}, {1}, {alice, bob}}

FewContacts ==
    LET few == {<< alice, bob >>, << bob, alice >>} IN
    DOMAIN contactProfiles' \subseteq few /\ contactInteractions' \subseteq few
FewEdits ==
    /\ \A p \in Person \ {bob} :
          accounts'[p].failures = 0 /\ personRevision'[p] = 1 /\ (accounts'[p].password = 0 \/ p = alice)
    /\ accounts'[bob].failures > 0 => departments' = << >> /\ webSession' = webSession /\ page' = page
    /\ departments' # << >> => /\ personRevision'[bob] = 1
                              /\ \A b \in Browser : webSession'[b].owner # bob
    /\ \A d \in DOMAIN departments' :
          departments'[d].revision = MaxRevision => Cardinality(DOMAIN departments') = 1

Calendars == << calendarEvents, eventParticipants, eventAudit, eventVersions >>
Files == << documents, shares, fileEvents, folders, administration >>
Groups == << chatGroups, groupMembers, conversationMembers, groupQueue >>
RoomTables == << conversations, interactions, conferenceRooms, calls, joined >>
ContactTables == << contactProfiles, contactEvents, contactInteractions >>
Accounts == << accounts, wrongGuesses, quarters, webSession, departments, personRevision, page >>
Tables == << Calendars, Files, Groups, RoomTables >>
Others == << ContactTables, Accounts, presenceVars >>

MCInit ==
    /\ CalendarInit /\ FileCenterInit /\ GroupInit /\ RoomsInit
    /\ ContactsInit /\ AdministrationInit /\ PresenceInit
    /\ service \in {"calendar", "files", "groups", "rooms", "contacts", "administration", "presence"}
MCNext ==
    /\ UNCHANGED service
    /\ \/ /\ service = "calendar" /\ CalendarNext
          /\ UNCHANGED << Files, Groups, RoomTables, Others >>
       \/ /\ service = "files" /\ FileCenterNext /\ FewFiles
          /\ UNCHANGED << Calendars, Groups, RoomTables, Others >>
       \/ /\ service = "groups" /\ GroupNext /\ FewMembers
          /\ UNCHANGED << Calendars, Files, RoomTables, Others >>
       \/ /\ service = "rooms" /\ RoomsNext /\ FewCalls
          /\ UNCHANGED << Calendars, Files, Groups, Others >>
       \/ /\ service = "contacts" /\ ContactsNext /\ FewContacts
          /\ UNCHANGED << Tables, Accounts, presenceVars >>
       \/ /\ service = "administration" /\ AdministrationNext /\ FewEdits
          /\ UNCHANGED << Tables, ContactTables, presenceVars >>
       \/ /\ service = "presence" /\ PresenceNext
          /\ UNCHANGED << Tables, ContactTables, Accounts, enabled >>
MCSpec == MCInit /\ [][MCNext]_allVars
=============================================================================
