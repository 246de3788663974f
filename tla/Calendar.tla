------------------------------ MODULE Calendar ------------------------------
(***************************************************************************)
(* The calendar of PostgresRuntimeStore: calendar_events, their            *)
(* participants and the audit.  Every operation is one transaction that    *)
(* locks the event, hence one step; a request that is refused writes       *)
(* nothing and is a stuttering step.  A device may ask with any revision   *)
(* it was ever shown, so an update carries any revision there has been.    *)
(* Times, texts, colours and reminders are the title of an event.          *)
(***************************************************************************)
EXTENDS People

CONSTANTS
    Event,             \* event ids
    Title,             \* what the columns of an event hold
    InviteLimit,       \* 64: participantLoginNames, and the participants of an answer
    MaxEventRevision        \* bound on the revisions of an event

VARIABLES
    calendarEvents,        \* rows by id
    eventParticipants,     \* status of each participant
    eventAudit,            \* calendar_event_audit
    eventVersions          \* ghost: what an organizer was shown at each revision
calendarVars == << enabled, calendarEvents, eventParticipants, eventAudit, eventVersions >>

StoredEvents == DOMAIN calendarEvents
EventDraft == [title : Title, conferenceEnabled : BOOLEAN, participantLoginNames : SUBSET Person]

validCalendarInput(draft) == Cardinality(draft.participantLoginNames) <= InviteLimit

\* Each login names an enabled colleague other than the organizer.
ResolvedGuests(p, draft) == draft.participantLoginNames \subseteq Colleagues(p) \ {p}

Participants(p, draft) ==
    [q \in {p} \cup draft.participantLoginNames |-> IF q = p THEN "accepted" ELSE "pending"]

CalendarAudit(e, p, action, from, to) ==
    eventAudit' = [eventAudit EXCEPT ![e] =
        Append(@, [actor |-> p, action |-> action, from |-> from, to |-> to])]

\* What an answer carries of an event.
ShownEvent(row, participants) == << row, participants >>
ShowEventVersion(e) ==
    eventVersions' = [eventVersions EXCEPT ![e] =
        IF Len(@) < calendarEvents'[e].revision
          THEN Append(@, ShownEvent(calendarEvents'[e], eventParticipants'[e])) ELSE @]

-----------------------------------------------------------------------------
createCalendarEvent(p, e, draft) ==
    /\ e \notin StoredEvents
    /\ validCalendarInput(draft) /\ p \in enabled /\ ResolvedGuests(p, draft)
    /\ calendarEvents' = With(calendarEvents, e,
           [organizer |-> p, title |-> draft.title, meeting |-> draft.conferenceEnabled,
            cancelled |-> FALSE, revision |-> 1])
    /\ eventParticipants' = With(eventParticipants, e, Participants(p, draft))
    /\ CalendarAudit(e, p, "create", 0, 1)
    /\ ShowEventVersion(e)
    /\ UNCHANGED enabled

\* Mutant: the row is found at whatever revision it has.
EditableAtAnyRevision(p, e, expectedRevision) ==
    /\ e \in StoredEvents
    /\ calendarEvents[e].organizer = p
    /\ calendarEvents[e].revision < MaxEventRevision

\* The row the organizer asks for, at the revision that was expected.
EditableEvent(p, e, expectedRevision) ==
    /\ e \in StoredEvents
    /\ calendarEvents[e].organizer = p
    /\ calendarEvents[e].revision = expectedRevision
    /\ expectedRevision < MaxEventRevision

\* Participants are replaced only when the request names some.
updateCalendarEvent(p, e, expectedRevision, draft) ==
    /\ validCalendarInput(draft)
    /\ EditableEvent(p, e, expectedRevision)
    /\ ~calendarEvents[e].cancelled
    /\ ResolvedGuests(p, draft)
    /\ calendarEvents' = [calendarEvents EXCEPT ![e] =
           [calendarEvents[e] EXCEPT !.title = draft.title, !.meeting = draft.conferenceEnabled,
                                     !.revision = @ + 1]]
    /\ eventParticipants' = IF draft.participantLoginNames = {} THEN eventParticipants
                            ELSE [eventParticipants EXCEPT ![e] = Participants(p, draft)]
    /\ CalendarAudit(e, p, "update", expectedRevision, calendarEvents'[e].revision)
    /\ ShowEventVersion(e)
    /\ UNCHANGED enabled

\* Nothing asks whether the event is cancelled already.
deleteCalendarEvent(p, e, expectedRevision) ==
    /\ EditableEvent(p, e, expectedRevision)
    /\ calendarEvents' = [calendarEvents EXCEPT ![e] =
           [calendarEvents[e] EXCEPT !.cancelled = TRUE, !.revision = @ + 1]]
    /\ UNCHANGED << enabled, eventParticipants >>
    /\ CalendarAudit(e, p, "cancel", expectedRevision, calendarEvents'[e].revision)
    /\ ShowEventVersion(e)

-----------------------------------------------------------------------------
\* loadCalendarParticipants: more than the limit fails.
loadCalendarParticipants(e) ==
    LET shown == DOMAIN eventParticipants[e] \cap enabled IN
    [ok |-> Cardinality(shown) <= InviteLimit, people |-> shown]

CalendarVisible(p, e) ==
    /\ calendarEvents[e].organizer \in enabled
    /\ calendarEvents[e].organizer = p \/ p \in DOMAIN eventParticipants[e]

\* One event whose participants cannot be loaded fails the list.
listCalendarEvents(p, includeCancelled) ==
    LET rows == {e \in StoredEvents : CalendarVisible(p, e)
                                /\ (includeCancelled \/ ~calendarEvents[e].cancelled)}
    IN [success |-> \A e \in rows : loadCalendarParticipants(e).ok, events |-> rows]

\* The handlers of the gateway, for the person of the connection.
handleCalendar(p) ==
    \E e \in Event :
        \/ \E draft \in EventDraft : createCalendarEvent(p, e, draft)
        \/ \E r \in 1..MaxEventRevision : \/ \E draft \in EventDraft : updateCalendarEvent(p, e, r, draft)
                                     \/ deleteCalendarEvent(p, e, r)

CalendarInit ==
    /\ PeopleInit
    /\ calendarEvents = << >> /\ eventParticipants = << >>
    /\ eventAudit = [e \in Event |-> << >>] /\ eventVersions = [e \in Event |-> << >>]
CalendarNext ==
    \/ \E p \in Person : handleCalendar(p)
    \/ \E p \in Person : updatePerson(p) /\ UNCHANGED << calendarEvents, eventParticipants,
                                                         eventAudit, eventVersions >>
CalendarSpec == CalendarInit /\ [][CalendarNext]_calendarVars

-----------------------------------------------------------------------------
(* The row, its participants and its audit tell one story: the audit has   *)
(* one entry per revision, each starting where the one before ended; and   *)
(* what an organizer was shown at the current revision is what is stored,  *)
(* so that an update that expects the current revision overwrites nothing  *)
(* its author has not seen (docs/calendar-center.md, updates by revision). *)
EventsHaveOneHistory ==
    \A e \in StoredEvents :
        /\ Len(eventAudit[e]) = calendarEvents[e].revision
        /\ \A k \in DOMAIN eventAudit[e] : eventAudit[e][k].from = k - 1 /\ eventAudit[e][k].to = k
        /\ Len(eventVersions[e]) = calendarEvents[e].revision
        /\ eventVersions[e][calendarEvents[e].revision] = ShownEvent(calendarEvents[e], eventParticipants[e])

(* Whoever takes part sees the event and whoever sees it takes part, for   *)
(* the organizer too: he is a participant who accepted, also after the     *)
(* participants were replaced.  Nobody of another organization is one.     *)
ParticipantsSeeTheEvent ==
    \A e \in StoredEvents :
        LET organizer == calendarEvents[e].organizer IN
        /\ organizer \in DOMAIN eventParticipants[e]
        /\ eventParticipants[e][organizer] = "accepted"
        /\ \A p \in Person :
              e \in listCalendarEvents(p, TRUE).events
                <=> p \in DOMAIN eventParticipants[e] /\ organizer \in enabled
        /\ \A p \in DOMAIN eventParticipants[e] : OrganizationOf[p] = OrganizationOf[organizer]

(* The calendar tells everybody the same: both of the above.               *)
CalendarsAgree == EventsHaveOneHistory /\ ParticipantsSeeTheEvent

(* docs/calendar-center.md:25: an event has at most 64 participants, which *)
(* is what an answer may hold.  Whoever takes part can read his calendar.  *)
CalendarsStayReadable ==
    \A p \in Person : listCalendarEvents(p, TRUE).success
=============================================================================
