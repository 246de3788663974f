------------------------------- MODULE Notices -------------------------------
(***************************************************************************)
(* The notifications of one person: user_notifications and the audit of    *)
(* PostgresRuntimeStore, and the notification page of QmlClientBackend on  *)
(* one of the person's devices, which asks over a connection that keeps    *)
(* the order of requests and of answers.  The person's other devices and   *)
(* the business systems change the table as well.                          *)
(***************************************************************************)
EXTENDS Integers, Sequences, FiniteSets, SequencesExt

CONSTANTS
    NoticeCategory,    \* 1..7
    NoticeQuery,       \* << category or 0 for all, unread only >>: what pages and devices ask for
    PageSize,          \* 20: rows of a page
    LastOffset,        \* 100 000: offsets stop there
    MaxNotices, MaxNoticeRequests, MaxNoticeAudit    \* bounds

ASSUME NoticesAssumption == PageSize \in Nat /\ LastOffset \in Nat

VARIABLES
    notices,           \* user_notifications in the order they occurred
    noticeAudit,       \* notification_state_events of each row
    noticeRequests,    \* frames from the device
    noticeAnswers,     \* frames to the device
    noticePage,        \* the members of QmlClientBackend
    badgeMayLag        \* ghost: the table changed since a request of the device was answered
noticeVars == << notices, noticeAudit, noticeRequests, noticeAnswers, noticePage, badgeMayLag >>

NoticeRow == DOMAIN notices
UnreadCount(rows) == Cardinality({i \in DOMAIN rows : rows[i].status = 0})
OfCategory(row, category) == category = 0 \/ row.category = category

-----------------------------------------------------------------------------
(* A business system, or the statements that fill a development database,  *)
(* insert a notification; only there is one done (status 4) from the start.*)
InsertNotice(category, status) ==
    /\ Len(notices) < MaxNotices
    /\ notices' = Append(notices, [category |-> category, status |-> status,
                                   read |-> status # 0, processed |-> FALSE, ignored |-> FALSE])
    /\ noticeAudit' = Append(noticeAudit, << >>)
    /\ badgeMayLag' = TRUE
    /\ UNCHANGED << noticeRequests, noticeAnswers, noticePage >>

NoticeEvent(action, from, to) == [action |-> action, from |-> from, to |-> to]

\* What s holds at the positions of P, in its order.
Selected(s, P) ==
    LET position == CHOOSE f \in [1..Cardinality(P) -> P] :
                       \A j, k \in 1..Cardinality(P) : j < k => f[j] < f[k]
    IN  [k \in 1..Cardinality(P) |-> s[position[k]]]

(* listNotifications: newest first; the statistics ignore the filter.      *)
NewestFirst == [k \in NoticeRow |-> Len(notices) + 1 - k]
MatchingNotices(request) ==
    Selected(NewestFirst,
             {k \in NoticeRow :
                 /\ OfCategory(notices[NewestFirst[k]], request.category)
                 /\ request.unreadOnly => notices[NewestFirst[k]].status = 0})
listNotifications(request) ==
    LET found == MatchingNotices(request) IN
    [kind |-> "List", more |-> request.more,
     rows |-> SubSeq(found, request.offset + 1,
                     IF Len(found) < request.offset + PageSize THEN Len(found)
                     ELSE request.offset + PageSize),
     unread |-> UnreadCount(notices)]

\* Mutant: what is done can be read, processed or ignored again.
updateAnyNotificationStatus(i, action) ==
    /\ notices' = [notices EXCEPT ![i] =
           [notices[i] EXCEPT !.status = action, !.read = TRUE,
                              !.processed = @ \/ action = 2, !.ignored = @ \/ action = 3]]
    /\ noticeAudit' = [noticeAudit EXCEPT ![i] = Append(@, NoticeEvent(action, notices[i].status, action))]

(* updateNotificationStatus: a done notification stays done.               *)
updateNotificationStatus(i, action) ==
    LET previous == notices[i].status
        resulting == IF previous = 4 THEN 4 ELSE action IN
    /\ notices' = [notices EXCEPT ![i] =
           [notices[i] EXCEPT !.status = resulting, !.read = TRUE,
                              !.processed = @ \/ resulting = 2, !.ignored = @ \/ resulting = 3]]
    /\ noticeAudit' = [noticeAudit EXCEPT ![i] = Append(@, NoticeEvent(action, previous, resulting))]

(* markAllNotificationsRead: one statement.                                *)
ReadCandidates(category) == {i \in NoticeRow : notices[i].status = 0 /\ OfCategory(notices[i], category)}
markAllNotificationsRead(category) ==
    /\ notices' = [i \in NoticeRow |-> IF i \in ReadCandidates(category)
                                         THEN [notices[i] EXCEPT !.status = 1, !.read = TRUE] ELSE notices[i]]
    /\ noticeAudit' = [i \in NoticeRow |-> IF i \in ReadCandidates(category)
                                         THEN Append(noticeAudit[i], NoticeEvent(1, 0, 1)) ELSE noticeAudit[i]]

(* Another device of the same person.                                      *)
OtherDevice ==
    /\ \/ \E i \in NoticeRow, action \in 1..3 : updateNotificationStatus(i, action)
       \/ \E query \in NoticeQuery : markAllNotificationsRead(query[1])
    /\ badgeMayLag' = TRUE
    /\ UNCHANGED << noticeRequests, noticeAnswers, noticePage >>

NoticeAuditRoom == Len(FlattenSeq(noticeAudit')) <= MaxNoticeAudit

-----------------------------------------------------------------------------
(* The gateway's handlers, in the order of the frames.  A statement may    *)
(* fail, which changes nothing and answers an error.                       *)
AnswerNotice(answer) ==
    /\ noticeAnswers' = Append(noticeAnswers, answer)
    /\ noticeRequests' = Tail(noticeRequests)
    /\ badgeMayLag' = (answer.kind = "Failed" /\ badgeMayLag)
    /\ UNCHANGED noticePage

handleNotificationList ==
    LET request == Head(noticeRequests) IN
    /\ noticeRequests # << >> /\ request.kind = "List"
    /\ AnswerNotice(listNotifications(request))
    /\ UNCHANGED << notices, noticeAudit >>
handleNotificationStatus ==
    LET request == Head(noticeRequests) IN
    /\ noticeRequests # << >> /\ request.kind = "Status"
    /\ updateNotificationStatus(request.notification, request.action)
    /\ AnswerNotice([kind |-> "Status", unread |-> UnreadCount(notices')])
handleNotificationMarkAllRead ==
    LET request == Head(noticeRequests) IN
    /\ noticeRequests # << >> /\ request.kind = "AllRead"
    /\ markAllNotificationsRead(request.category)
    /\ AnswerNotice([kind |-> "AllRead", unread |-> UnreadCount(notices')])
NoticeRequestFails ==
    /\ noticeRequests # << >>
    /\ AnswerNotice([kind |-> "Failed"])
    /\ UNCHANGED << notices, noticeAudit >>

-----------------------------------------------------------------------------
(* The page.  initializeAuthenticatedSession and refreshCurrentSection ask *)
(* for the first page without a word to the members that loadNotifications *)
(* sets.                                                                   *)
Ask(request) ==
    /\ Len(noticeRequests) + Len(noticeAnswers) < MaxNoticeRequests
    /\ noticeRequests' = Append(noticeRequests, request)
ListRequest(category, unreadOnly, offset, more) ==
    [kind |-> "List", category |-> category, unreadOnly |-> unreadOnly, offset |-> offset, more |-> more]
TableUnchanged == UNCHANGED << notices, noticeAudit, badgeMayLag >>

refreshNotifications ==
    /\ Ask(ListRequest(0, FALSE, 0, FALSE))
    /\ TableUnchanged /\ UNCHANGED << noticeAnswers, noticePage >>

Queried(category, unreadOnly, offset) ==
    [noticePage EXCEPT !.category = category, !.unreadOnly = unreadOnly, !.offset = offset,
                       !.requestOffset = offset, !.nextOffset = offset, !.append = FALSE]
loadNotifications(category, unreadOnly, offset) ==
    /\ Ask(ListRequest(category, unreadOnly, offset, FALSE))
    /\ noticePage' = Queried(category, unreadOnly, offset)
    /\ TableUnchanged /\ UNCHANGED noticeAnswers

loadMoreNotifications ==
    /\ noticePage.hasMore
    /\ Ask(ListRequest(noticePage.category, noticePage.unreadOnly, noticePage.nextOffset, TRUE))
    /\ noticePage' = [noticePage EXCEPT !.append = TRUE, !.requestOffset = noticePage.nextOffset]
    /\ TableUnchanged /\ UNCHANGED noticeAnswers

markNotifications ==
    /\ \/ \E i \in ToSet(noticePage.rows) :
             Ask([kind |-> "Status", notification |-> i, action |-> 1])
       \/ \E query \in NoticeQuery : Ask([kind |-> "AllRead", category |-> query[1]])
    /\ TableUnchanged /\ UNCHANGED << noticeAnswers, noticePage >>

\* Mutant: a row that is shown is shown again.
AllRows(rows, received) == received

NewRows(rows, received) ==
    Selected(received, {k \in DOMAIN received : received[k] \notin ToSet(rows)})
Clamped(offset) == IF offset > LastOffset THEN LastOffset ELSE offset
notificationListReady ==
    LET answer == Head(noticeAnswers)
        kept == IF noticePage.append THEN noticePage.rows ELSE << >> IN
    /\ noticeAnswers # << >> /\ answer.kind = "List"
    /\ noticeAnswers' = Tail(noticeAnswers)
    /\ noticePage' = [noticePage EXCEPT
           !.rows = kept \o NewRows(kept, answer.rows),
           !.hasMore = Len(answer.rows) >= PageSize,
           !.nextOffset = Clamped(noticePage.requestOffset + Len(answer.rows)),
           !.append = FALSE, !.badge = answer.unread]
    /\ TableUnchanged /\ UNCHANGED noticeRequests

(* notificationStatusUpdated, notificationAllRead: the list is asked again.*)
notificationChanged ==
    LET answer == Head(noticeAnswers) IN
    /\ noticeAnswers # << >> /\ answer.kind \in {"Status", "AllRead"}
    /\ noticeAnswers' = Tail(noticeAnswers)
    /\ noticePage' = [Queried(noticePage.category, noticePage.unreadOnly, noticePage.offset)
                        EXCEPT !.badge = answer.unread]
    /\ noticeRequests' = Append(noticeRequests,
           ListRequest(noticePage.category, noticePage.unreadOnly, noticePage.offset, FALSE))
    /\ TableUnchanged

notificationOperationFailed ==
    /\ noticeAnswers # << >> /\ Head(noticeAnswers).kind = "Failed"
    /\ noticeAnswers' = Tail(noticeAnswers)
    /\ TableUnchanged /\ UNCHANGED << noticeRequests, noticePage >>

-----------------------------------------------------------------------------
NoticesInit ==
    /\ notices = << >> /\ noticeAudit = << >>
    /\ noticeRequests = << ListRequest(0, FALSE, 0, FALSE) >> /\ noticeAnswers = << >>
    /\ noticePage = [rows |-> << >>, category |-> 0, unreadOnly |-> FALSE, offset |-> 0,
                     requestOffset |-> 0, nextOffset |-> 0, append |-> FALSE,
                     hasMore |-> FALSE, badge |-> 0]
    /\ badgeMayLag = TRUE

NoticesNext ==
    \/ \E category \in NoticeCategory, status \in {0, 4} : InsertNotice(category, status)
    \/ OtherDevice /\ NoticeAuditRoom
    \/ handleNotificationList
    \/ handleNotificationStatus /\ NoticeAuditRoom
    \/ handleNotificationMarkAllRead /\ NoticeAuditRoom
    \/ NoticeRequestFails
    \/ refreshNotifications
    \/ \E query \in NoticeQuery : loadNotifications(query[1], query[2], 0)
    \/ loadMoreNotifications
    \/ markNotifications
    \/ notificationListReady
    \/ notificationChanged
    \/ notificationOperationFailed
NoticesSpec == NoticesInit /\ [][NoticesNext]_noticeVars

-----------------------------------------------------------------------------
(* A row and its audit tell one story, whichever device changed it and     *)
(* singly or with all the others: each entry starts where the one before   *)
(* it ended, the last ends in the stored status, what is done stays done,  *)
(* and exactly the unread ones were never read.                            *)
NoticesHaveOneHistory ==
    \A i \in NoticeRow :
        LET events == noticeAudit[i] IN
        /\ \A k \in DOMAIN events : k > 1 => events[k].from = events[k - 1].to
        /\ events # << >> => events[Len(events)].to = notices[i].status
        /\ \A k \in DOMAIN events : events[k].from = 4 => events[k].to = 4
        /\ notices[i].read <=> notices[i].status # 0
        /\ \A k \in DOMAIN events : events[k].to = 2 => notices[i].processed

(* Paging shows no notification twice, although new ones push the older    *)
(* ones to the next page; and with nothing under way the badge is the      *)
(* number of unread notifications, whatever filter the page shows, unless  *)
(* somebody else changed one since.                                        *)
PageIsConsistent ==
    /\ \A j, k \in DOMAIN noticePage.rows : noticePage.rows[j] = noticePage.rows[k] => j = k
    /\ noticeRequests = << >> /\ noticeAnswers = << >> /\ ~badgeMayLag
          => noticePage.badge = UnreadCount(notices)
=============================================================================
