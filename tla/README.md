# OrgLink Secure IM: models, checks and proofs

TLA+ models of the server, the shipped client and the protocol of OrgLink Secure IM, the TLC
configurations that check them on small instances, and TLAPS proofs of what matters most for
every instance: every safety property of the runs except what the decoders make of a message.
Paths are relative to the repository root (`apps/...`, `libs/...`, `database/...`); definitions
keep the names of the code.

## 1. The system

| Part | State | Operations | Talks to |
|---|---|---|---|
| Message store: `PostgresRuntimeStore` over `database/migrations` | `messages`, `conversations.last_message_sequence`, `conversation_members` (watermarks, `left_at_utc`), `message_outbox`, `message_receipts` | `submitMessage`, `completeFileUpload`, `pendingMessages`, `markDelivered`, `markRead`, join and leave | called by the gateway, one transaction per call |
| Gateway: `GatewayServer` | `connections_`, `onlinePeople_`, socket buffers | accept, login (kicks the older session), send, upload, download, receipts, queries, idle close | clients over TLS frames; store; object store; conference provider |
| Object store: `MinioObjectStore` | objects by storage key | `put`, `get`, `remove`, each waiting in a nested event loop | gateway |
| Client: `QmlClientBackend` on `NetworkClient`/`NetworkWorker` | socket, timers, `busy_`, `authenticated_`, current conversation, message list, settings, notification page | login, receive, confirm, open, send, upload, heartbeat, edit, page | gateway |
| Groups | `chat_groups`, `group_members` with roles, `conversation_members` | create, join, add, remove, grant, revoke, pin | store; several gateways through row locks |
| Presence | online table, `presence_history` | broadcast at login and at removal | gateway, store |
| Calendar, file centre, contacts, settings | rows with a revision and an audit table each | read, update with the revision read, reset, cancel, recycle, share | store, gateway; administration (files) |
| Notifications | `user_notifications` and its audit | list, status, mark all read | store; business systems insert |
| Direct conversations and conferences | `direct_conversations`, `conference_rooms` | find or make under an advisory lock, leave | store, LiveKit, client page |
| Directory: triggers of `004_directory_delta.sql`, `loadDirectorySnapshot`, `loadDirectoryDelta`, `LocalDirectoryRepository` | departments, persons, assignments, revision and change log; the client's copy | edits by the web administration, the command line and migrations; snapshot, delta, presence push | admin service and store write, gateway answers, client asks |
| Admin service: `AdminHttpServer`, `PostgresAdminRepository` | accounts, `administrator_web_sessions`, revisions of departments and persons | login, reset a password, edit people, departments and files | database |
| Protocol: `libs/protocol` | `FrameDecoder` buffer | append, decode, encode | both ends |
| Widget client, migrator, organisation library | local messages, schema versions, snapshot | the older front end, migrations, queries | |

What is hard about it:

- one event loop runs all handlers of the server, but the sockets around it close at their own
  pace: a kicked session may drain its output long after the new one took over;
- an upload waits for the object store in a *nested* event loop (`MinioObjectStore.cpp:54-63`),
  so any other handler, another upload and the removal of its own connection run inside it;
- the process may die after a commit and before the frames that announce it; a commit's answer
  may be lost; the object store and the database are changed one after the other;
- delivery rests on one number per member and conversation: whatever the delivered watermark
  covers is never sent again, so it must never pass a message that did not arrive;
- several devices, the administration and several gateways change one row: revisions, row locks
  and advisory locks order them, and what a transaction read before it waited may be old;
- a client's timers, queued signals and answers race with the next login and the next edit.

What makes each part correct is listed with the properties in section 3, and every hazard with
its line in `PROJECT.json`.

## 2. The modules

```
ConversationLog            what the store promises: one append-only log per conversation
   ^ implemented by (MessageStoreLog: refinement mapping, proved in MessageStore_proofs)
MessageStore               the tables, one action per store call
   ^ EXTENDS, and makes its calls (SubmissionsAreCalls)
Submissions                submitMessage as its statements, several gateways on one database

MessageStore
   ^ EXTENDS
Gateway                    connections, the online table, the handlers; UsesStoreAsSpecified
   ^ EXTENDS
QmlMessaging               the shipped client on every device

FileUpload                 task, asset, object and the upload handler
DirectorySync              the directory's tables, its log, the answers and the client's copy

People                     who is enabled, and in which organization
   ^ EXTENDS
Calendar, FileCenter, GroupMembership, Rooms, Contacts, Administration
Presence                   online table, pushed snapshots, presence rows
Notices, Settings          a table of the server with the client's page in front of it

LoginSession               login form, worker, timers and socket
WireTypes                  what the wire tables are written with
   ^ ChatMessages, OfficeMessages     members, encoder and decoder of every message
      ^ ApplicationMessages           all of them by message number
         ^ Codec                      what encoders and decoders do with them
FrameStream                           frames in a stream of bytes, of any messages
MessageStream                         the messages of Codec on a FrameStream

MessageStore_proofs, Gateway_proofs, FileUpload_proofs, DirectorySync_proofs,
FrameStream_proofs         theorems about the module of that name
QmlMessaging_proofs        gateway and clients together, over Gateway_proofs
Records_proofs             GroupMembership, Rooms, Calendar, FileCenter, Contacts,
                           Administration, Presence
Client_proofs              Settings, Notices, LoginSession
MC*                        instances for TLC
```

**MessageStore.** A row of `messages` is a record; a server message id stands for one row, so
receipts name it by conversation and sequence. Every action is one transaction that locks the
conversation or group row, hence one step. The retry of an accepted message writes nothing and
is a stuttering step. Watermark, receipt and outbox row change together, as in the code.
Text, encryption and time are left out; `ORDER BY created_at_utc, id` is any order that keeps
the sequences of one conversation.

**Submissions.** The transactions of several gateway processes under way, each a record with the
step it has reached; PostgreSQL's default isolation, so that every statement sees what is committed
when it begins. The lookup of the key comes before the row lock (`BeginSubmission`), the member row
is the one committed when the locking statement begins and not when it gets the row
(`FindConversation`, `LockConversation`), the UNIQUE constraints refuse or wait (`RowIsFree`), and a
new member row waits for the lock through its foreign key (`JoinBeside`) while one that is revived or
left does not. Receipts are one step here as in MessageStore.

**Gateway.** `phase` follows a socket from acceptance to `removeConnection`; `toServer` and
`toClient` hold the frames in flight, and `Transmit` is `sendFrame` with its output limit. A
handler with its transaction and all its frames is one action. `handleFileUpload` is two:
`BeginUpload` pushes the call on the stack `uploads`, `FinishUpload` resumes the newest one,
because nested event loops return in the reverse order. When the connection was removed while
its upload waited, the handler reads freed memory: the outcomes are the old identity, a refused
file, or the death of the process. A crash may fall between the commit of a message or a receipt
and its frames (`Commit`, `Record`), and a COMMIT whose answer is lost is answered as a failure:
a receipt may be recorded and routed to nobody. The object store's own nested loop in the
compensation of a failed upload is in FileUpload; here `FinishUpload` is one step. `BeginUpload` does not look into the transfer task, so that
a key whose upload was given up (`failFileUpload`) may succeed in this module where the code
answers 40006; FileUpload has that detail. `AnyClient` writes any of `FramesOf`
in any order; an incoming frame with a stale session id is answered like one before the login
and is not distinguished.

**QmlMessaging.** `SignIn` is `connectAndLogin`, `Receive` is `dispatchFrame` with the slots the
backend connects to it, `Confirmations` the receipts those slots send in their order,
`LoseLink` every way a socket ends (disconnect, timeout, heartbeat, network). The client sends
each typed message once, with a new uuid, and never again. Pages that only show data are left
out.

**FileUpload.** The uploads of one person. A task and its asset are one record per client
message id; `handlers` is the stack of suspended calls; `Land` is the moment a `put` or a
`remove` takes effect at the object store, before the answer or in spite of a timeout.
`CompensateUpload` covers every failure of `completeFileUpload`, a lost answer to COMMIT
included. An upload that lands only after its handler has given up is not modelled.

**DirectorySync.** One organisation and one client of it. A row is its other columns (`name`),
`enabled` and its references; parents, positions and the organisation's own row are left out.
Every writer is one SQL statement with its triggers: `Write` sets the rows and appends the log
entries in the order the code writes them, first the entry the administration's statement logs
itself, then those of the triggers. `history` is a ghost: what the tables held at each committed
revision. An answer is one repeatable-read transaction; `BroadcastPresenceSnapshots` pushes a
snapshot nobody asked for. The client's copy is the cache of `LocalDirectoryRepository`, which
asks from its own revision; the shipped QML client shows snapshots and always asks from 0, the
other choice of `Synchronize`. The row revisions of the administration's optimistic edits are
in `Administration`.

**Calendar, FileCenter, Contacts.** A request is one transaction that locks its row, checks the
revision the device expects and writes row and audit; a device may expect any revision it was
ever shown, and what is refused is a stuttering step. Columns that travel together are one value
(the title of an event stands for its times, texts and reminder). The lists and details are
operators over the tables, so that the properties can say what people see; the contact centre's
three SELECTs, each its own snapshot in the code, see one state, and their LIMITs are left out.
The administration's
file statements are two steps: `BeginAdministration` reads the shares, `ApplyAdministration` has
the document's lock.

**GroupMembership, Rooms.** Here two gateways share the database. `MaxPersonIds` bounds the people
of a request, 500, and the members a new group is created with, one fewer. `joinGroup` and
`updateGroupMembers` queue for the row lock of the group with the role they read before
(`BeginMemberUpdate`), and `CommitStatement` goes on with it. `getOrCreateDirectConversation`
and `joinConference` are three steps: the first read, the advisory lock with the lookup, the
insert. `CURRENT_TIMESTAMP` is when the transaction began: a room that expires meanwhile still
counts as alive.

**Administration.** One request of `AdminHttpServer` is one statement. A browser shows pages
that may be old (`page`) and edits with the revision shown. A password is the number of its
resets; `wrongGuesses` and `quarters` are ghosts that count what somebody who guesses it was
told. `authenticate` is the gateway's login on the same accounts. What the commands of
the server's host write is left out: `bootstrapInitialAdministrator` (`PostgresRuntimeStore.cpp:639`),
run again with another name, renames the first administrator without a new row revision, so that
a page opened before may still overwrite the name. `EditsFollowWhatIsShown` is about browsers.

**Presence.** The gateway's event loop with sockets of two people. A removal may run inside the
handler that closes the socket or later; every call of the store may fail; a crash loses the
online table and leaves the rows. `shown` is what the last snapshot on a socket said.

**Notices, Settings.** The server's table, the frames both ways in order, and the members of
`QmlClientBackend`: `noticePage` with its offsets and the rows shown, `remoteSettings` (edited
and sent) and `confirmedSettings` (shown). Other devices and business systems change the table;
a login of one device cuts the other one off.

**LoginSession.** Three threads of control: the backend with `busy_`, the queue of calls and
signals, and the worker with its login and handshake timers, its heartbeat, and the socket that
the next login replaces. The link may die without a sign, and the server may answer late.

**Codec.** A byte string is a sequence of tokens (one per field: number, wire type,
value or length); a text is its length. Integers keep their widths, scaled so that TLC can count
them (`Word` for 2^32, `Wide` for 2^64). `ChatMessages` and `OfficeMessages` list per message
its members with their defaults, the field numbers its encoder writes, and the rule and limit
its decoder reads each number with.

**FrameStream, MessageStream.** `FrameStream` knows bytes only as units `<<frame, k>>`, and leaves
what a message is, how it is encoded and what its body decodes to as operator constants;
`MessageStream` fills them in from `Codec`. `readAvailable` takes any number of units off the wire
and does what `FrameDecoder::append` and the loop around it do: `CutOff` is where the front of the
buffer stops being whole good frames, `HeaderRefused` and `BodyRefused` what stands there when an
exception ends the call, and `DispatchLoop` stops at the first body that cannot be decoded. An
error closes the reading end; the frames cut off before it in the same call are lost. The
gateway's `consumeRateBudget` is a choice: any number of the frames of a read may be dispatched,
and the one above it closes the reading end too. The client has no such budget.

## 3. What is checked

Every bound is a constant named in the module that uses it. A module of services starts from
empty tables.

| Run | Instance | Shows |
|---|---|---|
| `message_store` | 2 people, 3 devices, 2 conversations, 1 client message id; 2 gateways in the behaviours that take submissions statement by statement | any calls in any order: `SequencesAreDense`, `OneMessagePerKey`, `ReceiptsFollowWatermarks`, the refinement `ImplementsConversationLog`, and `SubmissionsAreCalls` |
| `gateway` | alice with one socket, bob with two; a text and a file; failing store, output limit | `OneSessionPerPerson` through kicks and late closes; `AcknowledgedIsStored`; `PushesComeInSequence`; `RoutedReceiptsAreRecorded`; `UsesStoreAsSpecified` |
| `gateway_groups` | the same people, joining and leaving | `PushesStayInTheGroup` for live and replayed pushes |
| `chat` | two clients end to end, crashes, lost links, within the replay limit | `WatermarkNeverSkips`, `SessionsAgree` |
| `arrival` | the same with fairness | `WaitingMessagesArrive`, `TextsAreConfirmed` |
| `records` | 4 people in 2 organizations, one of them disabled and enabled again; one event, document and group; 2 gateways on the rooms; 2 browsers; 3 sockets | `CalendarsAgree`, `DocumentsAgree`, `GroupsAgree`, `MeetingPlacesAgree`, `ContactsAgree`, `GuessesAreLimited`, `SessionsKnowThePassword`, `EditsFollowWhatIsShown`, `SnapshotsShowWhoIsOnline`, `PresenceRowsFollow` |
| `client` | uploads: 2 keys, a chat and the file centre, 2 contents, 2 nested handlers; 2 notifications in pages of one; 2 devices with settings | `UploadsAgree`, `ConfirmedIsVisible`; `NoticesHaveOneHistory`, `PageIsConsistent`; `SettingsHaveOneHistory`, `OthersAreNotOverwritten`, `ShownSettingsAdvance` |
| `connection` | every message with its largest, distinct, default and too long values; 3 frames in chunks of any size over 2 connections, one kind of them damaged; 3 logins; a directory of 2 departments, people and assignments, 6 revisions, deltas of at most 4 entries | `DecodesWhatWasSent`, `FramesArriveWhole`; `LoginsAgree`, `LoginsEnd`; `CopiesAreRevisions`, `OfferedDeltasApply`, `SynchronizationEnds` |

`records`, `client` and `connection` each hold several modules that share no variable, except
that the services of `records` read the persons' rows, which any service's behaviour may change.
A behaviour runs one of them and the others stay in their initial states, so that the states add
up instead of multiplying; because nothing is shared, no interleaving of two of them is lost.
The definitions named `Few...` in the MC modules keep one of them small and say how.

What the composed properties say: `ReceiptsFollowWatermarks` is the order of the watermarks,
that they stand on receipts, and that outbox and receipts agree; `UploadsAgree` one file per
key, never given up once visible, and no object with another content than its asset;
`CalendarsAgree`, `DocumentsAgree`, `GroupsAgree` and `MeetingPlacesAgree` are each the history
of a row with its audit and what people are shown of it. The parts are defined beside them.

A behaviour of `message_store` takes the calls as one step each or as statements. Conversations and
gateway processes are interchangeable there (`SYMMETRY`); `FewStatements` keeps the statements small
and says how. `SubmissionsAreCalls` excepts one thing, which the tables show: who joins or leaves
while a submission is open is read by some of its statements and not by others, so that somebody
who has just left may still send, and somebody who came back may be missing from the outbox. That
two gateways get the same key past the lookup costs the loser an error answer for a message that
is stored; its retry finds it.

Why the bounds are enough: the rules of one conversation never look at another except through
the key of a message, so two conversations show every collision; three devices give the same
client message id to two devices of one person and to another person. Two sockets of one person
are the old and the new session; a third repeats the second. Two nested handlers show an inner
and an outer upload, of the same key or of two. `MaxSequence` 2 has a message below and one above
a watermark. Six directory revisions hold the longest statement (4 entries) after or before
another one, a row disabled and enabled again in one window, and a window one entry longer than
a delta may be; two frames are a push that overtakes an answer. Three revisions of a row are one
the device has, one it missed, and one written over it; the document's four are a share, its
revocation and a share again. Seven guesses are the lock, its end, and one more. Three logins
are one given up, its successor, and a late signal of the first. Three frames are a good one
before, at and behind a broken one. The message values take every limit at its value and one
above it.

Four runs show where the code and its documents or comments disagree. In each TLC finds the
property violated by what the code does:

| Run | Property | What happens |
|---|---|---|
| `store_fails` | `WatermarkNeverSkips` | after a lost commit answer or a failed replay, the next confirmed message moves the watermark over one that never arrived |
| `nested_handler` | `HandlerKeepsItsConnection` | a connection is removed while its upload handler is suspended |
| `file_lost` | `VisibleFileKeepsObject` | the object of a visible file is removed by a compensation |
| `calendar_unreadable` | `CalendarsStayReadable` | 64 guests and the organizer are 65 participants, above the limit at which the list fails (`docs/calendar-center.md:25`) |

`WatermarkNeverSkips` has two more causes outside the instance of `chat`: more than 500 waiting
messages at one login (`PendingLimit`; `docs/test-report.md` admits the limit), and a
member who joins while online, whose watermark 0 is passed by the first live message.

The models also have these, without a run of their own, because they follow from a line or two
or because no document says what should happen:

- with the conversation open, the client confirms reading before delivery, and the server
  refuses the read receipt (`QmlClientBackend.cpp:465-467`; the comment at
  `PostgresRuntimeStore.cpp:4008` expects the other order); a file message is never confirmed
  (`:471-479`), is replayed until a later text is, and counts as unread;
- a presence row never expires (`PostgresRuntimeStore.cpp:862`), so that a crash leaves people
  online in the contact lists; `docs/organization-domain.md:48` wants an expiry;
- a refused settings request leaves the edit in `remoteSettings_`, and the next accepted one
  carries it along (`Settings!SettingsFailed`);
- an answer to a notification page does not name its query: one that was asked for before the
  filter changed is shown until the next one comes (`Notices!notificationListReady`);
- a frame that cannot be decoded drops the good frames that came in the same read
  (`GatewayServer.cpp:229`, `FrameStream!readAvailable`);
- a zero member whose default is not zero is omitted and arrives as the default: a reminder of 0
  minutes becomes 15 (`ApplicationMessages.h:1101`).

**Fairness.** `QmlMessaging!Fairness` (run `arrival`): the server's event loop keeps
dispatching buffered frames and finishing sockets that were told to close; every call of the
object store returns, because `waitForReply` has a timeout; a client's event loop keeps reading
and notices a closed socket. Nothing is assumed of people (nobody has to sign in, send or open
a conversation), and a link may break at any time. Nested uploads return newest first, so that
a steady stream of uploads could keep the oldest waiting for ever; the instances have finitely
many uploads. In `connection`: of the gateway's event loop that a directory request that waits
is handled, and of the client's that a frame that waits is read (`FairDirectorySpec`); of the
client's threads that a queued call and a queued signal are taken, and of Qt that the login
timer and the heartbeat fire while they run (`LoginFairness`). Edits, pushes, dying links,
servers that never answer and lost connections may go on as they like.

Deadlock is not checked where the bounds end a behaviour: when every socket was used, every key
sent and every frame read, nothing is left to do.

## 4. What is proved

`MessageStore_proofs`, for any finite or infinite sets of people, devices, conversations and
client message ids and any bound, from `OwnerAssumption` and `MaxSequenceAssumption` alone:

- `TypeIsCorrect`;
- `NumberingIsDense` and `SendingIsIdempotent`;
- `WatermarksAreSound`: `ReceiptsFollowWatermarks`;
- `HistoryIsNeverRewritten`: `HistoryOnlyGrows` (proved and not run).

The argument is one inductive invariant, `StoreInvariant`, the conjunction of the state
properties and of what they need from each other: that a receipt's message exists needs
messages never to be removed; that a watermark stays below the counter needs the anchor of a
receipt to lie below it, which is what density says. The proof has one lemma per action and
under it one step per conjunct the action can disturb.

The module also proves `StoreImplementsLog`: initial states map to initial states,
and under `StoreInvariant` every step maps to a step or a stutter of `ConversationLog`; density
is what makes the CHOOSE of the row at a sequence well defined.

Of `Submissions`, for any number of gateway processes, it proves

- `StatementsMakeCalls`: `SubmissionsAreCalls`, so that taking `submitMessage` as one step, which
  every module above rests on, loses only the members who come or go meanwhile;
- `GatewaysShareTheStore`: numbering, idempotence and watermarks at every commit;
- `SubmissionsImplementLog`, members who come or go included.

What a submission looked up may be old when it commits; `SubmissionInvariant` is what it may rely
on: one transaction has the row of a conversation (`LocksExclude`) and the next number with it
(`NumbersAreNext`), an inserted key is nobody else's (`KeysAreHeld`, which is the UNIQUE constraint
and not the lookup), and an upload has its transfer task to itself (`UploadsExclude`).

`Gateway_proofs`, for any sets of people, sockets and messages, any limits, any frames clients
write in any order, and with or without failing stores and changing groups, from the assumptions
of `Gateway` and `MessageStore`:

- `GatewayTypeIsCorrect`, `EverybodyHasOneSession`, `SocketsOnlyAge`;
- `AcknowledgementsTellTheTruth` and `RoutedReceiptsTellTheTruth`;
- `PushesAreInSequence` and `OnlyMembersArePushedTo`;
- `GatewayUsesStoreAsSpecified`: `GatewaySpec` implements `StoreSpec`, so that the theorems
  above hold of the tables behind a gateway.

The inductive invariant `GatewayInvariant` adds to `StoreInvariant` what the frames need: input
of the protocol's shape (`InputOK`), output of which every frame is true of the tables
(`OutputOK`: truth survives because tables only grow), and that a socket without a login has no
pushes (`PushesOK`: the replay starts on an empty socket, and what is committed later carries a
higher sequence, by density). That a replay has an end needs the messages to be finitely many.
Lemmas say what `sendFrame` keeps for any frames it is given, and each handler is one of them.

`FileUpload_proofs`, for any keys, chats, contents, requests, quota and depth of nesting:

- `UploadTypeIsCorrect`;
- `UploadsAreIdempotent`: `UploadsAgree`;
- `FilesAreWhatWasConfirmed`: `ConfirmedIsVisible`.

The invariant adds that a suspended handler's task exists and has the content the handler
checked (`HandlersHaveTasks`), which survives everything that runs inside its nested loop
because a transaction never takes back a target, a content or a file (`Advances`). One lemma,
`AdvancingKeepsInvariant`, carries every step that only advances tasks.

`DirectorySync_proofs`, for any sets of rows, any limits and any names, from the assumptions of
`DirectorySync`:

- `DirectoryTypeIsCorrect`;
- `CopiesAreTrue`: `CopiesAreRevisions`;
- `OfferedDeltasAreApplicable`: `OfferedDeltasApply`.

The invariant says of the tables that every difference to an earlier committed revision was
logged since (`ChangesAreLogged`), and that a DISABLED entry comes in one statement with an entry
`directoryChangeType` does not know (`DisablingIsAdminEdit`), so that a window with a DISABLED
entry is never offered as a delta; of a delta under way, that it lists every difference between
its two revisions with the rows of the later one (`DeltaIsTrue`). `WritersAreSound` shows each
writer to be a statement that names what it changes; three lemmas say what such a statement
keeps. `MergeReaches` is the client's side: merging a true delta gives the later revision.

`QmlMessaging_proofs`, for any devices, sockets and limits:

- `QmlMessagingIsCorrect`, with `GatewayHoldsWithTheseClients` and `WholeUsesStoreAsSpecified`:
  what is proved of the gateway with clients that write what they like holds with the clients
  that are shipped;
- `SessionsAlwaysAgree`: `SessionsAgree`;
- `WatermarksNeverSkip`: `WatermarkNeverSkips`.

`SessionsAgree` is not inductive: nothing in it says which answer a client is going to read.
`LinksOK` says that a socket is asked for a login once, that a success is on the wire only of a
socket that has or had a session and then no refusal is, and that a client believes in its
session only after such an answer. `WatermarkNeverSkips` follows from `DeliveryOK`: who is
online has received every message of the conversations joined or finds it among the frames not
read yet (`OnlineGetsAll`); a receipt on its way stands for everything up to its number
(`ReceiptsCover`), which holds because pushes come in sequence and the client confirms what it
read last; and who reads a push is a member (`PushesToMembers`), so that the confirmation counts.
The theorem has three hypotheses, each the boundary of the guarantee and each with an instance
beyond it: `~StoreFails` (run `store_fails` shows the skip when the store fails), `~GroupsChange`
(a member who joins while online skips what was said before) and `[]BacklogFits` (a login
replays `PendingLimit` messages, 500 in the code). The run `chat` is an instance of all three.
Kicked sessions, full output buffers, broken links and crashes are within it.

`FrameStream_proofs`, for any messages, any encoder and decoder, any frame header and any number
of frames and connections, from `FrameStreamAssumption` alone:

- `StreamTypeIsCorrect`;
- `FramesAlwaysArriveWhole`: `FramesArriveWhole`.

The invariant is the property with two more parts: dispatched records are of frames sent
(`RecordsAreOfFrames`), and every frame of this connection before what is coming is undamaged
while the end reads (`GoodSoFar`). What is coming is a run of units, each the successor of the one
before; `RunIsOrdered` and `RunCovers` say that the frame numbers on such a run never fall and
leave none out, `CutsBetweenFrames` and `RestHoldsNoFrame` that the cut lies between two frames
and leaves no whole one behind it. They need a least counterexample, which the order of the
natural numbers gives (`LeastNumber`), and no induction.

`Records_proofs`, for any people, organizations, gateways, browsers, sockets and bounds:

- `GroupsAlwaysAgree`: `GroupsAgree`. `StatementsAreSound` says what a statement that waits for
  the row lock may still assume of what it read: the owner is not among those it removes or
  whose role it changes, and who joins is of the owner's organization. Both stay true while it
  waits; that its author still has the role does not;
- `MeetingPlacesAlwaysAgree`: `MeetingPlacesAgree`. Two calls that hold a lock hold different
  ones (`LocksExclude`), and what the holder did not find is still not there
  (`NothingToFind`), because only a holder inserts;
- `CalendarsAlwaysAgree`, `DocumentsAlwaysAgree`, `ContactsAlwaysAgree`: one history per row, one
  audit entry per revision, and what the lists and details make of it; of documents also that
  a person has one active share of each (`SharesAreSound`), or a revocation would leave another
  one behind;
- `GuessesAreAlwaysLimited` (`GuessesAreCounted`: an account that is not locked has a guess
  left), `SessionsAlwaysKnowThePassword` (`SessionsAreRevoked`, which also speaks of the disabled,
  who may come back), `EditsAlwaysFollowWhatIsShown` (`PagesShowOldRows`: a page never shows
  another row of the same revision, so that the revision stands for the row);
- `SnapshotsAlwaysShowWhoIsOnline` and `PresenceRowsAlwaysFollow`, both by way of the online table
  (`TableHoldsSockets`, `SnapshotsShowTheTable`, `RowsShowTheTable`): snapshots and rows follow
  the table, and the table lags behind the sockets only by those that are closing.

`Client_proofs`, for any devices, notifications, page sizes, filters and numbers of logins:

- `SettingsAlwaysHaveOneHistory`, and the action properties `OthersAreNeverOverwritten` and
  `ShownSettingsAlwaysAdvance`. The invariant follows a profile through its request and its
  answer: a request is based on a profile that was stored (`RequestsHaveABasis`), and the answers
  under way come in the order of their revisions, none older than what is shown
  (`AnswersAdvance`); two profiles of one revision are one (`StoredOnce`);
- `NoticesAlwaysHaveOneHistory` and `PagesAreAlwaysConsistent`. The last answer under way that is
  no failure carries the number of unread notices, and the badge has it when there is none
  (`BadgeFollows`). `Ordered` and `SelectedIsDistinct` are the lemmas about `Selected`: the order
  it chooses exists, and what is selected repeats nothing;
- `LoginsAlwaysAgree`. Calls wait in the order of the logins (`CallsAreNew`), and `WorkerIsSound`
  lists the phases of the worker: of the three ways to be without a login under way only a
  refusal leaves the socket open, and then its failure was reported.

The type invariants of `Gateway`, `FileUpload` and `DirectorySync` and the action property
`ConnectionsOnlyAge` (a socket that was kicked, closed or lost is never brought back,
`SocketsOnlyAge`) are proved and not run: the theorems say more than an instance would.

Assumptions on constants are those of the modules: what belongs to whom (`OwnerAssumption`,
`DeviceOfAssumption`, `ComposedOnAssumption`, `PeopleAssumption`), values that stand for none
(`NoConnectionAssumption`, `NoConversationAssumption`), and numbers for limits and bounds
(`LimitsAssumption`, `NoticesAssumption`, `LoginAssumption` and the like). TLC evaluates each in
the runs.

Only model-checked:

- `DecodesWhatWasSent`: the codecs are recursive over fields and nested messages, and the prover
  has no induction over data;
- the liveness properties `WaitingMessagesArrive`, `TextsAreConfirmed`, `LoginsEnd` and
  `SynchronizationEnds`: liveness under fairness is beyond the prover;
- the four properties the code violates.

## 5. What is left

- What members who join while online may rely on: `WatermarksNeverSkip` without `~GroupsChange`,
  for the messages after the join.
- `WatermarkNeverSkips` with several gateways: `Gateway` has one event loop, and `Submissions`
  shows what its store calls become with more of them, not what their sockets do.

## 6. Not modelled

- the widget client (`MessageController`, `LocalMessageRepository`, `MainWindow`): nothing
  reaches it, `main.cpp` starts the QML client;
- the in-memory store, a test double of the PostgreSQL store;
- history pages, the conversation list and other pages of the client that only show an answer;
- the detail queries of notifications, downloads' hash checks and records, the administration's
  reports and HTTP parsing: reads and formats without state;
- the migrator (one advisory lock around scripts run once), start-up and configuration;
- cycles of departments, positions and the organisation's own row: abstracted in DirectorySync;
- the organisation library (queries over a snapshot), views, list models, tray, deployment and
  the web front end; cryptography and TLS, which come from libraries.
