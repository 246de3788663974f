------------------------------ MODULE Gateway ------------------------------
(***************************************************************************)
(* The gateway (GatewayServer): its connections, the one online connection *)
(* of each person, and the message handlers, over the tables of            *)
(* MessageStore.  The server runs on one event loop, so a handler, with    *)
(* its store transaction and every frame it writes, is one step.  A file   *)
(* upload is the exception: while the object is written, a nested event    *)
(* loop runs other handlers.  What interleaves are the frames in flight,   *)
(* the sockets that close at their own pace, the suspended uploads, and a  *)
(* crash between the commit and the frames.                                *)
(*                                                                         *)
(* A connection stands for one accepted socket and is never used again.    *)
(* The frames of presence, directory, history and the other services are   *)
(* not in the channels; those handlers do not touch the state below.       *)
(***************************************************************************)
EXTENDS MessageStore, Sequences, SequencesExt

CONSTANTS
    Connection,           \* sockets ever accepted
    DeviceOf,             \* the device that opens a connection
    NoConnection,         \* no entry in onlinePeople_
    PendingLimit,         \* pendingMessages(personId, 500)
    MaximumQueuedOutput,  \* frames a socket may have unsent (MaximumQueuedOutputBytes)
    MaximumConnections,   \* configuration_.maximumConnections
    FramesOf,             \* the frames AnyClient writes into a socket
    StoreFails,           \* may a call of the store or of the object store fail?
    GroupsChange          \* do people join and leave conversations?

ASSUME DeviceOfAssumption == DeviceOf \in [Connection -> Device]
ASSUME NoConnectionAssumption == NoConnection \notin Connection
ASSUME LimitsAssumption == /\ PendingLimit \in Nat
                           /\ MaximumQueuedOutput \in Nat
                           /\ MaximumConnections \in Nat
                           /\ StoreFails \in BOOLEAN
                           /\ GroupsChange \in BOOLEAN

VARIABLES
    phase,         \* of a connection, see Phase
    onlinePeople,  \* the connection that receives a person's pushes
    toServer,      \* frames written by the client, not yet handled
    toClient,      \* frames written by the server, not yet read by the client
    uploads        \* stack of handleFileUpload calls waiting for the object store

gatewayVars == <<phase, onlinePeople, toServer, toClient, uploads>>
vars == <<storeVars, gatewayVars>>

\* none: not opened yet; open: accepted, not logged in; online: logged in;
\* closing: logged in and told to disconnect, output still draining; gone: removed.
Phase == {"none", "open", "online", "closing", "gone"}
Attached == {"open", "online", "closing"}

PersonAt(k) == OwnerOf[DeviceOf[k]]

-----------------------------------------------------------------------------
(* Frames.                                                                 *)

Login == [type |-> "login"]
Send(c, id, kind) == [type |-> "send", conversation |-> c, clientId |-> id, kind |-> kind]
Receipts(type, c, s) == [type |-> type, conversation |-> c, sequence |-> s]

SendFrame == {Send(c, id, kind) : c \in Conversation, id \in ClientMessageId, kind \in Kind}
ReceiptFrame == {Receipts(t, c, s) : t \in {"delivered", "read"}, c \in Conversation, s \in Sequence}
ClientFrame == {Login} \cup SendFrame \cup ReceiptFrame

\* A suspended call of handleFileUpload.
Upload == [connection : Connection, frame : SendFrame]

ASSUME FramesOfAssumption == FramesOf \in [Connection -> SUBSET ClientFrame]

LoginResponse(ok) == [type |-> "login", success |-> ok]
Acknowledgement(m) == [type |-> "ack", clientId |-> m.clientId,
                       conversation |-> m.conversation, sequence |-> m.sequence]
Failure(id) == [type |-> "failed", clientId |-> id]
Push(m) == [type |-> "push", conversation |-> m.conversation, sequence |-> m.sequence,
            kind |-> m.kind]
Routed(f, p) == [type |-> f.type, conversation |-> f.conversation, sequence |-> f.sequence,
                 person |-> p]
Error == [type |-> "error"]

-----------------------------------------------------------------------------
(* sendFrame.                                                              *)

\* A socket with too much unsent output loses the frame.
Written(unsent, frames) ==
    LET queue == unsent \o frames
    IN SubSeq(queue, 1, Min2(Len(queue), MaximumQueuedOutput))

\* Such a socket is closed; frames written to a closing socket still go out,
\* nothing goes to a removed one.
Transmit(out, current) ==
    /\ toClient' = [k \in Connection |->
         IF current[k] \in Attached THEN Written(toClient[k], out[k]) ELSE toClient[k]]
    /\ phase' = [k \in Connection |->
         IF /\ current[k] \in {"open", "online"}
            /\ Len(toClient[k]) + Len(out[k]) > MaximumQueuedOutput
           THEN IF current[k] = "online" THEN "closing" ELSE "gone"
           ELSE current[k]]

Nothing == [k \in Connection |-> <<>>]
Reply(k, frame) == [Nothing EXCEPT ![k] = <<frame>>]

\* Mutant: the push goes to whoever is online.
AnnounceToEveryone(k, m, recipients) ==
    [j \in Connection |->
        IF j = k THEN <<Acknowledgement(m)>>
        ELSE IF \E q \in Person : onlinePeople[q] = j THEN <<Push(m)>> ELSE <<>>]

\* The acknowledgement to the sender and a push to each recipient's online connection.
Announce(k, m, recipients) ==
    [j \in Connection |->
        IF j = k THEN <<Acknowledgement(m)>>
        ELSE IF \E q \in recipients : onlinePeople[q] = j THEN <<Push(m)>> ELSE <<>>]

-----------------------------------------------------------------------------
(* Connections.                                                            *)

GatewayInit ==
    /\ Init
    /\ phase = [k \in Connection |-> "none"]
    /\ onlinePeople = [p \in Person |-> NoConnection]
    /\ toServer = [k \in Connection |-> <<>>]
    /\ toClient = [k \in Connection |-> <<>>]
    /\ uploads = <<>>

\* acceptPendingConnections: refused at the limit.
Admitted(k) ==
    [phase EXCEPT ![k] =
        IF Cardinality({j \in Connection : phase[j] \in Attached}) < MaximumConnections
          THEN "open" ELSE "gone"]

\* A client connects and writes its first frames, if any.
Accept(k, frames) ==
    /\ phase[k] = "none"
    /\ phase' = Admitted(k)
    /\ toServer' = [toServer EXCEPT ![k] = IF phase'[k] = "open" THEN frames ELSE <<>>]
    /\ UNCHANGED <<storeVars, onlinePeople, toClient, uploads>>

\* Mutant: the person goes offline with any of the sockets.
RemovePerson(k) ==
    /\ phase[k] \in Attached
    /\ phase' = [phase EXCEPT ![k] = "gone"]
    /\ onlinePeople' = [onlinePeople EXCEPT ![PersonAt(k)] = NoConnection]
    /\ toServer' = [toServer EXCEPT ![k] = <<>>]
    /\ UNCHANGED <<storeVars, toClient, uploads>>

\* removeConnection, on the disconnected signal: the person goes offline only if
\* this socket is still the one in onlinePeople_.
RemoveConnection(k) ==
    /\ phase[k] \in Attached
    /\ phase' = [phase EXCEPT ![k] = "gone"]
    /\ onlinePeople' = [p \in Person |-> IF onlinePeople[p] = k THEN NoConnection
                                         ELSE onlinePeople[p]]
    /\ toServer' = [toServer EXCEPT ![k] = <<>>]
    /\ UNCHANGED <<storeVars, toClient, uploads>>

\* expireIdleConnections, the rate limit and a broken frame: disconnectFromHost.
\* A socket that never logged in has nothing to drain: RemoveConnection covers it.
BeginClose(k) ==
    /\ phase[k] = "online"
    /\ phase' = [phase EXCEPT ![k] = "closing"]
    /\ UNCHANGED <<storeVars, onlinePeople, toServer, toClient, uploads>>

\* The process dies: connections and the online table are lost, the tables stay.
Crash ==
    /\ \E k \in Connection : phase[k] \in Attached
    /\ phase' = [k \in Connection |-> IF phase[k] \in Attached THEN "gone" ELSE phase[k]]
    /\ onlinePeople' = [p \in Person |-> NoConnection]
    /\ toServer' = [k \in Connection |-> <<>>]
    /\ uploads' = <<>>
    /\ UNCHANGED toClient

-----------------------------------------------------------------------------
(* Handlers.  A frame that was read together with the one that closed the  *)
(* socket is still dispatched, hence "closing" below; readyRead is not     *)
(* emitted again for a socket whose handler is suspended.                  *)

Suspended == {uploads[i].connection : i \in DOMAIN uploads}

HasFrame(k) == phase[k] \in Attached /\ k \notin Suspended /\ toServer[k] # <<>>

Receives(k, type) == HasFrame(k) /\ Head(toServer[k]).type = type

\* Take the handled frame; what a removed connection had sent is lost.
Consume(k) ==
    toServer' = [j \in Connection |-> IF phase'[j] = "gone" THEN <<>>
                                      ELSE IF j = k THEN Tail(toServer[j]) ELSE toServer[j]]

\* ORDER BY created_at_utc, id: in sequence within a conversation; the order of
\* two conversations depends on the clock.
ReplayOrders(p) ==
    {o \in SetToSeqs(Pending(p)) :
        \A i, j \in DOMAIN o : /\ i < j
                               /\ o[i].conversation = o[j].conversation
                               => o[i].sequence < o[j].sequence}

\* Mutant: a login replays nothing.
NoReplay(p) == {<<>>}

\* What a login replays; a failed query looks like an empty result.
Replays(p) ==
    {[i \in 1..Min2(Len(o), PendingLimit) |-> Push(o[i])] : o \in ReplayOrders(p)}
        \cup (IF StoreFails THEN {<<>>} ELSE {})

\* handleLogin: the older connection of the person is told to disconnect, which
\* removes it at once or when its output has drained; the new one takes over.
HandleLogin(k) ==
    /\ Receives(k, "login")
    /\ phase[k] = "open"
    /\ LET p == PersonAt(k)
           old == onlinePeople[p]
       IN /\ \E kicked \in {"closing", "gone"}, replay \in Replays(p) :
               Transmit([Nothing EXCEPT ![k] = <<LoginResponse(TRUE)>> \o replay],
                        [j \in Connection |-> IF j = k THEN "online"
                                              ELSE IF j = old THEN kicked ELSE phase[j]])
          /\ onlinePeople' = [onlinePeople EXCEPT ![p] = k]
    /\ Consume(k)
    /\ UNCHANGED <<storeVars, uploads>>

RejectLogin(k) ==
    /\ Receives(k, "login")
    /\ phase[k] = "open"
    /\ Transmit(Reply(k, LoginResponse(FALSE)), phase)
    /\ Consume(k)
    /\ UNCHANGED <<storeVars, onlinePeople, uploads>>

\* dispatchFrame refuses everything else before the login, and a second login.
RefuseFrame(k) ==
    /\ HasFrame(k)
    /\ (Head(toServer[k]).type = "login") # (phase[k] = "open")
    /\ Transmit(Reply(k, Error), phase)
    /\ Consume(k)
    /\ UNCHANGED <<storeVars, onlinePeople, uploads>>

\* The row an earlier frame with this key left: a text is found by its device and
\* id, a file by its person, id and conversation.
Earlier(k, f) ==
    IF f.kind = "text" THEN Submitted(DeviceOf[k], f.clientId)
    ELSE {m \in Uploaded(PersonAt(k), f.clientId) : m.conversation = f.conversation}

\* Mutant: the row is inserted without looking for an earlier one.
CommitUnchecked(k, f) ==
    /\ membership[f.conversation][PersonAt(k)] = "active"
    /\ lastMessageSequence[f.conversation] < MaxSequence
    /\ InsertMessage(DeviceOf[k], f.conversation, f.clientId, f.kind)

\* The transaction behind a send frame: submitMessage or completeFileUpload.
Commit(k, f) ==
    \/ f.kind = "text" /\ SubmitMessage(DeviceOf[k], f.conversation, f.clientId)
    \/ f.kind = "file" /\ AcceptFileMessage(DeviceOf[k], f.conversation, f.clientId)

\* Mutant: the frames go out before the outcome of COMMIT is known.
AcceptedTooEarly(k, f) ==
    /\ Commit(k, f) \/ (CanSubmit(DeviceOf[k], f.conversation, f.clientId) /\ UNCHANGED storeVars)
    /\ LET m == [conversation |-> f.conversation, kind |-> f.kind, clientId |-> f.clientId,
                 sequence |-> lastMessageSequence[f.conversation] + 1]
       IN Transmit(Announce(k, m, Recipients(f.conversation, PersonAt(k))), phase)

\* A new message is committed: the sender hears of it, and so do the recipients.
Accepted(k, f) ==
    /\ Commit(k, f)
    /\ LET m == CHOOSE n \in messages' : n \notin messages
       IN Transmit(Announce(k, m, Recipients(f.conversation, PersonAt(k))), phase)

\* Mutant: a message that is sent again is pushed again.
AcceptedAgain(k, f) ==
    /\ \E m \in Earlier(k, f) :
          Transmit(Announce(k, m, Recipients(f.conversation, PersonAt(k))), phase)
    /\ UNCHANGED storeVars

\* The same key again: the first row is acknowledged, nobody is told a second time.
AcceptedBefore(k, f) ==
    /\ \E m \in Earlier(k, f) : Transmit(Reply(k, Acknowledgement(m)), phase)
    /\ UNCHANGED storeVars

\* Not a member, a key that some other message owns, or a failing store; a COMMIT
\* whose answer was lost is reported as a failure too, whichever way it went.
Refused(k, f) ==
    /\ \/ /\ \/ StoreFails
             \/ /\ Earlier(k, f) = {}
                /\ \/ membership[f.conversation][PersonAt(k)] # "active"
                   \/ Submitted(DeviceOf[k], f.clientId) # {}
                   \/ f.kind = "file" /\ Uploaded(PersonAt(k), f.clientId) # {}
          /\ UNCHANGED storeVars
       \/ StoreFails /\ Commit(k, f)
    /\ Transmit(Reply(k, Failure(f.clientId)), phase)

\* handleSendMessage; a file is refused here too when it is not even prepared.
Sends(k, kind) ==
    Receives(k, "send") /\ phase[k] # "open" /\ Head(toServer[k]).kind = kind

HandleSend(k) ==
    /\ Sends(k, "text")
    /\ LET f == Head(toServer[k]) IN Accepted(k, f) \/ AcceptedBefore(k, f) \/ Refused(k, f)
    /\ Consume(k)
    /\ UNCHANGED <<onlinePeople, uploads>>

\* handleFileUpload as far as the nested event loop of the object store: the
\* file is prepared, and the handler waits with a reference to its connection.
BeginUpload(k) ==
    /\ Sends(k, "file")
    /\ uploads' = Append(uploads, [connection |-> k, frame |-> Head(toServer[k])])
    /\ toServer' = [toServer EXCEPT ![k] = Tail(@)]
    /\ UNCHANGED <<storeVars, phase, onlinePeople, toClient>>

RefuseUpload(k) ==
    /\ Sends(k, "file")
    /\ UNCHANGED storeVars /\ Refused(k, Head(toServer[k]))
    /\ Consume(k)
    /\ UNCHANGED <<onlinePeople, uploads>>

\* The rest of handleFileUpload.  Nested event loops return in the reverse order.
\* If the connection was removed meanwhile its state is read after it was freed:
\* the old identity is still there, or it is not and the file is refused (or the
\* process dies, as it always may).
FinishUpload ==
    /\ uploads # <<>>
    /\ uploads' = Front(uploads)
    /\ LET k == Last(uploads).connection
           f == Last(uploads).frame
       IN \/ Accepted(k, f) \/ AcceptedBefore(k, f) \/ Refused(k, f)
          \/ phase[k] = "gone" /\ UNCHANGED <<storeVars, phase, toClient>>
    /\ UNCHANGED <<onlinePeople, toServer>>

\* The routed copy goes to the person who wrote the message, if online.
RouteReceipt(k, f) ==
    LET author == (CHOOSE m \in messages : /\ m.conversation = f.conversation
                                           /\ m.sequence = f.sequence).sender
        j == onlinePeople[author]
    IN Transmit(IF j = NoConnection THEN Nothing ELSE Reply(j, Routed(f, PersonAt(k))), phase)

\* Mutant: the receipt is routed although the store did not take it.
RouteUnrecorded(k) ==
    /\ Receives(k, "delivered") /\ phase[k] # "open"
    /\ LET f == Head(toServer[k])
       IN /\ Anchor(PersonAt(k), f.conversation, f.sequence) # {}
          /\ RouteReceipt(k, f)
    /\ Consume(k)
    /\ UNCHANGED <<storeVars, onlinePeople, uploads>>

\* handleDeliveryReceipt.  A receipt the store refused, or a COMMIT whose answer was
\* lost, is answered with an error and routed to nobody.
HandleDelivered(k) ==
    /\ Receives(k, "delivered") /\ phase[k] # "open"
    /\ LET f == Head(toServer[k])
       IN \/ /\ MarkDelivered(PersonAt(k), f.conversation, f.sequence)
             /\ RouteReceipt(k, f)
          \/ /\ \/ /\ Anchor(PersonAt(k), f.conversation, f.sequence) = {} \/ StoreFails
                   /\ UNCHANGED storeVars
                \/ StoreFails /\ MarkDelivered(PersonAt(k), f.conversation, f.sequence)
             /\ Transmit(Reply(k, Error), phase)
    /\ Consume(k)
    /\ UNCHANGED <<onlinePeople, uploads>>

\* handleReadReceipt.
HandleRead(k) ==
    /\ Receives(k, "read") /\ phase[k] # "open"
    /\ LET f == Head(toServer[k])
       IN \/ /\ MarkRead(PersonAt(k), f.conversation, f.sequence)
             /\ RouteReceipt(k, f)
          \/ /\ \/ /\ ~CanRead(PersonAt(k), f.conversation, f.sequence) \/ StoreFails
                   /\ UNCHANGED storeVars
                \/ StoreFails /\ MarkRead(PersonAt(k), f.conversation, f.sequence)
             /\ Transmit(Reply(k, Error), phase)
    /\ Consume(k)
    /\ UNCHANGED <<onlinePeople, uploads>>

\* handleGroupJoin and handleGroupMemberUpdate, seen from the message tables.
UpdateMembers ==
    /\ GroupsChange
    /\ \E c \in Conversation, p \in Person : JoinConversation(c, p) \/ LeaveConversation(c, p)
    /\ UNCHANGED gatewayVars

\* The transaction behind a receipt frame: markDelivered or markRead.
Record(k) ==
    LET f == Head(toServer[k])
    IN /\ phase[k] # "open"
       /\ \/ Receives(k, "delivered") /\ MarkDelivered(PersonAt(k), f.conversation, f.sequence)
          \/ Receives(k, "read") /\ MarkRead(PersonAt(k), f.conversation, f.sequence)

\* The process dies when idle, or after a commit and before the frames are written.
GatewayCrash ==
    /\ Crash
    /\ \/ UNCHANGED storeVars
       \/ \E k \in Connection : (Sends(k, "text") /\ Commit(k, Head(toServer[k]))) \/ Record(k)
       \/ uploads # <<>> /\ Commit(Last(uploads).connection, Last(uploads).frame)

Handle(k) ==
    \/ HandleLogin(k) \/ RejectLogin(k) \/ RefuseFrame(k)
    \/ HandleSend(k) \/ BeginUpload(k) \/ RefuseUpload(k)
    \/ HandleDelivered(k) \/ HandleRead(k)

ServerNext ==
    \/ \E k \in Connection : Handle(k) \/ RemoveConnection(k) \/ BeginClose(k)
    \/ FinishUpload
    \/ UpdateMembers
    \/ GatewayCrash

-----------------------------------------------------------------------------
(* The other end of the sockets.                                           *)

\* A client writes into the socket; a closing or removed one is no longer read.
ClientWrite(k, frames) ==
    toServer' = IF phase[k] \in {"open", "online"}
                  THEN [toServer EXCEPT ![k] = @ \o frames] ELSE toServer

\* A client takes the next frame.
ClientRead(k) ==
    /\ toClient[k] # <<>>
    /\ toClient' = [toClient EXCEPT ![k] = Tail(@)]

\* Clients that write their frames in any order, reading what came before.  One
\* frame waits at a time: handlers are atomic, so which socket writes next also
\* decides the order in which the server handles two sockets.
AnyClient(k) ==
    \/ Accept(k, <<>>)
    \/ /\ phase[k] \in {"open", "online"}
       /\ toClient[k] = <<>>
       /\ \A j \in Connection : toServer[j] = <<>>
       /\ \E frame \in FramesOf[k] : ClientWrite(k, <<frame>>)
       /\ UNCHANGED <<storeVars, phase, onlinePeople, toClient, uploads>>
    \/ ClientRead(k) /\ UNCHANGED <<storeVars, phase, onlinePeople, toServer, uploads>>

GatewayNext == ServerNext \/ \E k \in Connection : AnyClient(k)

GatewaySpec == GatewayInit /\ [][GatewayNext]_vars

-----------------------------------------------------------------------------
(* Properties of the server, whatever the clients send.                    *)

ServerFrame ==
    {LoginResponse(ok) : ok \in BOOLEAN} \cup {Error}
    \cup {Failure(id) : id \in ClientMessageId}
    \cup [type : {"ack"}, clientId : ClientMessageId, conversation : Conversation, sequence : Sequence]
    \cup [type : {"push"}, conversation : Conversation, sequence : Sequence, kind : Kind]
    \cup [type : {"delivered", "read"}, conversation : Conversation, sequence : Sequence,
          person : Person]

GatewayTypeOK ==
    /\ TypeOK
    /\ phase \in [Connection -> Phase]
    /\ onlinePeople \in [Person -> Connection \cup {NoConnection}]
    /\ toServer \in [Connection -> Seq(ClientFrame)]
    /\ toClient \in [Connection -> Seq(ServerFrame)]
    /\ uploads \in Seq(Upload)

\* One session per person: of all the sockets a person opened, the newest login
\* holds the online entry, whichever way and whenever the kicked ones go away.
OneSessionPerPerson ==
    /\ \A k \in Connection : phase[k] = "online" => onlinePeople[PersonAt(k)] = k
    /\ \A p \in Person : onlinePeople[p] # NoConnection =>
            /\ phase[onlinePeople[p]] \in {"online", "closing"}
            /\ PersonAt(onlinePeople[p]) = p

FramesTo(k, type) == {i \in DOMAIN toClient[k] : toClient[k][i].type = type}

\* An acknowledgement on the wire names a committed row of that person with that
\* key, a text from this very device: the message is there after any crash.
AcknowledgedIsStored ==
    \A k \in Connection : \A i \in FramesTo(k, "ack") :
        \E m \in messages : /\ m.sender = PersonAt(k)
                            /\ m.device = DeviceOf[k] \/ m.kind = "file"
                            /\ Acknowledgement(m) = toClient[k][i]

\* On one socket the pushes of a conversation come in sequence, each once and
\* never to the author: the client may take the last one it saw as its watermark.
PushesComeInSequence ==
    \A k \in Connection : \A i, j \in FramesTo(k, "push") :
        LET f == toClient[k][i]
            g == toClient[k][j]
        IN /\ i < j /\ f.conversation = g.conversation => f.sequence < g.sequence
           /\ \E m \in messages : Push(m) = f /\ m.sender # PersonAt(k)

\* A receipt is only shown to the author once the server has recorded it.
RoutedReceiptsAreRecorded ==
    \A k \in Connection : \A i \in FramesTo(k, "delivered") \cup FramesTo(k, "read") :
        LET f == toClient[k][i]
        IN /\ [conversation |-> f.conversation, sequence |-> f.sequence,
               person |-> f.person, type |-> f.type] \in receipts
           /\ \E m \in messages : /\ m.conversation = f.conversation
                                  /\ m.sequence = f.sequence
                                  /\ m.sender = PersonAt(k)

Age(ph) == CASE ph = "none" -> 0 [] ph = "open" -> 1 [] ph = "online" -> 2
             [] ph = "closing" -> 3 [] ph = "gone" -> 4

\* A kicked, idle or slow socket is never brought back to life.
ConnectionsOnlyAge == [][\A k \in Connection : Age(phase[k]) <= Age(phase[k]')]_vars

\* Nobody is sent a message of a conversation after leaving it or before joining
\* it: who is a member is asked again for every push, live or replayed.
PushesStayInTheGroup ==
    [][\A k \in Connection : \A i \in (Len(toClient[k]) + 1)..Len(toClient'[k]) :
         LET f == toClient'[k][i]
         IN f.type = "push" => membership[f.conversation][PersonAt(k)] = "active"]_vars

\* A handler runs to its end with the connection it was called for: readyRead
\* only does short calls on the thread that owns every socket.
HandlerKeepsItsConnection ==
    \A i \in DOMAIN uploads : phase[uploads[i].connection] # "gone"

\* Every step of the gateway is one store call or none: what is proved of the
\* store holds behind the gateway.
UsesStoreAsSpecified == StoreSpec

=============================================================================
