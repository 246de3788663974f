--------------------------- MODULE QmlMessaging ---------------------------
(***************************************************************************)
(* Chat from end to end with the client the product ships: NetworkWorker   *)
(* behind QmlClientBackend on every device, the gateway and its tables.    *)
(* One device runs one client; a device that signs in again uses a new     *)
(* socket.  The conversation list and the history pages are left out: they *)
(* change neither watermarks nor messages.                                 *)
(***************************************************************************)
EXTENDS Gateway

CONSTANTS
    NoConversation,  \* no conversation is open in the window
    ComposedOn       \* the device a client message id (a fresh uuid) is made on

ASSUME ComposedOnAssumption == ComposedOn \in [ClientMessageId -> Device]
ASSUME NoConversationAssumption == NoConversation \notin Conversation

VARIABLES
    link,           \* NetworkWorker::socket_ of each device
    authenticated,  \* NetworkWorker::authenticated_
    viewing,        \* QmlClientBackend::currentConversationId_
    composed,       \* ids of the messages typed so far
    received        \* <<conversation, sequence>> of every push handed to the backend

clientVars == <<link, authenticated, viewing, composed, received>>
qmlVars == <<vars, clientVars>>

QmlInit ==
    /\ GatewayInit
    /\ link = [d \in Device |-> NoConnection]
    /\ authenticated = [d \in Device |-> FALSE]
    /\ viewing = [d \in Device |-> NoConversation]
    /\ composed = {}
    /\ received = [d \in Device |-> {}]

-----------------------------------------------------------------------------
(* The client.                                                             *)

\* connectAndLogin and sendPendingLogin: a new socket with the login as its first
\* frame.  A refused socket is seen as closed, like every other failure.
SignIn(d, k) ==
    /\ link[d] = NoConnection
    /\ DeviceOf[k] = d
    /\ Accept(k, <<Login>>)
    /\ link' = [link EXCEPT ![d] = k]
    /\ UNCHANGED <<authenticated, viewing, composed, received>>

\* Mutant: reading is taken to imply delivery.
ConfirmReadOnly(d, f) ==
    IF f.kind = "text" /\ viewing[d] = f.conversation
      THEN <<Receipts("read", f.conversation, f.sequence)>> ELSE <<>>

\* directMessageReceived: with the conversation open the backend confirms reading
\* before it confirms delivery.  fileMessageReceived confirms nothing.
Confirmations(d, f) ==
    IF f.kind = "file" THEN <<>>
    ELSE (IF viewing[d] = f.conversation
            THEN <<Receipts("read", f.conversation, f.sequence)>> ELSE <<>>)
         \o <<Receipts("delivered", f.conversation, f.sequence)>>

\* dispatchFrame.  Acknowledgements, failures, routed receipts and errors end in
\* signals the backend is not connected to.
Receive(d) ==
    /\ link[d] # NoConnection
    /\ ClientRead(link[d])
    /\ LET f == Head(toClient[link[d]])
       IN /\ authenticated' = [authenticated EXCEPT ![d] =
                @ \/ (f.type = "login" /\ f.success)]
          /\ link' = [link EXCEPT ![d] =
                IF f.type = "login" /\ ~f.success THEN NoConnection ELSE @]
          /\ IF f.type = "push"
               THEN /\ received' = [received EXCEPT ![d] = @ \cup {<<f.conversation, f.sequence>>}]
                    /\ ClientWrite(link[d], Confirmations(d, f))
               ELSE UNCHANGED <<received, toServer>>
    /\ UNCHANGED <<storeVars, phase, onlinePeople, uploads, viewing, composed>>

\* The disconnected signal: the server closed, the network broke or a timer fired.
\* What was still on its way is lost to this client.
LoseLink(d) ==
    /\ link[d] # NoConnection
    /\ link' = [link EXCEPT ![d] = NoConnection]
    /\ authenticated' = [authenticated EXCEPT ![d] = FALSE]
    /\ UNCHANGED <<vars, viewing, composed, received>>

\* openConversation; the conversation stays open through a new login.
OpenConversation(d, c) ==
    /\ authenticated[d]
    /\ viewing[d] # c
    /\ viewing' = [viewing EXCEPT ![d] = c]
    /\ UNCHANGED <<vars, link, authenticated, composed, received>>

\* sendMessage and sendTextMessage, or uploadFile: without a session nothing is
\* written, and the message is never offered again.
SendMessage(d, id, kind) ==
    /\ id \notin composed
    /\ ComposedOn[id] = d
    /\ viewing[d] # NoConversation
    /\ composed' = composed \cup {id}
    /\ IF authenticated[d]
         THEN ClientWrite(link[d], <<Send(viewing[d], id, kind)>>)
         ELSE UNCHANGED toServer
    /\ UNCHANGED <<storeVars, phase, onlinePeople, toClient, uploads,
                   link, authenticated, viewing, received>>

ClientNext ==
    \E d \in Device :
        \/ \E k \in Connection : SignIn(d, k)
        \/ Receive(d)
        \/ LoseLink(d)
        \/ \E c \in Conversation : OpenConversation(d, c)
        \/ \E id \in ClientMessageId, kind \in Kind : SendMessage(d, id, kind)

QmlNext == ClientNext \/ (ServerNext /\ UNCHANGED clientVars)

QmlSpec == QmlInit /\ [][QmlNext]_qmlVars

\* The server keeps handling frames and closing sockets that were told to close;
\* every call of the object store returns, if only by its timeout; a client keeps
\* reading, and notices a closed socket when it has read it empty.
HandleNext(k) == Handle(k) /\ UNCHANGED clientVars
UploadReturns == FinishUpload /\ UNCHANGED clientVars
FinishClose(k) == phase[k] = "closing" /\ RemoveConnection(k) /\ UNCHANGED clientVars
NoticeClosed(d) == /\ link[d] # NoConnection
                   /\ phase[link[d]] = "gone" /\ toClient[link[d]] = <<>>
                   /\ LoseLink(d)

Fairness ==
    /\ \A k \in Connection : WF_qmlVars(HandleNext(k)) /\ WF_qmlVars(FinishClose(k))
    /\ WF_qmlVars(UploadReturns)
    /\ \A d \in Device : WF_qmlVars(Receive(d)) /\ WF_qmlVars(NoticeClosed(d))

FairQmlSpec == QmlSpec /\ Fairness

-----------------------------------------------------------------------------
(* Properties of the whole.                                                *)

ReceivedBy(p) == UNION {received[d] : d \in {e \in Device : OwnerOf[e] = p}}

\* The delivered watermark is continuous: every message of the others at or below
\* it reached a client of this person.  What the watermark covers is never replayed.
WatermarkNeverSkips ==
    \A m \in messages, p \in Person :
        m.sender # p /\ m.sequence <= lastDelivered[m.conversation][p]
            => <<m.conversation, m.sequence>> \in ReceivedBy(p)

\* A client that believes in its session has the socket the server pushes to, or
\* one the server is about to close or has closed: it never waits in vain.
SessionsAgree ==
    \A d \in Device : authenticated[d] =>
        \/ onlinePeople[OwnerOf[d]] = link[d]
        \/ phase[link[d]] \in {"closing", "gone"}

\* While a client stays connected, every message waiting for its person arrives:
\* live, or replayed by the login that opened the session.
WaitingMessagesArrive ==
    \A d \in Device, c \in Conversation, s \in Sequence :
        (authenticated[d] /\ <<c, s, OwnerOf[d]>> \in outbox)
            ~> (<<c, s>> \in ReceivedBy(OwnerOf[d]) \/ ~authenticated[d])

Confirmed(d, c, s) == lastDelivered[c][OwnerOf[d]] >= s \/ ~authenticated[d]

Arrived(d, c, s, kind) ==
    /\ authenticated[d] /\ <<c, s>> \in received[d]
    /\ \E m \in messages : m.conversation = c /\ m.sequence = s /\ m.kind = kind

\* A text that arrived is confirmed to the server, unless the session ends first.
TextsAreConfirmed ==
    \A d \in Device, c \in Conversation, s \in Sequence :
        Arrived(d, c, s, "text") ~> Confirmed(d, c, s)
=============================================================================
