--------------------------- MODULE Gateway_proofs ---------------------------
(***************************************************************************)
(* Proofs about Gateway, for every set of people, sockets, conversations   *)
(* and message ids and every limit: whatever clients write, in whatever    *)
(* order sockets die, the gateway uses the tables as MessageStore says,    *)
(* so that everything proved of the store holds behind it, and a person    *)
(* has one session.                                                        *)
(***************************************************************************)
EXTENDS Gateway, MessageStore_proofs, FiniteSetTheorems, TLAPS

\* Frames in flight and frames of suspended uploads are frames of the protocol.
InputOK ==
    /\ toServer \in [Connection -> Seq(ClientFrame)]
    /\ uploads \in Seq(Upload)

ConnectionsOK ==
    /\ phase \in [Connection -> Phase]
    /\ onlinePeople \in [Person -> Connection \cup {NoConnection}]

-----------------------------------------------------------------------------
(* Frames.                                                                 *)

\* A socket belongs to a person.
LEMMA PersonOfConnection == \A k \in Connection : PersonAt(k) \in Person
BY DeviceOfAssumption, OwnerAssumption DEF PersonAt

\* What a send frame carries.
LEMMA SendFields ==
    ASSUME NEW f \in SendFrame
    PROVE  /\ f.type = "send"
           /\ f.conversation \in Conversation
           /\ f.clientId \in ClientMessageId
           /\ f.kind \in Kind
BY DEF SendFrame, Send

\* What any frame of the protocol carries.
LEMMA FrameFields ==
    ASSUME NEW f \in ClientFrame
    PROVE  /\ f.type = "send" => f \in SendFrame
           /\ f.type \in {"delivered", "read"} => /\ f.conversation \in Conversation
                                                  /\ f.sequence \in Sequence
BY DEF ClientFrame, Login, SendFrame, Send, ReceiptFrame, Receipts

\* The frame a handler takes is one of the protocol.
LEMMA HeadIsFrame ==
    ASSUME InputOK, NEW k \in Connection, HasFrame(k)
    PROVE  Head(toServer[k]) \in ClientFrame /\ Tail(toServer[k]) \in Seq(ClientFrame)
BY DEF InputOK, HasFrame

\* Consume leaves frames of the protocol in every socket.
LEMMA ConsumeKeepsFrames ==
    ASSUME InputOK, NEW k \in Connection, HasFrame(k), Consume(k)
    PROVE  toServer' \in [Connection -> Seq(ClientFrame)]
BY HeadIsFrame DEF InputOK, Consume

\* The last element of a sequence, and the sequence without it.
LEMMA LastAndFront ==
    ASSUME NEW S, NEW s \in Seq(S), s # <<>>
    PROVE  Last(s) \in S /\ Front(s) \in Seq(S)
<1>1. Len(s) \in Nat /\ Len(s) > 0
  OBVIOUS
<1> QED
  BY <1>1 DEF Last, Front

\* The newest suspended upload, and the stack without it.
LEMMA LastUpload ==
    ASSUME InputOK, uploads # <<>>
    PROVE  /\ Last(uploads).connection \in Connection
           /\ Last(uploads).frame \in SendFrame
           /\ Front(uploads) \in Seq(Upload)
<1>1. Last(uploads) \in Upload /\ Front(uploads) \in Seq(Upload)
  BY LastAndFront DEF InputOK
<1> QED
  BY <1>1 DEF Upload

-----------------------------------------------------------------------------
(* Store calls.                                                            *)

\* A send frame commits at most one message, and only by a call of the store.
LEMMA CommitIsStoreCall ==
    ASSUME NEW k \in Connection, NEW f \in SendFrame, Commit(k, f)
    PROVE  StoreNext
<1>1. /\ DeviceOf[k] \in Device
      /\ f.conversation \in Conversation
      /\ f.clientId \in ClientMessageId
  BY DeviceOfAssumption, SendFields
<1> QED
  BY <1>1 DEF Commit, StoreNext

\* The outcome of a send frame is a store call or leaves the tables alone.
LEMMA OutcomeIsStoreCall ==
    ASSUME NEW k \in Connection, NEW f \in SendFrame,
           Accepted(k, f) \/ AcceptedBefore(k, f) \/ Refused(k, f)
    PROVE  StoreNext \/ UNCHANGED storeVars
BY CommitIsStoreCall DEF Accepted, AcceptedBefore, Refused

\* So is the transaction behind a receipt frame.
LEMMA RecordIsStoreCall ==
    ASSUME InputOK, NEW k \in Connection, Record(k)
    PROVE  StoreNext
<1> DEFINE f == Head(toServer[k])
<1>1. f.conversation \in Conversation /\ f.sequence \in Sequence
  BY HeadIsFrame, FrameFields DEF Record, Receives
<1> QED
  BY <1>1, PersonOfConnection DEF Record, StoreNext

\* Every step of the gateway is one store call or leaves the tables alone.
LEMMA StepIsStoreCall ==
    ASSUME InputOK, [GatewayNext]_vars
    PROVE  [StoreNext]_storeVars
<1>1. CASE UNCHANGED vars
  BY <1>1 DEF vars
<1>2. ASSUME NEW k \in Connection, Handle(k)
      PROVE  StoreNext \/ UNCHANGED storeVars
  <2> DEFINE f == Head(toServer[k])
  <2>1. CASE HandleLogin(k) \/ RejectLogin(k) \/ RefuseFrame(k) \/ BeginUpload(k) \/ RefuseUpload(k)
    BY <2>1 DEF HandleLogin, RejectLogin, RefuseFrame, BeginUpload, RefuseUpload
  <2>2. CASE HandleSend(k)
    <3>1. f \in SendFrame
      BY <2>2, HeadIsFrame, FrameFields DEF HandleSend, Sends, Receives
    <3> QED
      BY <2>2, <3>1, OutcomeIsStoreCall DEF HandleSend
  <2>3. CASE HandleDelivered(k)
    <3>1. f.conversation \in Conversation /\ f.sequence \in Sequence
      BY <2>3, HeadIsFrame, FrameFields DEF HandleDelivered, Receives
    <3> QED
      BY <2>3, <3>1, PersonOfConnection DEF HandleDelivered, StoreNext
  <2>4. CASE HandleRead(k)
    <3>1. f.conversation \in Conversation /\ f.sequence \in Sequence
      BY <2>4, HeadIsFrame, FrameFields DEF HandleRead, Receives
    <3> QED
      BY <2>4, <3>1, PersonOfConnection DEF HandleRead, StoreNext
  <2> QED
    BY <1>2, <2>1, <2>2, <2>3, <2>4 DEF Handle
<1>3. ASSUME NEW k \in Connection, RemoveConnection(k) \/ BeginClose(k) \/ AnyClient(k)
      PROVE  UNCHANGED storeVars
  BY <1>3 DEF RemoveConnection, BeginClose, AnyClient, Accept
<1>4. CASE FinishUpload
  BY <1>4, LastUpload, OutcomeIsStoreCall DEF FinishUpload
<1>5. CASE UpdateMembers
  BY <1>5 DEF UpdateMembers, StoreNext
<1>6. CASE GatewayCrash
  <2>1. ASSUME NEW k \in Connection, Sends(k, "text"), Commit(k, Head(toServer[k]))
        PROVE  StoreNext
    <3>1. Head(toServer[k]) \in SendFrame
      BY <2>1, HeadIsFrame, FrameFields DEF Sends, Receives
    <3> QED
      BY <2>1, <3>1, CommitIsStoreCall
  <2>2. ASSUME uploads # <<>>, Commit(Last(uploads).connection, Last(uploads).frame)
        PROVE  StoreNext
    BY <2>2, LastUpload, CommitIsStoreCall
  <2>3. ASSUME NEW k \in Connection, Record(k)
        PROVE  StoreNext
    BY <2>3, RecordIsStoreCall
  <2> QED
    BY <1>6, <2>1, <2>2, <2>3 DEF GatewayCrash
<1> QED
  BY <1>1, <1>2, <1>3, <1>4, <1>5, <1>6 DEF GatewayNext, ServerNext


-----------------------------------------------------------------------------
(* Sockets and sessions.                                                   *)

\* What sendFrame may do to the phases it is given: close a socket that overflows.
LEMMA TransmitPhase ==
    ASSUME NEW out, NEW current \in [Connection -> Phase], Transmit(out, current)
    PROVE  /\ phase' \in [Connection -> Phase]
           /\ \A k \in Connection :
                /\ phase'[k] = "online" => current[k] = "online"
                /\ current[k] \in {"online", "closing"} => phase'[k] \in {"online", "closing"}
BY DEF Transmit, Phase

\* Nobody's session changes when nobody signs in and no socket is removed.
LEMMA SessionsUntouched ==
    ASSUME ConnectionsOK, OneSessionPerPerson, UNCHANGED onlinePeople,
           phase' \in [Connection -> Phase],
           \A k \in Connection :
              /\ phase'[k] = "online" => phase[k] = "online"
              /\ phase[k] \in {"online", "closing"} => phase'[k] \in {"online", "closing"}
    PROVE  (ConnectionsOK /\ OneSessionPerPerson)'
<1>1. ConnectionsOK'
  BY DEF ConnectionsOK
<1>2. \A p \in Person : onlinePeople[p] # NoConnection => onlinePeople[p] \in Connection
  BY DEF ConnectionsOK
<1> QED
  BY <1>1, <1>2 DEF OneSessionPerPerson

\* A handler that only answers.
LEMMA AnswerKeepsSessions ==
    ASSUME ConnectionsOK, OneSessionPerPerson, UNCHANGED onlinePeople,
           NEW out, Transmit(out, phase)
    PROVE  (ConnectionsOK /\ OneSessionPerPerson)'
BY TransmitPhase, SessionsUntouched DEF ConnectionsOK

\* handleLogin: the new socket takes over, the old one is on its way out.
LEMMA LoginKeepsSessions ==
    ASSUME ConnectionsOK, OneSessionPerPerson, NEW k \in Connection, HandleLogin(k)
    PROVE  (ConnectionsOK /\ OneSessionPerPerson)'
<1> DEFINE p == PersonAt(k)
           old == onlinePeople[p]
<1>1. /\ phase[k] = "open"
      /\ p \in Person
      /\ onlinePeople' = [onlinePeople EXCEPT ![p] = k]
  BY PersonOfConnection DEF HandleLogin
<1>2. PICK kicked \in {"closing", "gone"}, replay \in Replays(p) :
         Transmit([Nothing EXCEPT ![k] = <<LoginResponse(TRUE)>> \o replay],
                  [j \in Connection |-> IF j = k THEN "online"
                                        ELSE IF j = old THEN kicked ELSE phase[j]])
  BY DEF HandleLogin
<1> DEFINE current == [j \in Connection |-> IF j = k THEN "online"
                                            ELSE IF j = old THEN kicked ELSE phase[j]]
<1>3. current \in [Connection -> Phase]
  BY <1>2 DEF ConnectionsOK, Phase
<1>4. /\ phase' \in [Connection -> Phase]
      /\ \A j \in Connection :
           /\ phase'[j] = "online" => current[j] = "online"
           /\ current[j] \in {"online", "closing"} => phase'[j] \in {"online", "closing"}
  <2> HIDE DEF current
  <2> QED
    BY <1>2, <1>3, TransmitPhase DEF current
<1>5. ConnectionsOK'
  BY <1>1, <1>4 DEF ConnectionsOK
<1>6. ASSUME NEW j \in Connection, phase'[j] = "online"
      PROVE  onlinePeople'[PersonAt(j)] = j
  <2>1. j = k \/ (j # old /\ phase[j] = "online")
    BY <1>2, <1>4, <1>6
  <2> QED
    BY <1>1, <2>1, PersonOfConnection DEF OneSessionPerPerson, ConnectionsOK
<1>7. ASSUME NEW q \in Person, onlinePeople'[q] # NoConnection
      PROVE  /\ phase'[onlinePeople'[q]] \in {"online", "closing"}
             /\ PersonAt(onlinePeople'[q]) = q
  <2>1. CASE q = p
    BY <1>1, <1>4, <2>1 DEF ConnectionsOK
  <2>2. CASE q # p
    <3>1. /\ onlinePeople'[q] = onlinePeople[q]
          /\ onlinePeople[q] \in Connection
          /\ phase[onlinePeople[q]] \in {"online", "closing"}
          /\ PersonAt(onlinePeople[q]) = q
      BY <1>1, <1>7, <2>2 DEF ConnectionsOK, OneSessionPerPerson
    <3>2. onlinePeople[q] # k /\ onlinePeople[q] # old
      BY <1>1, <2>2, <3>1, NoConnectionAssumption DEF OneSessionPerPerson, ConnectionsOK
    <3> QED
      BY <1>4, <3>1, <3>2
  <2> QED
    BY <2>1, <2>2
<1> QED
  BY <1>5, <1>6, <1>7 DEF OneSessionPerPerson

\* removeConnection and the death of the process: whoever has no socket is offline.
LEMMA RemovalKeepsSessions ==
    ASSUME ConnectionsOK, OneSessionPerPerson,
           (\E k \in Connection : RemoveConnection(k)) \/ Crash
    PROVE  (ConnectionsOK /\ OneSessionPerPerson)'
<1>1. ASSUME NEW k \in Connection, RemoveConnection(k)
      PROVE  (ConnectionsOK /\ OneSessionPerPerson)'
  <2>1. ConnectionsOK'
    BY <1>1 DEF RemoveConnection, ConnectionsOK, Phase
  <2> QED
    BY <1>1, <2>1, PersonOfConnection DEF RemoveConnection, ConnectionsOK, OneSessionPerPerson
<1>2. CASE Crash
  BY <1>2 DEF Crash, ConnectionsOK, OneSessionPerPerson, Phase, Attached
<1> QED
  BY <1>1, <1>2

\* Every step of the gateway leaves one session per person.
LEMMA StepKeepsSessions ==
    ASSUME ConnectionsOK, InputOK, OneSessionPerPerson, GatewayNext
    PROVE  (ConnectionsOK /\ OneSessionPerPerson)'
<1>1. ASSUME NEW k \in Connection, Handle(k)
      PROVE  (ConnectionsOK /\ OneSessionPerPerson)'
  <2>1. CASE HandleLogin(k)
    BY <2>1, LoginKeepsSessions
  <2>2. CASE RejectLogin(k) \/ RefuseFrame(k)
    BY <2>2, AnswerKeepsSessions DEF RejectLogin, RefuseFrame
  <2>3. CASE HandleSend(k) \/ RefuseUpload(k)
    BY <2>3, AnswerKeepsSessions
       DEF HandleSend, RefuseUpload, Accepted, AcceptedBefore, Refused
  <2>4. CASE BeginUpload(k)
    BY <2>4, SessionsUntouched DEF BeginUpload, ConnectionsOK
  <2>5. CASE HandleDelivered(k) \/ HandleRead(k)
    BY <2>5, AnswerKeepsSessions DEF HandleDelivered, HandleRead, RouteReceipt
  <2> QED
    BY <1>1, <2>1, <2>2, <2>3, <2>4, <2>5 DEF Handle
<1>2. CASE (\E k \in Connection : RemoveConnection(k)) \/ GatewayCrash
  BY <1>2, RemovalKeepsSessions DEF GatewayCrash
<1>3. ASSUME NEW k \in Connection, BeginClose(k)
      PROVE  (ConnectionsOK /\ OneSessionPerPerson)'
  BY <1>3, SessionsUntouched DEF BeginClose, ConnectionsOK, Phase
<1>4. CASE FinishUpload
  BY <1>4, AnswerKeepsSessions, SessionsUntouched
     DEF FinishUpload, Accepted, AcceptedBefore, Refused, ConnectionsOK
<1>5. CASE UpdateMembers
  BY <1>5, SessionsUntouched DEF UpdateMembers, gatewayVars, ConnectionsOK
<1>6. ASSUME NEW k \in Connection, AnyClient(k)
      PROVE  (ConnectionsOK /\ OneSessionPerPerson)'
  <2>1. CASE Accept(k, <<>>)
    BY <2>1, SessionsUntouched DEF Accept, Admitted, ConnectionsOK, Phase
  <2>2. CASE UNCHANGED <<phase, onlinePeople>>
    BY <2>2, SessionsUntouched DEF ConnectionsOK
  <2> QED
    BY <1>6, <2>1, <2>2 DEF AnyClient
<1> QED
  BY <1>1, <1>2, <1>3, <1>4, <1>5, <1>6 DEF GatewayNext, ServerNext

-----------------------------------------------------------------------------
(* Input.                                                                  *)

\* Handlers take frames and never make one up; clients write frames of the protocol.
LEMMA StepKeepsInput ==
    ASSUME InputOK, GatewayNext
    PROVE  InputOK'
<1>1. ASSUME NEW k \in Connection, Handle(k)
      PROVE  InputOK'
  <2>1. CASE BeginUpload(k)
    <3>1. Head(toServer[k]) \in SendFrame /\ Tail(toServer[k]) \in Seq(ClientFrame)
      BY <2>1, HeadIsFrame, FrameFields DEF BeginUpload, Sends, Receives
    <3>2. [connection |-> k, frame |-> Head(toServer[k])] \in Upload
      BY <3>1 DEF Upload
    <3>3. Append(uploads, [connection |-> k, frame |-> Head(toServer[k])]) \in Seq(Upload)
      BY <3>2 DEF InputOK
    <3> QED
      BY <2>1, <3>1, <3>3 DEF BeginUpload, InputOK
  <2>2. ASSUME HasFrame(k), Consume(k), UNCHANGED uploads
        PROVE  InputOK'
    BY <2>2, ConsumeKeepsFrames DEF InputOK
  <2>3. CASE HandleLogin(k) \/ RejectLogin(k)
    BY <2>2, <2>3 DEF HandleLogin, RejectLogin, Receives
  <2>4. CASE RefuseFrame(k)
    BY <2>2, <2>4 DEF RefuseFrame
  <2>5. CASE HandleSend(k) \/ RefuseUpload(k)
    BY <2>2, <2>5 DEF HandleSend, RefuseUpload, Sends, Receives
  <2>6. CASE HandleDelivered(k) \/ HandleRead(k)
    BY <2>2, <2>6 DEF HandleDelivered, HandleRead, Receives
  <2> QED
    BY <1>1, <2>1, <2>3, <2>4, <2>5, <2>6 DEF Handle
<1>2. ASSUME NEW k \in Connection, RemoveConnection(k) \/ BeginClose(k)
      PROVE  InputOK'
  <2>1. CASE RemoveConnection(k)
    BY <2>1 DEF RemoveConnection, InputOK
  <2>2. CASE BeginClose(k)
    BY <2>2 DEF BeginClose, InputOK
  <2> QED
    BY <1>2, <2>1, <2>2
<1>3. CASE FinishUpload
  BY <1>3, LastUpload DEF FinishUpload, InputOK
<1>4. CASE UpdateMembers
  BY <1>4 DEF UpdateMembers, gatewayVars, InputOK
<1>5. CASE GatewayCrash
  BY <1>5 DEF GatewayCrash, Crash, InputOK
<1>6. ASSUME NEW k \in Connection, AnyClient(k)
      PROVE  InputOK'
  <2>1. CASE Accept(k, <<>>)
    BY <2>1 DEF Accept, InputOK
  <2>2. ASSUME NEW frame \in FramesOf[k], ClientWrite(k, <<frame>>), UNCHANGED uploads
        PROVE  InputOK'
    <3>1. frame \in ClientFrame
      BY <2>2, FramesOfAssumption
    <3>2. toServer[k] \o <<frame>> \in Seq(ClientFrame)
      BY <3>1 DEF InputOK
    <3> QED
      BY <2>2, <3>2 DEF ClientWrite, InputOK
  <2>3. CASE UNCHANGED <<toServer, uploads>>
    BY <2>3 DEF InputOK
  <2> QED
    BY <1>6, <2>1, <2>2, <2>3 DEF AnyClient
<1> QED
  BY <1>1, <1>2, <1>3, <1>4, <1>5, <1>6 DEF GatewayNext, ServerNext

-----------------------------------------------------------------------------
(* Output: what the server has written and the client has not read.        *)

\* What a frame on the wire to k may say.
Honest(k, f) ==
    /\ f.type = "ack" =>
         \E m \in messages : /\ m.sender = PersonAt(k)
                             /\ m.device = DeviceOf[k] \/ m.kind = "file"
                             /\ Acknowledgement(m) = f
    /\ f.type = "push" => \E m \in messages : Push(m) = f /\ m.sender # PersonAt(k)
    /\ f.type \in {"delivered", "read"} =>
         /\ [conversation |-> f.conversation, sequence |-> f.sequence,
             person |-> f.person, type |-> f.type] \in receipts
         /\ \E m \in messages : /\ m.conversation = f.conversation
                                /\ m.sequence = f.sequence
                                /\ m.sender = PersonAt(k)

HonestFrame(k) == {f \in ServerFrame : Honest(k, f)}

OutputOK ==
    /\ toClient = [k \in Connection |-> toClient[k]]
    /\ \A k \in Connection : toClient[k] \in Seq(HonestFrame(k))

\* Nothing that is true of the tables becomes false by a call of the store.
LEMMA HonestStaysHonest ==
    ASSUME StoreInvariant, [StoreNext]_storeVars, NEW k \in Connection
    PROVE  HonestFrame(k) \subseteq HonestFrame(k)'
<1>1. messages \subseteq messages' /\ receipts \subseteq receipts'
  BY StepGrowsHistory DEF storeVars
<1>2. ASSUME NEW f, Honest(k, f)
      PROVE  Honest(k, f)'
  BY <1>1, <1>2 DEF Honest
<1> QED
  BY <1>2 DEF HonestFrame

\* What sendFrame leaves in a socket: a prefix of the old frames and the new ones.
LEMMA PrefixOfConcat ==
    ASSUME NEW S, NEW s \in Seq(S), NEW t \in Seq(S)
    PROVE  LET q == Written(s, t)
           IN  /\ q \in Seq(S)
               /\ Len(q) <= Len(s) + Len(t)
               /\ \A i \in 1..Len(q) : q[i] = IF i <= Len(s) THEN s[i] ELSE t[i - Len(s)]
<1> DEFINE c == s \o t
           m == Min2(Len(c), MaximumQueuedOutput)
           q == SubSeq(c, 1, m)
<1>1. /\ c \in Seq(S)
      /\ Len(c) = Len(s) + Len(t)
      /\ \A i \in 1..Len(c) : c[i] = IF i <= Len(s) THEN s[i] ELSE t[i - Len(s)]
  OBVIOUS
<1>2. m \in 0..Len(c)
  BY <1>1, LimitsAssumption DEF Min2
<1> HIDE DEF c, m
<1>3. q \in Seq(S) /\ Len(q) = m /\ \A i \in 1..m : q[i] = c[i]
  BY <1>1, <1>2
<1> QED
  BY <1>1, <1>2, <1>3 DEF c, m, Written

\* sendFrame writes nothing but what it is given.
LEMMA TransmitKeepsOutput ==
    ASSUME StoreInvariant, [StoreNext]_storeVars, OutputOK,
           NEW out, NEW current, Transmit(out, current),
           \A k \in Connection : out[k] \in Seq(HonestFrame(k)')
    PROVE  OutputOK'
<1>1. ASSUME NEW k \in Connection
      PROVE  toClient'[k] \in Seq(HonestFrame(k)')
  <2> DEFINE H == HonestFrame(k)'
  <2>1. toClient[k] \in Seq(H) /\ out[k] \in Seq(H)
    <3>1. HonestFrame(k) \subseteq H
      BY HonestStaysHonest
    <3> HIDE DEF H
    <3> QED
      BY <3>1 DEF OutputOK, H
  <2> HIDE DEF H
  <2>2. Written(toClient[k], out[k]) \in Seq(H)
    BY <2>1, PrefixOfConcat, LimitsAssumption
  <2>3. toClient'[k] \in Seq(H)
    BY <2>1, <2>2 DEF Transmit
  <2> QED
    BY <2>3 DEF H
<1>2. toClient' = [k \in Connection |-> toClient'[k]]
  BY DEF Transmit
<1> QED
  BY <1>1, <1>2 DEF OutputOK

\* Answers that name no row.
LEMMA PlainAnswersAreHonest ==
    ASSUME NEW k \in Connection, NEW f,
           f \in {Error} \cup {LoginResponse(ok) : ok \in BOOLEAN}
                         \cup {Failure(id) : id \in ClientMessageId}
    PROVE  f \in HonestFrame(k)' /\ f.type \notin {"push", "ack", "delivered", "read"}
BY DEF HonestFrame, Honest, ServerFrame, Error, LoginResponse, Failure

\* An acknowledgement of a row of the person that sent it.
LEMMA AcknowledgementIsHonest ==
    ASSUME NEW k \in Connection, NEW m \in messages', m \in Message, m.sender = PersonAt(k),
           m.device = DeviceOf[k] \/ m.kind = "file"
    PROVE  Acknowledgement(m) \in HonestFrame(k)'
<1>1. Acknowledgement(m) \in ServerFrame /\ Acknowledgement(m).type = "ack"
  BY DEF Acknowledgement, ServerFrame, Message
<1>2. Honest(k, Acknowledgement(m))'
  BY <1>1 DEF Honest
<1> QED
  BY <1>1, <1>2 DEF HonestFrame

\* A push of a row of somebody else.
LEMMA PushIsHonest ==
    ASSUME NEW k \in Connection, NEW m \in messages', m \in Message, m.sender # PersonAt(k)
    PROVE  Push(m) \in HonestFrame(k)'
<1>1. Push(m) \in ServerFrame /\ Push(m).type = "push"
  BY DEF Push, ServerFrame, Message
<1>2. Honest(k, Push(m))'
  BY <1>1 DEF Honest
<1> QED
  BY <1>1, <1>2 DEF HonestFrame

\* An answer to the connection whose frame is handled.
LEMMA ReplyIsHonest ==
    ASSUME NEW k \in Connection, NEW f \in HonestFrame(k)'
    PROVE  \A j \in Connection : Reply(k, f)[j] \in Seq(HonestFrame(j)')
<1> TAKE j \in Connection
<1> DEFINE H == HonestFrame(j)'
<1>1. j = k => f \in H
  OBVIOUS
<1> HIDE DEF H
<1>2. Reply(k, f)[j] = IF j = k THEN <<f>> ELSE <<>>
  BY DEF Reply, Nothing
<1>3. Reply(k, f)[j] \in Seq(H)
  BY <1>1, <1>2
<1> QED
  BY <1>3 DEF H

\* Whatever is submitted, the row that is committed is new, carries the next
\* sequence, and names the person and the device it came from.
LEMMA CommittedRow ==
    ASSUME StoreInvariant, NEW k \in Connection, NEW f \in SendFrame, Commit(k, f)
    PROVE  LET m == CHOOSE n \in messages' : n \notin messages
           IN  /\ m \in messages' /\ m \notin messages /\ m \in Message
               /\ m.sender = PersonAt(k) /\ m.device = DeviceOf[k]
               /\ m.conversation = f.conversation /\ m.clientId = f.clientId
               /\ \A n \in messages : n.conversation = m.conversation => n.sequence < m.sequence
<1> DEFINE c == f.conversation
           row == [conversation |-> c, sequence |-> lastMessageSequence[c] + 1,
                   sender |-> PersonAt(k), device |-> DeviceOf[k],
                   clientId |-> f.clientId, kind |-> f.kind]
<1>1. /\ DeviceOf[k] \in Device /\ PersonAt(k) \in Person
      /\ c \in Conversation /\ f.clientId \in ClientMessageId /\ f.kind \in Kind
  BY DeviceOfAssumption, PersonOfConnection, SendFields
<1>2. /\ messages' = messages \cup {row}
      /\ lastMessageSequence[c] < MaxSequence
  BY DEF Commit, SubmitMessage, AcceptFileMessage, CanSubmit, InsertMessage, PersonAt
<1>3. /\ lastMessageSequence[c] \in 0..MaxSequence
      /\ messages \subseteq Message
      /\ \A n \in messages : n.conversation = c => n.sequence <= lastMessageSequence[c]
  BY <1>1 DEF StoreInvariant, TypeOK, SequencesAreDense
<1>4. row \in Message /\ row \notin messages
  <2>1. lastMessageSequence[c] + 1 \in Sequence
    BY <1>2, <1>3, MaxSequenceAssumption DEF Sequence
  <2>2. row \in Message
    BY <1>1, <2>1 DEF Message
  <2>3. row \notin messages
    BY <1>3, MaxSequenceAssumption
  <2> QED
    BY <2>2, <2>3
<1>5. (CHOOSE n \in messages' : n \notin messages) = row
  BY <1>2, <1>4
<1>6. \A n \in messages : n.conversation = c => n.sequence < row.sequence
  BY <1>3, MaxSequenceAssumption DEF Message, Sequence
<1> HIDE DEF row
<1> QED
  BY <1>2, <1>4, <1>5, <1>6 DEF row

\* The frames of a new message: an acknowledgement to its sender, and a push to
\* sockets of other people only.
LEMMA AnnouncementIsHonest ==
    ASSUME ConnectionsOK, OneSessionPerPerson, NoConnection \notin Connection,
           NEW k \in Connection, NEW c, NEW m \in messages', m \in Message,
           m.sender = PersonAt(k), m.device = DeviceOf[k]
    PROVE  \A j \in Connection :
              Announce(k, m, Recipients(c, PersonAt(k)))[j] \in Seq(HonestFrame(j)')
<1> TAKE j \in Connection
<1> DEFINE out == Announce(k, m, Recipients(c, PersonAt(k)))
<1>1. CASE j = k
  <2>1. out[j] = <<Acknowledgement(m)>>
    BY <1>1 DEF Announce
  <2> QED
    BY <1>1, <2>1, AcknowledgementIsHonest
<1>2. CASE j # k /\ \E q \in Recipients(c, PersonAt(k)) : onlinePeople[q] = j
  <2>1. out[j] = <<Push(m)>>
    BY <1>2 DEF Announce
  <2>2. m.sender # PersonAt(j)
    BY <1>2 DEF Recipients, Active, OneSessionPerPerson
  <2> QED
    BY <2>1, <2>2, PushIsHonest
<1>3. CASE j # k /\ ~\E q \in Recipients(c, PersonAt(k)) : onlinePeople[q] = j
  <2>1. out[j] = <<>>
    BY <1>3 DEF Announce
  <2> QED
    BY <2>1
<1> QED
  BY <1>1, <1>2, <1>3

\* A routed receipt whose row and whose message are there.
LEMMA RoutedIsHonest ==
    ASSUME NEW j \in Connection, NEW f \in ClientFrame, f.type \in {"delivered", "read"},
           NEW p \in Person,
           [conversation |-> f.conversation, sequence |-> f.sequence,
            person |-> p, type |-> f.type] \in receipts',
           NEW m \in messages', m.conversation = f.conversation, m.sequence = f.sequence,
           m.sender = PersonAt(j)
    PROVE  Routed(f, p) \in HonestFrame(j)'
<1>1. /\ Routed(f, p) \in ServerFrame
      /\ Routed(f, p).type = f.type /\ Routed(f, p).person = p
      /\ Routed(f, p).conversation = f.conversation /\ Routed(f, p).sequence = f.sequence
  BY FrameFields DEF Routed, ServerFrame
<1>2. Honest(j, Routed(f, p))'
  BY <1>1 DEF Honest
<1> QED
  BY <1>1, <1>2 DEF HonestFrame

\* Finitely many messages were ever sent.
LEMMA MessagesStayFinite ==
    ASSUME IsFiniteSet(messages), [StoreNext]_storeVars
    PROVE  IsFiniteSet(messages')
<1>1. \A row : IsFiniteSet(messages \cup {row})
  BY FS_AddElement
<1>2. ASSUME NEW c, NEW d, NEW id, SubmitMessage(d, c, id) \/ AcceptFileMessage(d, c, id)
      PROVE  \E row : messages' = messages \cup {row}
  BY <1>2 DEF SubmitMessage, AcceptFileMessage, InsertMessage
<1>3. ASSUME NEW c, NEW p, NEW s,
             \/ MarkDelivered(p, c, s) \/ MarkRead(p, c, s)
             \/ JoinConversation(c, p) \/ LeaveConversation(c, p)
      PROVE  messages' = messages
  BY <1>3 DEF MarkDelivered, MarkRead, JoinConversation, LeaveConversation
<1> QED
  BY <1>1, <1>2, <1>3 DEF StoreNext, storeVars

\* A replay is a sequence of pending messages, in sequence for each conversation.
LEMMA ReplayIsOrdered ==
    ASSUME StoreInvariant, IsFiniteSet(messages), NEW p \in Person, NEW replay \in Replays(p)
    PROVE  \E n \in Nat : \E o \in [1..n -> Pending(p)] :
              /\ replay = [i \in 1..n |-> Push(o[i])]
              /\ \A i, j \in 1..n : i < j /\ o[i].conversation = o[j].conversation
                                    => o[i].sequence < o[j].sequence
<1>1. CASE replay = <<>>
  <2> DEFINE none == [i \in 1..0 |-> 0]
  <2>1. replay = [i \in 1..0 |-> Push(none[i])] /\ none \in [1..0 -> Pending(p)]
    BY <1>1
  <2>2. 0 \in Nat /\ ~\E i, j \in 1..0 : i < j
    OBVIOUS
  <2> HIDE DEF none
  <2>3. \A i, j \in 1..0 : i < j /\ none[i].conversation = none[j].conversation
                           => none[i].sequence < none[j].sequence
    BY <2>2
  <2> QED
    BY <2>1, <2>2, <2>3
<1>2. CASE replay # <<>>
  <2>1. PICK o \in ReplayOrders(p) : replay = [i \in 1..Min2(Len(o), PendingLimit) |-> Push(o[i])]
    BY <1>2 DEF Replays
  <2> DEFINE card == Cardinality(Pending(p))
             n == Min2(card, PendingLimit)
             front == [i \in 1..n |-> o[i]]
  <2>2. card \in Nat
    BY FS_Subset, FS_CardinalityType DEF Pending
  <2>3. o \in [1..card -> Pending(p)]
    BY DEF ReplayOrders, SetToSeqs
  <2>4. Len(o) = card
    BY <2>2, <2>3
  <2>5. n \in Nat /\ n <= card
    BY <2>2, LimitsAssumption DEF Min2
  <2>6. \A i, j \in 1..card : i < j /\ o[i].conversation = o[j].conversation
                              => o[i].sequence < o[j].sequence
    BY <2>3 DEF ReplayOrders
  <2> HIDE DEF card
  <2>7. front \in [1..n -> Pending(p)] /\ replay = [i \in 1..n |-> Push(front[i])]
    BY <2>1, <2>2, <2>3, <2>4, <2>5
  <2>8. \A i, j \in 1..n : i < j /\ front[i].conversation = front[j].conversation
                           => front[i].sequence < front[j].sequence
    BY <2>2, <2>5, <2>6
  <2> HIDE DEF front
  <2> QED
    BY <2>5, <2>7, <2>8
<1> QED
  BY <1>1, <1>2

-----------------------------------------------------------------------------
(* The order of pushes on one socket.                                      *)

InOrder(s) ==
    \A i, j \in 1..Len(s) : /\ i < j
                            /\ s[i].type = "push" /\ s[j].type = "push"
                            /\ s[i].conversation = s[j].conversation
                            => s[i].sequence < s[j].sequence

NoPush(s) == \A i \in 1..Len(s) : s[i].type # "push"

\* Every push of s comes before every push of t.
Precedes(s, t) ==
    \A i \in 1..Len(s), j \in 1..Len(t) : /\ s[i].type = "push" /\ t[j].type = "push"
                                          /\ s[i].conversation = t[j].conversation
                                          => s[i].sequence < t[j].sequence

\* Nothing is pushed to a socket that has not logged in: the replay starts on a
\* socket without pushes, and what is committed later has a higher sequence.
PushesOK ==
    \A k \in Connection : /\ InOrder(toClient[k])
                          /\ phase[k] \in {"none", "open"} => NoPush(toClient[k])

\* What a step writes to a socket is pushed to a member.
PushesInGroup ==
    \A k \in Connection : \A i \in (Len(toClient[k]) + 1)..Len(toClient'[k]) :
         LET f == toClient'[k][i]
         IN f.type = "push" => membership[f.conversation][PersonAt(k)] = "active"

\* The cut that sendFrame makes in a full socket only drops the newest frames.
LEMMA PrefixInOrder ==
    ASSUME NEW S, NEW s \in Seq(S), NEW t \in Seq(S),
           InOrder(s), InOrder(t), Precedes(s, t)
    PROVE  LET q == Written(s, t)
           IN  InOrder(q) /\ (NoPush(s) /\ NoPush(t) => NoPush(q))
<1> DEFINE q == Written(s, t)
<1>1. /\ q \in Seq(S)
      /\ Len(q) <= Len(s) + Len(t)
      /\ \A i \in 1..Len(q) : q[i] = IF i <= Len(s) THEN s[i] ELSE t[i - Len(s)]
  BY PrefixOfConcat
<1> HIDE DEF q
<1>2. \A i \in 1..Len(q) : \/ i \in 1..Len(s) /\ q[i] = s[i]
                           \/ i - Len(s) \in 1..Len(t) /\ q[i] = t[i - Len(s)]
  BY <1>1
<1>3. NoPush(s) /\ NoPush(t) => NoPush(q)
  BY <1>2 DEF NoPush
<1>4. ASSUME NEW i \in 1..Len(q), NEW j \in 1..Len(q), i < j,
             q[i].type = "push", q[j].type = "push", q[i].conversation = q[j].conversation
      PROVE  q[i].sequence < q[j].sequence
  <2>1. CASE i \in 1..Len(s) /\ j \in 1..Len(s)
    BY <1>1, <1>4, <2>1 DEF InOrder
  <2>2. CASE i \in 1..Len(s) /\ j \notin 1..Len(s)
    <3>1. q[i] = s[i] /\ j - Len(s) \in 1..Len(t) /\ q[j] = t[j - Len(s)]
      BY <1>1, <1>2, <2>2
    <3> HIDE DEF q
    <3> QED
      BY <1>4, <2>2, <3>1 DEF Precedes
  <2>3. CASE i \notin 1..Len(s)
    <3>1. /\ i - Len(s) \in 1..Len(t) /\ j - Len(s) \in 1..Len(t)
          /\ q[i] = t[i - Len(s)] /\ q[j] = t[j - Len(s)]
          /\ i - Len(s) < j - Len(s)
      BY <1>1, <1>2, <1>4, <2>3
    <3> HIDE DEF q
    <3> QED
      BY <1>4, <3>1 DEF InOrder
  <2> QED
    BY <2>1, <2>2, <2>3
<1>5. InOrder(q)
  BY <1>4 DEF InOrder
<1> QED
  BY <1>3, <1>5 DEF q

\* sendFrame keeps the order if what it is given continues it.
LEMMA TransmitKeepsOrder ==
    ASSUME OutputOK, PushesOK, NEW out, NEW current, Transmit(out, current),
           \A k \in Connection :
              /\ out[k] \in Seq(HonestFrame(k)')
              /\ HonestFrame(k) \subseteq HonestFrame(k)'
              /\ InOrder(out[k]) /\ Precedes(toClient[k], out[k])
              /\ phase'[k] \in {"none", "open"} =>
                    phase[k] \in {"none", "open"} /\ NoPush(out[k])
    PROVE  PushesOK'
<1>1. ASSUME NEW k \in Connection
      PROVE  /\ InOrder(toClient'[k])
             /\ phase'[k] \in {"none", "open"} => NoPush(toClient'[k])
  <2> DEFINE H == HonestFrame(k)'
             s == toClient[k]
             t == out[k]
             q == Written(s, t)
  <2>1. /\ HonestFrame(k) \subseteq H
        /\ t \in Seq(H)
    OBVIOUS
  <2> HIDE DEF H
  <2>2. s \in Seq(H)
    BY <2>1 DEF OutputOK
  <2>3. /\ InOrder(s) /\ InOrder(t) /\ Precedes(s, t)
        /\ phase[k] \in {"none", "open"} => NoPush(s)
    BY DEF PushesOK
  <2>4. InOrder(q) /\ (NoPush(s) /\ NoPush(t) => NoPush(q))
    BY <2>1, <2>2, <2>3, LimitsAssumption, PrefixInOrder
  <2>5. toClient'[k] \in {s, q}
    BY DEF Transmit
  <2> HIDE DEF q, s, t
  <2> QED
    BY <2>3, <2>4, <2>5 DEF t
<1> QED
  BY <1>1 DEF PushesOK

\* What comes after the old frames is one of the new ones.
LEMMA NewFramesAreGiven ==
    ASSUME NEW S, NEW s \in Seq(S), NEW t \in Seq(S),
           NEW i \in (Len(s) + 1)..Len(Written(s, t))
    PROVE  \E j \in 1..Len(t) : Written(s, t)[i] = t[j]
<1> DEFINE q == Written(s, t)
<1>1. /\ Len(q) <= Len(s) + Len(t) /\ Len(s) \in Nat /\ Len(t) \in Nat /\ q \in Seq(S)
      /\ \A j \in 1..Len(q) : q[j] = IF j <= Len(s) THEN s[j] ELSE t[j - Len(s)]
  BY PrefixOfConcat
<1> HIDE DEF q
<1>2. i \in (Len(s) + 1)..Len(q)
  BY DEF q
<1>3. i \in 1..Len(q) /\ ~(i <= Len(s)) /\ i - Len(s) \in 1..Len(t)
  BY <1>1, <1>2
<1>4. q[i] = t[i - Len(s)]
  BY <1>1, <1>3
<1> QED
  BY <1>3, <1>4 DEF q

\* Whoever is pushed to by sendFrame is whoever it was asked to push to.
LEMMA TransmitKeepsGroup ==
    ASSUME OutputOK, NEW out, NEW current, Transmit(out, current),
           \A k \in Connection :
              /\ out[k] \in Seq(HonestFrame(k)')
              /\ HonestFrame(k) \subseteq HonestFrame(k)'
              /\ \A n \in 1..Len(out[k]) : out[k][n].type = "push" =>
                    membership[out[k][n].conversation][PersonAt(k)] = "active"
    PROVE  PushesInGroup
<1>1. ASSUME NEW k \in Connection, NEW i \in (Len(toClient[k]) + 1)..Len(toClient'[k])
      PROVE  \E n \in 1..Len(out[k]) : toClient'[k][i] = out[k][n]
  <2> DEFINE H == HonestFrame(k)'
             s == toClient[k]
             t == out[k]
             q == Written(s, t)
  <2>1. HonestFrame(k) \subseteq H /\ t \in Seq(H)
    OBVIOUS
  <2> HIDE DEF H
  <2>2. s \in Seq(H)
    BY <2>1 DEF OutputOK
  <2>3. ASSUME NEW j \in (Len(s) + 1)..Len(q)
        PROVE  \E n \in 1..Len(t) : q[j] = t[n]
    <3> HIDE DEF s, t
    <3> QED
      BY <2>1, <2>2, LimitsAssumption, NewFramesAreGiven
  <2>4. toClient'[k] = q \/ toClient'[k] = s
    BY DEF Transmit
  <2> HIDE DEF q
  <2>5. toClient'[k] # s
    BY <1>1, <2>2
  <2>6. i \in (Len(s) + 1)..Len(q) /\ toClient'[k][i] = q[i]
    BY <1>1, <2>4, <2>5
  <2> QED
    BY <2>3, <2>6
<1> QED
  BY <1>1 DEF PushesInGroup

\* An answer to one connection pushes nothing.
LEMMA AnswerKeepsOutput ==
    ASSUME StoreInvariant, [StoreNext]_storeVars, ConnectionsOK, OutputOK, PushesOK,
           NEW out, Transmit(out, phase),
           \A k \in Connection : out[k] \in Seq(HonestFrame(k)') /\ NoPush(out[k])
    PROVE  OutputOK' /\ PushesOK' /\ PushesInGroup
<1>1. ASSUME NEW k \in Connection
      PROVE  /\ HonestFrame(k) \subseteq HonestFrame(k)'
             /\ InOrder(out[k]) /\ Precedes(toClient[k], out[k])
             /\ phase'[k] \in {"none", "open"} => phase[k] \in {"none", "open"}
  <2>1. InOrder(out[k]) /\ Precedes(toClient[k], out[k])
    BY DEF NoPush, InOrder, Precedes
  <2>2. phase'[k] \in {"none", "open"} => phase[k] \in {"none", "open"}
    BY DEF Transmit
  <2> QED
    BY <2>1, <2>2, HonestStaysHonest
<1>2. PushesInGroup
  BY <1>1, TransmitKeepsGroup DEF NoPush
<1> QED
  BY <1>1, <1>2, TransmitKeepsOrder, TransmitKeepsOutput

\* One honest frame that is not a push, to one connection.
LEMMA ReplyKeepsOutput ==
    ASSUME StoreInvariant, [StoreNext]_storeVars, ConnectionsOK, OutputOK, PushesOK,
           NEW k \in Connection, NEW f \in HonestFrame(k)', f.type # "push",
           Transmit(Reply(k, f), phase)
    PROVE  OutputOK' /\ PushesOK' /\ PushesInGroup
<1>1. ASSUME NEW j \in Connection
      PROVE  NoPush(Reply(k, f)[j])
  <2>1. Reply(k, f)[j] = IF j = k THEN <<f>> ELSE <<>>
    BY DEF Reply, Nothing
  <2> QED
    BY <2>1 DEF NoPush
<1>2. \A j \in Connection : Reply(k, f)[j] \in Seq(HonestFrame(j)')
  BY ReplyIsHonest
<1> QED
  BY <1>1, <1>2, AnswerKeepsOutput

\* The push of a new message comes after every push that is already on the wire.
LEMMA AnnouncementKeepsOutput ==
    ASSUME StoreInvariant, ConnectionsOK, OneSessionPerPerson, OutputOK, PushesOK,
           NEW k \in Connection, NEW f \in SendFrame, Accepted(k, f)
    PROVE  OutputOK' /\ PushesOK' /\ PushesInGroup
<1>1. PICK m : /\ m = CHOOSE n \in messages' : n \notin messages
               /\ Commit(k, f)
               /\ Transmit(Announce(k, m, Recipients(f.conversation, PersonAt(k))), phase)
  BY DEF Accepted
<1> DEFINE R == Recipients(f.conversation, PersonAt(k))
           out == Announce(k, m, R)
<1>2. /\ m \in messages' /\ m \in Message /\ m.sender = PersonAt(k) /\ m.device = DeviceOf[k]
      /\ m.conversation = f.conversation
      /\ \A n \in messages : n.conversation = m.conversation => n.sequence < m.sequence
  BY <1>1, CommittedRow
<1>3. [StoreNext]_storeVars
  BY <1>1, CommitIsStoreCall
<1>4. \A j \in Connection : out[j] \in Seq(HonestFrame(j)')
  BY <1>2, NoConnectionAssumption, AnnouncementIsHonest
<1>5. ASSUME NEW j \in Connection
      PROVE  /\ InOrder(out[j]) /\ Precedes(toClient[j], out[j])
             /\ phase'[j] \in {"none", "open"} => phase[j] \in {"none", "open"} /\ NoPush(out[j])
             /\ \A n \in 1..Len(out[j]) : out[j][n].type = "push" =>
                   membership[out[j][n].conversation][PersonAt(j)] = "active"
  <2>1. phase'[j] \in {"none", "open"} => phase[j] \in {"none", "open"}
    BY <1>1 DEF Transmit
  <2>2. CASE out[j] # <<Push(m)>>
    <3>1. out[j] = <<Acknowledgement(m)>> \/ out[j] = <<>>
      BY <2>2 DEF Announce
    <3>2. NoPush(out[j])
      BY <3>1 DEF NoPush, Acknowledgement
    <3> HIDE DEF out
    <3> QED
      BY <2>1, <3>2 DEF InOrder, Precedes, NoPush
  <2>3. CASE out[j] = <<Push(m)>>
    <3>1. j # k /\ \E q \in R : onlinePeople[q] = j
      <4>1. <<Push(m)>> # <<Acknowledgement(m)>> /\ <<Push(m)>> # <<>>
        BY DEF Push, Acknowledgement
      <4> QED
        BY <2>3, <4>1 DEF Announce
    <3>2. phase[j] \in {"online", "closing"}
      BY <3>1, NoConnectionAssumption DEF OneSessionPerPerson, Recipients, Active, ConnectionsOK
    <3>3. ASSUME NEW i \in 1..Len(toClient[j]), toClient[j][i].type = "push",
                 toClient[j][i].conversation = m.conversation
          PROVE  toClient[j][i].sequence < m.sequence
      <4>1. toClient[j][i] \in HonestFrame(j)
        BY DEF OutputOK
      <4>2. PICK n \in messages : Push(n) = toClient[j][i]
        BY <3>3, <4>1 DEF HonestFrame, Honest
      <4>3. n.conversation = m.conversation /\ n.sequence = toClient[j][i].sequence
        BY <3>3, <4>2 DEF Push
      <4> QED
        BY <1>2, <4>3
    <3>4. Precedes(toClient[j], out[j])
      <4>1. Push(m).conversation = m.conversation /\ Push(m).sequence = m.sequence
        BY DEF Push
      <4> HIDE DEF out
      <4> QED
        BY <2>3, <3>3, <4>1 DEF Precedes
    <3>5. InOrder(out[j])
      <4> HIDE DEF out
      <4> QED
        BY <2>3 DEF InOrder
    <3>6. membership[Push(m).conversation][PersonAt(j)] = "active"
      BY <1>2, <3>1, NoConnectionAssumption DEF OneSessionPerPerson, Recipients, Active, Push
    <3>7. \A n \in 1..Len(out[j]) : out[j][n] = Push(m)
      <4> HIDE DEF out
      <4> QED
        BY <2>3
    <3> HIDE DEF out
    <3> QED
      BY <2>1, <3>2, <3>4, <3>5, <3>6, <3>7
  <2> QED
    BY <2>2, <2>3
<1> HIDE DEF out
<1>6. \A j \in Connection : HonestFrame(j) \subseteq HonestFrame(j)'
  BY <1>3, HonestStaysHonest
<1>7. Transmit(out, phase)
  BY <1>1 DEF out
<1>8. PushesInGroup
  BY <1>4, <1>5, <1>6, <1>7, TransmitKeepsGroup
<1> QED
  BY <1>3, <1>4, <1>5, <1>6, <1>7, <1>8, TransmitKeepsOrder, TransmitKeepsOutput

\* One frame and then a sequence of frames.
LEMMA FirstAndRest ==
    ASSUME NEW S, NEW first \in S, NEW rest \in Seq(S)
    PROVE  <<first>> \o rest \in Seq(S)
<1>1. <<first>> \in Seq(S)
  OBVIOUS
<1> QED
  BY <1>1

\* A login: the socket had no pushes, and the replay brings them in sequence.
LEMMA LoginKeepsOutput ==
    ASSUME StoreInvariant, IsFiniteSet(messages), ConnectionsOK, OutputOK, PushesOK,
           NEW k \in Connection, HandleLogin(k)
    PROVE  OutputOK' /\ PushesOK' /\ PushesInGroup
<1> DEFINE p == PersonAt(k)
           old == onlinePeople[p]
<1>1. phase[k] = "open" /\ p \in Person /\ UNCHANGED storeVars
  BY PersonOfConnection DEF HandleLogin
<1>2. PICK kicked \in {"closing", "gone"}, replay \in Replays(p) :
         Transmit([Nothing EXCEPT ![k] = <<LoginResponse(TRUE)>> \o replay],
                  [j \in Connection |-> IF j = k THEN "online"
                                        ELSE IF j = old THEN kicked ELSE phase[j]])
  BY DEF HandleLogin
<1> DEFINE current == [j \in Connection |-> IF j = k THEN "online"
                                            ELSE IF j = old THEN kicked ELSE phase[j]]
           out == [Nothing EXCEPT ![k] = <<LoginResponse(TRUE)>> \o replay]
<1>3. PICK n \in Nat : \E o \in [1..n -> Pending(p)] :
         /\ replay = [i \in 1..n |-> Push(o[i])]
         /\ \A i, j \in 1..n : i < j /\ o[i].conversation = o[j].conversation
                               => o[i].sequence < o[j].sequence
  BY <1>1, <1>2, ReplayIsOrdered
<1>4. PICK o \in [1..n -> Pending(p)] :
         /\ replay = [i \in 1..n |-> Push(o[i])]
         /\ \A i, j \in 1..n : i < j /\ o[i].conversation = o[j].conversation
                               => o[i].sequence < o[j].sequence
  BY <1>3
<1>5. replay \in Seq(HonestFrame(k)') /\ Len(replay) = n
  <2> DEFINE H == HonestFrame(k)'
  <2>1. ASSUME NEW i \in 1..n
        PROVE  Push(o[i]) \in H
    <3>1. o[i] \in messages' /\ o[i] \in Message /\ o[i].sender # PersonAt(k)
      BY <1>1 DEF Pending, storeVars, StoreInvariant, TypeOK
    <3>2. PICK m \in messages' : m = o[i]
      BY <3>1
    <3> QED
      BY <3>1, <3>2, PushIsHonest
  <2> HIDE DEF H
  <2>2. replay \in Seq(H) /\ Len(replay) = n
    BY <1>4, <2>1
  <2> QED
    BY <2>2 DEF H
<1>6. InOrder(<<LoginResponse(TRUE)>> \o replay)
  <2> DEFINE r == <<LoginResponse(TRUE)>> \o replay
  <2>1. Len(r) = n + 1 /\ r[1] = LoginResponse(TRUE) /\ \A i \in 2..(n + 1) : r[i] = replay[i - 1]
    BY <1>5
  <2>2. \A i \in 1..n : /\ replay[i].conversation = o[i].conversation
                        /\ replay[i].sequence = o[i].sequence
    BY <1>4 DEF Push
  <2>3. r[1].type # "push"
    BY <2>1 DEF LoginResponse
  <2> HIDE DEF r
  <2>4. ASSUME NEW i \in 1..Len(r), NEW j \in 1..Len(r), i < j,
               r[i].type = "push", r[i].conversation = r[j].conversation
        PROVE  r[i].sequence < r[j].sequence
    <3>0. i # 1 /\ Len(r) = n + 1
      BY <2>1, <2>3, <2>4
    <3>1. /\ i - 1 \in 1..n /\ j - 1 \in 1..n /\ i - 1 < j - 1
          /\ i \in 2..(n + 1) /\ j \in 2..(n + 1)
      BY <2>4, <3>0
    <3>2. r[i] = replay[i - 1] /\ r[j] = replay[j - 1]
      BY <2>1, <3>1
    <3> QED
      BY <1>4, <2>2, <2>4, <3>1, <3>2
  <2>5. InOrder(r)
    BY <2>4 DEF InOrder
  <2> QED
    BY <2>5 DEF r
<1>7. \A j \in Connection : out[j] = IF j = k THEN <<LoginResponse(TRUE)>> \o replay ELSE <<>>
  BY DEF Nothing
<1>8. \A j \in Connection : phase'[j] \in {"none", "open"} => j # k /\ phase[j] \in {"none", "open"}
  BY <1>1, <1>2 DEF Transmit
<1>9. \A i \in 1..Len(<<LoginResponse(TRUE)>> \o replay) :
         LET f == (<<LoginResponse(TRUE)>> \o replay)[i]
         IN f.type = "push" => membership[f.conversation][p] = "active"
  <2> DEFINE r == <<LoginResponse(TRUE)>> \o replay
  <2>1. Len(r) = n + 1 /\ r[1] = LoginResponse(TRUE) /\ \A i \in 2..(n + 1) : r[i] = replay[i - 1]
    BY <1>5
  <2>2. \A i \in 1..n : membership[replay[i].conversation][p] = "active"
    BY <1>4 DEF Push, Pending
  <2>3. r[1].type # "push"
    BY <2>1 DEF LoginResponse
  <2> HIDE DEF r
  <2>4. ASSUME NEW i \in 1..Len(r), r[i].type = "push"
        PROVE  membership[r[i].conversation][p] = "active"
    <3>1. i # 1 /\ Len(r) = n + 1
      BY <2>1, <2>3, <2>4
    <3>2. i \in 2..(n + 1) /\ i - 1 \in 1..n
      BY <2>4, <3>1
    <3> QED
      BY <2>1, <2>2, <3>2
  <2> QED
    BY <2>4 DEF r
<1> HIDE DEF out, current
<1>10. ASSUME NEW j \in Connection
      PROVE  /\ out[j] \in Seq(HonestFrame(j)')
             /\ HonestFrame(j) \subseteq HonestFrame(j)'
             /\ InOrder(out[j]) /\ Precedes(toClient[j], out[j])
             /\ phase'[j] \in {"none", "open"} => phase[j] \in {"none", "open"} /\ NoPush(out[j])
             /\ \A i \in 1..Len(out[j]) : out[j][i].type = "push" =>
                   membership[out[j][i].conversation][PersonAt(j)] = "active"
  <2>1. HonestFrame(j) \subseteq HonestFrame(j)'
    BY <1>1, HonestStaysHonest
  <2>2. CASE j = k
    <3>1. LoginResponse(TRUE) \in HonestFrame(k)'
      BY PlainAnswersAreHonest
    <3>2. <<LoginResponse(TRUE)>> \o replay \in Seq(HonestFrame(k)')
      <4> DEFINE H == HonestFrame(k)'
      <4> HIDE DEF H
      <4>1. PICK first \in H : first = LoginResponse(TRUE)
        BY <3>1 DEF H
      <4>2. replay \in Seq(H)
        BY <1>5 DEF H
      <4>3. <<first>> \o replay \in Seq(H)
        BY <4>2, FirstAndRest
      <4> QED
        BY <4>1, <4>3 DEF H
    <3>3. NoPush(toClient[k])
      BY <1>1 DEF PushesOK
    <3>4. Precedes(toClient[k], out[k])
      BY <3>3 DEF NoPush, Precedes
    <3> QED
      BY <1>6, <1>7, <1>8, <1>9, <2>1, <2>2, <3>2, <3>4
  <2>3. CASE j # k
    <3>1. out[j] = <<>>
      BY <1>7, <2>3
    <3>2. InOrder(out[j]) /\ Precedes(toClient[j], out[j]) /\ NoPush(out[j])
      BY <3>1 DEF InOrder, Precedes, NoPush
    <3> QED
      BY <1>8, <2>1, <3>1, <3>2
  <2> QED
    BY <2>2, <2>3
<1>11. Transmit(out, current)
  BY <1>2 DEF out, current
<1>12. OutputOK'
  BY <1>1, <1>10, <1>11, TransmitKeepsOutput
<1>13. PushesOK'
  BY <1>10, <1>11, TransmitKeepsOrder
<1>14. PushesInGroup
  BY <1>10, <1>11, TransmitKeepsGroup
<1> QED
  BY <1>12, <1>13, <1>14

\* The outcome of a send frame, of either kind, says what the tables say.
LEMMA OutcomeKeepsOutput ==
    ASSUME StoreInvariant, ConnectionsOK, OneSessionPerPerson, OutputOK, PushesOK,
           NEW k \in Connection, NEW f \in SendFrame,
           Accepted(k, f) \/ AcceptedBefore(k, f) \/ Refused(k, f)
    PROVE  OutputOK' /\ PushesOK' /\ PushesInGroup
<1>1. [StoreNext]_storeVars
  BY OutcomeIsStoreCall DEF storeVars
<1>2. CASE Accepted(k, f)
  BY <1>2, AnnouncementKeepsOutput
<1>3. CASE AcceptedBefore(k, f)
  <2>1. PICK m \in Earlier(k, f) : Transmit(Reply(k, Acknowledgement(m)), phase)
    BY <1>3 DEF AcceptedBefore
  <2>2. m \in messages' /\ m \in Message
    BY <1>3, <2>1 DEF AcceptedBefore, storeVars, Earlier, Submitted, Uploaded, StoreInvariant, TypeOK
  <2>3. m.sender = PersonAt(k) /\ (m.device = DeviceOf[k] \/ m.kind = "file")
    BY <2>1 DEF Earlier, Submitted, Uploaded, StoreInvariant, SenderOwnsDevice, PersonAt
  <2>4. Acknowledgement(m) \in HonestFrame(k)' /\ Acknowledgement(m).type # "push"
    BY <2>2, <2>3, AcknowledgementIsHonest DEF Acknowledgement
  <2> QED
    BY <1>1, <2>1, <2>4, ReplyKeepsOutput
<1>4. CASE Refused(k, f)
  <2>1. Transmit(Reply(k, Failure(f.clientId)), phase)
    BY <1>4 DEF Refused
  <2>2. Failure(f.clientId) \in HonestFrame(k)' /\ Failure(f.clientId).type # "push"
    BY SendFields, PlainAnswersAreHonest
  <2> QED
    BY <1>1, <2>1, <2>2, ReplyKeepsOutput
<1> QED
  BY <1>2, <1>3, <1>4

\* handleDeliveryReceipt and handleReadReceipt: the routed copy follows the row.
LEMMA ReceiptKeepsOutput ==
    ASSUME StoreInvariant, ConnectionsOK, OneSessionPerPerson, OutputOK, PushesOK,
           NEW k \in Connection, NEW f \in ClientFrame,
           \/ /\ f.type = "delivered" /\ MarkDelivered(PersonAt(k), f.conversation, f.sequence)
           \/ /\ f.type = "read" /\ MarkRead(PersonAt(k), f.conversation, f.sequence),
           RouteReceipt(k, f)
    PROVE  OutputOK' /\ PushesOK' /\ PushesInGroup
<1> DEFINE p == PersonAt(k)
           c == f.conversation
           s == f.sequence
           author == CHOOSE n \in messages : n.conversation = c /\ n.sequence = s
           row == [conversation |-> c, sequence |-> s, person |-> p, type |-> f.type]
<1>1. p \in Person /\ c \in Conversation /\ s \in Sequence /\ f.type \in {"delivered", "read"}
  BY PersonOfConnection, FrameFields
<1>2. [StoreNext]_storeVars
  BY <1>1 DEF StoreNext
<1>3. Anchor(p, c, s) # {} /\ row \in receipts' /\ messages' = messages
  BY DEF MarkDelivered, MarkRead, CanRead
<1>4. PICK m \in messages : m = author /\ m.conversation = c /\ m.sequence = s
  BY <1>3 DEF Anchor
<1>5. m.sender \in Person
  BY <1>4 DEF StoreInvariant, TypeOK, Message
<1>6. PICK j \in Connection \cup {NoConnection} :
         /\ j = onlinePeople[m.sender]
         /\ Transmit(IF j = NoConnection THEN Nothing ELSE Reply(j, Routed(f, p)), phase)
  BY <1>4, <1>5 DEF RouteReceipt, ConnectionsOK
<1>7. CASE j = NoConnection
  <2>1. \A i \in Connection : Nothing[i] \in Seq(HonestFrame(i)') /\ NoPush(Nothing[i])
    BY DEF Nothing, NoPush
  <2> QED
    BY <1>2, <1>6, <1>7, <2>1, AnswerKeepsOutput
<1>8. CASE j # NoConnection
  <2>1. j \in Connection /\ PersonAt(j) = m.sender
    BY <1>5, <1>6, <1>8 DEF OneSessionPerPerson
  <2>2. Routed(f, p) \in HonestFrame(j)' /\ Routed(f, p).type # "push"
    BY <1>1, <1>3, <1>4, <2>1, RoutedIsHonest DEF Routed
  <2> QED
    BY <1>2, <1>6, <1>8, <2>1, <2>2, ReplyKeepsOutput
<1> QED
  BY <1>7, <1>8

\* A step that writes no frame.
LEMMA SilentStepKeepsOutput ==
    ASSUME StoreInvariant, [StoreNext]_storeVars, OutputOK, PushesOK, UNCHANGED toClient,
           \A k \in Connection : phase'[k] \in {"none", "open"} => phase[k] \in {"none", "open"}
    PROVE  OutputOK' /\ PushesOK' /\ PushesInGroup
<1>1. ASSUME NEW k \in Connection
      PROVE  toClient[k] \in Seq(HonestFrame(k)')
  <2> DEFINE H == HonestFrame(k)'
  <2>1. HonestFrame(k) \subseteq H
    BY HonestStaysHonest
  <2> HIDE DEF H
  <2>2. toClient[k] \in Seq(H)
    BY <2>1 DEF OutputOK
  <2> QED
    BY <2>2 DEF H
<1>2. \A k \in Connection : (Len(toClient[k]) + 1)..Len(toClient'[k]) = {}
  BY DEF OutputOK
<1> QED
  BY <1>1, <1>2 DEF OutputOK, PushesOK, PushesInGroup

\* A client takes the oldest frame.
LEMMA ReadingKeepsOutput ==
    ASSUME OutputOK, PushesOK, UNCHANGED <<storeVars, phase>>,
           NEW k \in Connection, ClientRead(k)
    PROVE  OutputOK' /\ PushesOK' /\ PushesInGroup
<1>1. \A j \in Connection : HonestFrame(j)' = HonestFrame(j)
  BY DEF HonestFrame, Honest, storeVars
<1>2. ASSUME NEW j \in Connection
      PROVE  /\ toClient'[j] \in Seq(HonestFrame(j))
             /\ InOrder(toClient'[j])
             /\ NoPush(toClient[j]) => NoPush(toClient'[j])
             /\ (Len(toClient[j]) + 1)..Len(toClient'[j]) = {}
  <2> DEFINE s == toClient[j]
             t == Tail(s)
  <2>1. s \in Seq(HonestFrame(j)) /\ InOrder(s)
    BY DEF OutputOK, PushesOK
  <2>2. toClient'[j] = IF j = k THEN t ELSE s
    BY DEF ClientRead, OutputOK
  <2>3. CASE j = k
    <3>1. s # <<>>
      BY <2>3 DEF ClientRead
    <3> HIDE DEF s
    <3>2. /\ t \in Seq(HonestFrame(j)) /\ Len(t) = Len(s) - 1 /\ Len(s) \in Nat
          /\ \A i \in 1..Len(t) : t[i] = s[i + 1] /\ i + 1 \in 1..Len(s)
      BY <2>1, <3>1
    <3> HIDE DEF t
    <3>3. InOrder(t)
      BY <2>1, <3>2 DEF InOrder
    <3>4. NoPush(s) => NoPush(t)
      BY <3>2 DEF NoPush
    <3> QED
      BY <2>2, <2>3, <3>2, <3>3, <3>4 DEF s
  <2>4. CASE j # k
    BY <2>1, <2>2, <2>4
  <2> QED
    BY <2>3, <2>4
<1>3. toClient' = [j \in Connection |-> toClient'[j]]
  BY DEF ClientRead, OutputOK
<1> QED
  BY <1>1, <1>2, <1>3 DEF OutputOK, PushesOK, PushesInGroup

\* Every step of the gateway keeps the frames true and in order.
LEMMA StepKeepsOutput ==
    ASSUME ConnectionsOK, InputOK, OneSessionPerPerson, StoreInvariant,
           IsFiniteSet(messages), OutputOK, PushesOK, GatewayNext
    PROVE  OutputOK' /\ PushesOK' /\ PushesInGroup
<1>0. [StoreNext]_storeVars
  BY StepIsStoreCall
<1>1. ASSUME NEW k \in Connection, Handle(k)
      PROVE  OutputOK' /\ PushesOK' /\ PushesInGroup
  <2>1. CASE HandleLogin(k)
    BY <2>1, LoginKeepsOutput
  <2>2. CASE RejectLogin(k) \/ RefuseFrame(k)
    <3>1. PICK f \in {Error, LoginResponse(FALSE)} : Transmit(Reply(k, f), phase)
      BY <2>2 DEF RejectLogin, RefuseFrame
    <3>2. f \in HonestFrame(k)' /\ f.type # "push"
      BY <3>1, PlainAnswersAreHonest
    <3> QED
      BY <1>0, <3>1, <3>2, ReplyKeepsOutput
  <2>3. CASE HandleSend(k) \/ RefuseUpload(k)
    <3>1. Head(toServer[k]) \in SendFrame
      BY <2>3, HeadIsFrame, FrameFields DEF HandleSend, RefuseUpload, Sends, Receives
    <3> QED
      BY <2>3, <3>1, OutcomeKeepsOutput DEF HandleSend, RefuseUpload
  <2>4. CASE BeginUpload(k)
    BY <1>0, <2>4, SilentStepKeepsOutput DEF BeginUpload
  <2>5. CASE HandleDelivered(k) \/ HandleRead(k)
    <3>1. Head(toServer[k]) \in ClientFrame
      BY <2>5, HeadIsFrame DEF HandleDelivered, HandleRead, Receives
    <3>2. CASE Transmit(Reply(k, Error), phase)
      <4>1. Error \in HonestFrame(k)' /\ Error.type # "push"
        BY PlainAnswersAreHonest
      <4> QED
        BY <1>0, <3>2, <4>1, ReplyKeepsOutput
    <3> QED
      BY <2>5, <3>1, <3>2, ReceiptKeepsOutput DEF HandleDelivered, HandleRead, Receives
  <2> QED
    BY <1>1, <2>1, <2>2, <2>3, <2>4, <2>5 DEF Handle
<1>2. ASSUME NEW k \in Connection, RemoveConnection(k) \/ BeginClose(k)
      PROVE  OutputOK' /\ PushesOK' /\ PushesInGroup
  BY <1>0, <1>2, SilentStepKeepsOutput DEF RemoveConnection, BeginClose, ConnectionsOK
<1>3. CASE FinishUpload
  <2>1. CASE UNCHANGED <<storeVars, phase, toClient>>
    BY <1>0, <2>1, SilentStepKeepsOutput
  <2> QED
    BY <1>3, <2>1, LastUpload, OutcomeKeepsOutput DEF FinishUpload
<1>4. CASE UpdateMembers
  BY <1>0, <1>4, SilentStepKeepsOutput DEF UpdateMembers, gatewayVars
<1>5. CASE GatewayCrash
  BY <1>0, <1>5, SilentStepKeepsOutput DEF GatewayCrash, Crash
<1>6. ASSUME NEW k \in Connection, AnyClient(k)
      PROVE  OutputOK' /\ PushesOK' /\ PushesInGroup
  <2>1. CASE Accept(k, <<>>)
    BY <1>0, <2>1, SilentStepKeepsOutput DEF Accept, Admitted, ConnectionsOK
  <2>2. CASE UNCHANGED <<phase, toClient>>
    BY <1>0, <2>2, SilentStepKeepsOutput
  <2>3. CASE ClientRead(k) /\ UNCHANGED <<storeVars, phase>>
    BY <2>3, ReadingKeepsOutput
  <2> QED
    BY <1>6, <2>1, <2>2, <2>3 DEF AnyClient
<1> QED
  BY <1>1, <1>2, <1>3, <1>4, <1>5, <1>6 DEF GatewayNext, ServerNext

-----------------------------------------------------------------------------
(* The invariant.                                                          *)

GatewayInvariant ==
    /\ StoreInvariant /\ IsFiniteSet(messages)
    /\ ConnectionsOK /\ OneSessionPerPerson
    /\ InputOK /\ OutputOK /\ PushesOK

\* A gateway that just started, with the tables of a fresh database.
LEMMA GatewayInitEstablishesInvariant == GatewayInit => GatewayInvariant
<1> SUFFICES ASSUME GatewayInit PROVE GatewayInvariant
  OBVIOUS
<1>1. ConnectionsOK /\ OneSessionPerPerson /\ InputOK
  BY NoConnectionAssumption
     DEF GatewayInit, ConnectionsOK, InputOK, OneSessionPerPerson, Phase
<1>2. StoreInvariant /\ IsFiniteSet(messages)
  BY InitEstablishesInvariant, FS_EmptySet DEF GatewayInit, Init
<1>3. \A k \in Connection : toClient[k] = <<>>
  BY DEF GatewayInit
<1>4. OutputOK /\ PushesOK
  BY <1>3 DEF GatewayInit, OutputOK, PushesOK, InOrder, NoPush
<1> QED
  BY <1>1, <1>2, <1>4 DEF GatewayInvariant

\* No handler, client, closing socket or crash breaks it.
LEMMA GatewayStepKeepsInvariant == GatewayInvariant /\ [GatewayNext]_vars => GatewayInvariant'
<1> SUFFICES ASSUME GatewayInvariant, [GatewayNext]_vars
             PROVE  GatewayInvariant'
  OBVIOUS
<1>1. StoreInvariant' /\ IsFiniteSet(messages)'
  BY StepIsStoreCall, StepKeepsInvariant, MessagesStayFinite DEF GatewayInvariant
<1>2. CASE GatewayNext
  BY <1>1, <1>2, StepKeepsInput, StepKeepsSessions, StepKeepsOutput DEF GatewayInvariant
<1>3. CASE UNCHANGED vars
  <2>1. (ConnectionsOK /\ OneSessionPerPerson /\ InputOK)'
    BY <1>3 DEF vars, gatewayVars, GatewayInvariant, ConnectionsOK, InputOK, OneSessionPerPerson
  <2>2. (OutputOK /\ PushesOK)'
    BY <1>3, StepIsStoreCall, SilentStepKeepsOutput DEF GatewayInvariant, vars, gatewayVars
  <2> QED
    BY <1>1, <2>1, <2>2 DEF GatewayInvariant
<1> QED
  BY <1>2, <1>3

\* The inductive invariant, for every instance.
THEOREM GatewayIsCorrect == GatewaySpec => []GatewayInvariant
BY GatewayInitEstablishesInvariant, GatewayStepKeepsInvariant, PTL DEF GatewaySpec

\* The type invariant of the gateway, for every instance.
THEOREM GatewayTypeIsCorrect == GatewaySpec => []GatewayTypeOK
<1>1. GatewayInvariant => GatewayTypeOK
  <2> SUFFICES ASSUME GatewayInvariant PROVE GatewayTypeOK
    OBVIOUS
  <2>1. \A k \in Connection : toClient[k] \in Seq(ServerFrame)
    <3>1. \A k \in Connection : HonestFrame(k) \subseteq ServerFrame
      BY DEF HonestFrame
    <3> QED
      BY <3>1 DEF GatewayInvariant, OutputOK
  <2>2. toClient \in [Connection -> Seq(ServerFrame)]
    BY <2>1 DEF GatewayInvariant, OutputOK
  <2> QED
    BY <2>2 DEF GatewayInvariant, GatewayTypeOK, StoreInvariant, ConnectionsOK, InputOK
<1> QED
  BY <1>1, GatewayIsCorrect, PTL

\* A person has one session, held by the socket of the newest login, whenever
\* and in whatever order the sockets that were kicked, closed or lost go away.
THEOREM EverybodyHasOneSession == GatewaySpec => []OneSessionPerPerson
BY GatewayIsCorrect, PTL DEF GatewayInvariant

\* What is on its way to a client tells of rows the database has.
LEMMA FramesTellTheTruth == GatewayInvariant => AcknowledgedIsStored /\ RoutedReceiptsAreRecorded
<1> SUFFICES ASSUME GatewayInvariant PROVE AcknowledgedIsStored /\ RoutedReceiptsAreRecorded
  OBVIOUS
<1>1. ASSUME NEW k \in Connection, NEW i \in DOMAIN toClient[k]
      PROVE  Honest(k, toClient[k][i])
  <2>1. toClient[k][i] \in HonestFrame(k)
    BY <1>1 DEF GatewayInvariant, OutputOK
  <2> QED
    BY <2>1 DEF HonestFrame
<1>2. AcknowledgedIsStored
  BY <1>1 DEF AcknowledgedIsStored, FramesTo, Honest
<1>3. RoutedReceiptsAreRecorded
  BY <1>1 DEF RoutedReceiptsAreRecorded, FramesTo, Honest
<1> QED
  BY <1>2, <1>3

\* An acknowledgement on its way to a client names a row the database has, after
\* every crash and failed call.
THEOREM AcknowledgementsTellTheTruth == GatewaySpec => []AcknowledgedIsStored
BY FramesTellTheTruth, GatewayIsCorrect, PTL

\* A receipt routed to an author names a receipt the database has.
THEOREM RoutedReceiptsTellTheTruth == GatewaySpec => []RoutedReceiptsAreRecorded
BY FramesTellTheTruth, GatewayIsCorrect, PTL

\* The pushes on a socket are in sequence, and of other people.
LEMMA FramesAreInSequence == GatewayInvariant => PushesComeInSequence
<1> SUFFICES ASSUME GatewayInvariant PROVE PushesComeInSequence
  OBVIOUS
<1>1. ASSUME NEW k \in Connection
      PROVE  /\ DOMAIN toClient[k] = 1..Len(toClient[k])
             /\ InOrder(toClient[k])
             /\ \A i \in DOMAIN toClient[k] : Honest(k, toClient[k][i])
  <2>1. toClient[k] \in Seq(HonestFrame(k)) /\ InOrder(toClient[k])
    BY DEF GatewayInvariant, OutputOK, PushesOK
  <2>2. \A i \in DOMAIN toClient[k] : toClient[k][i] \in HonestFrame(k)
    BY <2>1
  <2> QED
    BY <2>1, <2>2 DEF HonestFrame
<1>2. ASSUME NEW k \in Connection, NEW i \in FramesTo(k, "push"), NEW j \in FramesTo(k, "push"),
             i < j, toClient[k][i].conversation = toClient[k][j].conversation
      PROVE  toClient[k][i].sequence < toClient[k][j].sequence
  BY <1>1, <1>2 DEF FramesTo, InOrder
<1>3. ASSUME NEW k \in Connection, NEW i \in FramesTo(k, "push")
      PROVE  \E m \in messages : Push(m) = toClient[k][i] /\ m.sender # PersonAt(k)
  BY <1>1, <1>3 DEF FramesTo, Honest
<1> QED
  BY <1>2, <1>3 DEF PushesComeInSequence

\* On every socket, through logins with a replay, live pushes and output that is
\* cut off, the pushes of a conversation come in sequence and never to the author.
THEOREM PushesAreInSequence == GatewaySpec => []PushesComeInSequence
BY FramesAreInSequence, GatewayIsCorrect, PTL

\* Whoever is sent a message of a conversation is a member of it at that moment.
THEOREM OnlyMembersArePushedTo == GatewaySpec => PushesStayInTheGroup
<1>1. GatewayInvariant /\ [GatewayNext]_vars => PushesInGroup \/ UNCHANGED vars
  BY StepKeepsOutput DEF GatewayInvariant
<1> QED
  BY <1>1, GatewayIsCorrect, PTL DEF GatewaySpec, PushesStayInTheGroup, PushesInGroup

\* sendFrame closes sockets and opens none.
LEMMA TransmitAges ==
    ASSUME NEW out, NEW current \in [Connection -> Phase], Transmit(out, current),
           NEW k \in Connection
    PROVE  Age(current[k]) <= Age(phase'[k])
<1>1. phase'[k] = current[k] \/ (current[k] = "open" /\ phase'[k] = "gone")
                              \/ (current[k] = "online" /\ phase'[k] = "closing")
  BY DEF Transmit
<1>2. current[k] \in Phase
  OBVIOUS
<1> QED
  BY <1>1, <1>2 DEF Age, Phase

\* Every step of the gateway takes sockets forwards.
LEMMA StepAges ==
    ASSUME ConnectionsOK, OneSessionPerPerson, GatewayNext, NEW j \in Connection
    PROVE  Age(phase[j]) <= Age(phase[j]')
<1> USE DEF ConnectionsOK
<1>1. CASE UNCHANGED phase
  BY <1>1 DEF Age, Phase
<1>2. ASSUME NEW out, Transmit(out, phase)
      PROVE  Age(phase[j]) <= Age(phase[j]')
  BY <1>2, TransmitAges
<1>3. ASSUME NEW k \in Connection, Handle(k)
      PROVE  Age(phase[j]) <= Age(phase[j]')
  <2>1. CASE HandleLogin(k)
    <3>1. PICK old \in Connection \cup {NoConnection} :
             /\ old = onlinePeople[PersonAt(k)]
             /\ \E kicked \in {"closing", "gone"} : \E out :
                   Transmit(out, [i \in Connection |-> IF i = k THEN "online"
                                                       ELSE IF i = old THEN kicked ELSE phase[i]])
      BY <2>1, PersonOfConnection DEF HandleLogin
    <3>2. PICK kicked \in {"closing", "gone"} : \E out :
             Transmit(out, [i \in Connection |-> IF i = k THEN "online"
                                                 ELSE IF i = old THEN kicked ELSE phase[i]])
      BY <3>1
    <3> DEFINE current == [i \in Connection |-> IF i = k THEN "online"
                                                ELSE IF i = old THEN kicked ELSE phase[i]]
    <3>3. current \in [Connection -> Phase]
      BY <3>2 DEF Phase
    <3>4. PICK out : Transmit(out, current)
      BY <3>2
    <3>5. Age(current[j]) <= Age(phase'[j])
      <4> HIDE DEF current
      <4> QED
        BY <3>3, <3>4, TransmitAges
    <3>6. phase[k] = "open" /\ (j = old => phase[j] \in {"online", "closing"})
      BY <2>1, <3>1, PersonOfConnection, NoConnectionAssumption DEF HandleLogin, OneSessionPerPerson
    <3>7. Age(phase[j]) <= Age(current[j])
      BY <3>2, <3>6 DEF Age, Phase
    <3>8. Age(phase[j]) \in Int /\ Age(current[j]) \in Int /\ Age(phase'[j]) \in Int
      <4>1. phase[j] \in Phase /\ current[j] \in Phase
        BY <3>3
      <4>2. phase'[j] \in Phase
        <5> HIDE DEF current
        <5> QED
          BY <3>3, <3>4, TransmitPhase
      <4> HIDE DEF current
      <4> QED
        BY <4>1, <4>2 DEF Age, Phase
    <3> HIDE DEF current
    <3> QED
      BY <3>5, <3>7, <3>8
  <2>2. CASE RejectLogin(k) \/ RefuseFrame(k)
    BY <1>2, <2>2 DEF RejectLogin, RefuseFrame
  <2>3. CASE HandleSend(k) \/ RefuseUpload(k)
    BY <1>2, <2>3 DEF HandleSend, RefuseUpload, Accepted, AcceptedBefore, Refused
  <2>4. CASE HandleDelivered(k) \/ HandleRead(k)
    BY <1>2, <2>4 DEF HandleDelivered, HandleRead, RouteReceipt
  <2> QED
    BY <1>1, <1>3, <2>1, <2>2, <2>3, <2>4 DEF Handle, BeginUpload
<1>4. ASSUME NEW k \in Connection, RemoveConnection(k) \/ BeginClose(k) \/ Accept(k, <<>>)
      PROVE  Age(phase[j]) <= Age(phase[j]')
  BY <1>4 DEF RemoveConnection, BeginClose, Accept, Admitted, Age, Phase, Attached
<1>5. CASE FinishUpload
  BY <1>1, <1>2, <1>5 DEF FinishUpload, Accepted, AcceptedBefore, Refused
<1>6. CASE GatewayCrash
  BY <1>6 DEF GatewayCrash, Crash, Age, Phase, Attached
<1> QED
  BY <1>1, <1>3, <1>4, <1>5, <1>6 DEF GatewayNext, ServerNext, AnyClient, UpdateMembers, gatewayVars

\* A socket that was kicked, closed or lost is never used again.
THEOREM SocketsOnlyAge == GatewaySpec => ConnectionsOnlyAge
<1>1. GatewayInvariant /\ [GatewayNext]_vars =>
         (\A k \in Connection : Age(phase[k]) <= Age(phase[k]')) \/ UNCHANGED vars
  BY StepAges DEF GatewayInvariant
<1> QED
  BY <1>1, GatewayIsCorrect, PTL DEF GatewaySpec, ConnectionsOnlyAge

\* The gateway uses the tables as MessageStore says: suspended uploads, crashes
\* and failures included, a step makes one store call or none.
THEOREM GatewayUsesStoreAsSpecified == GatewaySpec => UsesStoreAsSpecified
<1>1. GatewayInit => Init
  BY DEF GatewayInit
<1>2. GatewayInvariant /\ [GatewayNext]_vars => [StoreNext]_storeVars
  BY StepIsStoreCall DEF GatewayInvariant
<1> QED
  BY <1>1, <1>2, GatewayIsCorrect, PTL DEF GatewaySpec, UsesStoreAsSpecified, StoreSpec

=============================================================================
