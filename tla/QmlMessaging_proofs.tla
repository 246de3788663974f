------------------------ MODULE QmlMessaging_proofs ------------------------
(***************************************************************************)
(* Proofs about QmlMessaging, for every set of people, devices, sockets,   *)
(* conversations and message ids.  What holds behind the gateway whatever  *)
(* clients write holds with the QML client at the other end.  For the      *)
(* sessions one must know what is on the wire: a socket that answers to a  *)
(* login answers once.  For the watermarks one must know what a client was *)
(* told: a person who is online got, or has on the wire, every message of  *)
(* the conversations, so that a receipt on its way covers no other one.    *)
(***************************************************************************)
EXTENDS QmlMessaging, Gateway_proofs

\* The frames in flight to and from a socket.
OnWire(k) == ToSet(toClient[k])
Asked(k) == ToSet(toServer[k])

-----------------------------------------------------------------------------
(* Frames in flight.                                                       *)

\* The elements of a sequence, of its rest and of two in a row.
LEMMA ElementsOfSequences ==
    ASSUME NEW T, NEW s \in Seq(T), NEW t \in Seq(T)
    PROVE  /\ ToSet(s) \subseteq T
           /\ ToSet(s \o t) = ToSet(s) \cup ToSet(t)
           /\ s # <<>> => /\ Head(s) \in ToSet(s) /\ Tail(s) \in Seq(T)
                          /\ ToSet(s) = {Head(s)} \cup ToSet(Tail(s))
<1>1. ToSet(s) \subseteq T
  BY DEF ToSet
<1>2. ToSet(s \o t) = ToSet(s) \cup ToSet(t)
  <2> DEFINE u == s \o t
  <2>1. /\ u \in Seq(T) /\ Len(u) = Len(s) + Len(t)
        /\ \A i \in 1..Len(u) : u[i] = IF i <= Len(s) THEN s[i] ELSE t[i - Len(s)]
    OBVIOUS
  <2> HIDE DEF u
  <2>2. ToSet(u) \subseteq ToSet(s) \cup ToSet(t)
    <3> SUFFICES ASSUME NEW i \in 1..Len(u) PROVE u[i] \in ToSet(s) \cup ToSet(t)
      BY <2>1 DEF ToSet
    <3>1. CASE i <= Len(s)
      BY <2>1, <3>1 DEF ToSet
    <3>2. CASE i > Len(s)
      <4>1. i - Len(s) \in 1..Len(t) /\ u[i] = t[i - Len(s)]
        BY <2>1, <3>2
      <4> QED
        BY <4>1 DEF ToSet
    <3> QED
      BY <3>1, <3>2
  <2>3. ToSet(s) \subseteq ToSet(u)
    <3> SUFFICES ASSUME NEW i \in 1..Len(s) PROVE s[i] \in ToSet(u)
      BY DEF ToSet
    <3>1. i \in 1..Len(u) /\ u[i] = s[i]
      BY <2>1
    <3> QED
      BY <2>1, <3>1 DEF ToSet
  <2>4. ToSet(t) \subseteq ToSet(u)
    <3> SUFFICES ASSUME NEW i \in 1..Len(t) PROVE t[i] \in ToSet(u)
      BY DEF ToSet
    <3>1. i + Len(s) \in 1..Len(u) /\ u[i + Len(s)] = t[i]
      BY <2>1
    <3> QED
      BY <2>1, <3>1 DEF ToSet
  <2> QED
    BY <2>2, <2>3, <2>4 DEF u
<1>3. ASSUME s # <<>>
      PROVE  /\ Head(s) \in ToSet(s) /\ Tail(s) \in Seq(T)
             /\ ToSet(s) = {Head(s)} \cup ToSet(Tail(s))
  <2> DEFINE u == Tail(s)
  <2>1. /\ u \in Seq(T) /\ Len(s) \in Nat \ {0} /\ Len(u) = Len(s) - 1 /\ Head(s) = s[1]
        /\ \A i \in 1..Len(u) : u[i] = s[i + 1]
    BY <1>3
  <2> HIDE DEF u
  <2>2. Head(s) \in ToSet(s)
    BY <2>1 DEF ToSet
  <2>3. ToSet(u) \subseteq ToSet(s)
    <3> SUFFICES ASSUME NEW i \in 1..Len(u) PROVE u[i] \in ToSet(s)
      BY <2>1 DEF ToSet
    <3>1. i + 1 \in 1..Len(s)
      BY <2>1
    <3> QED
      BY <2>1, <3>1 DEF ToSet
  <2>4. ToSet(s) \subseteq {Head(s)} \cup ToSet(u)
    <3> SUFFICES ASSUME NEW i \in 1..Len(s), i # 1 PROVE s[i] \in ToSet(u)
      BY <2>1 DEF ToSet
    <3>1. i - 1 \in 1..Len(u) /\ u[i - 1] = s[i]
      BY <2>1
    <3> QED
      BY <2>1, <3>1 DEF ToSet
  <2> QED
    BY <2>1, <2>2, <2>3, <2>4 DEF u
<1> QED
  BY <1>1, <1>2, <1>3

\* The elements of the shortest sequences.
LEMMA ElementsOfShort == ToSet(<<>>) = {} /\ \A x : ToSet(<<x>>) = {x}
BY DEF ToSet

\* sendFrame loses frames only when the socket overflows, and makes none up.
LEMMA ElementsWritten ==
    ASSUME NEW T, NEW s \in Seq(T), NEW t \in Seq(T)
    PROVE  /\ ToSet(Written(s, t)) \subseteq ToSet(s) \cup ToSet(t)
           /\ Len(s) + Len(t) <= MaximumQueuedOutput =>
                 ToSet(Written(s, t)) = ToSet(s) \cup ToSet(t)
<1> DEFINE q == Written(s, t)
           c == s \o t
<1>1. /\ q \in Seq(T) /\ Len(q) <= Len(s) + Len(t)
      /\ \A i \in 1..Len(q) : q[i] = IF i <= Len(s) THEN s[i] ELSE t[i - Len(s)]
  BY PrefixOfConcat
<1>2. /\ c \in Seq(T) /\ Len(c) = Len(s) + Len(t)
      /\ \A i \in 1..Len(c) : c[i] = IF i <= Len(s) THEN s[i] ELSE t[i - Len(s)]
  OBVIOUS
<1>3. ToSet(c) = ToSet(s) \cup ToSet(t)
  BY ElementsOfSequences
<1>4. Len(s) + Len(t) <= MaximumQueuedOutput => q = c
  BY <1>2, LimitsAssumption DEF Written, Min2
<1> HIDE DEF q, c
<1>5. ToSet(q) \subseteq ToSet(c)
  <2> SUFFICES ASSUME NEW i \in 1..Len(q) PROVE q[i] \in ToSet(c)
    BY <1>1 DEF ToSet
  <2>1. i \in 1..Len(c) /\ q[i] = c[i]
    BY <1>1, <1>2
  <2> QED
    BY <1>2, <2>1 DEF ToSet
<1> QED
  BY <1>3, <1>4, <1>5 DEF q

\* What a call of sendFrame does to one socket.
LEMMA TransmitWire ==
    ASSUME OutputOK, NEW out, NEW current \in [Connection -> Phase], Transmit(out, current),
           NEW k \in Connection, out[k] \in Seq(ServerFrame)
    PROVE  /\ OnWire(k)' \subseteq OnWire(k) \cup ToSet(out[k])
           /\ phase'[k] = "online" => OnWire(k)' = OnWire(k) \cup ToSet(out[k])
           /\ \/ phase'[k] = current[k]
              \/ current[k] = "open" /\ phase'[k] = "gone"
              \/ current[k] = "online" /\ phase'[k] = "closing"
<1> DEFINE s == toClient[k]
           t == out[k]
<1>1. s \in Seq(ServerFrame)
  <2>1. HonestFrame(k) \subseteq ServerFrame /\ s \in Seq(HonestFrame(k))
    BY DEF OutputOK, HonestFrame
  <2> QED
    BY <2>1
<1>2. /\ phase'[k] = IF current[k] \in {"open", "online"} /\ Len(s) + Len(t) > MaximumQueuedOutput
                       THEN IF current[k] = "online" THEN "closing" ELSE "gone" ELSE current[k]
      /\ toClient'[k] = IF current[k] \in Attached THEN Written(s, t) ELSE s
  BY DEF Transmit
<1>3. OnWire(k)' = ToSet(toClient'[k]) /\ OnWire(k) = ToSet(s)
  BY DEF OnWire
<1>4. /\ ToSet(Written(s, t)) \subseteq ToSet(s) \cup ToSet(t)
      /\ Len(s) + Len(t) <= MaximumQueuedOutput => ToSet(Written(s, t)) = ToSet(s) \cup ToSet(t)
  BY <1>1, ElementsWritten
<1>5. \A a, b \in Nat : a + b \in Nat
  OBVIOUS
<1>6. Len(s) \in Nat /\ Len(t) \in Nat
  BY <1>1
<1>7. MaximumQueuedOutput \in Nat
  BY LimitsAssumption
<1>8. ~(Len(s) + Len(t) > MaximumQueuedOutput) => Len(s) + Len(t) <= MaximumQueuedOutput
  <2> DEFINE n == Len(s) + Len(t)
  <2>1. n \in Nat
    BY <1>5, <1>6
  <2> HIDE DEF n
  <2>2. ~(n > MaximumQueuedOutput) => n <= MaximumQueuedOutput
    BY <1>7, <2>1
  <2> QED
    BY <2>2 DEF n
<1> HIDE DEF s, t
<1> QED
  BY <1>2, <1>3, <1>4, <1>8 DEF Attached, t

\* An answer to one socket is a frame to it and none to the others.
LEMMA ReplyFrames ==
    ASSUME NEW k, NEW f \in ServerFrame, NEW j \in Connection
    PROVE  Reply(k, f)[j] \in Seq(ServerFrame) /\ ToSet(Reply(k, f)[j]) \subseteq {f}
<1>1. Reply(k, f)[j] \in {<<>>, <<f>>}
  BY DEF Reply, Nothing
<1>2. <<>> \in Seq(ServerFrame) /\ <<f>> \in Seq(ServerFrame)
  OBVIOUS
<1> QED
  BY <1>1, <1>2, ElementsOfShort

\* The frames the handlers write, and their types.
LEMMA FramesOfServer ==
    /\ Error \in ServerFrame /\ Error.type = "error"
    /\ \A ok \in BOOLEAN : LoginResponse(ok) \in ServerFrame /\ LoginResponse(ok).type = "login"
    /\ \A id \in ClientMessageId : Failure(id) \in ServerFrame /\ Failure(id).type = "failed"
    /\ \A m \in Message : /\ Acknowledgement(m) \in ServerFrame /\ Acknowledgement(m).type = "ack"
                          /\ Push(m) \in ServerFrame /\ Push(m).type = "push"
    /\ \A f \in ClientFrame, p \in Person : f.type \in {"delivered", "read"} =>
          Routed(f, p) \in ServerFrame /\ Routed(f, p).type = f.type
<1>1. /\ Error \in ServerFrame /\ Error.type = "error"
      /\ \A ok \in BOOLEAN : LoginResponse(ok) \in ServerFrame /\ LoginResponse(ok).type = "login"
      /\ \A id \in ClientMessageId : Failure(id) \in ServerFrame /\ Failure(id).type = "failed"
  BY DEF ServerFrame, Error, LoginResponse, Failure
<1>2. \A m \in Message : /\ Acknowledgement(m) \in ServerFrame /\ Acknowledgement(m).type = "ack"
                         /\ Push(m) \in ServerFrame /\ Push(m).type = "push"
  BY DEF ServerFrame, Acknowledgement, Push, Message
<1>3. ASSUME NEW f \in ClientFrame, NEW p \in Person, f.type \in {"delivered", "read"}
      PROVE  Routed(f, p) \in ServerFrame /\ Routed(f, p).type = f.type
  <2>1. f.conversation \in Conversation /\ f.sequence \in Sequence
    BY <1>3, FrameFields
  <2> QED
    BY <1>3, <2>1 DEF Routed, ServerFrame
<1> QED
  BY <1>1, <1>2, <1>3

-----------------------------------------------------------------------------
(* The gateway with these clients.                                         *)

ClientTypeOK ==
    /\ link \in [Device -> Connection \cup {NoConnection}]
    /\ authenticated \in [Device -> BOOLEAN]
    /\ viewing \in [Device -> Conversation \cup {NoConversation}]
    /\ received \in [Device -> SUBSET (Conversation \X Sequence)]

\* A socket that was answered with success has or had a session.
Signed == {"online", "closing", "gone"}

\* A socket is asked for a login once, before anything else, and answers once.
SocketOK(k) ==
    /\ phase[k] \in {"none", "open"} => toServer[k] \in {<<>>, <<Login>>}
    /\ LoginResponse(TRUE) \in OnWire(k) => phase[k] \in Signed /\ LoginResponse(FALSE) \notin OnWire(k)
    /\ LoginResponse(FALSE) \in OnWire(k) => phase[k] \in {"open", "gone"} /\ toServer[k] = <<>>

\* A client believes in its session only after the answer, and no other follows.
LinksOK ==
    /\ \A k \in Connection : SocketOK(k)
    /\ \A d \in Device :
          /\ link[d] # NoConnection => DeviceOf[link[d]] = d
          /\ authenticated[d] => /\ link[d] # NoConnection /\ phase[link[d]] \in Signed
                                 /\ LoginResponse(FALSE) \notin OnWire(link[d])

\* A client that reads or writes, or neither, disturbs nothing the gateway keeps.
LEMMA ClientKeepsGateway ==
    ASSUME GatewayInvariant, UNCHANGED <<storeVars, phase, onlinePeople, uploads>>,
           toServer' \in [Connection -> Seq(ClientFrame)],
           toClient' = toClient \/ \E k \in Connection : ClientRead(k)
    PROVE  GatewayInvariant'
<1>1. [StoreNext]_storeVars
  OBVIOUS
<1>2. StoreInvariant' /\ IsFiniteSet(messages)'
  BY <1>1, StepKeepsInvariant, MessagesStayFinite DEF GatewayInvariant
<1>3. ConnectionsOK' /\ OneSessionPerPerson'
  BY SessionsUntouched DEF GatewayInvariant, ConnectionsOK
<1>4. InputOK'
  BY DEF GatewayInvariant, InputOK
<1>5. OutputOK' /\ PushesOK'
  <2>1. CASE toClient' = toClient
    BY <1>1, <2>1, SilentStepKeepsOutput DEF GatewayInvariant
  <2>2. CASE \E k \in Connection : ClientRead(k)
    BY <2>2, ReadingKeepsOutput DEF GatewayInvariant
  <2> QED
    BY <2>1, <2>2
<1> QED
  BY <1>2, <1>3, <1>4, <1>5 DEF GatewayInvariant

\* A client that connects with a login as its first frame.
LEMMA SignInKeepsGateway ==
    ASSUME GatewayInvariant, NEW d \in Device, NEW k \in Connection, SignIn(d, k)
    PROVE  GatewayInvariant'
<1>1. /\ Accept(k, <<Login>>) /\ [StoreNext]_storeVars
      /\ UNCHANGED <<storeVars, onlinePeople, toClient, uploads>>
  BY DEF SignIn, Accept
<1>2. StoreInvariant' /\ IsFiniteSet(messages)'
  BY <1>1, StepKeepsInvariant, MessagesStayFinite DEF GatewayInvariant
<1>3. ConnectionsOK' /\ OneSessionPerPerson'
  BY <1>1, SessionsUntouched DEF GatewayInvariant, Accept, Admitted, ConnectionsOK, Phase
<1>4. InputOK'
  <2>1. <<Login>> \in Seq(ClientFrame)
    BY DEF ClientFrame
  <2> QED
    BY <1>1, <2>1 DEF GatewayInvariant, InputOK, Accept
<1>5. OutputOK' /\ PushesOK'
  BY <1>1, SilentStepKeepsOutput DEF GatewayInvariant, Accept, Admitted, ConnectionsOK
<1> QED
  BY <1>2, <1>3, <1>4, <1>5 DEF GatewayInvariant

\* Frames written into a socket are frames of the protocol if the client's are.
LEMMA WritingKeepsInput ==
    ASSUME InputOK, NEW k \in Connection, NEW frames \in Seq(ClientFrame), ClientWrite(k, frames)
    PROVE  toServer' \in [Connection -> Seq(ClientFrame)]
<1>1. toServer[k] \o frames \in Seq(ClientFrame)
  <2>1. toServer[k] \in Seq(ClientFrame)
    BY DEF InputOK
  <2> QED
    BY <2>1
<1> QED
  BY <1>1 DEF ClientWrite, InputOK

\* The frame a client reads first.
LEMMA FirstOnWire ==
    ASSUME OutputOK, PushesOK, NEW k \in Connection, ClientRead(k)
    PROVE  LET f == Head(toClient[k])
           IN  /\ f \in HonestFrame(k) /\ f \in OnWire(k)
               /\ OnWire(k) = {f} \cup OnWire(k)'
               /\ f.type = "push" => \A g \in OnWire(k)' :
                     g.type = "push" /\ g.conversation = f.conversation => f.sequence < g.sequence
               /\ \A j \in Connection \ {k} : OnWire(j)' = OnWire(j)
<1> DEFINE s == toClient[k]
           H == HonestFrame(k)
<1>1. /\ s \in Seq(H) /\ InOrder(s) /\ s # <<>>
      /\ toClient'[k] = Tail(s) /\ \A j \in Connection \ {k} : toClient'[j] = toClient[j]
  BY DEF OutputOK, PushesOK, ClientRead
<1>2. OnWire(k)' = ToSet(toClient'[k]) /\ OnWire(k) = ToSet(s)
  BY DEF OnWire
<1>3. \A j \in Connection \ {k} : OnWire(j)' = OnWire(j)
  BY <1>1 DEF OnWire
<1> HIDE DEF H, s
<1>4. Head(s) \in H /\ Head(s) \in ToSet(s) /\ ToSet(s) = {Head(s)} \cup ToSet(Tail(s))
  BY <1>1, ElementsOfSequences
<1>5. ASSUME Head(s).type = "push", NEW g \in ToSet(Tail(s)),
             g.type = "push", g.conversation = Head(s).conversation
      PROVE  Head(s).sequence < g.sequence
  <2>1. /\ Len(s) \in Nat \ {0} /\ Tail(s) \in Seq(H) /\ Len(Tail(s)) = Len(s) - 1
        /\ Head(s) = s[1] /\ \A i \in 1..Len(Tail(s)) : Tail(s)[i] = s[i + 1]
    BY <1>1
  <2>2. PICK i \in 1..Len(Tail(s)) : g = Tail(s)[i]
    BY <2>1 DEF ToSet
  <2>3. g = s[i + 1] /\ i + 1 \in 1..Len(s) /\ 1 \in 1..Len(s) /\ 1 < i + 1
    BY <2>1, <2>2
  <2> QED
    BY <1>1, <1>5, <2>1, <2>3 DEF InOrder
<1> QED
  BY <1>1, <1>2, <1>3, <1>4, <1>5 DEF s, H

\* What an honest push names.
LEMMA PushFields ==
    ASSUME NEW k, NEW f \in HonestFrame(k), f.type = "push"
    PROVE  f.conversation \in Conversation /\ f.sequence \in Sequence /\ f.kind \in Kind
BY DEF HonestFrame, ServerFrame, LoginResponse, Error, Failure

\* The receipts a client writes for a push.
LEMMA ConfirmationsAreReceipts ==
    ASSUME NEW d, NEW f, f.conversation \in Conversation, f.sequence \in Sequence
    PROVE  /\ Confirmations(d, f) \in Seq(ClientFrame)
           /\ ToSet(Confirmations(d, f)) \subseteq
                 {Receipts(type, f.conversation, f.sequence) : type \in {"delivered", "read"}}
<1> DEFINE r == Receipts("read", f.conversation, f.sequence)
           c == Receipts("delivered", f.conversation, f.sequence)
<1>1. r \in ClientFrame /\ c \in ClientFrame
  BY DEF ClientFrame, ReceiptFrame
<1>2. Confirmations(d, f) \in {<<>>, <<>> \o <<c>>, <<r>> \o <<c>>}
  BY DEF Confirmations
<1>3. r \in {Receipts(type, f.conversation, f.sequence) : type \in {"delivered", "read"}}
  OBVIOUS
<1>4. c \in {Receipts(type, f.conversation, f.sequence) : type \in {"delivered", "read"}}
  OBVIOUS
<1> HIDE DEF r, c
<1>5. ASSUME NEW s \in Seq(ClientFrame), ToSet(s) \subseteq {r}
      PROVE  s \o <<c>> \in Seq(ClientFrame) /\ ToSet(s \o <<c>>) \subseteq {r, c}
  <2> DEFINE t == <<c>>
  <2>1. t \in Seq(ClientFrame) /\ ToSet(t) = {c}
    BY <1>1, ElementsOfShort
  <2> HIDE DEF t
  <2>2. s \o t \in Seq(ClientFrame) /\ ToSet(s \o t) = ToSet(s) \cup ToSet(t)
    BY <2>1, ElementsOfSequences
  <2> QED
    BY <1>5, <2>1, <2>2 DEF t
<1>6. /\ <<>> \in Seq(ClientFrame) /\ <<r>> \in Seq(ClientFrame)
      /\ ToSet(<<>>) = {} /\ ToSet(<<r>>) = {r}
  BY <1>1, ElementsOfShort
<1>7. /\ <<>> \o <<c>> \in Seq(ClientFrame) /\ ToSet(<<>> \o <<c>>) \subseteq {r, c}
      /\ <<r>> \o <<c>> \in Seq(ClientFrame) /\ ToSet(<<r>> \o <<c>>) \subseteq {r, c}
  BY <1>5, <1>6
<1> QED
  BY <1>2, <1>3, <1>4, <1>6, <1>7

\* Everything proved of the gateway holds with QML clients at the other end.
LEMMA QmlStepKeepsGateway ==
    ASSUME GatewayInvariant, ClientTypeOK, LinksOK, [QmlNext]_qmlVars
    PROVE  GatewayInvariant' /\ ClientTypeOK'
<1>1. CASE UNCHANGED qmlVars
  <2>1. GatewayInvariant'
    BY <1>1, GatewayStepKeepsInvariant DEF qmlVars
  <2> QED
    BY <1>1, <2>1 DEF qmlVars, clientVars, ClientTypeOK
<1>2. CASE ServerNext /\ UNCHANGED clientVars
  <2>1. GatewayInvariant'
    BY <1>2, GatewayStepKeepsInvariant DEF GatewayNext
  <2> QED
    BY <1>2, <2>1 DEF clientVars, ClientTypeOK
<1>3. ASSUME NEW d \in Device, NEW k \in Connection, SignIn(d, k)
      PROVE  GatewayInvariant' /\ ClientTypeOK'
  <2>1. ClientTypeOK'
    BY <1>3 DEF SignIn, ClientTypeOK
  <2> QED
    BY <1>3, <2>1, SignInKeepsGateway
<1>4. ASSUME NEW d \in Device, Receive(d)
      PROVE  GatewayInvariant' /\ ClientTypeOK'
  <2> DEFINE k == link[d]
             f == Head(toClient[k])
  <2>1. k \in Connection /\ ClientRead(k) /\ UNCHANGED <<storeVars, phase, onlinePeople, uploads, viewing>>
    BY <1>4 DEF Receive, ClientTypeOK
  <2>2. f \in HonestFrame(k)
    BY <2>1, FirstOnWire DEF GatewayInvariant
  <2>3. f.type = "push" => f.conversation \in Conversation /\ f.sequence \in Sequence
    BY <2>2, PushFields
  <2>4. toServer' \in [Connection -> Seq(ClientFrame)]
    <3>1. CASE f.type = "push"
      BY <1>4, <2>1, <2>3, <3>1, ConfirmationsAreReceipts, WritingKeepsInput
         DEF Receive, GatewayInvariant
    <3>2. CASE f.type # "push"
      BY <1>4, <3>2 DEF Receive, GatewayInvariant, InputOK
    <3> QED
      BY <3>1, <3>2
  <2>5. GatewayInvariant'
    BY <2>1, <2>4, ClientKeepsGateway
  <2>6. received' \in [Device -> SUBSET (Conversation \X Sequence)]
    BY <1>4, <2>3 DEF Receive, ClientTypeOK
  <2>7. link' \in [Device -> Connection \cup {NoConnection}]
    BY <1>4 DEF Receive, ClientTypeOK
  <2>8. authenticated' \in [Device -> BOOLEAN]
    <3> DEFINE b == authenticated[d] \/ (f.type = "login" /\ f.success)
    <3>1. authenticated' = [authenticated EXCEPT ![d] = b]
      BY <1>4 DEF Receive
    <3>2. b \in BOOLEAN
      OBVIOUS
    <3> HIDE DEF b
    <3> QED
      BY <3>1, <3>2 DEF ClientTypeOK
  <2> QED
    BY <2>1, <2>5, <2>6, <2>7, <2>8 DEF ClientTypeOK
<1>5. ASSUME NEW d \in Device, LoseLink(d) \/ \E c \in Conversation : OpenConversation(d, c)
      PROVE  GatewayInvariant' /\ ClientTypeOK'
  <2>1. UNCHANGED vars
    BY <1>5 DEF LoseLink, OpenConversation
  <2>2. GatewayInvariant'
    BY <2>1, GatewayStepKeepsInvariant
  <2>3. ClientTypeOK'
    BY <1>5 DEF LoseLink, OpenConversation, ClientTypeOK
  <2> QED
    BY <2>2, <2>3
<1>6. ASSUME NEW d \in Device, NEW id \in ClientMessageId, NEW kind \in Kind, SendMessage(d, id, kind)
      PROVE  GatewayInvariant' /\ ClientTypeOK'
  <2>1. /\ UNCHANGED <<storeVars, phase, onlinePeople, toClient, uploads>>
        /\ UNCHANGED <<link, authenticated, viewing, received>>
        /\ viewing[d] \in Conversation
    BY <1>6 DEF SendMessage, ClientTypeOK
  <2>2. Send(viewing[d], id, kind) \in ClientFrame
    BY <2>1 DEF ClientFrame, SendFrame
  <2>0. authenticated[d] => link[d] \in Connection
    BY DEF LinksOK, ClientTypeOK
  <2> DEFINE frame == Send(viewing[d], id, kind)
  <2>3. \/ toServer' = toServer
        \/ authenticated[d] /\ ClientWrite(link[d], <<frame>>)
    BY <1>6 DEF SendMessage
  <2> HIDE DEF frame
  <2>4. <<frame>> \in Seq(ClientFrame)
    BY <2>2 DEF frame
  <2>5. toServer' \in [Connection -> Seq(ClientFrame)]
    BY <2>0, <2>3, <2>4, WritingKeepsInput DEF GatewayInvariant, InputOK
  <2> QED
    BY <2>1, <2>5, ClientKeepsGateway DEF ClientTypeOK
<1> QED
  BY <1>1, <1>2, <1>3, <1>4, <1>5, <1>6 DEF QmlNext, ClientNext

-----------------------------------------------------------------------------
(* Steps of the server, seen from one socket.                              *)

\* The server takes a frame, or drops all of them.
Taken(k) ==
    \/ toServer'[k] \in {toServer[k], <<>>}
    \/ toServer[k] # <<>> /\ toServer'[k] = Tail(toServer[k])

\* Nobody signs in on k.
Quiet(k) ==
    /\ \A ok \in BOOLEAN : LoginResponse(ok) \in OnWire(k)' => LoginResponse(ok) \in OnWire(k)
    /\ phase[k] \in {"online", "closing", "gone"} => phase'[k] \in {"online", "closing", "gone"}
    /\ phase'[k] \in {"none", "open"} => phase'[k] = phase[k]
    /\ phase[k] \in {"open", "gone"} => phase'[k] \in {"open", "gone"}
    /\ Taken(k)

\* No push is written to k, and none is lost while its person is online there.
Calm(k) ==
    /\ \A f \in OnWire(k)' : f.type = "push" => f \in OnWire(k)
    /\ phase'[k] = "online" => /\ phase[k] = "online"
                               /\ \A f \in OnWire(k) : f.type = "push" => f \in OnWire(k)'
    /\ \A f \in Asked(k)' : f.type = "delivered" => f \in Asked(k)

\* What is left of the frames a client wrote.
LEMMA TakenAsked ==
    ASSUME InputOK, NEW k \in Connection, Taken(k)
    PROVE  Asked(k)' \subseteq Asked(k)
<1> DEFINE s == toServer[k]
           t == toServer'[k]
<1>1. s \in Seq(ClientFrame) /\ (t \in {s, <<>>} \/ (s # <<>> /\ t = Tail(s)))
  BY DEF InputOK, Taken
<1>2. Asked(k) = ToSet(s) /\ Asked(k)' = ToSet(t)
  BY DEF Asked
<1> HIDE DEF s, t
<1>3. CASE t = s
  BY <1>2, <1>3
<1>4. CASE t = <<>>
  BY <1>2, <1>4, ElementsOfShort
<1>5. CASE s # <<>> /\ t = Tail(s)
  BY <1>1, <1>2, <1>5, ElementsOfSequences
<1> QED
  BY <1>1, <1>3, <1>4, <1>5

\* A handler takes the first frame of its socket.
LEMMA ConsumeTakes ==
    ASSUME InputOK, NEW k \in Connection, HasFrame(k), Consume(k)
    PROVE  \A j \in Connection : Taken(j)
BY DEF InputOK, HasFrame, Consume, Taken

\* A handler that answers, but not to a login.
LEMMA AnswersAreQuiet ==
    ASSUME ConnectionsOK, OutputOK, InputOK, NEW out, Transmit(out, phase), NEW j \in Connection,
           Taken(j), out[j] \in Seq(ServerFrame), \A f \in ToSet(out[j]) : f.type # "login"
    PROVE  Quiet(j) /\ ((\A f \in ToSet(out[j]) : f.type # "push") => Calm(j))
<1>1. /\ OnWire(j)' \subseteq OnWire(j) \cup ToSet(out[j])
      /\ phase'[j] = "online" => OnWire(j)' = OnWire(j) \cup ToSet(out[j])
      /\ \/ phase'[j] = phase[j]
         \/ phase[j] = "open" /\ phase'[j] = "gone"
         \/ phase[j] = "online" /\ phase'[j] = "closing"
  BY TransmitWire DEF ConnectionsOK
<1>2. \A ok \in BOOLEAN : LoginResponse(ok) \in OnWire(j)' => LoginResponse(ok) \in OnWire(j)
  <2> SUFFICES ASSUME NEW ok \in BOOLEAN, LoginResponse(ok) \in OnWire(j)'
               PROVE  LoginResponse(ok) \in OnWire(j)
    OBVIOUS
  <2>1. LoginResponse(ok).type = "login"
    BY FramesOfServer
  <2> QED
    BY <1>1, <2>1
<1>3. Quiet(j)
  BY <1>1, <1>2 DEF Quiet
<1>4. Asked(j)' \subseteq Asked(j)
  BY TakenAsked
<1> QED
  BY <1>1, <1>3, <1>4 DEF Calm

\* A step that writes no frame and opens no socket.
LEMMA SilenceIsQuiet ==
    ASSUME ConnectionsOK, InputOK, NEW j \in Connection, Taken(j), toClient'[j] = toClient[j],
           \/ phase'[j] = phase[j]
           \/ phase[j] \in Attached /\ phase'[j] = "gone"
           \/ phase[j] = "online" /\ phase'[j] = "closing"
    PROVE  Quiet(j) /\ Calm(j)
<1>1. OnWire(j)' = OnWire(j)
  BY DEF OnWire
<1>2. Quiet(j)
  BY <1>1 DEF Quiet, Attached
<1>3. Asked(j)' \subseteq Asked(j)
  BY TakenAsked
<1> QED
  BY <1>1, <1>2, <1>3 DEF Calm

\* The outcome of a send frame; a new message is pushed, the others are not.
LEMMA OutcomeIsQuiet ==
    ASSUME GatewayInvariant, NEW k \in Connection, NEW f \in SendFrame,
           Accepted(k, f) \/ AcceptedBefore(k, f) \/ Refused(k, f),
           \A j \in Connection : Taken(j)
    PROVE  \A j \in Connection : Quiet(j) /\ (~Accepted(k, f) => Calm(j))
<1> USE DEF GatewayInvariant
<1> TAKE j \in Connection
<1>1. ASSUME NEW g \in ServerFrame, g.type \notin {"login", "push"}, Transmit(Reply(k, g), phase)
      PROVE  Quiet(j) /\ Calm(j)
  <2>1. Reply(k, g)[j] \in Seq(ServerFrame) /\ ToSet(Reply(k, g)[j]) \subseteq {g}
    BY <1>1, ReplyFrames
  <2> QED
    BY <1>1, <2>1, AnswersAreQuiet
<1>2. CASE AcceptedBefore(k, f)
  <2>1. PICK m \in Earlier(k, f) : Transmit(Reply(k, Acknowledgement(m)), phase)
    BY <1>2 DEF AcceptedBefore
  <2>2. m \in Message
    BY DEF Earlier, Submitted, Uploaded, StoreInvariant, TypeOK
  <2> QED
    BY <1>1, <2>1, <2>2, FramesOfServer
<1>3. CASE Refused(k, f)
  BY <1>1, <1>3, SendFields, FramesOfServer DEF Refused
<1>4. CASE Accepted(k, f)
  <2>1. PICK m \in Message : Transmit(Announce(k, m, Recipients(f.conversation, PersonAt(k))), phase)
    BY <1>4, CommittedRow DEF Accepted
  <2> DEFINE out == Announce(k, m, Recipients(f.conversation, PersonAt(k)))
  <2>2. out[j] \in {<<>>, <<Acknowledgement(m)>>, <<Push(m)>>}
    BY DEF Announce
  <2>3. Transmit(out, phase)
    BY <2>1
  <2>4. out[j] \in Seq(ServerFrame) /\ \A g \in ToSet(out[j]) : g.type # "login"
    <3> HIDE DEF out
    <3>1. /\ Acknowledgement(m) \in ServerFrame /\ Acknowledgement(m).type = "ack"
          /\ Push(m) \in ServerFrame /\ Push(m).type = "push"
      BY FramesOfServer
    <3> DEFINE ack == Acknowledgement(m)
               push == Push(m)
    <3>2. out[j] \in {<<>>, <<ack>>, <<push>>}
      BY <2>2
    <3> HIDE DEF ack, push
    <3>3. /\ ack \in ServerFrame /\ ack.type = "ack"
          /\ push \in ServerFrame /\ push.type = "push"
      BY <3>1 DEF ack, push
    <3>4. CASE out[j] = <<>>
      BY <3>4, ElementsOfShort
    <3>5. CASE out[j] = <<ack>>
      BY <3>3, <3>5, ElementsOfShort
    <3>6. CASE out[j] = <<push>>
      BY <3>3, <3>6, ElementsOfShort
    <3> QED
      BY <3>2, <3>4, <3>5, <3>6
  <2> HIDE DEF out
  <2>5. Quiet(j)
    BY <2>3, <2>4, AnswersAreQuiet
  <2> QED
    BY <1>4, <2>5
<1> QED
  BY <1>2, <1>3, <1>4

\* Receipts are answered and routed, and move no push.
LEMMA ReceiptIsQuiet ==
    ASSUME GatewayInvariant, NEW k \in Connection, HandleDelivered(k) \/ HandleRead(k)
    PROVE  \A j \in Connection : Quiet(j) /\ Calm(j)
<1> USE DEF GatewayInvariant
<1> TAKE j \in Connection
<1> DEFINE f == Head(toServer[k])
<1>1. /\ Taken(j) /\ f \in ClientFrame /\ f.type \in {"delivered", "read"}
      /\ Transmit(Reply(k, Error), phase) \/ RouteReceipt(k, f)
  BY ConsumeTakes, HeadIsFrame DEF HandleDelivered, HandleRead, Receives
<1>2. ASSUME NEW i, NEW g \in ServerFrame, g.type \notin {"login", "push"}, Transmit(Reply(i, g), phase)
      PROVE  Quiet(j) /\ Calm(j)
  <2>1. Reply(i, g)[j] \in Seq(ServerFrame) /\ ToSet(Reply(i, g)[j]) \subseteq {g}
    BY <1>2, ReplyFrames
  <2> QED
    BY <1>1, <1>2, <2>1, AnswersAreQuiet
<1>3. CASE Transmit(Reply(k, Error), phase)
  BY <1>2, <1>3, FramesOfServer
<1>4. CASE RouteReceipt(k, f)
  <2> HIDE DEF f
  <2>1. \/ Transmit(Nothing, phase)
        \/ \E i : Transmit(Reply(i, Routed(f, PersonAt(k))), phase)
    BY <1>4 DEF RouteReceipt
  <2>2. CASE Transmit(Nothing, phase)
    <3>1. Nothing[j] = <<>> /\ Nothing[j] \in Seq(ServerFrame) /\ ToSet(Nothing[j]) = {}
      BY ElementsOfShort DEF Nothing
    <3> QED
      BY <1>1, <2>2, <3>1, AnswersAreQuiet
  <2>3. Routed(f, PersonAt(k)) \in ServerFrame /\ Routed(f, PersonAt(k)).type \notin {"login", "push"}
    BY <1>1, FramesOfServer, PersonOfConnection
  <2> QED
    BY <1>2, <2>1, <2>2, <2>3
<1> QED
  BY <1>1, <1>3, <1>4

\* The steps of the server that neither answer a login nor accept a message.
LEMMA ServerIsCalm ==
    ASSUME GatewayInvariant, NEW k \in Connection,
           \/ RefuseFrame(k) \/ BeginUpload(k) \/ RefuseUpload(k)
           \/ HandleDelivered(k) \/ HandleRead(k)
           \/ RemoveConnection(k) \/ BeginClose(k)
           \/ Crash
           \/ FinishUpload /\ UNCHANGED <<phase, toClient>>
           \/ UpdateMembers
    PROVE  \A j \in Connection : Quiet(j) /\ Calm(j)
<1> USE DEF GatewayInvariant
<1> TAKE j \in Connection
<1>1. CASE RefuseFrame(k)
  <2>1. Taken(j) /\ Transmit(Reply(k, Error), phase)
    BY <1>1, ConsumeTakes DEF RefuseFrame
  <2>2. Error \in ServerFrame /\ Error.type \notin {"login", "push"}
    BY FramesOfServer
  <2>3. Reply(k, Error)[j] \in Seq(ServerFrame) /\ ToSet(Reply(k, Error)[j]) \subseteq {Error}
    BY <2>2, ReplyFrames
  <2> QED
    BY <2>1, <2>2, <2>3, AnswersAreQuiet
<1>2. CASE RefuseUpload(k)
  <2>1. /\ \A i \in Connection : Taken(i)
        /\ Head(toServer[k]) \in SendFrame /\ Refused(k, Head(toServer[k])) /\ UNCHANGED storeVars
    BY <1>2, ConsumeTakes, HeadIsFrame, FrameFields DEF RefuseUpload, Sends, Receives
  <2>2. Transmit(Reply(k, Failure(Head(toServer[k]).clientId)), phase)
    BY <2>1 DEF Refused
  <2> DEFINE g == Failure(Head(toServer[k]).clientId)
  <2>3. g \in ServerFrame /\ g.type \notin {"login", "push"}
    BY <2>1, SendFields, FramesOfServer
  <2> HIDE DEF g
  <2>4. Reply(k, g)[j] \in Seq(ServerFrame) /\ ToSet(Reply(k, g)[j]) \subseteq {g}
    BY <2>3, ReplyFrames
  <2>5. Transmit(Reply(k, g), phase)
    BY <2>2 DEF g
  <2> QED
    BY <2>1, <2>3, <2>4, <2>5, AnswersAreQuiet
<1>3. CASE HandleDelivered(k) \/ HandleRead(k)
  BY <1>3, ReceiptIsQuiet
<1>4. CASE \/ BeginUpload(k) \/ RemoveConnection(k) \/ BeginClose(k) \/ Crash \/ UpdateMembers
           \/ FinishUpload /\ UNCHANGED <<phase, toClient>>
  <2>1. Taken(j)
    BY <1>4 DEF BeginUpload, RemoveConnection, BeginClose, Crash, FinishUpload, UpdateMembers, gatewayVars,
                InputOK, Taken, Sends, Receives, HasFrame
  <2>2. /\ toClient'[j] = toClient[j]
        /\ \/ phase'[j] = phase[j]
           \/ phase[j] \in Attached /\ phase'[j] = "gone"
           \/ phase[j] = "online" /\ phase'[j] = "closing"
    BY <1>4 DEF BeginUpload, RemoveConnection, BeginClose, Crash, UpdateMembers, gatewayVars,
                ConnectionsOK
  <2> QED
    BY <2>1, <2>2, SilenceIsQuiet
<1> QED
  BY <1>1, <1>2, <1>3, <1>4

-----------------------------------------------------------------------------
(* Sessions.                                                               *)

\* As long as nobody signs in, what is known of a socket stays.
LEMMA QuietSocket ==
    ASSUME NEW k \in Connection, SocketOK(k), Quiet(k)
    PROVE  SocketOK(k)'
<1>1. Tail(<<Login>>) = <<>>
  OBVIOUS
<1> QED
  BY <1>1 DEF SocketOK, Quiet, Taken, Signed

\* A session that was believed in keeps its socket, and is not refused.
Faithful(k) ==
    phase[k] \in Signed /\ LoginResponse(FALSE) \notin OnWire(k)
      => phase'[k] \in Signed /\ LoginResponse(FALSE) \notin OnWire(k)'

\* A step of the server that no client has seen yet.
LEMMA ServerKeepsLinks ==
    ASSUME LinksOK, ClientTypeOK, UNCHANGED <<link, authenticated>>,
           \A k \in Connection : Quiet(k) \/ (SocketOK(k)' /\ Faithful(k))
    PROVE  LinksOK'
<1>1. \A k \in Connection : SocketOK(k)' /\ Faithful(k)
  <2> TAKE k \in Connection
  <2>1. CASE Quiet(k)
    BY <2>1, QuietSocket DEF LinksOK, Quiet, Faithful, Signed
  <2> QED
    BY <2>1
<1>2. ASSUME NEW d \in Device, NEW k, k = link[d]
      PROVE  /\ k # NoConnection => DeviceOf[k] = d
             /\ authenticated[d] => /\ k # NoConnection /\ phase'[k] \in Signed
                                    /\ LoginResponse(FALSE) \notin OnWire(k)'
  BY <1>1, <1>2 DEF LinksOK, ClientTypeOK, Faithful
<1>3. ASSUME NEW d \in Device
      PROVE  /\ link'[d] # NoConnection => DeviceOf[link'[d]] = d
             /\ authenticated'[d] => /\ link'[d] # NoConnection /\ phase'[link'[d]] \in Signed
                                     /\ LoginResponse(FALSE) \notin ToSet(toClient'[link'[d]])
  BY <1>2 DEF OnWire
<1> QED
  BY <1>1, <1>3 DEF LinksOK, OnWire

\* The answers to a login are two.
LEMMA LoginFrames ==
    /\ LoginResponse(TRUE) # LoginResponse(FALSE)
    /\ \A f \in ServerFrame : f.type = "login" =>
          \/ f = LoginResponse(TRUE) /\ f.success
          \/ f = LoginResponse(FALSE) /\ ~f.success
<1>1. LoginResponse(TRUE).success = TRUE
  BY DEF LoginResponse
<1>2. LoginResponse(FALSE).success = FALSE
  BY DEF LoginResponse
<1>3. ASSUME NEW f \in ServerFrame, f.type = "login"
      PROVE  f \in {LoginResponse(TRUE), LoginResponse(FALSE)}
  BY <1>3 DEF ServerFrame, LoginResponse, Error, Failure
<1>4. ASSUME NEW f \in ServerFrame, f.type = "login"
      PROVE  \/ f = LoginResponse(TRUE) /\ f.success
             \/ f = LoginResponse(FALSE) /\ ~f.success
  <2>1. CASE f = LoginResponse(TRUE)
    BY <1>1, <2>1
  <2>2. CASE f = LoginResponse(FALSE)
    BY <1>2, <2>2
  <2> QED
    BY <1>3, <1>4, <2>1, <2>2
<1>5. LoginResponse(TRUE) # LoginResponse(FALSE)
  BY <1>1, <1>2
<1> QED
  BY <1>4, <1>5

\* A login replays pushes of what is pending.
LEMMA ReplayFrames ==
    ASSUME GatewayInvariant, NEW p \in Person, NEW replay \in Replays(p)
    PROVE  /\ replay \in Seq(ServerFrame)
           /\ \A f \in ToSet(replay) : \E m \in Pending(p) : f = Push(m) /\ m \in Message
<1>1. PICK n \in Nat : \E o \in [1..n -> Pending(p)] : replay = [i \in 1..n |-> Push(o[i])]
  BY ReplayIsOrdered DEF GatewayInvariant
<1>2. PICK o \in [1..n -> Pending(p)] : replay = [i \in 1..n |-> Push(o[i])]
  BY <1>1
<1>3. \A m \in Pending(p) : m \in Message
  BY DEF Pending, GatewayInvariant, StoreInvariant, TypeOK
<1>4. \A i \in 1..n : replay[i] = Push(o[i]) /\ o[i] \in Pending(p) /\ Push(o[i]) \in ServerFrame
  BY <1>2, <1>3, FramesOfServer
<1>5. replay \in Seq(ServerFrame) /\ Len(replay) = n
  BY <1>2, <1>4
<1> QED
  BY <1>3, <1>4, <1>5 DEF ToSet

\* What a login writes to its socket.
LEMMA LoginOutput ==
    ASSUME GatewayInvariant, NEW p \in Person, NEW replay \in Replays(p)
    PROVE  LET frames == <<LoginResponse(TRUE)>> \o replay
           IN  /\ frames \in Seq(ServerFrame)
               /\ ToSet(frames) = {LoginResponse(TRUE)} \cup ToSet(replay)
<1> DEFINE r == LoginResponse(TRUE)
<1>1. r \in ServerFrame
  BY FramesOfServer
<1> HIDE DEF r
<1> DEFINE answer == <<r>>
<1>2. answer \in Seq(ServerFrame) /\ ToSet(answer) = {r}
  BY <1>1, ElementsOfShort
<1>3. replay \in Seq(ServerFrame)
  BY ReplayFrames
<1> HIDE DEF answer
<1>4. /\ answer \o replay \in Seq(ServerFrame)
      /\ ToSet(answer \o replay) = ToSet(answer) \cup ToSet(replay)
  BY <1>2, <1>3, ElementsOfSequences
<1>5. /\ answer \o replay \in Seq(ServerFrame)
      /\ ToSet(answer \o replay) = {r} \cup ToSet(replay)
  BY <1>2, <1>4
<1> QED
  BY <1>5 DEF answer, r

\* What handleLogin does to the sockets.
LEMMA LoginStep ==
    ASSUME GatewayInvariant, NEW k \in Connection, HandleLogin(k)
    PROVE  \E replay \in Replays(PersonAt(k)) :
              /\ phase[k] = "open" /\ phase'[k] \in {"online", "closing"}
              /\ OnWire(k)' \subseteq OnWire(k) \cup {LoginResponse(TRUE)} \cup ToSet(replay)
              /\ phase'[k] = "online" => ToSet(replay) \subseteq OnWire(k)'
              /\ \A j \in Connection : Taken(j)
              /\ \A j \in Connection \ {k} : Quiet(j) /\ Calm(j)
<1> USE DEF GatewayInvariant
<1> DEFINE p == PersonAt(k)
           old == onlinePeople[p]
<1>1. PICK kicked \in {"closing", "gone"}, replay \in Replays(p) :
         Transmit([Nothing EXCEPT ![k] = <<LoginResponse(TRUE)>> \o replay],
                  [j \in Connection |-> IF j = k THEN "online"
                                        ELSE IF j = old THEN kicked ELSE phase[j]])
  BY DEF HandleLogin
<1> DEFINE current == [j \in Connection |-> IF j = k THEN "online"
                                            ELSE IF j = old THEN kicked ELSE phase[j]]
           frames == <<LoginResponse(TRUE)>> \o replay
           out == [Nothing EXCEPT ![k] = frames]
<1>2. current \in [Connection -> Phase]
  BY <1>1 DEF ConnectionsOK, Phase
<1>3. Transmit(out, current) /\ phase[k] = "open" /\ p \in Person
  BY <1>1, PersonOfConnection DEF HandleLogin
<1>4. frames \in Seq(ServerFrame) /\ ToSet(frames) = {LoginResponse(TRUE)} \cup ToSet(replay)
  BY <1>3, LoginOutput
<1>5. \A j \in Connection : Taken(j)
  BY ConsumeTakes DEF HandleLogin, Receives
<1>6. ASSUME NEW j \in Connection \ {k}
      PROVE  \/ current[j] = phase[j]
             \/ phase[j] \in {"online", "closing"} /\ current[j] \in {"closing", "gone"}
  <2>1. CASE j = old
    <3>1. phase[j] \in {"online", "closing"}
      BY <1>3, <2>1, NoConnectionAssumption DEF OneSessionPerPerson
    <3> QED
      BY <1>1, <2>1, <3>1
  <2>2. CASE j # old
    BY <2>2
  <2> QED
    BY <2>1, <2>2
<1>7. current[k] = "online" /\ out[k] = frames
  BY DEF Nothing
<1>8. ASSUME NEW j \in Connection \ {k}
      PROVE  out[j] \in Seq(ServerFrame) /\ ToSet(out[j]) = {}
  <2>1. out[j] = <<>>
    BY DEF Nothing
  <2>2. <<>> \in Seq(ServerFrame)
    OBVIOUS
  <2> HIDE DEF out
  <2> QED
    BY <2>1, <2>2, ElementsOfShort
<1> HIDE DEF current, frames, out, p
<1>9. /\ OnWire(k)' \subseteq OnWire(k) \cup ToSet(frames)
      /\ phase'[k] = "online" => OnWire(k)' = OnWire(k) \cup ToSet(frames)
      /\ phase'[k] \in {"online", "closing"}
  <2>1. out[k] \in Seq(ServerFrame)
    BY <1>4, <1>7
  <2> QED
    BY <1>2, <1>3, <1>7, <2>1, TransmitWire
<1>10. ASSUME NEW j \in Connection \ {k}
       PROVE  Quiet(j) /\ Calm(j)
  <2>1. /\ OnWire(j)' \subseteq OnWire(j)
        /\ phase'[j] = "online" => OnWire(j)' = OnWire(j)
        /\ \/ phase'[j] = current[j]
           \/ current[j] = "open" /\ phase'[j] = "gone"
           \/ current[j] = "online" /\ phase'[j] = "closing"
    BY <1>2, <1>3, <1>8, TransmitWire
  <2>2. Quiet(j)
    BY <1>5, <1>6, <2>1 DEF Quiet
  <2>3. Asked(j)' \subseteq Asked(j)
    BY <1>5, TakenAsked
  <2> QED
    BY <1>6, <2>1, <2>2, <2>3 DEF Calm
<1> QED
  BY <1>3, <1>4, <1>5, <1>9, <1>10 DEF p

\* What is known of a socket depends on its own state only.
LEMMA SocketUntouched ==
    ASSUME NEW k \in Connection, SocketOK(k), phase'[k] = phase[k], toServer'[k] = toServer[k],
           OnWire(k)' \subseteq OnWire(k)
    PROVE  SocketOK(k)'
BY DEF SocketOK

\* A login is answered with success on a socket that was never answered before.
LEMMA LoginKeepsLinks ==
    ASSUME GatewayInvariant, LinksOK, ClientTypeOK, UNCHANGED <<link, authenticated>>,
           NEW k \in Connection, HandleLogin(k)
    PROVE  LinksOK'
<1>1. PICK replay \in Replays(PersonAt(k)) :
         /\ phase[k] = "open" /\ phase'[k] \in {"online", "closing"}
         /\ OnWire(k)' \subseteq OnWire(k) \cup {LoginResponse(TRUE)} \cup ToSet(replay)
         /\ \A j \in Connection \ {k} : Quiet(j)
  BY LoginStep
<1>2. LoginResponse(FALSE) \notin OnWire(k)
  BY DEF LinksOK, SocketOK, HandleLogin, Receives, HasFrame
<1>3. LoginResponse(FALSE) \notin ToSet(replay)
  <2>1. \A f \in ToSet(replay) : \E m : f = Push(m)
    BY ReplayFrames, PersonOfConnection
  <2>2. \A m : Push(m) # LoginResponse(FALSE)
    <3> TAKE m
    <3>1. Push(m).type = "push" /\ LoginResponse(FALSE).type = "login"
      BY DEF Push, LoginResponse
    <3> QED
      BY <3>1
  <2> QED
    BY <2>1, <2>2
<1>4. LoginResponse(FALSE) \notin OnWire(k)'
  BY <1>1, <1>2, <1>3, LoginFrames
<1>5. SocketOK(k)' /\ Faithful(k)
  BY <1>1, <1>4 DEF SocketOK, Faithful, Signed
<1> QED
  BY <1>1, <1>5, ServerKeepsLinks

\* A login is refused on a socket that was never answered before.
LEMMA RejectionKeepsLinks ==
    ASSUME GatewayInvariant, LinksOK, ClientTypeOK, UNCHANGED <<link, authenticated>>,
           NEW k \in Connection, RejectLogin(k)
    PROVE  LinksOK'
<1> USE DEF GatewayInvariant
<1> DEFINE r == LoginResponse(FALSE)
<1>1. r \in ServerFrame
  BY FramesOfServer
<1>2. /\ Transmit(Reply(k, r), phase) /\ phase[k] = "open" /\ \A j \in Connection : Taken(j)
      /\ toServer[k] # <<>>
  BY ConsumeTakes DEF RejectLogin, Receives, HasFrame
<1> HIDE DEF r
<1>3. \A j \in Connection : Reply(k, r)[j] \in Seq(ServerFrame) /\ ToSet(Reply(k, r)[j]) \subseteq {r}
  BY <1>1, ReplyFrames
<1>4. ASSUME NEW j \in Connection \ {k}
      PROVE  Quiet(j)
  <2>1. Reply(k, r)[j] = <<>>
    BY DEF Reply, Nothing
  <2>2. ToSet(Reply(k, r)[j]) = {}
    BY <2>1, ElementsOfShort
  <2> QED
    BY <1>2, <1>3, <2>2, AnswersAreQuiet
<1>5. SocketOK(k)' /\ Faithful(k)
  <2>1. toServer[k] = <<Login>> /\ LoginResponse(TRUE) \notin OnWire(k)
    BY <1>2 DEF LinksOK, SocketOK, Signed
  <2>2. toServer'[k] = <<>>
    <3>1. Tail(<<Login>>) = <<>>
      OBVIOUS
    <3>2. toServer'[k] \in {<<>>, Tail(toServer[k])}
      BY DEF RejectLogin, Consume
    <3> QED
      BY <2>1, <3>1, <3>2
  <2>3. OnWire(k)' \subseteq OnWire(k) \cup {r} /\ phase'[k] \in {"open", "gone"}
    BY <1>2, <1>3, TransmitWire DEF ConnectionsOK
  <2>4. LoginResponse(TRUE) \notin OnWire(k)'
    BY <2>1, <2>3, LoginFrames DEF r
  <2> QED
    BY <1>2, <2>2, <2>3, <2>4 DEF SocketOK, Faithful, Signed
<1> QED
  BY <1>4, <1>5, ServerKeepsLinks

\* No step of the server breaks it.
LEMMA ServerStepKeepsLinks ==
    ASSUME GatewayInvariant, LinksOK, ClientTypeOK, UNCHANGED <<link, authenticated>>, ServerNext
    PROVE  LinksOK'
<1> USE DEF GatewayInvariant
<1>1. ASSUME NEW k \in Connection, Handle(k)
      PROVE  LinksOK'
  <2>1. CASE HandleLogin(k)
    BY <2>1, LoginKeepsLinks
  <2>2. CASE RejectLogin(k)
    BY <2>2, RejectionKeepsLinks
  <2>3. CASE HandleSend(k)
    <3>1. /\ Head(toServer[k]) \in SendFrame /\ \A j \in Connection : Taken(j)
          /\ \/ Accepted(k, Head(toServer[k])) \/ AcceptedBefore(k, Head(toServer[k]))
             \/ Refused(k, Head(toServer[k]))
      BY <2>3, ConsumeTakes, HeadIsFrame, FrameFields DEF HandleSend, Sends, Receives
    <3>2. \A j \in Connection : Quiet(j)
      BY <3>1, OutcomeIsQuiet
    <3> QED
      BY <3>2, ServerKeepsLinks
  <2>4. CASE \/ RefuseFrame(k) \/ BeginUpload(k) \/ RefuseUpload(k)
             \/ HandleDelivered(k) \/ HandleRead(k)
    BY <2>4, ServerIsCalm, ServerKeepsLinks
  <2> QED
    BY <1>1, <2>1, <2>2, <2>3, <2>4 DEF Handle
<1>2. ASSUME NEW k \in Connection, RemoveConnection(k) \/ BeginClose(k)
      PROVE  LinksOK'
  BY <1>2, ServerIsCalm, ServerKeepsLinks
<1>3. CASE FinishUpload
  <2>1. /\ Last(uploads).connection \in Connection /\ Last(uploads).frame \in SendFrame
        /\ \A j \in Connection : Taken(j)
    BY <1>3, LastUpload DEF FinishUpload, Taken
  <2>2. CASE \/ Accepted(Last(uploads).connection, Last(uploads).frame)
             \/ AcceptedBefore(Last(uploads).connection, Last(uploads).frame)
             \/ Refused(Last(uploads).connection, Last(uploads).frame)
    <3>1. \A j \in Connection : Quiet(j)
      BY <2>1, <2>2, OutcomeIsQuiet
    <3> QED
      BY <3>1, ServerKeepsLinks
  <2>3. CASE UNCHANGED <<phase, toClient>>
    BY <1>3, <2>1, <2>3, ServerIsCalm, ServerKeepsLinks
  <2> QED
    BY <1>3, <2>2, <2>3 DEF FinishUpload
<1>4. CASE UpdateMembers \/ GatewayCrash
  <2>1. UpdateMembers \/ Crash
    BY <1>4 DEF GatewayCrash
  <2>2. \A k \in Connection : Quiet(k)
    BY <2>1, ServerIsCalm
  <2> QED
    BY <2>2, ServerKeepsLinks
<1> QED
  BY <1>1, <1>2, <1>3, <1>4 DEF ServerNext

\* A client that connects has a socket of its own and has not been answered.
LEMMA SignInKeepsLinks ==
    ASSUME GatewayInvariant, LinksOK, ClientTypeOK, NEW d \in Device, NEW k \in Connection, SignIn(d, k)
    PROVE  LinksOK'
<1>1. /\ phase[k] = "none" /\ phase'[k] \in {"open", "gone"} /\ toServer'[k] \in {<<Login>>, <<>>}
      /\ \A j \in Connection \ {k} : phase'[j] = phase[j] /\ toServer'[j] = toServer[j]
      /\ \A j \in Connection : OnWire(j)' = OnWire(j)
  BY DEF SignIn, Accept, Admitted, GatewayInvariant, ConnectionsOK, InputOK, OnWire
<1>2. SocketOK(k)'
  BY <1>1 DEF LinksOK, SocketOK, Signed
<1>3. \A j \in Connection \ {k} : SocketOK(j)'
  BY <1>1, SocketUntouched DEF LinksOK
<1>4. ASSUME NEW e \in Device
      PROVE  /\ link'[e] # NoConnection => DeviceOf[link'[e]] = e
             /\ authenticated'[e] => /\ link'[e] # NoConnection /\ phase'[link'[e]] \in Signed
                                     /\ LoginResponse(FALSE) \notin ToSet(toClient'[link'[e]])
  <2>1. CASE e = d
    <3>1. link'[e] = k /\ authenticated'[e] = authenticated[e] /\ link[e] = NoConnection /\ DeviceOf[k] = d
      BY <2>1 DEF SignIn, ClientTypeOK
    <3> QED
      BY <2>1, <3>1 DEF LinksOK
  <2>2. CASE e # d
    <3>1. link'[e] = link[e] /\ authenticated'[e] = authenticated[e] /\ toClient' = toClient
      BY <2>2 DEF SignIn, Accept, ClientTypeOK
    <3>2. authenticated[e] => link[e] \in Connection \ {k}
      BY <1>1 DEF LinksOK, ClientTypeOK, Signed
    <3> QED
      BY <1>1, <3>1, <3>2 DEF LinksOK, OnWire
  <2> QED
    BY <2>1, <2>2
<1> QED
  BY <1>2, <1>3, <1>4 DEF LinksOK, OnWire

\* A client believes what it reads.
LEMMA ReceivingKeepsLinks ==
    ASSUME GatewayInvariant, LinksOK, ClientTypeOK, NEW d \in Device, Receive(d),
           NEW k \in Connection, link[d] = k
    PROVE  LinksOK'
<1> USE DEF GatewayInvariant
<1> DEFINE f == Head(toClient[k])
<1>1. ClientRead(k) /\ phase' = phase
  BY DEF Receive
<1>2. /\ f \in HonestFrame(k) /\ f \in ServerFrame /\ f \in OnWire(k)
      /\ OnWire(k) = {f} \cup OnWire(k)'
      /\ \A j \in Connection \ {k} : OnWire(j)' = OnWire(j)
  BY <1>1, FirstOnWire DEF HonestFrame
<1>3. \A j \in Connection \ {k} : toServer'[j] = toServer[j]
  BY <1>1 DEF Receive, ClientWrite, InputOK
<1>4. phase[k] \notin {"online"} => toServer'[k] = toServer[k]
  <2>1. f.type = "push" => phase[k] # "open"
    BY <1>1, <1>2 DEF PushesOK, NoPush, OnWire, ToSet
  <2> QED
    BY <1>1, <2>1 DEF Receive, ClientWrite
<1>5. SocketOK(k)'
  <2>1. CASE phase[k] = "online"
    BY <1>1, <1>2, <2>1 DEF LinksOK, SocketOK, Signed
  <2>2. CASE phase[k] # "online"
    BY <1>1, <1>2, <1>4, <2>2, SocketUntouched DEF LinksOK
  <2> QED
    BY <2>1, <2>2
<1>6. \A j \in Connection \ {k} : SocketOK(j)'
  BY <1>1, <1>2, <1>3, SocketUntouched DEF LinksOK
<1>7. /\ link'[d] = IF f.type = "login" /\ ~f.success THEN NoConnection ELSE k
      /\ authenticated'[d] <=> authenticated[d] \/ (f.type = "login" /\ f.success)
      /\ \A e \in Device \ {d} : link'[e] = link[e] /\ authenticated'[e] = authenticated[e]
  BY DEF Receive, ClientTypeOK
<1>8. \A e \in Device \ {d} : link[e] # k
  BY <1>1, NoConnectionAssumption DEF LinksOK
<1>9. LoginResponse(FALSE) \in OnWire(k) => ~authenticated[d]
  BY DEF LinksOK
<1>10. LoginResponse(TRUE) \in OnWire(k) => phase[k] \in Signed /\ LoginResponse(FALSE) \notin OnWire(k)
  BY <1>1 DEF LinksOK, SocketOK
<1>11. /\ f.type = "login" /\ f.success => f = LoginResponse(TRUE)
       /\ f.type = "login" /\ ~f.success => f = LoginResponse(FALSE)
  BY <1>2, LoginFrames
<1>12. authenticated[d] => phase[k] \in Signed /\ LoginResponse(FALSE) \notin OnWire(k)
  BY DEF LinksOK
<1>13. DeviceOf[k] = d /\ k # NoConnection
  BY <1>1, NoConnectionAssumption DEF LinksOK
<1> HIDE DEF f
<1>14. /\ link'[d] # NoConnection => DeviceOf[link'[d]] = d
       /\ authenticated'[d] => /\ link'[d] = k /\ phase'[k] \in Signed
                               /\ LoginResponse(FALSE) \notin ToSet(toClient'[k])
  <2>1. OnWire(k)' = ToSet(toClient'[k])
    BY DEF OnWire
  <2>2. authenticated'[d] => link'[d] = k /\ phase[k] \in Signed /\ LoginResponse(FALSE) \notin OnWire(k)
    BY <1>2, <1>7, <1>9, <1>10, <1>11, <1>12
  <2>3. link'[d] # NoConnection => DeviceOf[link'[d]] = d
    BY <1>7, <1>13
  <2> QED
    BY <1>1, <1>2, <2>1, <2>2, <2>3
<1>15. ASSUME NEW e \in Device \ {d}
       PROVE  /\ link'[e] # NoConnection => DeviceOf[link'[e]] = e
              /\ authenticated'[e] => /\ link'[e] # NoConnection /\ phase'[link'[e]] \in Signed
                                      /\ LoginResponse(FALSE) \notin ToSet(toClient'[link'[e]])
  <2>1. authenticated[e] => link[e] \in Connection \ {k}
    BY <1>8 DEF LinksOK, ClientTypeOK
  <2> QED
    BY <1>1, <1>2, <1>7, <2>1 DEF LinksOK, OnWire
<1>16. \A j \in Connection : SocketOK(j)'
  BY <1>5, <1>6
<1> QED
  BY <1>13, <1>14, <1>15, <1>16 DEF LinksOK, OnWire

\* No step of a client breaks it.
LEMMA ClientStepKeepsLinks ==
    ASSUME GatewayInvariant, LinksOK, ClientTypeOK, ClientNext
    PROVE  LinksOK'
<1> USE DEF GatewayInvariant
<1>1. ASSUME NEW d \in Device, LoseLink(d)
      PROVE  LinksOK'
  BY <1>1 DEF LoseLink, LinksOK, SocketOK, OnWire, vars, gatewayVars, ClientTypeOK
<1>2. ASSUME NEW d \in Device, NEW c \in Conversation, OpenConversation(d, c)
      PROVE  LinksOK'
  BY <1>2 DEF OpenConversation, LinksOK, SocketOK, OnWire, vars, gatewayVars
<1>3. ASSUME NEW d \in Device, NEW id \in ClientMessageId, NEW kind \in Kind, SendMessage(d, id, kind)
      PROVE  LinksOK'
  <2>1. UNCHANGED <<phase, toClient, link, authenticated>>
    BY <1>3 DEF SendMessage
  <2>2. \A k \in Connection : OnWire(k)' = OnWire(k)
    BY <2>1 DEF OnWire
  <2>3. /\ \A k \in Connection \ {link[d]} : toServer'[k] = toServer[k]
        /\ ~authenticated[d] => toServer' = toServer
    BY <1>3 DEF SendMessage, ClientWrite, InputOK
  <2>4. ASSUME NEW k \in Connection
        PROVE  SocketOK(k)'
    <3>1. CASE k = link[d] /\ authenticated[d]
      BY <2>1, <2>2, <3>1 DEF LinksOK, SocketOK, Signed
    <3>2. CASE ~(k = link[d] /\ authenticated[d])
      BY <2>1, <2>2, <2>3, <3>2, SocketUntouched DEF LinksOK
    <3> QED
      BY <3>1, <3>2
  <2> QED
    BY <2>1, <2>4 DEF LinksOK, OnWire
<1>4. ASSUME NEW d \in Device, Receive(d)
      PROVE  LinksOK'
  <2>1. link[d] \in Connection
    BY <1>4 DEF Receive, ClientTypeOK
  <2> QED
    BY <1>4, <2>1, ReceivingKeepsLinks
<1> QED
  BY <1>1, <1>2, <1>3, <1>4, SignInKeepsLinks DEF ClientNext

\* What holds of the whole: the gateway, the clients and the sockets between them.
WholeInvariant == GatewayInvariant /\ ClientTypeOK /\ LinksOK

\* A system that just started.
LEMMA QmlInitEstablishesInvariant == QmlInit => WholeInvariant
<1> SUFFICES ASSUME QmlInit PROVE WholeInvariant
  OBVIOUS
<1>1. GatewayInvariant
  BY GatewayInitEstablishesInvariant DEF QmlInit
<1>2. ClientTypeOK
  BY DEF QmlInit, ClientTypeOK
<1>3. LinksOK
  <2>1. \A k \in Connection : toServer[k] = <<>> /\ OnWire(k) = {}
    BY ElementsOfShort DEF QmlInit, GatewayInit, OnWire
  <2>2. \A k \in Connection : SocketOK(k)
    BY <2>1 DEF SocketOK
  <2> QED
    BY <2>2 DEF QmlInit, LinksOK
<1> QED
  BY <1>1, <1>2, <1>3 DEF WholeInvariant

\* No step breaks it.
LEMMA QmlStepKeepsInvariant == WholeInvariant /\ [QmlNext]_qmlVars => WholeInvariant'
<1> SUFFICES ASSUME WholeInvariant, [QmlNext]_qmlVars PROVE WholeInvariant'
  OBVIOUS
<1> USE DEF WholeInvariant
<1>1. GatewayInvariant' /\ ClientTypeOK'
  BY QmlStepKeepsGateway
<1>2. CASE ClientNext
  BY <1>1, <1>2, ClientStepKeepsLinks
<1>3. CASE ServerNext /\ UNCHANGED clientVars
  BY <1>1, <1>3, ServerStepKeepsLinks DEF clientVars
<1>4. CASE UNCHANGED qmlVars
  BY <1>1, <1>4 DEF qmlVars, vars, gatewayVars, clientVars, LinksOK, SocketOK, OnWire
<1> QED
  BY <1>2, <1>3, <1>4 DEF QmlNext

\* The inductive invariant of the whole, for every instance.
THEOREM QmlMessagingIsCorrect == QmlSpec => []WholeInvariant
BY QmlInitEstablishesInvariant, QmlStepKeepsInvariant, PTL DEF QmlSpec

\* What the gateway promises whatever clients write holds with these clients:
\* one session per person, acknowledgements and routed receipts that name rows of
\* the database, and pushes in sequence.
THEOREM GatewayHoldsWithTheseClients ==
    QmlSpec => [](/\ OneSessionPerPerson
                  /\ AcknowledgedIsStored
                  /\ RoutedReceiptsAreRecorded
                  /\ PushesComeInSequence)
<1>1. WholeInvariant => OneSessionPerPerson /\ GatewayInvariant
  BY DEF WholeInvariant, GatewayInvariant
<1> QED
  BY <1>1, FramesTellTheTruth, FramesAreInSequence, QmlMessagingIsCorrect, PTL

\* From end to end the tables change as MessageStore says, one call at a time:
\* what is proved of the store holds of the whole product.
THEOREM WholeUsesStoreAsSpecified == QmlSpec => UsesStoreAsSpecified
<1>1. QmlInit => Init
  BY DEF QmlInit, GatewayInit
<1>2. WholeInvariant /\ [QmlNext]_qmlVars => [StoreNext]_storeVars
  <2> SUFFICES ASSUME WholeInvariant, [QmlNext]_qmlVars PROVE [StoreNext]_storeVars
    OBVIOUS
  <2>1. CASE ServerNext
    BY <2>1, StepIsStoreCall DEF GatewayNext, WholeInvariant, GatewayInvariant
  <2>2. CASE ClientNext \/ UNCHANGED qmlVars
    BY <2>2 DEF ClientNext, SignIn, Accept, Receive, LoseLink, OpenConversation, SendMessage,
                qmlVars, vars
  <2> QED
    BY <2>1, <2>2 DEF QmlNext
<1> QED
  BY <1>1, <1>2, QmlMessagingIsCorrect, PTL DEF QmlSpec, UsesStoreAsSpecified, StoreSpec

\* A client that believes in its session is the one its person is reached at, or
\* its socket is being closed or is closed: it learns of it.
THEOREM SessionsAlwaysAgree == QmlSpec => []SessionsAgree
<1>1. WholeInvariant => SessionsAgree
  <2> SUFFICES ASSUME WholeInvariant, NEW d \in Device, authenticated[d]
               PROVE  \/ onlinePeople[OwnerOf[d]] = link[d]
                      \/ phase[link[d]] \in {"closing", "gone"}
    BY DEF SessionsAgree
  <2>1. link[d] \in Connection /\ DeviceOf[link[d]] = d /\ phase[link[d]] \in Signed
    BY DEF WholeInvariant, LinksOK, ClientTypeOK
  <2> QED
    BY <2>1 DEF WholeInvariant, GatewayInvariant, OneSessionPerPerson, PersonAt, Signed
<1> QED
  BY <1>1, QmlMessagingIsCorrect, PTL

-----------------------------------------------------------------------------
(* Watermarks.                                                             *)

\* Who is online got every message of the own conversations, or will read it.
OnlineGetsAll ==
    \A k \in Connection : phase[k] = "online" =>
        \A m \in messages : m.sender # PersonAt(k) /\ membership[m.conversation][PersonAt(k)] = "active"
            => <<m.conversation, m.sequence>> \in ReceivedBy(PersonAt(k)) \/ Push(m) \in OnWire(k)

\* A receipt on its way to the server stands for every message up to its own.
ReceiptsCover ==
    \A k \in Connection, c \in Conversation, s \in Sequence :
        Receipts("delivered", c, s) \in Asked(k) =>
            /\ s <= lastMessageSequence[c]
            /\ \A m \in messages : m.conversation = c /\ m.sender # PersonAt(k) /\ m.sequence <= s
                  => <<c, m.sequence>> \in ReceivedBy(PersonAt(k))

\* Who will read a push is still a member, as long as nobody leaves.
PushesToMembers ==
    \A k \in Connection : \A f \in OnWire(k) :
        f.type = "push" => membership[f.conversation][PersonAt(k)] = "active"

DeliveryOK == OnlineGetsAll /\ ReceiptsCover /\ PushesToMembers /\ WatermarkNeverSkips

\* What every step does to the tables and to what the clients were handed.
Grows ==
    /\ messages \subseteq messages'
    /\ \A m \in messages' \ messages : m \in Message /\ m.sequence > lastMessageSequence[m.conversation]
    /\ \A c \in Conversation : /\ lastMessageSequence'[c] \in Nat
                               /\ lastMessageSequence[c] <= lastMessageSequence'[c]
    /\ membership' = membership
    /\ \A d \in Device : received[d] \subseteq received'[d]

\* Nobody unlearns what was handed over.
LEMMA ReceivedGrows ==
    ASSUME Grows, NEW p
    PROVE  ReceivedBy(p) \subseteq ReceivedBy(p)'
BY DEF Grows, ReceivedBy

\* A new message is above every watermark.
LEMMA GrowthKeepsWatermarks ==
    ASSUME StoreInvariant, WatermarkNeverSkips, Grows, lastDelivered' = lastDelivered
    PROVE  WatermarkNeverSkips'
<1> SUFFICES ASSUME NEW m \in messages', NEW p \in Person, m.sender # p,
                    m.sequence <= lastDelivered[m.conversation][p]
             PROVE  <<m.conversation, m.sequence>> \in ReceivedBy(p)'
  BY DEF WatermarkNeverSkips
<1>1. CASE m \in messages
  BY <1>1, ReceivedGrows DEF WatermarkNeverSkips
<1>2. CASE m \notin messages
  <2>1. /\ m.conversation \in Conversation /\ m.sequence \in Sequence
        /\ m.sequence > lastMessageSequence[m.conversation]
    BY <1>2 DEF Grows, Message
  <2>2. /\ lastDelivered[m.conversation][p] <= lastMessageSequence[m.conversation]
        /\ lastDelivered[m.conversation][p] \in Int /\ lastMessageSequence[m.conversation] \in Int
    BY <2>1, MaxSequenceAssumption DEF StoreInvariant, TypeOK, WatermarksAreOrdered
  <2> QED
    BY <2>1, <2>2 DEF Sequence
<1> QED
  BY <1>1, <1>2

\* A new message is above every receipt on its way.
LEMMA GrowthKeepsReceipts ==
    ASSUME StoreInvariant, ReceiptsCover, Grows,
           \A k \in Connection : \A f \in Asked(k)' : f.type = "delivered" => f \in Asked(k)
    PROVE  ReceiptsCover'
<1> SUFFICES ASSUME NEW k \in Connection, NEW c \in Conversation, NEW s \in Sequence,
                    Receipts("delivered", c, s) \in Asked(k)'
             PROVE  /\ s <= lastMessageSequence'[c]
                    /\ \A m \in messages' : m.conversation = c /\ m.sender # PersonAt(k) /\ m.sequence <= s
                          => <<c, m.sequence>> \in ReceivedBy(PersonAt(k))'
  BY DEF ReceiptsCover
<1>1. Receipts("delivered", c, s).type = "delivered"
  BY DEF Receipts
<1>2. /\ s <= lastMessageSequence[c]
      /\ \A m \in messages : m.conversation = c /\ m.sender # PersonAt(k) /\ m.sequence <= s
            => <<c, m.sequence>> \in ReceivedBy(PersonAt(k))
  BY <1>1 DEF ReceiptsCover
<1>3. /\ s \in Int /\ lastMessageSequence[c] \in Int
      /\ lastMessageSequence'[c] \in Nat
      /\ lastMessageSequence[c] <= lastMessageSequence'[c]
  BY MaxSequenceAssumption DEF StoreInvariant, TypeOK, Grows, Sequence
<1>4. s <= lastMessageSequence'[c]
  BY <1>2, <1>3
<1>5. ASSUME NEW m \in messages', m.conversation = c, m.sender # PersonAt(k), m.sequence <= s
      PROVE  <<c, m.sequence>> \in ReceivedBy(PersonAt(k))'
  <2>1. CASE m \in messages
    BY <1>2, <1>5, <2>1, ReceivedGrows
  <2>2. CASE m \notin messages
    <3>1. m.sequence \in Int /\ m.sequence > lastMessageSequence[c]
      BY <1>5, <2>2 DEF Grows, Message, Sequence
    <3> QED
      BY <1>2, <1>3, <1>5, <3>1
  <2> QED
    BY <2>1, <2>2
<1> QED
  BY <1>4, <1>5

\* As long as nothing is committed and nobody signs in, calm sockets suffice.
LEMMA CalmKeepsOnline ==
    ASSUME OnlineGetsAll, PushesToMembers, Grows, messages' = messages,
           \A k \in Connection : Calm(k)
    PROVE  OnlineGetsAll' /\ PushesToMembers'
<1>1. ASSUME NEW k \in Connection, phase'[k] = "online", NEW m \in messages, m.sender # PersonAt(k),
             membership[m.conversation][PersonAt(k)] = "active"
      PROVE  <<m.conversation, m.sequence>> \in ReceivedBy(PersonAt(k))' \/ Push(m) \in OnWire(k)'
  <2>1. phase[k] = "online" /\ \A f \in OnWire(k) : f.type = "push" => f \in OnWire(k)'
    BY <1>1 DEF Calm
  <2>2. Push(m).type = "push"
    BY DEF Push
  <2>3. <<m.conversation, m.sequence>> \in ReceivedBy(PersonAt(k)) \/ Push(m) \in OnWire(k)
    BY <1>1, <2>1 DEF OnlineGetsAll
  <2> QED
    BY <2>1, <2>2, <2>3, ReceivedGrows
<1>2. ASSUME NEW k \in Connection, NEW f \in OnWire(k)', f.type = "push"
      PROVE  membership[f.conversation][PersonAt(k)] = "active"
  BY <1>2 DEF Calm, PushesToMembers
<1> QED
  BY <1>1, <1>2 DEF OnlineGetsAll, PushesToMembers, Grows

\* The steps of the server that move no push, no row and no watermark.
LEMMA CalmKeepsDelivery ==
    ASSUME StoreInvariant, DeliveryOK,
           UNCHANGED <<messages, lastMessageSequence, membership, lastDelivered, received>>,
           \A k \in Connection : Calm(k)
    PROVE  DeliveryOK'
<1>1. Grows
  <2>1. \A c \in Conversation : lastMessageSequence[c] \in Nat
    BY MaxSequenceAssumption DEF StoreInvariant, TypeOK
  <2> QED
    BY <2>1 DEF Grows
<1>2. \A k \in Connection : \A f \in Asked(k)' : f.type = "delivered" => f \in Asked(k)
  BY DEF Calm
<1> QED
  BY <1>1, <1>2, CalmKeepsOnline, GrowthKeepsReceipts, GrowthKeepsWatermarks DEF DeliveryOK

\* A recorded delivery receipt moves the watermark no further than it stands for.
LEMMA RecordKeepsDelivery ==
    ASSUME GatewayInvariant, DeliveryOK, NEW k \in Connection, Receives(k, "delivered"),
           MarkDelivered(PersonAt(k), Head(toServer[k]).conversation, Head(toServer[k]).sequence),
           \A j \in Connection : Calm(j), UNCHANGED received
    PROVE  DeliveryOK'
<1> USE DEF GatewayInvariant
<1> DEFINE f == Head(toServer[k])
           p == PersonAt(k)
<1>0. f \in ClientFrame /\ f.type = "delivered" /\ f \in Asked(k)
  <2>1. toServer[k] \in Seq(ClientFrame) /\ toServer[k] # <<>>
    BY DEF InputOK, Receives, HasFrame
  <2> DEFINE s == toServer[k]
  <2> HIDE DEF s
  <2>2. Head(s) \in ToSet(s)
    BY <2>1, ElementsOfSequences DEF s
  <2> QED
    BY <2>2, HeadIsFrame DEF s, Asked, Receives
<1> DEFINE c == f.conversation
           s == f.sequence
           w == Max2(lastDelivered[c][p], Min2(s, lastMessageSequence[c]))
<1>1. c \in Conversation /\ s \in Sequence /\ f = Receipts("delivered", c, s) /\ p \in Person
  BY <1>0, PersonOfConnection DEF ClientFrame, ReceiptFrame, SendFrame, Receipts, Send, Login
<1>2. UNCHANGED <<messages, lastMessageSequence, membership, received>>
  BY DEF MarkDelivered
<1>3. lastDelivered' = [lastDelivered EXCEPT ![c][p] = w]
  BY <1>1 DEF MarkDelivered, StoreInvariant, TypeOK
<1>4. Grows
  <2>1. \A e \in Conversation : lastMessageSequence[e] \in Nat
    BY MaxSequenceAssumption DEF StoreInvariant, TypeOK
  <2> QED
    BY <1>2, <2>1 DEF Grows
<1>5. OnlineGetsAll' /\ PushesToMembers' /\ ReceiptsCover'
  <2>1. \A j \in Connection : \A g \in Asked(j)' : g.type = "delivered" => g \in Asked(j)
    BY DEF Calm
  <2> QED
    BY <1>2, <1>4, <2>1, CalmKeepsOnline, GrowthKeepsReceipts DEF DeliveryOK
<1>6. \A m \in messages : m.conversation = c /\ m.sender # p /\ m.sequence <= s
          => <<c, m.sequence>> \in ReceivedBy(p)
  BY <1>0, <1>1 DEF DeliveryOK, ReceiptsCover
<1>7. ASSUME NEW m \in messages, NEW q \in Person, m.sender # q,
             m.sequence <= lastDelivered'[m.conversation][q]
      PROVE  <<m.conversation, m.sequence>> \in ReceivedBy(q)
  <2>1. m.conversation \in Conversation /\ m.sequence \in Int
    BY DEF StoreInvariant, TypeOK, Message, Sequence
  <2>2. CASE m.conversation = c /\ q = p
    <3>1. lastDelivered'[c][p] = w
      BY <1>1, <1>3 DEF StoreInvariant, TypeOK
    <3>2. lastDelivered[c][p] \in Int /\ lastMessageSequence[c] \in Int /\ s \in Int
      BY <1>1, MaxSequenceAssumption DEF StoreInvariant, TypeOK, Sequence
    <3>3. m.sequence <= lastDelivered[c][p] \/ m.sequence <= s
      <4> HIDE DEF c, s, p
      <4> QED
        BY <1>7, <2>1, <2>2, <3>1, <3>2 DEF Max2, Min2
    <3> QED
      BY <1>6, <1>7, <2>2, <3>3 DEF DeliveryOK, WatermarkNeverSkips
  <2>3. CASE ~(m.conversation = c /\ q = p)
    <3>1. lastDelivered'[m.conversation][q] = lastDelivered[m.conversation][q]
      BY <1>1, <1>3, <2>1, <2>3 DEF StoreInvariant, TypeOK
    <3> QED
      BY <1>7, <3>1 DEF DeliveryOK, WatermarkNeverSkips
  <2> QED
    BY <2>2, <2>3
<1>8. WatermarkNeverSkips'
  BY <1>2, <1>4, <1>7, ReceivedGrows DEF WatermarkNeverSkips
<1> QED
  BY <1>5, <1>8 DEF DeliveryOK

\* A delivery receipt, whether or not its sender learns that it was recorded.
LEMMA ReceiptKeepsDelivery ==
    ASSUME GatewayInvariant, DeliveryOK, NEW k \in Connection, HandleDelivered(k), UNCHANGED received
    PROVE  DeliveryOK'
<1> USE DEF GatewayInvariant
<1>1. \A j \in Connection : Calm(j)
  BY ReceiptIsQuiet
<1>2. CASE UNCHANGED storeVars
  BY <1>1, <1>2, CalmKeepsDelivery DEF storeVars
<1>3. CASE MarkDelivered(PersonAt(k), Head(toServer[k]).conversation, Head(toServer[k]).sequence)
  BY <1>1, <1>3, RecordKeepsDelivery DEF HandleDelivered
<1> QED
  BY <1>2, <1>3 DEF HandleDelivered

\* The row a send frame commits.
LEMMA CommitAdds ==
    ASSUME StoreInvariant, StoreInvariant', NEW k \in Connection, NEW f \in SendFrame, Commit(k, f),
           UNCHANGED received
    PROVE  /\ Grows /\ lastDelivered' = lastDelivered
           /\ LET m == CHOOSE n \in messages' : n \notin messages
              IN  /\ m \in Message /\ messages' = messages \cup {m}
                  /\ m.sender = PersonAt(k) /\ m.conversation = f.conversation
<1> DEFINE m == CHOOSE n \in messages' : n \notin messages
           c == f.conversation
<1>1. /\ m \in messages' /\ m \notin messages /\ m \in Message
      /\ m.sender = PersonAt(k) /\ m.conversation = c
  BY CommittedRow
<1>2. /\ c \in Conversation
      /\ UNCHANGED <<membership, lastDelivered>>
      /\ lastMessageSequence' = [lastMessageSequence EXCEPT ![c] = @ + 1]
      /\ \E row : messages' = messages \cup {row} /\ row.sequence = lastMessageSequence[c] + 1
  <2>1. PICK kind \in Kind : InsertMessage(DeviceOf[k], c, f.clientId, kind)
    BY DEF Commit, SubmitMessage, AcceptFileMessage, Kind
  <2> DEFINE row == [conversation |-> c, sequence |-> lastMessageSequence[c] + 1,
                     sender |-> OwnerOf[DeviceOf[k]], device |-> DeviceOf[k],
                     clientId |-> f.clientId, kind |-> kind]
  <2>2. messages' = messages \cup {row} /\ row.sequence = lastMessageSequence[c] + 1
    BY <2>1 DEF InsertMessage
  <2>3. \E r : messages' = messages \cup {r} /\ r.sequence = lastMessageSequence[c] + 1
    BY <2>2
  <2>4. /\ UNCHANGED <<membership, lastDelivered>>
        /\ lastMessageSequence' = [lastMessageSequence EXCEPT ![c] = @ + 1]
    BY <2>1 DEF InsertMessage
  <2> QED
    BY <2>3, <2>4, SendFields
<1> HIDE DEF m
<1>3. messages' = messages \cup {m} /\ m.sequence = lastMessageSequence[c] + 1
  BY <1>1, <1>2
<1>4. \A e \in Conversation : lastMessageSequence[e] \in Nat /\ lastMessageSequence'[e] \in Nat
  BY MaxSequenceAssumption DEF StoreInvariant, TypeOK
<1>5. \A e \in Conversation : lastMessageSequence[e] <= lastMessageSequence'[e]
  BY <1>2, <1>4 DEF StoreInvariant, TypeOK
<1>6. m.sequence > lastMessageSequence[m.conversation]
  BY <1>1, <1>2, <1>3, <1>4
<1>7. Grows
  BY <1>1, <1>2, <1>3, <1>4, <1>5, <1>6 DEF Grows
<1> QED
  BY <1>1, <1>2, <1>3, <1>7 DEF m

\* A new message is pushed to every member that is online.
LEMMA AcceptanceKeepsDelivery ==
    ASSUME GatewayInvariant, GatewayInvariant', DeliveryOK, NEW k \in Connection, NEW f \in SendFrame,
           Accepted(k, f), \A j \in Connection : Taken(j), UNCHANGED received
    PROVE  DeliveryOK'
<1> USE DEF GatewayInvariant
<1> DEFINE m == CHOOSE n \in messages' : n \notin messages
           c == f.conversation
           out == Announce(k, m, Recipients(c, PersonAt(k)))
<1>1. /\ Grows /\ lastDelivered' = lastDelivered
      /\ m \in Message /\ messages' = messages \cup {m}
      /\ m.sender = PersonAt(k) /\ m.conversation = c
  BY CommitAdds DEF Accepted
<1>2. Transmit(out, phase)
  BY DEF Accepted
<1> HIDE DEF m
<1>3. ASSUME NEW j \in Connection
      PROVE  /\ out[j] \in Seq(ServerFrame)
             /\ \A g \in ToSet(out[j]) : g.type = "push"
                   => g = Push(m) /\ PersonAt(j) \in Recipients(c, PersonAt(k))
             /\ \A q \in Recipients(c, PersonAt(k)) : onlinePeople[q] = j /\ j # k
                   => Push(m) \in ToSet(out[j])
  <2> DEFINE ack == Acknowledgement(m)
             push == Push(m)
  <2>1. ack \in ServerFrame /\ ack.type = "ack" /\ push \in ServerFrame
    BY <1>1, FramesOfServer
  <2>2. CASE j = k
    <3>1. out[j] = <<ack>>
      BY <2>2 DEF Announce
    <3> HIDE DEF ack, push, out
    <3> QED
      BY <2>1, <2>2, <3>1, ElementsOfShort
  <2>3. CASE j # k /\ \E q \in Recipients(c, PersonAt(k)) : onlinePeople[q] = j
    <3>1. out[j] = <<push>>
      BY <2>3 DEF Announce
    <3>2. PersonAt(j) \in Recipients(c, PersonAt(k))
      <4>1. PICK q \in Recipients(c, PersonAt(k)) : onlinePeople[q] = j
        BY <2>3
      <4>2. q \in Person /\ onlinePeople[q] # NoConnection
        BY <4>1, NoConnectionAssumption DEF Recipients, Active
      <4>3. PersonAt(onlinePeople[q]) = q
        BY <4>2 DEF OneSessionPerPerson
      <4> QED
        BY <4>1, <4>3
    <3>3. push = Push(m)
      OBVIOUS
    <3> HIDE DEF ack, push, out
    <3> QED
      BY <2>1, <3>1, <3>2, <3>3, ElementsOfShort
  <2>4. CASE j # k /\ ~\E q \in Recipients(c, PersonAt(k)) : onlinePeople[q] = j
    <3>1. out[j] = <<>>
      BY <2>4 DEF Announce
    <3>2. <<>> \in Seq(ServerFrame)
      OBVIOUS
    <3> HIDE DEF ack, push, out
    <3> QED
      BY <2>4, <3>1, <3>2, ElementsOfShort
  <2> QED
    BY <2>2, <2>3, <2>4
<1> HIDE DEF out
<1>4. ASSUME NEW j \in Connection
      PROVE  /\ OnWire(j)' \subseteq OnWire(j) \cup ToSet(out[j])
             /\ phase'[j] = "online" => phase[j] = "online" /\ OnWire(j)' = OnWire(j) \cup ToSet(out[j])
             /\ Asked(j)' \subseteq Asked(j)
  <2>1. out[j] \in Seq(ServerFrame)
    BY <1>3
  <2>2. Asked(j)' \subseteq Asked(j)
    BY TakenAsked
  <2> QED
    BY <1>2, <2>1, <2>2, TransmitWire DEF ConnectionsOK
<1>5. PushesToMembers'
  <2>1. \A q \in Recipients(c, PersonAt(k)) : membership[c][q] = "active"
    BY DEF Recipients, Active
  <2>2. Push(m).conversation = c
    BY <1>1 DEF Push
  <2>3. ASSUME NEW j \in Connection, NEW g \in OnWire(j)', g.type = "push"
        PROVE  membership[g.conversation][PersonAt(j)] = "active"
    BY <1>3, <1>4, <2>1, <2>2, <2>3 DEF DeliveryOK, PushesToMembers
  <2> QED
    BY <1>1, <2>3 DEF PushesToMembers, Grows
<1>6. ASSUME NEW j \in Connection, phase'[j] = "online", NEW n \in messages', n.sender # PersonAt(j),
             membership[n.conversation][PersonAt(j)] = "active"
      PROVE  <<n.conversation, n.sequence>> \in ReceivedBy(PersonAt(j))' \/ Push(n) \in OnWire(j)'
  <2>1. CASE n \in messages
    <3>1. <<n.conversation, n.sequence>> \in ReceivedBy(PersonAt(j)) \/ Push(n) \in OnWire(j)
      BY <1>4, <1>6, <2>1 DEF DeliveryOK, OnlineGetsAll
    <3> QED
      BY <1>1, <1>4, <1>6, <3>1, ReceivedGrows
  <2>2. CASE n = m
    <3>1. PersonAt(j) \in Recipients(c, PersonAt(k)) /\ j # k
      BY <1>1, <1>6, <2>2, PersonOfConnection DEF Recipients, Active
    <3>2. onlinePeople[PersonAt(j)] = j
      BY <1>4, <1>6 DEF OneSessionPerPerson
    <3> QED
      BY <1>3, <1>4, <1>6, <2>2, <3>1, <3>2
  <2> QED
    BY <1>1, <1>6, <2>1, <2>2
<1>7. OnlineGetsAll'
  BY <1>1, <1>6 DEF OnlineGetsAll, Grows
<1> QED
  BY <1>1, <1>4, <1>5, <1>7, GrowthKeepsReceipts, GrowthKeepsWatermarks DEF DeliveryOK

\* A replay that is not cut off covers everything that waits.
LEMMA ReplayIsComplete ==
    ASSUME GatewayInvariant, ~StoreFails, NEW p \in Person, NEW replay \in Replays(p),
           Cardinality(Pending(p)) <= PendingLimit, NEW m \in Pending(p)
    PROVE  Push(m) \in ToSet(replay)
<1> DEFINE T == Pending(p)
           n == Cardinality(T)
           D == 1..n
<1>1. IsFiniteSet(T) /\ n \in Nat
  BY FS_Subset, FS_CardinalityType DEF Pending, GatewayInvariant
<1>2. PICK o \in ReplayOrders(p) : replay = [i \in 1..Min2(Len(o), PendingLimit) |-> Push(o[i])]
  BY DEF Replays
<1>3. o \in [D -> T] /\ \A i, j \in D : i # j => o[i] # o[j]
  BY <1>2 DEF ReplayOrders, SetToSeqs
<1>4. IsFiniteSet(D) /\ Cardinality(D) = n
  <2> HIDE DEF n
  <2>1. 1 \in Int /\ n \in Int
    BY <1>1
  <2> QED
    BY <1>1, <2>1, FS_Interval
<1>5. o \in Injection(D, T)
  BY <1>3 DEF Injection, IsInjective
<1>6. o \in Surjection(D, T)
  BY <1>1, <1>4, <1>5, FS_Injection
<1>7. PICK i \in D : o[i] = m
  BY <1>6 DEF Surjection
<1>8. Len(o) = n
  BY <1>1, <1>3
<1>9. Min2(Len(o), PendingLimit) = n
  BY <1>1, <1>8, LimitsAssumption DEF Min2
<1> HIDE DEF n
<1>10. replay = [j \in 1..n |-> Push(o[j])]
  BY <1>2, <1>9
<1>11. Len(replay) = n /\ replay[i] = Push(m)
  BY <1>1, <1>7, <1>10
<1> QED
  BY <1>11 DEF ToSet

\* A login replays what is above the watermark; what is below was handed over.
LEMMA LoginKeepsDelivery ==
    ASSUME GatewayInvariant, DeliveryOK, ~StoreFails, NEW k \in Connection, HandleLogin(k),
           Cardinality(Pending(PersonAt(k))) <= PendingLimit, UNCHANGED received
    PROVE  DeliveryOK'
<1> USE DEF GatewayInvariant
<1> DEFINE p == PersonAt(k)
<1>1. PICK replay \in Replays(p) :
         /\ OnWire(k)' \subseteq OnWire(k) \cup {LoginResponse(TRUE)} \cup ToSet(replay)
         /\ phase'[k] = "online" => ToSet(replay) \subseteq OnWire(k)'
         /\ \A j \in Connection : Taken(j)
         /\ \A j \in Connection \ {k} : Calm(j)
  BY LoginStep
<1>2. UNCHANGED <<messages, lastMessageSequence, membership, lastDelivered, received>>
  BY DEF HandleLogin, storeVars
<1>3. Grows
  <2>1. \A c \in Conversation : lastMessageSequence[c] \in Nat
    BY MaxSequenceAssumption DEF StoreInvariant, TypeOK
  <2> QED
    BY <1>2, <2>1 DEF Grows
<1>4. p \in Person
  BY PersonOfConnection
<1>5. ReceiptsCover' /\ WatermarkNeverSkips'
  <2>1. \A j \in Connection : Asked(j)' \subseteq Asked(j)
    BY <1>1, TakenAsked
  <2> QED
    BY <1>2, <1>3, <2>1, GrowthKeepsReceipts, GrowthKeepsWatermarks DEF DeliveryOK
<1>6. PushesToMembers'
  <2>1. ASSUME NEW j \in Connection, NEW f \in OnWire(j)', f.type = "push"
        PROVE  membership[f.conversation][PersonAt(j)] = "active"
    <3>1. CASE f \in OnWire(j)
      BY <2>1, <3>1 DEF DeliveryOK, PushesToMembers
    <3>2. CASE f \notin OnWire(j)
      <4>1. j = k
        BY <1>1, <2>1, <3>2 DEF Calm
      <4>2. f # LoginResponse(TRUE)
        BY <2>1 DEF LoginResponse
      <4>3. PICK m \in Pending(p) : f = Push(m)
        BY <1>1, <1>4, <2>1, <3>2, <4>1, <4>2, ReplayFrames
      <4>4. f.conversation = m.conversation
        BY <4>3 DEF Push
      <4> QED
        BY <4>1, <4>3, <4>4 DEF Pending
    <3> QED
      BY <3>1, <3>2
  <2> QED
    BY <1>2, <2>1 DEF PushesToMembers
<1>7. ASSUME NEW j \in Connection, phase'[j] = "online", NEW m \in messages, m.sender # PersonAt(j),
             membership[m.conversation][PersonAt(j)] = "active"
      PROVE  <<m.conversation, m.sequence>> \in ReceivedBy(PersonAt(j)) \/ Push(m) \in OnWire(j)'
  <2>1. CASE j # k
    <3>1. Push(m).type = "push"
      BY DEF Push
    <3> QED
      BY <1>1, <1>7, <2>1, <3>1 DEF Calm, DeliveryOK, OnlineGetsAll
  <2>2. CASE j = k
    <3>1. m.sequence \in Int /\ lastDelivered[m.conversation][p] \in Int
      BY <1>4, MaxSequenceAssumption DEF StoreInvariant, TypeOK, Message, Sequence
    <3>2. CASE m.sequence <= lastDelivered[m.conversation][p]
      BY <1>4, <1>7, <2>2, <3>2 DEF DeliveryOK, WatermarkNeverSkips
    <3>3. CASE m.sequence > lastDelivered[m.conversation][p]
      <4>1. m \in Pending(p)
        BY <1>7, <2>2, <3>3 DEF Pending
      <4> QED
        BY <1>1, <1>4, <1>7, <2>2, <4>1, ReplayIsComplete
    <3> QED
      BY <3>1, <3>2, <3>3
  <2> QED
    BY <2>1, <2>2
<1>8. OnlineGetsAll'
  BY <1>2, <1>3, <1>7, ReceivedGrows DEF OnlineGetsAll
<1> QED
  BY <1>5, <1>6, <1>8 DEF DeliveryOK

\* A crash, even one that follows a commit, leaves nobody online.
LEMMA CrashKeepsDelivery ==
    ASSUME GatewayInvariant, GatewayInvariant', DeliveryOK, GatewayCrash, UNCHANGED received
    PROVE  DeliveryOK'
<1> USE DEF GatewayInvariant
<1>1. Crash
  BY DEF GatewayCrash
<1>2. /\ \A k \in Connection : phase'[k] # "online" /\ OnWire(k)' = OnWire(k)
      /\ \A k \in Connection : Asked(k)' \subseteq Asked(k)
  <2>1. \A k \in Connection : phase'[k] # "online" /\ toClient'[k] = toClient[k] /\ toServer'[k] = <<>>
    BY <1>1 DEF Crash, ConnectionsOK, Phase, Attached
  <2> QED
    BY <2>1, ElementsOfShort DEF OnWire, Asked
<1>3. \A k \in Connection : Calm(k)
  BY <1>1, ServerIsCalm
<1>4. ASSUME NEW k \in Connection, Record(k)
      PROVE  DeliveryOK'
  <2> DEFINE f == Head(toServer[k])
  <2>1. CASE Receives(k, "delivered") /\ MarkDelivered(PersonAt(k), f.conversation, f.sequence)
    BY <1>3, <2>1, RecordKeepsDelivery
  <2>2. CASE MarkRead(PersonAt(k), f.conversation, f.sequence)
    <3>1. UNCHANGED <<messages, lastMessageSequence, membership, lastDelivered>>
      BY <2>2 DEF MarkRead
    <3> QED
      BY <1>3, <3>1, CalmKeepsDelivery
  <2> QED
    BY <1>4, <2>1, <2>2 DEF Record
<1>5. CASE \E k \in Connection : Record(k)
  BY <1>4, <1>5
<1>6. CASE ~\E k \in Connection : Record(k)
  <2>1. Grows /\ lastDelivered' = lastDelivered
    <3>1. CASE UNCHANGED storeVars
      <4>1. \A c \in Conversation : lastMessageSequence[c] \in Nat
        BY MaxSequenceAssumption DEF StoreInvariant, TypeOK
      <4> QED
        BY <3>1, <4>1 DEF Grows, storeVars
    <3>2. ASSUME NEW k \in Connection, NEW f \in SendFrame, Commit(k, f)
          PROVE  Grows /\ lastDelivered' = lastDelivered
      BY <3>2, CommitAdds
    <3>3. CASE \E k \in Connection : Sends(k, "text") /\ Commit(k, Head(toServer[k]))
      BY <3>2, <3>3, HeadIsFrame, FrameFields DEF Sends, Receives
    <3>4. CASE uploads # <<>> /\ Commit(Last(uploads).connection, Last(uploads).frame)
      BY <3>2, <3>4, LastUpload
    <3> QED
      BY <1>6, <3>1, <3>3, <3>4 DEF GatewayCrash
  <2>2. OnlineGetsAll' /\ PushesToMembers'
    BY <1>2, <2>1 DEF DeliveryOK, OnlineGetsAll, PushesToMembers, Grows
  <2>3. ReceiptsCover' /\ WatermarkNeverSkips'
    BY <1>2, <2>1, GrowthKeepsReceipts, GrowthKeepsWatermarks DEF DeliveryOK
  <2> QED
    BY <2>2, <2>3 DEF DeliveryOK
<1> QED
  BY <1>5, <1>6

\* No step of the server breaks it, if the store works, nobody joins or leaves,
\* and a login can replay everything that waits.
LEMMA ServerStepKeepsDelivery ==
    ASSUME GatewayInvariant, GatewayInvariant', DeliveryOK, ~StoreFails, ~GroupsChange,
           \A p \in Person : Cardinality(Pending(p)) <= PendingLimit, UNCHANGED received, ServerNext
    PROVE  DeliveryOK'
<1> USE DEF GatewayInvariant
<1>1. ASSUME \A j \in Connection : Calm(j), UNCHANGED storeVars
      PROVE  DeliveryOK'
  <2>1. UNCHANGED <<messages, lastMessageSequence, membership, lastDelivered>>
    BY <1>1 DEF storeVars
  <2> QED
    BY <1>1, <2>1, CalmKeepsDelivery
<1>2. ASSUME NEW k \in Connection, NEW f \in SendFrame, \A j \in Connection : Taken(j),
             Accepted(k, f) \/ AcceptedBefore(k, f) \/ Refused(k, f)
      PROVE  DeliveryOK'
  <2>1. CASE Accepted(k, f)
    BY <1>2, <2>1, AcceptanceKeepsDelivery
  <2>2. CASE ~Accepted(k, f)
    <3>1. UNCHANGED storeVars
      BY <1>2, <2>2 DEF AcceptedBefore, Refused
    <3>2. \A j \in Connection : Calm(j)
      BY <1>2, <2>2, OutcomeIsQuiet
    <3> QED
      BY <1>1, <3>1, <3>2
  <2> QED
    BY <2>1, <2>2
<1>3. ASSUME NEW k \in Connection, Handle(k)
      PROVE  DeliveryOK'
  <2>1. CASE HandleLogin(k)
    BY <2>1, LoginKeepsDelivery, PersonOfConnection
  <2>2. CASE RejectLogin(k)
    <3> DEFINE r == LoginResponse(FALSE)
    <3>1. r \in ServerFrame /\ r.type # "push"
      BY FramesOfServer
    <3>2. Transmit(Reply(k, r), phase) /\ UNCHANGED storeVars /\ \A j \in Connection : Taken(j)
      BY <2>2, ConsumeTakes DEF RejectLogin, Receives
    <3> HIDE DEF r
    <3>3. ASSUME NEW j \in Connection
          PROVE  Calm(j)
      <4>1. Reply(k, r)[j] \in Seq(ServerFrame) /\ ToSet(Reply(k, r)[j]) \subseteq {r}
        BY <3>1, ReplyFrames
      <4>2. Asked(j)' \subseteq Asked(j)
        BY <3>2, TakenAsked
      <4> QED
        BY <3>1, <3>2, <4>1, <4>2, TransmitWire DEF Calm, ConnectionsOK
    <3> QED
      BY <1>1, <3>2, <3>3
  <2>3. CASE HandleSend(k)
    <3>1. /\ Head(toServer[k]) \in SendFrame /\ \A j \in Connection : Taken(j)
          /\ \/ Accepted(k, Head(toServer[k])) \/ AcceptedBefore(k, Head(toServer[k]))
             \/ Refused(k, Head(toServer[k]))
      BY <2>3, ConsumeTakes, HeadIsFrame, FrameFields DEF HandleSend, Sends, Receives
    <3> QED
      BY <1>2, <3>1
  <2>4. CASE RefuseFrame(k) \/ BeginUpload(k) \/ RefuseUpload(k)
    <3>1. UNCHANGED storeVars
      BY <2>4 DEF RefuseFrame, BeginUpload, RefuseUpload
    <3> QED
      BY <1>1, <2>4, <3>1, ServerIsCalm
  <2>5. CASE HandleDelivered(k)
    BY <2>5, ReceiptKeepsDelivery
  <2>6. CASE HandleRead(k)
    <3>1. UNCHANGED <<messages, lastMessageSequence, membership, lastDelivered>>
      BY <2>6 DEF HandleRead, MarkRead, storeVars
    <3> QED
      BY <2>6, <3>1, ServerIsCalm, CalmKeepsDelivery
  <2> QED
    BY <1>3, <2>1, <2>2, <2>3, <2>4, <2>5, <2>6 DEF Handle
<1>4. ASSUME NEW k \in Connection, RemoveConnection(k) \/ BeginClose(k)
      PROVE  DeliveryOK'
  <2>1. UNCHANGED storeVars
    BY <1>4 DEF RemoveConnection, BeginClose
  <2> QED
    BY <1>1, <1>4, <2>1, ServerIsCalm
<1>5. CASE FinishUpload
  <2>1. /\ Last(uploads).connection \in Connection /\ Last(uploads).frame \in SendFrame
        /\ \A j \in Connection : Taken(j)
    BY <1>5, LastUpload DEF FinishUpload, Taken
  <2>2. CASE UNCHANGED <<storeVars, phase, toClient>>
    BY <1>1, <1>5, <2>1, <2>2, ServerIsCalm
  <2> QED
    BY <1>2, <1>5, <2>1, <2>2 DEF FinishUpload
<1> QED
  BY <1>3, <1>4, <1>5, CrashKeepsDelivery DEF ServerNext, UpdateMembers

\* A push that is read was the first of those that wait: what it confirms is
\* everything up to it.
LEMMA ReceivingKeepsDelivery ==
    ASSUME GatewayInvariant, LinksOK, ClientTypeOK, DeliveryOK, NEW d \in Device, Receive(d),
           NEW k \in Connection, link[d] = k
    PROVE  DeliveryOK'
<1> USE DEF GatewayInvariant
<1> DEFINE f == Head(toClient[k])
           p == PersonAt(k)
<1>1. /\ ClientRead(k) /\ phase' = phase
      /\ UNCHANGED <<messages, lastMessageSequence, membership, lastDelivered>>
  BY DEF Receive, storeVars
<1>2. /\ f \in HonestFrame(k) /\ f \in OnWire(k) /\ OnWire(k) = {f} \cup OnWire(k)'
      /\ f.type = "push" => \A g \in OnWire(k)' :
            g.type = "push" /\ g.conversation = f.conversation => f.sequence < g.sequence
      /\ \A j \in Connection \ {k} : OnWire(j)' = OnWire(j)
  BY <1>1, FirstOnWire
<1>3. /\ IF f.type = "push"
           THEN /\ received' = [received EXCEPT ![d] = @ \cup {<<f.conversation, f.sequence>>}]
                /\ ClientWrite(k, Confirmations(d, f))
           ELSE UNCHANGED <<received, toServer>>
      /\ OwnerOf[d] = p
  BY NoConnectionAssumption DEF Receive, LinksOK, PersonAt
<1>4. f.type = "push" => /\ f.conversation \in Conversation /\ f.sequence \in Sequence
                         /\ \E m \in messages : Push(m) = f
  BY <1>2, PushFields DEF HonestFrame, Honest
<1>5. f.type = "push" => phase[k] \notin {"none", "open"}
  BY <1>2 DEF PushesOK, NoPush, OnWire, ToSet
<1>6. f.type = "push" => membership[f.conversation][p] = "active"
  BY <1>2 DEF DeliveryOK, PushesToMembers
<1> HIDE DEF f, p
<1>7. Grows
  <2>1. \A c \in Conversation : lastMessageSequence[c] \in Nat
    BY MaxSequenceAssumption DEF StoreInvariant, TypeOK
  <2>2. \A e \in Device : received[e] \subseteq received'[e]
    BY <1>3 DEF ClientTypeOK
  <2> QED
    BY <1>1, <2>1, <2>2 DEF Grows
<1>8. f.type = "push" => <<f.conversation, f.sequence>> \in ReceivedBy(p)'
  <2>1. f.type = "push" => <<f.conversation, f.sequence>> \in received'[d]
    BY <1>3 DEF ClientTypeOK
  <2> QED
    BY <1>3, <2>1 DEF ReceivedBy
<1>9. ASSUME NEW m \in messages, Push(m) = f
      PROVE  <<m.conversation, m.sequence>> \in ReceivedBy(p)'
  <2>1. f.type = "push" /\ f.conversation = m.conversation /\ f.sequence = m.sequence
    BY <1>9 DEF Push
  <2> QED
    BY <1>8, <2>1
<1>10. OnlineGetsAll'
  <2>1. ASSUME NEW j \in Connection, phase[j] = "online", NEW m \in messages, m.sender # PersonAt(j),
               membership[m.conversation][PersonAt(j)] = "active"
        PROVE  <<m.conversation, m.sequence>> \in ReceivedBy(PersonAt(j))' \/ Push(m) \in OnWire(j)'
    <3>1. <<m.conversation, m.sequence>> \in ReceivedBy(PersonAt(j)) \/ Push(m) \in OnWire(j)
      BY <2>1 DEF DeliveryOK, OnlineGetsAll
    <3>2. CASE j # k
      BY <1>2, <1>7, <3>1, <3>2, ReceivedGrows
    <3>3. CASE j = k
      BY <1>2, <1>7, <1>9, <3>1, <3>3, ReceivedGrows DEF p
    <3> QED
      BY <3>2, <3>3
  <2> QED
    BY <1>1, <2>1 DEF OnlineGetsAll
<1>11. PushesToMembers'
  <2>1. \A j \in Connection : OnWire(j)' \subseteq OnWire(j)
    BY <1>2
  <2> QED
    BY <1>1, <2>1 DEF DeliveryOK, PushesToMembers
<1>12. WatermarkNeverSkips'
  BY <1>1, <1>7, GrowthKeepsWatermarks DEF DeliveryOK
<1>13. \A j \in Connection : \A g \in Asked(j)' : g.type = "delivered" =>
          \/ g \in Asked(j)
          \/ /\ j = k /\ f.type = "push" /\ phase[k] = "online"
             /\ g = Receipts("delivered", f.conversation, f.sequence)
  <2>1. ASSUME NEW j \in Connection, j # k \/ f.type # "push" \/ phase[k] # "online"
        PROVE  Asked(j)' = Asked(j)
    <3>1. toServer'[j] = toServer[j]
      BY <1>3, <1>5, <2>1 DEF ClientWrite, InputOK
    <3> QED
      BY <3>1 DEF Asked
  <2>2. ASSUME f.type = "push", phase[k] = "online", NEW g \in Asked(k)', g.type = "delivered"
        PROVE  g \in Asked(k) \/ g = Receipts("delivered", f.conversation, f.sequence)
    <3> DEFINE s == toServer[k]
               t == Confirmations(d, f)
    <3>1. s \in Seq(ClientFrame) /\ toServer'[k] = s \o t
      BY <1>3, <2>2 DEF ClientWrite, InputOK
    <3>2. /\ t \in Seq(ClientFrame)
          /\ ToSet(t) \subseteq {Receipts(type, f.conversation, f.sequence) : type \in {"delivered", "read"}}
      BY <1>4, <2>2, ConfirmationsAreReceipts
    <3>3. Asked(k) = ToSet(s) /\ Asked(k)' = ToSet(toServer'[k])
      BY DEF Asked
    <3> HIDE DEF s, t
    <3>4. g \in ToSet(s) \cup ToSet(t)
      BY <2>2, <3>1, <3>2, <3>3, ElementsOfSequences
    <3>5. \A type : Receipts(type, f.conversation, f.sequence).type = type
      BY DEF Receipts
    <3> QED
      BY <2>2, <3>2, <3>3, <3>4, <3>5
  <2> QED
    BY <2>1, <2>2
<1>14. ASSUME f.type = "push", phase[k] = "online"
       PROVE  /\ f.sequence <= lastMessageSequence[f.conversation]
              /\ \A m \in messages :
                    m.conversation = f.conversation /\ m.sender # p /\ m.sequence <= f.sequence
                    => <<m.conversation, m.sequence>> \in ReceivedBy(p)'
  <2>1. PICK n \in messages : Push(n) = f
    BY <1>4, <1>14
  <2>2. f.conversation = n.conversation /\ f.sequence = n.sequence
    BY <2>1 DEF Push
  <2>3. f.sequence <= lastMessageSequence[f.conversation]
    BY <1>4, <1>14, <2>2 DEF StoreInvariant, SequencesAreDense
  <2>4. ASSUME NEW m \in messages, m.conversation = f.conversation, m.sender # p, m.sequence <= f.sequence
        PROVE  <<m.conversation, m.sequence>> \in ReceivedBy(p)'
    <3>1. membership[m.conversation][p] = "active"
      BY <1>6, <1>14, <2>4
    <3>2. <<m.conversation, m.sequence>> \in ReceivedBy(p) \/ Push(m) \in OnWire(k)
      BY <1>14, <2>4, <3>1 DEF DeliveryOK, OnlineGetsAll, p
    <3>3. CASE Push(m) \in OnWire(k)'
      <4>1. Push(m).type = "push" /\ Push(m).conversation = m.conversation /\ Push(m).sequence = m.sequence
        BY DEF Push
      <4>2. f.sequence < m.sequence
        BY <1>2, <1>14, <2>4, <3>3, <4>1
      <4>3. f.sequence \in Int /\ m.sequence \in Int
        BY <1>4, <1>14 DEF StoreInvariant, TypeOK, Message, Sequence
      <4> QED
        BY <2>4, <4>2, <4>3
    <3> QED
      BY <1>2, <1>7, <1>9, <3>2, <3>3, ReceivedGrows
  <2> QED
    BY <2>3, <2>4
<1>15. ReceiptsCover'
  <2> SUFFICES ASSUME NEW j \in Connection, NEW c \in Conversation, NEW s \in Sequence,
                      Receipts("delivered", c, s) \in Asked(j)'
               PROVE  /\ s <= lastMessageSequence[c]
                      /\ \A m \in messages : m.conversation = c /\ m.sender # PersonAt(j) /\ m.sequence <= s
                            => <<c, m.sequence>> \in ReceivedBy(PersonAt(j))'
    BY <1>1 DEF ReceiptsCover
  <2>1. Receipts("delivered", c, s).type = "delivered"
    BY DEF Receipts
  <2>2. CASE Receipts("delivered", c, s) \in Asked(j)
    BY <1>7, <2>2, ReceivedGrows DEF DeliveryOK, ReceiptsCover
  <2>3. CASE Receipts("delivered", c, s) \notin Asked(j)
    <3>1. /\ j = k /\ f.type = "push" /\ phase[k] = "online"
          /\ Receipts("delivered", c, s) = Receipts("delivered", f.conversation, f.sequence)
      BY <1>13, <2>1, <2>3
    <3>2. c = f.conversation /\ s = f.sequence
      BY <3>1 DEF Receipts
    <3> QED
      BY <1>14, <3>1, <3>2 DEF p
  <2> QED
    BY <2>2, <2>3
<1> QED
  BY <1>10, <1>11, <1>12, <1>15 DEF DeliveryOK

\* Nothing else a client does confirms a message.
LEMMA OtherClientStepsAreCalm ==
    ASSUME GatewayInvariant, ClientTypeOK, LinksOK, NEW d \in Device,
           \/ \E k \in Connection : SignIn(d, k)
           \/ LoseLink(d)
           \/ \E c \in Conversation : OpenConversation(d, c)
           \/ \E id \in ClientMessageId, kind \in Kind : SendMessage(d, id, kind)
    PROVE  UNCHANGED <<storeVars, received>> /\ \A j \in Connection : Calm(j)
<1> USE DEF GatewayInvariant
<1>0. ASSUME UNCHANGED <<toClient, phase, toServer>>
      PROVE  \A j \in Connection : Calm(j)
  BY <1>0 DEF Calm, OnWire, Asked
<1>1. ASSUME NEW k \in Connection, SignIn(d, k)
      PROVE  UNCHANGED <<storeVars, received>> /\ \A j \in Connection : Calm(j)
  <2>1. UNCHANGED <<storeVars, received, toClient>>
    BY <1>1 DEF SignIn, Accept
  <2>2. /\ phase'[k] # "online" /\ toServer'[k] \in {<<>>, <<Login>>}
        /\ \A j \in Connection \ {k} : phase'[j] = phase[j] /\ toServer'[j] = toServer[j]
    BY <1>1 DEF SignIn, Accept, Admitted, ConnectionsOK, InputOK
  <2>3. Calm(k)
    <3>1. Asked(k)' \subseteq {Login} /\ Login.type # "delivered"
      BY <2>2, ElementsOfShort DEF Asked, Login
    <3> QED
      BY <2>1, <2>2, <3>1 DEF Calm, OnWire
  <2>4. \A j \in Connection \ {k} : Calm(j)
    BY <2>1, <2>2 DEF Calm, OnWire, Asked
  <2> QED
    BY <2>1, <2>3, <2>4
<1>2. CASE LoseLink(d) \/ \E c \in Conversation : OpenConversation(d, c)
  <2>1. UNCHANGED <<storeVars, received, toClient, phase, toServer>>
    BY <1>2 DEF LoseLink, OpenConversation, vars, gatewayVars
  <2> QED
    BY <1>0, <2>1
<1>3. ASSUME NEW id \in ClientMessageId, NEW kind \in Kind, SendMessage(d, id, kind)
      PROVE  UNCHANGED <<storeVars, received>> /\ \A j \in Connection : Calm(j)
  <2> DEFINE frame == Send(viewing[d], id, kind)
  <2>1. /\ UNCHANGED <<storeVars, received, toClient, phase>>
        /\ toServer' = toServer \/ (authenticated[d] /\ ClientWrite(link[d], <<frame>>))
    BY <1>3 DEF SendMessage
  <2>2. frame \in ClientFrame /\ frame.type # "delivered"
    BY <1>3 DEF SendMessage, ClientTypeOK, ClientFrame, SendFrame, Send
  <2> HIDE DEF frame
  <2>3. ASSUME NEW j \in Connection
        PROVE  Asked(j)' \subseteq Asked(j) \cup {frame}
    <3>1. toServer'[j] \in {toServer[j], toServer[j] \o <<frame>>}
      BY <2>1 DEF ClientWrite, InputOK
    <3> DEFINE s == toServer[j]
               t == <<frame>>
    <3>2. s \in Seq(ClientFrame) /\ t \in Seq(ClientFrame) /\ ToSet(t) = {frame}
      BY <2>2, ElementsOfShort DEF InputOK
    <3>3. Asked(j) = ToSet(s) /\ Asked(j)' = ToSet(toServer'[j]) /\ toServer'[j] \in {s, s \o t}
      BY <3>1 DEF Asked
    <3> HIDE DEF s, t
    <3>4. ToSet(s \o t) = ToSet(s) \cup ToSet(t)
      BY <3>2, ElementsOfSequences
    <3>5. CASE toServer'[j] = s
      BY <3>3, <3>5
    <3>6. CASE toServer'[j] = s \o t
      BY <3>2, <3>3, <3>4, <3>6
    <3> QED
      BY <3>3, <3>5, <3>6
  <2> QED
    BY <2>1, <2>2, <2>3 DEF Calm, OnWire
<1> QED
  BY <1>1, <1>2, <1>3

\* Every login can replay all that waits for its person.
BacklogFits == \A p \in Person : Cardinality(Pending(p)) <= PendingLimit

\* No step of the whole breaks it.
LEMMA QmlStepKeepsDelivery ==
    ASSUME ~StoreFails, ~GroupsChange
    PROVE  WholeInvariant /\ DeliveryOK /\ BacklogFits /\ [QmlNext]_qmlVars => DeliveryOK'
<1> SUFFICES ASSUME WholeInvariant, DeliveryOK, BacklogFits, [QmlNext]_qmlVars
             PROVE  DeliveryOK'
  OBVIOUS
<1> USE DEF WholeInvariant
<1>1. GatewayInvariant'
  BY QmlStepKeepsGateway
<1>2. CASE ServerNext /\ UNCHANGED clientVars
  BY <1>1, <1>2, ServerStepKeepsDelivery DEF BacklogFits, clientVars
<1>3. ASSUME NEW d \in Device, Receive(d)
      PROVE  DeliveryOK'
  <2>1. link[d] \in Connection
    BY <1>3 DEF Receive, ClientTypeOK
  <2> QED
    BY <1>3, <2>1, ReceivingKeepsDelivery
<1>4. ASSUME UNCHANGED <<storeVars, received>>, \A j \in Connection : Calm(j)
      PROVE  DeliveryOK'
  BY <1>4, CalmKeepsDelivery DEF GatewayInvariant, storeVars
<1>5. ASSUME NEW d \in Device,
             \/ \E k \in Connection : SignIn(d, k)
             \/ LoseLink(d)
             \/ \E c \in Conversation : OpenConversation(d, c)
             \/ \E id \in ClientMessageId, kind \in Kind : SendMessage(d, id, kind)
      PROVE  DeliveryOK'
  BY <1>4, <1>5, OtherClientStepsAreCalm
<1>6. CASE UNCHANGED qmlVars
  <2>1. \A j \in Connection : Calm(j)
    BY <1>6 DEF qmlVars, vars, gatewayVars, Calm, OnWire, Asked
  <2> QED
    BY <1>4, <1>6, <2>1 DEF qmlVars, vars, clientVars
<1> QED
  BY <1>2, <1>3, <1>5, <1>6 DEF QmlNext, ClientNext

\* With a database and an object store that answer, in conversations nobody joins
\* or leaves, and with never more waiting than a login replays (500 messages), the
\* delivered watermark of a person skips nothing: logins that cut each other off,
\* sockets that overflow or break and crashes of the server included.
THEOREM WatermarksNeverSkip ==
    ASSUME ~StoreFails, ~GroupsChange
    PROVE  QmlSpec /\ []BacklogFits => []WatermarkNeverSkips
<1>1. QmlInit => DeliveryOK
  <2> SUFFICES ASSUME QmlInit PROVE DeliveryOK
    OBVIOUS
  <2>1. messages = {} /\ \A k \in Connection : OnWire(k) = {} /\ Asked(k) = {}
    BY ElementsOfShort DEF QmlInit, GatewayInit, Init, OnWire, Asked
  <2> QED
    BY <2>1 DEF DeliveryOK, OnlineGetsAll, ReceiptsCover, PushesToMembers, WatermarkNeverSkips
<1>2. WholeInvariant /\ DeliveryOK /\ BacklogFits /\ [QmlNext]_qmlVars => DeliveryOK'
  BY QmlStepKeepsDelivery
<1>3. DeliveryOK => WatermarkNeverSkips
  BY DEF DeliveryOK
<1> QED
  BY <1>1, <1>2, <1>3, QmlMessagingIsCorrect, PTL DEF QmlSpec

=============================================================================
