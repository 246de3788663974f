------------------------ MODULE MessageStore_proofs ------------------------
(***************************************************************************)
(* Proofs about MessageStore for every set of people, devices,             *)
(* conversations and client message ids and every bound on the sequence.   *)
(* The conjuncts of StoreInvariant lean on each other: a receipt names a   *)
(* sequence that was handed out because of SequencesAreDense, and a fresh  *)
(* outbox row has no receipt because receipts lie below the watermark and  *)
(* the watermark below last_message_sequence.                              *)
(***************************************************************************)
EXTENDS Submissions, TLAPS

\* submitMessage stores the person the device belongs to as the sender.
SenderOwnsDevice == \A m \in messages : m.sender = OwnerOf[m.device]

StoreInvariant ==
    /\ TypeOK
    /\ SenderOwnsDevice
    /\ SequencesAreDense
    /\ OneMessagePerKey
    /\ WatermarksAreOrdered
    /\ ReceiptsBackWatermarks
    /\ WatermarksHaveReceipts
    /\ OutboxAgreesWithReceipts

\* The larger of two watermarks is one of them and bounds both (GREATEST).
LEMMA Max2Bounds ==
    ASSUME NEW a \in Int, NEW b \in Int
    PROVE  /\ Max2(a, b) \in {a, b}
           /\ Max2(a, b) >= a
           /\ Max2(a, b) >= b
BY DEF Max2

\* The tables of a fresh database satisfy the invariant.
LEMMA InitEstablishesInvariant == Init => StoreInvariant
<1> SUFFICES ASSUME Init PROVE StoreInvariant
  OBVIOUS
<1>1. TypeOK
  BY MaxSequenceAssumption DEF Init, TypeOK, Membership
<1>2. SenderOwnsDevice /\ SequencesAreDense /\ OneMessagePerKey /\ OutboxAgreesWithReceipts
  BY DEF Init, SenderOwnsDevice, SequencesAreDense, OneMessagePerKey, OutboxAgreesWithReceipts
<1>3. WatermarksAreOrdered /\ ReceiptsBackWatermarks /\ WatermarksHaveReceipts
  BY DEF Init, WatermarksAreOrdered, ReceiptsBackWatermarks, WatermarksHaveReceipts
<1> QED
  BY <1>1, <1>2, <1>3 DEF StoreInvariant

\* A row with a new key at the next sequence, and outbox rows for these people.
AppendRow(d, c, id, kind, people) ==
    LET s == lastMessageSequence[c] + 1 IN
    /\ Submitted(d, id) = {}
    /\ kind = "file" => Uploaded(OwnerOf[d], id) = {}
    /\ lastMessageSequence[c] < MaxSequence
    /\ lastMessageSequence' = [lastMessageSequence EXCEPT ![c] = s]
    /\ messages' = messages \cup
         {[conversation |-> c, sequence |-> s, sender |-> OwnerOf[d],
           device |-> d, clientId |-> id, kind |-> kind]}
    /\ outbox' = outbox \cup {<<c, s, q>> : q \in people}
    /\ UNCHANGED <<membership, lastDelivered, lastRead, receipts>>

\* The calls of one step append a row for whoever is a recipient then.
LEMMA InsertAppendsRow ==
    ASSUME NEW c, NEW d, NEW id, SubmitMessage(d, c, id) \/ AcceptFileMessage(d, c, id)
    PROVE  \E kind \in Kind : AppendRow(d, c, id, kind, Recipients(c, OwnerOf[d]))
BY DEF SubmitMessage, AcceptFileMessage, CanSubmit, InsertMessage, AppendRow, Kind

\* submitMessage and completeFileUpload: one more message at the next sequence,
\* whoever it is for.
LEMMA AppendKeepsInvariant ==
    ASSUME StoreInvariant, NEW c \in Conversation, NEW d \in Device,
           NEW id \in ClientMessageId, NEW kind \in Kind, NEW people \in SUBSET Person,
           AppendRow(d, c, id, kind, people)
    PROVE  StoreInvariant'
<1> DEFINE s == lastMessageSequence[c] + 1
           new == [conversation |-> c, sequence |-> s, sender |-> OwnerOf[d],
                   device |-> d, clientId |-> id, kind |-> kind]
<1> USE DEF StoreInvariant
<1>1. /\ s \in Sequence
      /\ lastMessageSequence' = [lastMessageSequence EXCEPT ![c] = s]
      /\ messages' = messages \cup {new}
      /\ outbox' = outbox \cup {<<c, s, q>> : q \in people}
      /\ UNCHANGED <<membership, lastDelivered, lastRead, receipts>>
  BY MaxSequenceAssumption DEF AppendRow, TypeOK, Sequence
<1>2. new \in Message
  BY <1>1, OwnerAssumption DEF Message
<1>3. \A e \in Conversation : /\ lastMessageSequence[e] \in 0..MaxSequence
                              /\ lastMessageSequence'[e] = IF e = c THEN s ELSE lastMessageSequence[e]
  BY <1>1 DEF TypeOK
<1>4. TypeOK'
  <2>1. \A q \in people : <<c, s, q>> \in OutboxRow
    BY <1>1 DEF OutboxRow
  <2>2. outbox' \subseteq OutboxRow
    BY <1>1, <2>1 DEF TypeOK
  <2>3. lastMessageSequence' \in [Conversation -> 0..MaxSequence]
    BY <1>1 DEF TypeOK, Sequence
  <2> QED
    BY <1>1, <1>2, <2>2, <2>3 DEF TypeOK
<1>5. SequencesAreDense'
  <2>1. ASSUME NEW e \in Conversation, NEW t \in 1..lastMessageSequence'[e]
        PROVE  \E m \in messages' : m.conversation = e /\ m.sequence = t
    <3>1. CASE e = c /\ t = s
      <4>1. new \in messages' /\ new.conversation = c /\ new.sequence = s
        BY <1>1
      <4> QED
        BY <3>1, <4>1
    <3>2. CASE ~(e = c /\ t = s)
      <4>1. t \in 1..lastMessageSequence[e]
        BY <1>3, <3>2, MaxSequenceAssumption
      <4> QED
        BY <1>1, <4>1 DEF SequencesAreDense
    <3> QED
      BY <3>1, <3>2
  <2>2. ASSUME NEW m \in messages', NEW e \in Conversation, m.conversation = e
        PROVE  m.sequence <= lastMessageSequence'[e]
    <3>1. CASE m = new
      BY <1>1, <1>3, <2>2, <3>1 DEF Sequence
    <3>2. CASE m \in messages
      <4>1. m.sequence \in Int /\ m.sequence <= lastMessageSequence[e]
        BY <2>2, <3>2 DEF SequencesAreDense, TypeOK, Message, Sequence
      <4> QED
        BY <1>3, <4>1
    <3> QED
      BY <1>1, <3>1, <3>2
  <2>3. ASSUME NEW m \in messages', NEW n \in messages', m.conversation \in Conversation,
               m.conversation = n.conversation, m.sequence = n.sequence
        PROVE  m = n
    <3>1. new.conversation = c /\ new.sequence = s
      OBVIOUS
    <3>2. \A x \in messages : x.conversation = c => x.sequence < s
      BY <1>3 DEF SequencesAreDense, TypeOK, Message, Sequence
    <3>3. CASE m \in messages /\ n \in messages
      BY <2>3, <3>3 DEF SequencesAreDense
    <3>4. CASE m = new \/ n = new
      <4> HIDE DEF new, s
      <4>1. m \in messages \cup {new} /\ n \in messages \cup {new}
        BY <1>1
      <4>2. s \in Int
        BY <1>1 DEF Sequence
      <4>3. m.conversation = c /\ n.conversation = c /\ m.sequence = s /\ n.sequence = s
        BY <2>3, <3>1, <3>4
      <4> QED
        BY <3>2, <4>1, <4>2, <4>3
    <3> QED
      BY <1>1, <3>3, <3>4
  <2> QED
    BY <2>1, <2>2, <2>3 DEF SequencesAreDense
<1>6. OneMessagePerKey' /\ SenderOwnsDevice'
  BY <1>1 DEF OneMessagePerKey, AppendRow, Submitted, Uploaded, SenderOwnsDevice
<1>7. WatermarksAreOrdered'
  BY <1>1, <1>3 DEF WatermarksAreOrdered, TypeOK
<1>8. ReceiptsBackWatermarks' /\ WatermarksHaveReceipts'
  <2>1. ReceiptsBackWatermarks'
    BY <1>1 DEF ReceiptsBackWatermarks
  <2>2. WatermarksHaveReceipts'
    BY <1>1 DEF WatermarksHaveReceipts
  <2> QED
    BY <2>1, <2>2
<1>9. OutboxAgreesWithReceipts'
  <2>1. \A r \in receipts : ~(r.conversation = c /\ r.sequence = s)
    <3> SUFFICES ASSUME NEW r \in receipts, r.conversation = c, r.sequence = s
                 PROVE  FALSE
      OBVIOUS
    <3>1. PICK m \in messages : m.conversation = c /\ m.sequence = s
      BY DEF ReceiptsBackWatermarks
    <3>2. m.sequence <= lastMessageSequence[c]
      BY <3>1 DEF SequencesAreDense
    <3> QED
      BY <1>3, <3>1, <3>2
  <2>2. ASSUME NEW row \in outbox'
        PROVE  [conversation |-> row[1], sequence |-> row[2], person |-> row[3],
                type |-> "delivered"] \notin receipts
    <3>1. CASE row \in outbox
      BY <3>1 DEF OutboxAgreesWithReceipts
    <3>2. CASE row \notin outbox
      <4>1. row[1] = c /\ row[2] = s
        BY <1>1, <3>2
      <4> QED
        BY <2>1, <4>1
    <3> QED
      BY <3>1, <3>2
  <2> QED
    BY <1>1, <2>2 DEF OutboxAgreesWithReceipts
<1> QED
  BY <1>4, <1>5, <1>6, <1>7, <1>8, <1>9

\* markDelivered: the receipt it writes names the very sequence the watermark
\* moves to, or one the watermark has passed already.
LEMMA MarkDeliveredKeepsInvariant ==
    ASSUME StoreInvariant, NEW c \in Conversation, NEW p \in Person, NEW s \in Sequence,
           MarkDelivered(p, c, s)
    PROVE  StoreInvariant'
<1> DEFINE w == Max2(lastDelivered[c][p], Min2(s, lastMessageSequence[c]))
           row == [conversation |-> c, sequence |-> s, person |-> p, type |-> "delivered"]
<1> USE DEF StoreInvariant
<1>1. /\ lastDelivered' = [lastDelivered EXCEPT ![c][p] = w]
      /\ receipts' = receipts \cup {row}
      /\ outbox' = outbox \ {<<c, s, p>>}
      /\ UNCHANGED <<messages, lastMessageSequence, membership, lastRead>>
  BY DEF MarkDelivered, TypeOK
<1>2. PICK m \in messages : m.conversation = c /\ m.sequence = s /\ m.sender # p
  BY DEF MarkDelivered, Anchor
<1>3. /\ s \in Int /\ s >= 1 /\ s <= lastMessageSequence[c]
      /\ lastMessageSequence[c] \in 0..MaxSequence
      /\ lastDelivered[c][p] \in 0..MaxSequence
  BY <1>2, MaxSequenceAssumption DEF SequencesAreDense, TypeOK, Sequence
<1>4. /\ w \in {lastDelivered[c][p], s}
      /\ w >= lastDelivered[c][p]
      /\ w >= s
      /\ w <= lastMessageSequence[c]
  BY <1>3 DEF Max2, Min2, WatermarksAreOrdered
<1>5. w \in 0..MaxSequence
  BY <1>3, <1>4, MaxSequenceAssumption
<1> HIDE DEF w
<1>6. \A e \in Conversation, q \in Person :
        /\ lastDelivered[e][q] \in Int /\ lastRead[e][q] \in Int
        /\ lastDelivered'[e][q] = IF e = c /\ q = p THEN w ELSE lastDelivered[e][q]
  BY <1>1, MaxSequenceAssumption DEF TypeOK
<1>7. TypeOK'
  <2>1. lastDelivered' \in [Conversation -> [Person -> 0..MaxSequence]]
    BY <1>1, <1>5 DEF TypeOK
  <2>2. row \in Receipt
    BY DEF Receipt
  <2> QED
    BY <1>1, <2>1, <2>2 DEF TypeOK
<1>8. SequencesAreDense' /\ OneMessagePerKey' /\ SenderOwnsDevice'
  BY <1>1 DEF SequencesAreDense, OneMessagePerKey, SenderOwnsDevice
<1>9. WatermarksAreOrdered'
  BY <1>1, <1>3, <1>4, <1>6 DEF WatermarksAreOrdered
<1>10. ReceiptsBackWatermarks'
  <2> SUFFICES ASSUME NEW r \in receipts'
               PROVE  /\ r.sequence <= IF r.type = "read" THEN lastRead'[r.conversation][r.person]
                                       ELSE lastDelivered'[r.conversation][r.person]
                      /\ \E n \in messages' : /\ n.conversation = r.conversation
                                              /\ n.sequence = r.sequence
                                              /\ n.sender # r.person
    BY DEF ReceiptsBackWatermarks
  <2>1. CASE r = row
    BY <1>1, <1>2, <1>4, <1>6, <2>1
  <2>2. CASE r \in receipts
    <3>1. /\ r.conversation \in Conversation /\ r.person \in Person
          /\ r.sequence \in Int /\ r.type \in {"delivered", "read"}
      BY <2>2 DEF TypeOK, Receipt, Sequence
    <3>2. lastDelivered[r.conversation][r.person] <= lastDelivered'[r.conversation][r.person]
      BY <1>3, <1>4, <1>6, <3>1
    <3>3. lastDelivered'[r.conversation][r.person] \in Int
      BY <1>5, <1>6, <3>1
    <3> QED
      BY <1>1, <1>6, <2>2, <3>1, <3>2, <3>3 DEF ReceiptsBackWatermarks
  <2> QED
    BY <1>1, <2>1, <2>2
<1>11. WatermarksHaveReceipts'
  <2> SUFFICES ASSUME NEW e \in Conversation, NEW q \in Person, lastDelivered'[e][q] > 0
               PROVE  \E r \in receipts' : /\ r.conversation = e /\ r.person = q
                                           /\ r.type = "delivered"
                                           /\ r.sequence = lastDelivered'[e][q]
    BY DEF WatermarksHaveReceipts
  <2>1. CASE e = c /\ q = p /\ w = s
    <3>1. row \in receipts' /\ row.conversation = e /\ row.person = q
      BY <1>1, <2>1
    <3>2. row.type = "delivered" /\ row.sequence = lastDelivered'[e][q]
      BY <1>6, <2>1
    <3> QED
      BY <3>1, <3>2
  <2>2. CASE ~(e = c /\ q = p /\ w = s)
    <3>1. lastDelivered'[e][q] = lastDelivered[e][q]
      BY <1>4, <1>6, <2>2
    <3> QED
      BY <1>1, <3>1 DEF WatermarksHaveReceipts
  <2> QED
    BY <2>1, <2>2
<1>12. OutboxAgreesWithReceipts'
  <2> SUFFICES ASSUME NEW o \in outbox'
               PROVE  [conversation |-> o[1], sequence |-> o[2], person |-> o[3],
                       type |-> "delivered"] \notin receipts'
    BY DEF OutboxAgreesWithReceipts
  <2>1. o \in outbox /\ o # <<c, s, p>>
    BY <1>1
  <2>2. o = <<o[1], o[2], o[3]>>
    BY <2>1 DEF TypeOK, OutboxRow
  <2>3. [conversation |-> o[1], sequence |-> o[2], person |-> o[3], type |-> "delivered"] # row
    BY <2>1, <2>2
  <2> QED
    BY <1>1, <2>1, <2>3 DEF OutboxAgreesWithReceipts
<1> QED
  BY <1>7, <1>8, <1>9, <1>10, <1>11, <1>12

\* markRead: the guard on the delivered watermark keeps read behind delivered.
LEMMA MarkReadKeepsInvariant ==
    ASSUME StoreInvariant, NEW c \in Conversation, NEW p \in Person, NEW s \in Sequence,
           MarkRead(p, c, s)
    PROVE  StoreInvariant'
<1> DEFINE w == Max2(lastRead[c][p], s)
           row == [conversation |-> c, sequence |-> s, person |-> p, type |-> "read"]
<1> USE DEF StoreInvariant
<1>1. /\ lastRead' = [lastRead EXCEPT ![c][p] = w]
      /\ receipts' = receipts \cup {row}
      /\ lastDelivered[c][p] >= s
      /\ UNCHANGED <<messages, lastMessageSequence, membership, lastDelivered, outbox>>
  BY DEF MarkRead, CanRead, TypeOK
<1>2. PICK m \in messages : m.conversation = c /\ m.sequence = s /\ m.sender # p
  BY DEF MarkRead, CanRead, Anchor
<1>3. /\ s \in Int /\ s >= 1
      /\ lastDelivered[c][p] \in 0..MaxSequence
      /\ lastRead[c][p] \in 0..MaxSequence
  BY MaxSequenceAssumption DEF TypeOK, Sequence
<1>4. w >= lastRead[c][p] /\ w >= s /\ w <= lastDelivered[c][p] /\ w \in 0..MaxSequence
  BY <1>1, <1>3, MaxSequenceAssumption DEF Max2, WatermarksAreOrdered
<1> HIDE DEF w
<1>5. \A e \in Conversation, q \in Person :
        /\ lastRead[e][q] \in Int
        /\ lastRead'[e][q] = IF e = c /\ q = p THEN w ELSE lastRead[e][q]
  BY <1>1, MaxSequenceAssumption DEF TypeOK
<1>6. TypeOK'
  <2>1. lastRead' \in [Conversation -> [Person -> 0..MaxSequence]]
    BY <1>1, <1>4 DEF TypeOK
  <2>2. row \in Receipt
    BY DEF Receipt
  <2> QED
    BY <1>1, <2>1, <2>2 DEF TypeOK
<1>7. SequencesAreDense' /\ OneMessagePerKey' /\ SenderOwnsDevice'
  BY <1>1 DEF SequencesAreDense, OneMessagePerKey, SenderOwnsDevice
<1>8. WatermarksAreOrdered'
  BY <1>1, <1>4, <1>5 DEF WatermarksAreOrdered
<1>9. ReceiptsBackWatermarks'
  <2> SUFFICES ASSUME NEW r \in receipts'
               PROVE  /\ r.sequence <= IF r.type = "read" THEN lastRead'[r.conversation][r.person]
                                       ELSE lastDelivered'[r.conversation][r.person]
                      /\ \E n \in messages' : /\ n.conversation = r.conversation
                                              /\ n.sequence = r.sequence
                                              /\ n.sender # r.person
    BY DEF ReceiptsBackWatermarks
  <2>1. CASE r = row
    BY <1>1, <1>2, <1>4, <1>5, <2>1
  <2>2. CASE r \in receipts
    <3>1. /\ r.conversation \in Conversation /\ r.person \in Person
          /\ r.sequence \in Int /\ r.type \in {"delivered", "read"}
      BY <2>2 DEF TypeOK, Receipt, Sequence
    <3>2. /\ lastRead[r.conversation][r.person] <= lastRead'[r.conversation][r.person]
          /\ lastRead'[r.conversation][r.person] \in Int
      BY <1>3, <1>4, <1>5, <3>1
    <3> QED
      BY <1>1, <1>5, <2>2, <3>1, <3>2 DEF ReceiptsBackWatermarks
  <2> QED
    BY <1>1, <2>1, <2>2
<1>10. WatermarksHaveReceipts'
  BY <1>1 DEF WatermarksHaveReceipts
<1>11. OutboxAgreesWithReceipts'
  <2> SUFFICES ASSUME NEW o \in outbox'
               PROVE  [conversation |-> o[1], sequence |-> o[2], person |-> o[3],
                       type |-> "delivered"] \notin receipts'
    BY DEF OutboxAgreesWithReceipts
  <2>1. [conversation |-> o[1], sequence |-> o[2], person |-> o[3], type |-> "delivered"] # row
    OBVIOUS
  <2> QED
    BY <1>1, <2>1 DEF OutboxAgreesWithReceipts
<1> QED
  BY <1>6, <1>7, <1>8, <1>9, <1>10, <1>11

\* joinGroup and updateGroupMembers touch the member row's left_at_utc only.
LEMMA MembershipKeepsInvariant ==
    ASSUME StoreInvariant, NEW c \in Conversation, NEW p \in Person,
           JoinConversation(c, p) \/ LeaveConversation(c, p)
    PROVE  StoreInvariant'
<1>1. /\ UNCHANGED <<messages, lastMessageSequence, lastDelivered, lastRead, outbox, receipts>>
      /\ \E v \in Membership : membership' = [membership EXCEPT ![c][p] = v]
  BY DEF JoinConversation, LeaveConversation, Membership
<1>2. TypeOK'
  BY <1>1 DEF StoreInvariant, TypeOK
<1>3. (SenderOwnsDevice /\ SequencesAreDense /\ OneMessagePerKey /\ OutboxAgreesWithReceipts)'
  BY <1>1 DEF StoreInvariant, SenderOwnsDevice, SequencesAreDense, OneMessagePerKey,
              OutboxAgreesWithReceipts
<1>4. (WatermarksAreOrdered /\ ReceiptsBackWatermarks /\ WatermarksHaveReceipts)'
  BY <1>1 DEF StoreInvariant, WatermarksAreOrdered, ReceiptsBackWatermarks, WatermarksHaveReceipts
<1> QED
  BY <1>2, <1>3, <1>4 DEF StoreInvariant

\* Every store call, and a step that is no store call, keeps the invariant.
LEMMA StepKeepsInvariant == StoreInvariant /\ [StoreNext]_storeVars => StoreInvariant'
<1> SUFFICES ASSUME StoreInvariant, [StoreNext]_storeVars PROVE StoreInvariant'
  OBVIOUS
<1>1. CASE UNCHANGED storeVars
  <2>1. (TypeOK /\ SenderOwnsDevice /\ SequencesAreDense)'
    BY <1>1 DEF storeVars, StoreInvariant, TypeOK, SenderOwnsDevice, SequencesAreDense
  <2>2. (OneMessagePerKey /\ OutboxAgreesWithReceipts)'
    BY <1>1 DEF storeVars, StoreInvariant, OneMessagePerKey, OutboxAgreesWithReceipts
  <2>3. (WatermarksAreOrdered /\ ReceiptsBackWatermarks /\ WatermarksHaveReceipts)'
    BY <1>1 DEF storeVars, StoreInvariant, WatermarksAreOrdered, ReceiptsBackWatermarks,
                WatermarksHaveReceipts
  <2> QED
    BY <2>1, <2>2, <2>3 DEF StoreInvariant
<1>2. ASSUME NEW c \in Conversation, NEW d \in Device, NEW id \in ClientMessageId,
             SubmitMessage(d, c, id) \/ AcceptFileMessage(d, c, id)
      PROVE  StoreInvariant'
  <2>1. PICK kind \in Kind : AppendRow(d, c, id, kind, Recipients(c, OwnerOf[d]))
    BY <1>2, InsertAppendsRow
  <2>2. Recipients(c, OwnerOf[d]) \in SUBSET Person
    BY DEF Recipients, Active
  <2> QED
    BY <2>1, <2>2, AppendKeepsInvariant
<1>3. ASSUME NEW c \in Conversation, NEW p \in Person, NEW s \in Sequence, MarkDelivered(p, c, s)
      PROVE  StoreInvariant'
  BY <1>3, MarkDeliveredKeepsInvariant
<1>4. ASSUME NEW c \in Conversation, NEW p \in Person, NEW s \in Sequence, MarkRead(p, c, s)
      PROVE  StoreInvariant'
  BY <1>4, MarkReadKeepsInvariant
<1>5. ASSUME NEW c \in Conversation, NEW p \in Person,
             JoinConversation(c, p) \/ LeaveConversation(c, p)
      PROVE  StoreInvariant'
  BY <1>5, MembershipKeepsInvariant
<1> QED
  BY <1>1, <1>2, <1>3, <1>4, <1>5 DEF StoreNext

\* The inductive invariant holds in every behaviour of the store.
THEOREM StoreIsCorrect == StoreSpec => []StoreInvariant
BY InitEstablishesInvariant, StepKeepsInvariant, PTL DEF StoreSpec

\* The type invariant, for every instance.
THEOREM TypeIsCorrect == StoreSpec => []TypeOK
BY StoreIsCorrect, PTL DEF StoreInvariant

\* Sequences are handed out without gap or repetition.
THEOREM NumberingIsDense == StoreSpec => []SequencesAreDense
BY StoreIsCorrect, PTL DEF StoreInvariant

\* A client message id of a device never owns two rows, whatever the interleaving
\* of store calls.
THEOREM SendingIsIdempotent == StoreSpec => []OneMessagePerKey
BY StoreIsCorrect, PTL DEF StoreInvariant

\* Watermarks stay ordered, and agree with the receipts and the outbox.
THEOREM WatermarksAreSound ==
    StoreSpec => []ReceiptsFollowWatermarks
BY StoreIsCorrect, PTL DEF StoreInvariant, ReceiptsFollowWatermarks

\* No call takes back a message or a receipt or lowers a counter or a watermark.
LEMMA StepGrowsHistory ==
    ASSUME StoreInvariant, [StoreNext]_storeVars
    PROVE  [/\ messages \subseteq messages'
            /\ receipts \subseteq receipts'
            /\ \A c \in Conversation :
                 /\ lastMessageSequence[c] <= lastMessageSequence'[c]
                 /\ \A p \in Person : /\ lastDelivered[c][p] <= lastDelivered'[c][p]
                                      /\ lastRead[c][p] <= lastRead'[c][p]]_storeVars
<1> DEFINE Grows == /\ messages \subseteq messages'
                    /\ receipts \subseteq receipts'
                    /\ \A c \in Conversation :
                         /\ lastMessageSequence[c] <= lastMessageSequence'[c]
                         /\ \A p \in Person : /\ lastDelivered[c][p] <= lastDelivered'[c][p]
                                              /\ lastRead[c][p] <= lastRead'[c][p]
<1> SUFFICES ASSUME StoreNext PROVE Grows
  OBVIOUS
<1>1. \A c \in Conversation :
        /\ lastMessageSequence[c] \in Int
        /\ \A p \in Person : lastDelivered[c][p] \in Int /\ lastRead[c][p] \in Int
  BY MaxSequenceAssumption DEF StoreInvariant, TypeOK
<1>2. ASSUME NEW c \in Conversation, NEW d \in Device, NEW id \in ClientMessageId,
             SubmitMessage(d, c, id) \/ AcceptFileMessage(d, c, id)
      PROVE  Grows
  <2>1. lastMessageSequence' = [lastMessageSequence EXCEPT ![c] = @ + 1]
    BY <1>2 DEF SubmitMessage, AcceptFileMessage, InsertMessage
  <2>2. messages \subseteq messages' /\ UNCHANGED <<lastDelivered, lastRead, receipts>>
    BY <1>2 DEF SubmitMessage, AcceptFileMessage, InsertMessage
  <2> QED
    BY <1>1, <2>1, <2>2 DEF StoreInvariant, TypeOK
<1>3. ASSUME NEW c \in Conversation, NEW p \in Person, NEW s \in Sequence, MarkDelivered(p, c, s)
      PROVE  Grows
  <2> DEFINE w == Max2(lastDelivered[c][p], Min2(s, lastMessageSequence[c]))
  <2>1. /\ lastDelivered' = [lastDelivered EXCEPT ![c][p] = w]
        /\ receipts \subseteq receipts'
        /\ UNCHANGED <<messages, lastMessageSequence, lastRead>>
    BY <1>3 DEF MarkDelivered, StoreInvariant, TypeOK
  <2>2. w >= lastDelivered[c][p] /\ w \in Int
    BY <1>1 DEF Max2, Min2, Sequence
  <2> QED
    BY <1>1, <2>1, <2>2 DEF StoreInvariant, TypeOK
<1>4. ASSUME NEW c \in Conversation, NEW p \in Person, NEW s \in Sequence, MarkRead(p, c, s)
      PROVE  Grows
  <2>1. /\ lastRead' = [lastRead EXCEPT ![c][p] = Max2(lastRead[c][p], s)]
        /\ receipts \subseteq receipts'
        /\ UNCHANGED <<messages, lastMessageSequence, lastDelivered>>
    BY <1>4 DEF MarkRead, CanRead, StoreInvariant, TypeOK
  <2>2. Max2(lastRead[c][p], s) >= lastRead[c][p]
    BY <1>1 DEF Max2, Sequence
  <2> QED
    BY <1>1, <2>1, <2>2 DEF StoreInvariant, TypeOK
<1>5. ASSUME NEW c \in Conversation, NEW p \in Person,
             JoinConversation(c, p) \/ LeaveConversation(c, p)
      PROVE  Grows
  BY <1>1, <1>5 DEF JoinConversation, LeaveConversation
<1> QED
  BY <1>2, <1>3, <1>4, <1>5 DEF StoreNext

THEOREM HistoryIsNeverRewritten == StoreSpec => HistoryOnlyGrows
BY StoreIsCorrect, StepGrowsHistory, PTL DEF StoreSpec, HistoryOnlyGrows

-----------------------------------------------------------------------------
(* The tables implement the log: the initial tables are empty logs, an     *)
(* accepted message appends its key to one log, a receipt moves one cursor *)
(* or none, and joining or leaving a conversation is invisible.            *)

\* In a dense conversation the row at a sequence is the row that carries it.
LEMMA RowAtSequence ==
    ASSUME StoreInvariant, NEW m \in messages
    PROVE  /\ m.conversation \in Conversation
           /\ m.sequence \in 1..lastMessageSequence[m.conversation]
           /\ RowAt(m.conversation, m.sequence) = m
<1>1. m.conversation \in Conversation /\ m.sequence \in Sequence
  BY DEF StoreInvariant, TypeOK, Message
<1>2. m.sequence \in 1..lastMessageSequence[m.conversation]
  BY <1>1, MaxSequenceAssumption DEF StoreInvariant, TypeOK, SequencesAreDense, Sequence
<1>3. \A n \in messages :
        n.conversation = m.conversation /\ n.sequence = m.sequence => n = m
  BY <1>1 DEF StoreInvariant, SequencesAreDense
<1> QED
  BY <1>1, <1>2, <1>3 DEF RowAt

\* Every entry of a log is the key of a row.
LEMMA LogEntry ==
    ASSUME StoreInvariant, NEW c \in Conversation, NEW s \in 1..lastMessageSequence[c]
    PROVE  /\ RowAt(c, s) \in messages
           /\ RowAt(c, s).conversation = c /\ RowAt(c, s).sequence = s
           /\ LogOf[c][s] = <<RowAt(c, s).device, RowAt(c, s).clientId>>
<1>1. \E m \in messages : m.conversation = c /\ m.sequence = s
  BY DEF StoreInvariant, SequencesAreDense
<1> QED
  BY <1>1 DEF RowAt, LogOf

\* A log is as long as its conversation's counter.
LEMMA LogLength ==
    ASSUME StoreInvariant, NEW c \in Conversation
    PROVE  Len(LogOf[c]) = lastMessageSequence[c]
BY DEF LogOf, StoreInvariant, TypeOK

\* Accepting a message appends its key to the log of its conversation.
LEMMA AppendIsAccept ==
    ASSUME StoreInvariant, StoreInvariant', NEW c \in Conversation, NEW d \in Device,
           NEW id \in ClientMessageId, NEW kind \in Kind, NEW people,
           AppendRow(d, c, id, kind, people)
    PROVE  Log!Accept(c, <<d, id>>)
<1> DEFINE top == lastMessageSequence[c] + 1
           new == [conversation |-> c, sequence |-> top, sender |-> OwnerOf[d],
                   device |-> d, clientId |-> id, kind |-> kind]
           KeyOf(m) == <<m.device, m.clientId>>
<1>1. /\ messages' = messages \cup {new}
      /\ lastMessageSequence' = [lastMessageSequence EXCEPT ![c] = top]
      /\ lastMessageSequence \in [Conversation -> 0..MaxSequence]
      /\ UNCHANGED <<lastDelivered, lastRead>>
  BY DEF AppendRow, StoreInvariant, TypeOK
<1>2. ~Log!Logged(<<d, id>>)
  <2> SUFFICES ASSUME NEW e \in Conversation, NEW s \in 1..Len(LogOf[e]),
                      LogOf[e][s] = <<d, id>>
               PROVE  FALSE
    BY DEF Log!Logged
  <2>1. s \in 1..lastMessageSequence[e]
    BY LogLength
  <2>2. RowAt(e, s) \in messages /\ RowAt(e, s).device = d /\ RowAt(e, s).clientId = id
    BY <2>1, LogEntry
  <2> QED
    BY <2>2 DEF AppendRow, Submitted
<1>3. \A e \in Conversation : \A s \in 1..lastMessageSequence'[e] :
        RowAt(e, s)' = IF e = c /\ s = top THEN new ELSE RowAt(e, s)
  <2> SUFFICES ASSUME NEW e \in Conversation, NEW s \in 1..lastMessageSequence'[e]
               PROVE  RowAt(e, s)' = IF e = c /\ s = top THEN new ELSE RowAt(e, s)
    OBVIOUS
  <2>1. \A m, n \in messages' :
          m.conversation = e /\ n.conversation = e /\ m.sequence = s /\ n.sequence = s => m = n
    BY DEF StoreInvariant, SequencesAreDense
  <2>2. CASE e = c /\ s = top
    <3>1. new \in messages' /\ new.conversation = e /\ new.sequence = s
      BY <1>1, <2>2
    <3> QED
      BY <2>1, <2>2, <3>1 DEF RowAt
  <2>3. CASE ~(e = c /\ s = top)
    <3>1. s \in 1..lastMessageSequence[e]
      BY <1>1, <2>3, MaxSequenceAssumption
    <3>2. RowAt(e, s) \in messages' /\ RowAt(e, s).conversation = e /\ RowAt(e, s).sequence = s
      BY <1>1, <3>1, LogEntry
    <3>3. RowAt(e, s)' = RowAt(e, s)
      BY <2>1, <3>2 DEF RowAt
    <3> QED
      BY <2>3, <3>3
  <2> QED
    BY <2>2, <2>3
<1>4. LogOf' = [LogOf EXCEPT ![c] = Append(LogOf[c], <<d, id>>)]
  <2> SUFFICES ASSUME NEW e \in Conversation
               PROVE  LogOf'[e] = IF e = c THEN Append(LogOf[c], <<d, id>>) ELSE LogOf[e]
    BY DEF LogOf
  <2>1. LogOf'[e] = [s \in 1..lastMessageSequence'[e] |-> KeyOf(RowAt(e, s)')]
    BY DEF LogOf
  <2>2. CASE e = c
    <3>1. LogOf'[e] = [s \in 1..top |-> IF s = top THEN <<d, id>> ELSE KeyOf(RowAt(c, s))]
      BY <1>1, <1>3, <2>1, <2>2
    <3>2. LogOf[c] = [s \in 1..lastMessageSequence[c] |-> KeyOf(RowAt(c, s))]
      BY DEF LogOf
    <3>3. Append(LogOf[c], <<d, id>>)
            = [s \in 1..top |-> IF s = top THEN <<d, id>> ELSE KeyOf(RowAt(c, s))]
      <4> DEFINE L == lastMessageSequence[c]
                 f == [s \in 1..L |-> KeyOf(RowAt(c, s))]
      <4>1. L \in Nat /\ top = L + 1
        BY <1>1, MaxSequenceAssumption
      <4> HIDE DEF L, top, KeyOf
      <4>2. Len(f) = L
        BY <4>1
      <4>3. Append(f, <<d, id>>) = [s \in 1..(L + 1) |-> IF s = L + 1 THEN <<d, id>> ELSE f[s]]
        BY <4>1, <4>2
      <4> QED
        BY <3>2, <4>1, <4>3 DEF L
    <3> QED
      BY <2>2, <3>1, <3>3
  <2>3. CASE e # c
    BY <1>1, <1>3, <2>1, <2>3 DEF LogOf
  <2> QED
    BY <2>2, <2>3
<1> QED
  BY <1>1, <1>2, <1>4 DEF Log!Accept


\* A step that leaves the rows and the counters alone leaves the logs alone.
LEMMA LogUnchanged ==
    ASSUME UNCHANGED <<messages, lastMessageSequence>>
    PROVE  UNCHANGED LogOf
BY DEF LogOf, RowAt

\* The entry an anchor names was written by somebody else.
LEMMA AnchorIsByOther ==
    ASSUME StoreInvariant, NEW c \in Conversation, NEW p \in Person, NEW s \in Sequence,
           Anchor(p, c, s) # {}
    PROVE  s \in 1..lastMessageSequence[c] /\ Log!ByOther(c, s, p)
<1>1. PICK m \in messages : m.conversation = c /\ m.sequence = s /\ m.sender # p
  BY DEF Anchor
<1>2. s \in 1..lastMessageSequence[c] /\ RowAt(c, s) = m
  BY <1>1, RowAtSequence
<1>3. LogOf[c][s] = <<m.device, m.clientId>>
  BY <1>2, LogEntry
<1>4. OwnerOf[m.device] = m.sender
  BY DEF StoreInvariant, SenderOwnsDevice
<1> QED
  BY <1>1, <1>2, <1>3, <1>4 DEF Log!ByOther

\* A delivery receipt moves the delivered cursor to its anchor, or nothing.
LEMMA MarkDeliveredAdvances ==
    ASSUME StoreInvariant, NEW c \in Conversation, NEW p \in Person, NEW s \in Sequence,
           MarkDelivered(p, c, s)
    PROVE  Log!Deliver(c, p) \/ UNCHANGED Log!logVars
<1>1. s \in 1..lastMessageSequence[c] /\ Log!ByOther(c, s, p)
  BY AnchorIsByOther DEF MarkDelivered
<1>2. UNCHANGED LogOf /\ UNCHANGED lastRead
  BY LogUnchanged DEF MarkDelivered
<1>3. /\ lastDelivered[c][p] \in Int /\ lastMessageSequence[c] \in Int
      /\ lastDelivered \in [Conversation -> [Person -> 0..MaxSequence]]
      /\ lastDelivered' = [lastDelivered EXCEPT ![c][p] =
                             Max2(lastDelivered[c][p], Min2(s, lastMessageSequence[c]))]
  BY MaxSequenceAssumption DEF MarkDelivered, StoreInvariant, TypeOK
<1>4. CASE s > lastDelivered[c][p]
  <2>1. lastDelivered' = [lastDelivered EXCEPT ![c][p] = s]
    <3>1. Max2(lastDelivered[c][p], Min2(s, lastMessageSequence[c])) = s
      BY <1>1, <1>3, <1>4 DEF Max2, Min2
    <3> QED
      BY <1>3, <3>1
  <2>2. s \in (lastDelivered[c][p] + 1)..Len(LogOf[c])
    BY <1>1, <1>3, <1>4, LogLength
  <2> QED
    BY <1>1, <1>2, <2>1, <2>2 DEF Log!Deliver
<1>5. CASE ~(s > lastDelivered[c][p])
  <2>1. Max2(lastDelivered[c][p], Min2(s, lastMessageSequence[c])) = lastDelivered[c][p]
    BY <1>1, <1>3, <1>5 DEF Max2, Min2
  <2>2. UNCHANGED lastDelivered
    BY <1>3, <2>1
  <2> QED
    BY <1>2, <2>2 DEF Log!logVars
<1> QED
  BY <1>4, <1>5

\* A read receipt moves the read cursor to its anchor, or nothing.
LEMMA MarkReadAdvances ==
    ASSUME StoreInvariant, NEW c \in Conversation, NEW p \in Person, NEW s \in Sequence,
           MarkRead(p, c, s)
    PROVE  Log!Read(c, p) \/ UNCHANGED Log!logVars
<1>1. s \in 1..lastMessageSequence[c] /\ Log!ByOther(c, s, p) /\ s <= lastDelivered[c][p]
  BY AnchorIsByOther DEF MarkRead, CanRead
<1>2. UNCHANGED LogOf /\ UNCHANGED lastDelivered
  BY LogUnchanged DEF MarkRead
<1>3. /\ lastRead[c][p] \in Int /\ lastDelivered[c][p] \in Int
      /\ lastRead \in [Conversation -> [Person -> 0..MaxSequence]]
      /\ lastRead' = [lastRead EXCEPT ![c][p] = Max2(lastRead[c][p], s)]
  BY MaxSequenceAssumption DEF MarkRead, StoreInvariant, TypeOK
<1>4. CASE s > lastRead[c][p]
  <2>1. lastRead' = [lastRead EXCEPT ![c][p] = s]
    <3>1. Max2(lastRead[c][p], s) = s
      BY <1>1, <1>3, <1>4 DEF Max2
    <3> QED
      BY <1>3, <3>1
  <2>2. s \in (lastRead[c][p] + 1)..lastDelivered[c][p]
    BY <1>1, <1>3, <1>4
  <2> QED
    BY <1>1, <1>2, <2>1, <2>2 DEF Log!Read
<1>5. CASE ~(s > lastRead[c][p])
  <2>1. Max2(lastRead[c][p], s) = lastRead[c][p]
    BY <1>1, <1>3, <1>5 DEF Max2
  <2>2. UNCHANGED lastRead
    BY <1>3, <2>1
  <2> QED
    BY <1>2, <2>2 DEF Log!logVars
<1> QED
  BY <1>4, <1>5

\* Fresh tables are empty logs.
LEMMA InitMapsToInit == Init => Log!Init
<1> SUFFICES ASSUME Init PROVE Log!Init
  OBVIOUS
<1>1. \A c \in Conversation : LogOf[c] = <<>>
  BY DEF LogOf, Init
<1>2. LogOf = [c \in Conversation |-> <<>>]
  BY <1>1 DEF LogOf
<1> QED
  BY <1>2 DEF Init, Log!Init

\* Every step of the store is a step of the log or invisible.
LEMMA StepMapsToStep ==
    ASSUME StoreInvariant, StoreInvariant', [StoreNext]_storeVars
    PROVE  [Log!Next]_Log!logVars
<1>1. CASE UNCHANGED storeVars
  BY <1>1, LogUnchanged DEF storeVars, Log!logVars
<1>2. ASSUME NEW c \in Conversation, NEW d \in Device, NEW id \in ClientMessageId,
             SubmitMessage(d, c, id) \/ AcceptFileMessage(d, c, id)
      PROVE  Log!Next
  <2>1. Log!Accept(c, <<d, id>>)
    BY <1>2, InsertAppendsRow, AppendIsAccept
  <2>2. <<d, id>> \in Log!Key
    BY DEF Log!Key
  <2> QED
    BY <2>1, <2>2 DEF Log!Next
<1>3. ASSUME NEW c \in Conversation, NEW p \in Person, NEW s \in Sequence,
             MarkDelivered(p, c, s) \/ MarkRead(p, c, s)
      PROVE  [Log!Next]_Log!logVars
  BY <1>3, MarkDeliveredAdvances, MarkReadAdvances DEF Log!Next
<1>4. ASSUME NEW c \in Conversation, NEW p \in Person,
             JoinConversation(c, p) \/ LeaveConversation(c, p)
      PROVE  UNCHANGED Log!logVars
  BY <1>4, LogUnchanged DEF JoinConversation, LeaveConversation, Log!logVars
<1> QED
  BY <1>1, <1>2, <1>3, <1>4 DEF StoreNext

\* The store implements the append-only log with monotone cursors.
THEOREM StoreImplementsLog == StoreSpec => ImplementsConversationLog
BY InitMapsToInit, StoreIsCorrect, StepMapsToStep, PTL
   DEF StoreSpec, ImplementsConversationLog, Log!Spec

-----------------------------------------------------------------------------
(* The statements of several gateways.  What a submission looked up before *)
(* it had the row lock may be old; these are what it may rely on.          *)

\* One transaction at a time has the row of a conversation.
LocksExclude ==
    \A s, t \in submissions, c \in Conversation : Holds(s, c) /\ Holds(t, c) => s = t

\* Its holder's number is the next one, until it commits.
NumbersAreNext ==
    \A s \in submissions :
        Holds(s, s.conversation) => s.sequence = lastMessageSequence[s.conversation] + 1

\* The key of an inserted row is nobody else's, committed or not: the UNIQUE constraint.
KeysAreHeld ==
    \A s \in submissions : s.step = "inserted" =>
        /\ Submitted(s.device, s.clientId) = {}
        /\ \A t \in submissions :
              t.step = "inserted" /\ t.device = s.device /\ t.clientId = s.clientId => t = s

\* The upload of a person's key has its transfer task to itself, and no message yet.
UploadsExclude ==
    \A s \in submissions : s.kind = "file" =>
        /\ Uploaded(Sender(s), s.clientId) = {}
        /\ \A t \in submissions :
              t.kind = "file" /\ t.clientId = s.clientId /\ Sender(t) = Sender(s) => t = s

SubmissionInvariant ==
    /\ StoreInvariant
    /\ submissions \subseteq Submission
    /\ LocksExclude
    /\ NumbersAreNext
    /\ KeysAreHeld
    /\ UploadsExclude

\* What a submission is for does not change; only how far it is.
SamePurpose(s, t) ==
    /\ t.device = s.device /\ t.conversation = s.conversation
    /\ t.clientId = s.clientId /\ t.kind = s.kind

\* Submissions that end without a commit, and calls that write no message, take
\* nothing away from the others.
LEMMA FewerKeepInvariant ==
    ASSUME SubmissionInvariant, StoreInvariant', submissions' \subseteq submissions,
           UNCHANGED <<messages, lastMessageSequence>>
    PROVE  SubmissionInvariant'
<1>1. LocksExclude' /\ NumbersAreNext'
  BY DEF SubmissionInvariant, LocksExclude, NumbersAreNext, Holds
<1>2. KeysAreHeld' /\ UploadsExclude'
  BY DEF SubmissionInvariant, KeysAreHeld, UploadsExclude, Submitted, Uploaded, Sender
<1> QED
  BY <1>1, <1>2 DEF SubmissionInvariant

\* No store call but a submission writes a message or a counter.
LEMMA UnchangedTablesAreSound ==
    ASSUME StoreInvariant, UNCHANGED storeVars
    PROVE  StoreInvariant'
BY StepKeepsInvariant

\* A new submission holds nothing yet, except its transfer task.
LEMMA BeginKeepsInvariant ==
    ASSUME SubmissionInvariant, NEW g \in GatewayProcess, NEW d \in Device,
           NEW c \in Conversation, NEW id \in ClientMessageId, NEW kind \in Kind,
           BeginSubmission(g, d, c, id, kind)
    PROVE  SubmissionInvariant'
<1> DEFINE new == [gateway |-> g, device |-> d, conversation |-> c, clientId |-> id,
                   kind |-> kind, step |-> "looked", sequence |-> 0, rows |-> {}]
<1>1. submissions' = submissions \cup {new} /\ UNCHANGED storeVars
  BY DEF BeginSubmission
<1>2. /\ new \in Submission /\ new.step = "looked"
      /\ new.kind = kind /\ new.clientId = id /\ Sender(new) = OwnerOf[d]
  BY MaxSequenceAssumption DEF Submission, Sender
<1>3. kind = "file" =>
        /\ Uploaded(OwnerOf[d], id) = {}
        /\ \A s \in submissions : ~(s.kind = "file" /\ s.clientId = id /\ Sender(s) = OwnerOf[d])
  BY DEF BeginSubmission
<1> HIDE DEF new
<1>4. StoreInvariant' /\ submissions' \subseteq Submission
  BY <1>1, <1>2, UnchangedTablesAreSound DEF SubmissionInvariant
<1>5. LocksExclude' /\ NumbersAreNext'
  BY <1>1, <1>2 DEF SubmissionInvariant, LocksExclude, NumbersAreNext, Holds, storeVars
<1>6. KeysAreHeld'
  BY <1>1, <1>2 DEF SubmissionInvariant, KeysAreHeld, Submitted, storeVars
<1>7. UploadsExclude'
  <2>1. \A p, i : Uploaded(p, i)' = Uploaded(p, i)
    BY <1>1 DEF Uploaded, storeVars
  <2> QED
    BY <1>1, <1>2, <1>3, <2>1 DEF SubmissionInvariant, UploadsExclude, Sender
<1> QED
  BY <1>4, <1>5, <1>6, <1>7 DEF SubmissionInvariant

\* The statements between the first and the commit: the lock is taken when it is
\* free, and the row is inserted when the constraints let it pass.
LEMMA AdvanceKeepsInvariant ==
    ASSUME SubmissionInvariant, NEW s \in submissions, NEW next \in Submission,
           Advance(s, next), SamePurpose(s, next), UNCHANGED storeVars,
           Holds(next, s.conversation) =>
             /\ \A t \in submissions \ {s} : ~Holds(t, s.conversation)
             /\ next.sequence = lastMessageSequence[s.conversation] + 1,
           next.step = "inserted" => RowIsFree(s)
    PROVE  SubmissionInvariant'
<1>1. submissions' = (submissions \ {s}) \cup {next}
  BY DEF Advance
<1>2. StoreInvariant' /\ submissions' \subseteq Submission
  BY <1>1, UnchangedTablesAreSound DEF SubmissionInvariant
<1>3. LocksExclude'
  <2> SUFFICES ASSUME NEW t \in submissions', NEW u \in submissions', NEW c \in Conversation,
                      Holds(t, c), Holds(u, c)
               PROVE  t = u
    BY DEF LocksExclude
  <2>1. CASE t # next /\ u # next
    BY <1>1, <2>1 DEF SubmissionInvariant, LocksExclude
  <2>2. CASE t = next \/ u = next
    BY <1>1, <2>2 DEF SamePurpose, Holds
  <2> QED
    BY <2>1, <2>2
<1>4. NumbersAreNext'
  BY <1>1 DEF SubmissionInvariant, NumbersAreNext, Holds, SamePurpose, storeVars
<1>5. KeysAreHeld'
  <2>1. \A d, i : Submitted(d, i)' = Submitted(d, i)
    BY DEF Submitted, storeVars
  <2> SUFFICES ASSUME NEW t \in submissions', t.step = "inserted"
               PROVE  /\ Submitted(t.device, t.clientId) = {}
                      /\ \A u \in submissions' :
                            u.step = "inserted" /\ u.device = t.device /\ u.clientId = t.clientId
                              => u = t
    BY <2>1 DEF KeysAreHeld
  <2>2. CASE t = next
    BY <1>1, <2>2 DEF RowIsFree, SamePurpose
  <2>3. CASE t \in submissions \ {s}
    BY <1>1, <2>3 DEF SubmissionInvariant, KeysAreHeld, RowIsFree, SamePurpose
  <2> QED
    BY <1>1, <2>2, <2>3
<1>6. UploadsExclude'
  <2>1. \A p, i : Uploaded(p, i)' = Uploaded(p, i)
    BY DEF Uploaded, storeVars
  <2>2. Sender(next) = Sender(s)
    BY DEF Sender, SamePurpose
  <2> SUFFICES ASSUME NEW t \in submissions', t.kind = "file"
               PROVE  /\ Uploaded(Sender(t), t.clientId) = {}
                      /\ \A u \in submissions' :
                            u.kind = "file" /\ u.clientId = t.clientId /\ Sender(u) = Sender(t)
                              => u = t
    BY <2>1 DEF UploadsExclude, Sender
  <2>3. CASE t = next
    BY <1>1, <2>2, <2>3 DEF SubmissionInvariant, UploadsExclude, SamePurpose
  <2>4. CASE t \in submissions \ {s}
    BY <1>1, <2>2, <2>4 DEF SubmissionInvariant, UploadsExclude, SamePurpose
  <2> QED
    BY <1>1, <2>3, <2>4
<1> QED
  BY <1>2, <1>3, <1>4, <1>5, <1>6 DEF SubmissionInvariant

\* The three statements are such steps.
LEMMA StatementKeepsInvariant ==
    ASSUME SubmissionInvariant, NEW s \in submissions,
           FindConversation(s) \/ LockConversation(s) \/ InsertRows(s)
    PROVE  SubmissionInvariant'
<1>1. s \in Submission /\ s.conversation \in Conversation
  BY DEF SubmissionInvariant, Submission
<1>2. CASE FindConversation(s)
  <2> DEFINE next == [s EXCEPT !.step = "waits"]
  <2>1. next \in Submission /\ SamePurpose(s, next) /\ next.step = "waits"
    BY <1>1 DEF Submission, SamePurpose
  <2>2. Advance(s, next) /\ UNCHANGED storeVars
    BY <1>2 DEF FindConversation
  <2> HIDE DEF next
  <2> QED
    BY <2>1, <2>2, AdvanceKeepsInvariant DEF Holds
<1>3. CASE LockConversation(s)
  <2> DEFINE last == lastMessageSequence[s.conversation]
             next == [s EXCEPT !.step = "locked", !.sequence = last + 1]
  <2>1. last \in 0..MaxSequence /\ last < MaxSequence
    BY <1>1, <1>3 DEF LockConversation, SubmissionInvariant, StoreInvariant, TypeOK
  <2>2. last + 1 \in 0..MaxSequence
    BY <2>1, MaxSequenceAssumption
  <2>3. next \in Submission /\ SamePurpose(s, next) /\ next.step = "locked" /\ next.sequence = last + 1
    <3> HIDE DEF last
    <3> QED
      BY <1>1, <2>2 DEF Submission, SamePurpose
  <2>4. Advance(s, next) /\ UNCHANGED storeVars
    BY <1>3 DEF LockConversation
  <2>5. \A t \in submissions \ {s} : ~Holds(t, s.conversation)
    BY <1>3 DEF LockConversation
  <2> HIDE DEF next
  <2> QED
    BY <2>3, <2>4, <2>5, AdvanceKeepsInvariant
<1>4. CASE InsertRows(s)
  <2> DEFINE people == Recipients(s.conversation, Sender(s))
             next == [s EXCEPT !.step = "inserted", !.rows = people]
  <2>1. people \in SUBSET Person
    BY DEF Recipients, Active
  <2>2. next \in Submission /\ SamePurpose(s, next) /\ next.sequence = s.sequence
    <3> HIDE DEF people
    <3> QED
      BY <1>1, <2>1 DEF Submission, SamePurpose
  <2>3. Advance(s, next) /\ UNCHANGED storeVars /\ RowIsFree(s) /\ Holds(s, s.conversation)
    BY <1>4 DEF InsertRows, Holds
  <2>4. s.sequence = lastMessageSequence[s.conversation] + 1
    BY <2>3 DEF SubmissionInvariant, NumbersAreNext
  <2>5. \A t \in submissions \ {s} : ~Holds(t, s.conversation)
    BY <1>1, <2>3 DEF SubmissionInvariant, LocksExclude
  <2> HIDE DEF next
  <2> QED
    BY <2>2, <2>3, <2>4, <2>5, AdvanceKeepsInvariant
<1> QED
  BY <1>2, <1>3, <1>4

\* A commit appends its row at the next sequence under a key that is still free,
\* although the key was looked up before the lock.
LEMMA CommitAppendsRow ==
    ASSUME SubmissionInvariant, NEW s \in submissions, CommitSubmission(s)
    PROVE  /\ s.conversation \in Conversation /\ s.device \in Device
           /\ s.clientId \in ClientMessageId /\ s.kind \in Kind /\ s.rows \in SUBSET Person
           /\ AppendRow(s.device, s.conversation, s.clientId, s.kind, s.rows)
<1>1. /\ s.conversation \in Conversation /\ s.device \in Device
      /\ s.clientId \in ClientMessageId /\ s.kind \in Kind /\ s.rows \in SUBSET Person
      /\ s.sequence \in 0..MaxSequence
  BY DEF SubmissionInvariant, Submission
<1>2. s.sequence = lastMessageSequence[s.conversation] + 1
  BY DEF SubmissionInvariant, NumbersAreNext, CommitSubmission, Holds
<1>3. lastMessageSequence[s.conversation] < MaxSequence
  BY <1>1, <1>2, MaxSequenceAssumption DEF SubmissionInvariant, StoreInvariant, TypeOK
<1>4. Submitted(s.device, s.clientId) = {}
  BY DEF SubmissionInvariant, KeysAreHeld, CommitSubmission
<1>5. s.kind = "file" => Uploaded(OwnerOf[s.device], s.clientId) = {}
  BY DEF SubmissionInvariant, UploadsExclude, Sender
<1> QED
  BY <1>1, <1>2, <1>3, <1>4, <1>5 DEF AppendRow, CommitSubmission, Sender

LEMMA CommitKeepsInvariant ==
    ASSUME SubmissionInvariant, NEW s \in submissions, CommitSubmission(s)
    PROVE  SubmissionInvariant'
<1> DEFINE row == [conversation |-> s.conversation, sequence |-> s.sequence,
                   sender |-> Sender(s), device |-> s.device, clientId |-> s.clientId,
                   kind |-> s.kind]
<1>1. /\ submissions' = submissions \ {s} /\ messages' = messages \cup {row}
      /\ lastMessageSequence' = [lastMessageSequence EXCEPT ![s.conversation] = s.sequence]
      /\ s.step = "inserted"
  BY DEF CommitSubmission
<1>2. StoreInvariant'
  BY CommitAppendsRow, AppendKeepsInvariant DEF SubmissionInvariant
<1>3. LocksExclude'
  BY <1>1 DEF SubmissionInvariant, LocksExclude
<1>4. NumbersAreNext'
  <2> SUFFICES ASSUME NEW t \in submissions \ {s}, Holds(t, t.conversation)
               PROVE  t.sequence = lastMessageSequence'[t.conversation] + 1
    BY <1>1 DEF NumbersAreNext
  <2>1. s.conversation \in Conversation /\ t.conversation \in Conversation
    BY DEF SubmissionInvariant, Submission
  <2>2. Holds(s, s.conversation)
    BY <1>1 DEF Holds
  <2>3. t.conversation # s.conversation
    BY <2>1, <2>2 DEF SubmissionInvariant, LocksExclude
  <2> QED
    BY <1>1, <2>1, <2>3 DEF SubmissionInvariant, StoreInvariant, TypeOK, NumbersAreNext
<1>5. KeysAreHeld'
  <2> SUFFICES ASSUME NEW t \in submissions \ {s}, t.step = "inserted"
               PROVE  Submitted(t.device, t.clientId)' = {}
    BY <1>1 DEF SubmissionInvariant, KeysAreHeld
  <2>1. ~(t.device = s.device /\ t.clientId = s.clientId)
    BY <1>1 DEF SubmissionInvariant, KeysAreHeld
  <2> QED
    BY <1>1, <2>1 DEF SubmissionInvariant, KeysAreHeld, Submitted
<1>6. UploadsExclude'
  <2> SUFFICES ASSUME NEW t \in submissions \ {s}, t.kind = "file"
               PROVE  Uploaded(Sender(t), t.clientId)' = {}
    BY <1>1 DEF SubmissionInvariant, UploadsExclude, Sender
  <2>1. ~(s.kind = "file" /\ t.clientId = s.clientId /\ Sender(t) = Sender(s))
    BY DEF SubmissionInvariant, UploadsExclude
  <2> QED
    BY <1>1, <2>1 DEF SubmissionInvariant, UploadsExclude, Uploaded
<1> QED
  BY <1>1, <1>2, <1>3, <1>4, <1>5, <1>6 DEF SubmissionInvariant

\* The calls that are one step here write no message.
LEMMA OtherCallsWriteNoMessage ==
    ASSUME NEW c \in Conversation, NEW p \in Person,
           \/ \E s \in Sequence : MarkDelivered(p, c, s) \/ MarkRead(p, c, s)
           \/ JoinConversation(c, p)
           \/ LeaveConversation(c, p)
    PROVE  StoreNext /\ UNCHANGED <<messages, lastMessageSequence>>
<1>1. StoreNext
  BY DEF StoreNext
<1>2. UNCHANGED <<messages, lastMessageSequence>>
  BY DEF MarkDelivered, MarkRead, JoinConversation, LeaveConversation
<1> QED
  BY <1>1, <1>2

\* Every step either appends a row, is another call, or leaves the tables alone.
LEMMA SubmissionStepCases ==
    ASSUME SubmissionInvariant, SubmissionNext
    PROVE  /\ SubmissionInvariant'
           /\ \/ \E s \in submissions : CommitSubmission(s)
              \/ StoreNext
              \/ UNCHANGED storeVars
<1>1. ASSUME NEW g \in GatewayProcess, NEW d \in Device, NEW c \in Conversation,
             NEW id \in ClientMessageId, NEW kind \in Kind, BeginSubmission(g, d, c, id, kind)
      PROVE  SubmissionInvariant' /\ UNCHANGED storeVars
  BY <1>1, BeginKeepsInvariant DEF BeginSubmission
<1>2. ASSUME NEW s \in submissions, FindConversation(s) \/ LockConversation(s) \/ InsertRows(s)
      PROVE  SubmissionInvariant' /\ UNCHANGED storeVars
  BY <1>2, StatementKeepsInvariant DEF FindConversation, LockConversation, InsertRows
<1>3. ASSUME NEW s \in submissions, CommitSubmission(s)
      PROVE  SubmissionInvariant'
  BY <1>3, CommitKeepsInvariant
<1>4. ASSUME NEW s \in submissions, AbandonSubmission(s)
      PROVE  SubmissionInvariant' /\ UNCHANGED storeVars
  <2>1. UNCHANGED storeVars /\ submissions' \subseteq submissions
    BY <1>4 DEF AbandonSubmission
  <2>2. StoreInvariant' /\ UNCHANGED <<messages, lastMessageSequence>>
    BY <2>1, UnchangedTablesAreSound DEF SubmissionInvariant, storeVars
  <2> QED
    BY <2>1, <2>2, FewerKeepInvariant
<1>5. ASSUME NEW c \in Conversation, NEW p \in Person,
             \/ \E s \in Sequence : /\ MarkDelivered(p, c, s) \/ MarkRead(p, c, s)
                                    /\ UNCHANGED submissions
             \/ JoinBeside(c, p)
             \/ LeaveConversation(c, p) /\ UNCHANGED submissions
      PROVE  SubmissionInvariant' /\ StoreNext
  <2>1. StoreNext /\ UNCHANGED <<messages, lastMessageSequence, submissions>>
    BY <1>5, OtherCallsWriteNoMessage DEF JoinBeside
  <2>2. StoreInvariant'
    BY <2>1, StepKeepsInvariant DEF SubmissionInvariant
  <2> QED
    BY <2>1, <2>2, FewerKeepInvariant
<1> QED
  BY <1>1, <1>2, <1>3, <1>4, <1>5 DEF SubmissionNext

LEMMA SubmissionStepKeepsInvariant ==
    SubmissionInvariant /\ [SubmissionNext]_submissionVars => SubmissionInvariant'
<1> SUFFICES ASSUME SubmissionInvariant, UNCHANGED submissionVars PROVE SubmissionInvariant'
  BY SubmissionStepCases
<1>1. UNCHANGED storeVars /\ submissions' = submissions
  BY DEF submissionVars
<1>2. StoreInvariant' /\ UNCHANGED <<messages, lastMessageSequence>>
  BY <1>1, UnchangedTablesAreSound DEF SubmissionInvariant, storeVars
<1> QED
  BY <1>1, <1>2, FewerKeepInvariant

LEMMA SubmissionInitEstablishesInvariant == SubmissionInit => SubmissionInvariant
BY InitEstablishesInvariant
   DEF SubmissionInit, SubmissionInvariant, LocksExclude, NumbersAreNext, KeysAreHeld, UploadsExclude

\* The inductive invariant of the statements: StoreInvariant is part of it.
THEOREM SubmissionsAreCorrect == SubmissionSpec => []SubmissionInvariant
BY SubmissionInitEstablishesInvariant, SubmissionStepKeepsInvariant, PTL DEF SubmissionSpec

\* Numbering, idempotence and watermarks hold of the tables at every commit of every
\* interleaving of gateways.
THEOREM GatewaysShareTheStore ==
    SubmissionSpec => [](SequencesAreDense /\ OneMessagePerKey /\ ReceiptsFollowWatermarks)
BY SubmissionsAreCorrect, PTL DEF SubmissionInvariant, StoreInvariant, ReceiptsFollowWatermarks

\* A commit whose members did not change is the call of one step.
LEMMA CommitIsCall ==
    ASSUME SubmissionInvariant, NEW s \in submissions, CommitSubmission(s), ~MembersChanged(s)
    PROVE  StoreNext
<1> DEFINE d == s.device  c == s.conversation  id == s.clientId
<1>1. /\ c \in Conversation /\ d \in Device /\ id \in ClientMessageId /\ s.kind \in Kind
      /\ AppendRow(d, c, id, s.kind, Recipients(c, OwnerOf[d]))
      /\ membership[c][OwnerOf[d]] = "active"
  BY CommitAppendsRow DEF MembersChanged, Sender
<1> HIDE DEF d, c, id
<1>2. CanSubmit(d, c, id) /\ InsertMessage(d, c, id, s.kind)
  BY <1>1 DEF AppendRow, CanSubmit, InsertMessage
<1>3. SubmitMessage(d, c, id) \/ AcceptFileMessage(d, c, id)
  BY <1>1, <1>2 DEF AppendRow, SubmitMessage, AcceptFileMessage, Kind
<1> QED
  BY <1>1, <1>3 DEF StoreNext

\* Statement by statement, the tables change by the calls of MessageStore, but for the
\* members who came or went meanwhile: what MessageStore takes as one step is one.
THEOREM StatementsMakeCalls == SubmissionSpec => SubmissionsAreCalls
<1>1. ASSUME SubmissionInvariant, [SubmissionNext]_submissionVars
      PROVE  [StoreNext \/ \E s \in submissions : MembersChanged(s) /\ CommitSubmission(s)]_storeVars
  BY <1>1, SubmissionStepCases, CommitIsCall DEF submissionVars
<1> QED
  BY <1>1, SubmissionsAreCorrect, PTL DEF SubmissionSpec, SubmissionsAreCalls

\* With gateways side by side, whoever joins or leaves meanwhile, the store implements
\* the append-only log with monotone cursors.
THEOREM SubmissionsImplementLog == SubmissionSpec => ImplementsConversationLog
<1>1. ASSUME SubmissionInvariant, SubmissionInvariant', [SubmissionNext]_submissionVars
      PROVE  [Log!Next]_Log!logVars
  <2>1. StoreInvariant /\ StoreInvariant'
    BY <1>1 DEF SubmissionInvariant
  <2>2. ASSUME NEW s \in submissions, CommitSubmission(s)
        PROVE  Log!Next
    <3>1. /\ Log!Accept(s.conversation, <<s.device, s.clientId>>)
          /\ s.conversation \in Conversation /\ <<s.device, s.clientId>> \in Log!Key
      BY <1>1, <2>1, <2>2, CommitAppendsRow, AppendIsAccept DEF Log!Key
    <3> QED
      BY <3>1 DEF Log!Next
  <2>3. (\E s \in submissions : CommitSubmission(s)) \/ [StoreNext]_storeVars
    BY <1>1, SubmissionStepCases DEF submissionVars
  <2> QED
    BY <2>1, <2>2, <2>3, StepMapsToStep
<1> QED
  BY <1>1, InitMapsToInit, SubmissionsAreCorrect, PTL
     DEF SubmissionSpec, SubmissionInit, ImplementsConversationLog, Log!Spec
=============================================================================
