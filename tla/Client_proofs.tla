------------------------- MODULE Client_proofs -------------------------
(***************************************************************************)
(* Proofs about the client: its settings and notifications with the        *)
(* handlers that answer them, and its login. The invariants say what is on *)
(* the way: which profile a request is based on and that answers come in   *)
(* the order of their revisions (settings), what each step adds to the     *)
(* audit of a notice and what the badge waits for (notifications), and     *)
(* which calls of a login are still without a report (login session).      *)
(***************************************************************************)
EXTENDS Settings, Notices, LoginSession, SequenceTheorems, FiniteSetTheorems, TLAPS

----------------------------------------------------------------------------
\* Settings.


Switches == [twoFactor : BOOLEAN, autoLogin : BOOLEAN]
SettingsProfile == [revision : Nat, appearance : Appearance, switches : Switches]
SettingsEdit == {"switch", "appearance", "resetAppearance", "resetAll"}
SettingsEvent == [action : SettingsEdit, from : SettingsProfile, to : SettingsProfile]
SettingsRequest ==
    [kind : {"Get"}]
    \cup [kind : {"Update"}, edit : SettingsEdit, settings : SettingsProfile, basis : SettingsProfile]
    \cup [kind : {"Reset"}, revision : Nat, basis : SettingsProfile]
SettingsAnswer ==
    [kind : {"Ready", "Changed"}, settings : SettingsProfile] \cup [kind : {"Failed"}]

SettingsTypeOK ==
    /\ settingsRow \in SettingsProfile
    /\ settingsEvents \in Seq(SettingsEvent)
    /\ settingsRequests \in Seq(SettingsRequest) /\ settingsAnswers \in Seq(SettingsAnswer)
    /\ remoteSettings \in [Device -> SettingsProfile]
    /\ confirmedSettings \in [Device -> SettingsProfile]
    /\ \/ signedIn \in Device
       \/ settingsRequests = << >> /\ settingsAnswers = << >>

\* The profile of each revision there was, and the profiles somebody can have been shown.
StoredAs(revision) == IF revision = 1 THEN Defaults(1) ELSE settingsEvents[revision - 1].to
Stored(profile) ==
    /\ profile.revision \in 1..settingsRow.revision
    /\ profile = StoredAs(profile.revision)
Known(profile) == profile = NoSettings \/ Stored(profile)

SettingsHistory ==
    /\ IF HasSettings THEN Stored(settingsRow) /\ Len(settingsEvents) = settingsRow.revision - 1
       ELSE settingsRow = NoSettings /\ settingsEvents = << >>
    /\ \A k \in DOMAIN settingsEvents :
          /\ settingsEvents[k].from = StoredAs(k)
          /\ settingsEvents[k].to.revision = k + 1
          /\ validUserSettings(settingsEvents[k].to)

PagesAreConfirmed ==
    \A d \in Device : /\ Known(confirmedSettings[d])
                      /\ remoteSettings[d].revision = confirmedSettings[d].revision

RequestsHaveABasis ==
    \A i \in DOMAIN settingsRequests :
        LET request == settingsRequests[i] IN
        /\ request.kind = "Update" => /\ Stored(request.basis)
                                      /\ request.settings.revision = request.basis.revision
        /\ request.kind = "Reset" => /\ Stored(request.basis)
                                     /\ request.revision = request.basis.revision

AnswersAdvance ==
    \A i \in DOMAIN settingsAnswers : settingsAnswers[i].kind # "Failed" =>
        /\ Stored(settingsAnswers[i].settings)
        /\ settingsAnswers[i].settings.revision >= confirmedSettings[signedIn].revision
        /\ \A j \in 1..i : settingsAnswers[j].kind # "Failed" =>
              settingsAnswers[i].settings.revision >= settingsAnswers[j].settings.revision

SettingsInvariant ==
    /\ SettingsTypeOK /\ SettingsHistory /\ PagesAreConfirmed
    /\ RequestsHaveABasis /\ AnswersAdvance

\* Two profiles of one revision are one.
LEMMA StoredOnce ==
    ASSUME NEW p, NEW q, Stored(p), Stored(q), p.revision = q.revision PROVE p = q
BY DEF Stored

\* The table without a row and two devices with defaults satisfy the invariant.
LEMMA SettingsStart == SettingsInit => SettingsInvariant
<1> SUFFICES ASSUME SettingsInit PROVE SettingsInvariant
  OBVIOUS
<1>1. NoSettings \in SettingsProfile /\ NoSettings.revision = 0
  BY DEF NoSettings, Profile, SettingsProfile, Appearance, DefaultSwitches, Switches
<1>2. SettingsTypeOK
  BY <1>1 DEF SettingsInit, SettingsTypeOK
<1>3. SettingsHistory /\ PagesAreConfirmed
  BY <1>1 DEF SettingsInit, SettingsHistory, HasSettings, PagesAreConfirmed, Known
<1>4. RequestsHaveABasis /\ AnswersAdvance
  BY DEF SettingsInit, RequestsHaveABasis, AnswersAdvance
<1> QED BY <1>2, <1>3, <1>4 DEF SettingsInvariant

\* The row a request finds or makes.
LEMMA EnsuredRowIsStored ==
    ASSUME SettingsInvariant
    PROVE  /\ EnsuredRow \in SettingsProfile /\ EnsuredRow.revision \in Nat
           /\ EnsuredRow.revision >= 1 /\ EnsuredRow.revision >= settingsRow.revision
           /\ EnsuredRow = StoredAs(EnsuredRow.revision)
           /\ Len(settingsEvents) = EnsuredRow.revision - 1
           /\ HasSettings => EnsuredRow = settingsRow
<1>1. Defaults(1) \in SettingsProfile /\ Defaults(1).revision = 1
  BY DEF Defaults, Profile, SettingsProfile, Appearance, DefaultSwitches, Switches
<1>2. settingsRow \in SettingsProfile /\ settingsRow.revision \in Nat
  BY DEF SettingsInvariant, SettingsTypeOK, SettingsProfile
<1>3. CASE HasSettings
  BY <1>2, <1>3 DEF SettingsInvariant, SettingsHistory, EnsuredRow, HasSettings, Stored
<1>4. CASE ~HasSettings
  <2>1. settingsRow.revision = 0 /\ settingsEvents = << >> /\ EnsuredRow = Defaults(1)
    BY <1>2, <1>4 DEF SettingsInvariant, SettingsHistory, EnsuredRow, HasSettings
  <2> QED BY <1>1, <1>4, <2>1 DEF StoredAs
<1> QED BY <1>3, <1>4

\* A step after which the audit goes on and the row is not older: whatever was stored
\* at a revision still is.
LEMMA StoredStays ==
    ASSUME SettingsInvariant, settingsRow'.revision \in Nat,
           settingsRow'.revision >= settingsRow.revision,
           \A k \in DOMAIN settingsEvents : settingsEvents'[k] = settingsEvents[k]
    PROVE  /\ \A p : Stored(p) => Stored(p)'
           /\ \A p : Known(p) => Known(p)'
<1>1. ASSUME NEW p, Stored(p) PROVE Stored(p)'
  <2>1. /\ settingsRow.revision \in Nat /\ p.revision \in 1..settingsRow.revision
        /\ settingsEvents \in Seq(SettingsEvent)
    BY <1>1 DEF SettingsInvariant, SettingsTypeOK, SettingsProfile, Stored
  <2>2. HasSettings /\ Len(settingsEvents) = settingsRow.revision - 1
    BY <2>1 DEF SettingsInvariant, SettingsHistory, HasSettings
  <2>3. p.revision # 1 => p.revision - 1 \in DOMAIN settingsEvents
    BY <2>1, <2>2
  <2>4. p.revision \in 1..settingsRow'.revision
    BY <2>1
  <2> QED BY <1>1, <2>3, <2>4 DEF Stored, StoredAs
<1> QED BY <1>1 DEF Known

\* The server answers the first request: what that needs of the row and the audit.
LEMMA AnswerKeeps ==
    ASSUME SettingsInvariant, NEW answer \in SettingsAnswer, AnswerSettings(answer),
           settingsRequests # << >>,
           settingsRow' \in SettingsProfile, settingsEvents' \in Seq(SettingsEvent),
           SettingsHistory', settingsRow'.revision >= settingsRow.revision,
           \A k \in DOMAIN settingsEvents : settingsEvents'[k] = settingsEvents[k],
           answer.kind # "Failed" => HasSettings' /\ answer.settings = settingsRow'
    PROVE  SettingsInvariant'
<1>1. /\ SettingsTypeOK /\ settingsRow'.revision \in Nat /\ settingsRow.revision \in Nat
      /\ settingsRequests' = Tail(settingsRequests) /\ settingsRequests \in Seq(SettingsRequest)
      /\ settingsAnswers' = Append(settingsAnswers, answer) /\ settingsAnswers \in Seq(SettingsAnswer)
      /\ signedIn' = signedIn /\ remoteSettings' = remoteSettings
      /\ confirmedSettings' = confirmedSettings /\ signedIn \in Device
  BY DEF SettingsInvariant, SettingsTypeOK, SettingsProfile, AnswerSettings
<1>2. /\ \A p : Stored(p) => Stored(p)'
      /\ \A p : Known(p) => Known(p)'
  BY <1>1, StoredStays
<1>3. SettingsTypeOK'
  <2>1. /\ Tail(settingsRequests) \in Seq(SettingsRequest)
        /\ Append(settingsAnswers, answer) \in Seq(SettingsAnswer)
    BY <1>1
  <2> QED BY <1>1, <2>1 DEF SettingsTypeOK
<1>4. PagesAreConfirmed'
  BY <1>1, <1>2 DEF SettingsInvariant, PagesAreConfirmed
<1>5. RequestsHaveABasis'
  <2>1. \A i \in DOMAIN settingsRequests' :
           i + 1 \in DOMAIN settingsRequests /\ settingsRequests'[i] = settingsRequests[i + 1]
    BY <1>1
  <2> QED BY <1>2, <2>1 DEF SettingsInvariant, RequestsHaveABasis
<1>6. AnswersAdvance'
  <2> DEFINE n == Len(settingsAnswers)
  <2>1. /\ n \in Nat /\ DOMAIN settingsAnswers = 1..n /\ DOMAIN settingsAnswers' = 1..(n + 1)
        /\ settingsAnswers'[n + 1] = answer
        /\ \A i \in 1..n : settingsAnswers'[i] = settingsAnswers[i]
    BY <1>1
  <2>2. ASSUME NEW p, Stored(p) PROVE p.revision \in Nat /\ p.revision <= settingsRow'.revision
    BY <1>1, <2>2 DEF Stored
  <2>3. confirmedSettings[signedIn].revision \in Nat
        /\ confirmedSettings[signedIn].revision <= settingsRow'.revision
    <3>1. NoSettings.revision = 0 /\ Known(confirmedSettings[signedIn])
      BY <1>1 DEF NoSettings, Profile, SettingsInvariant, PagesAreConfirmed
    <3> QED BY <1>1, <2>2, <3>1 DEF Known
  <2> HIDE DEF n
  <2>4. ASSUME NEW i \in 1..n, settingsAnswers[i].kind # "Failed"
        PROVE  /\ \A p : p = settingsAnswers[i].settings => Stored(p)'
               /\ settingsAnswers[i].settings.revision >= confirmedSettings[signedIn].revision
               /\ \A j \in 1..i : settingsAnswers[j].kind # "Failed" =>
                     settingsAnswers[i].settings.revision >= settingsAnswers[j].settings.revision
               /\ settingsRow'.revision >= settingsAnswers[i].settings.revision
    <3>1. /\ Stored(settingsAnswers[i].settings)
          /\ settingsAnswers[i].settings.revision >= confirmedSettings[signedIn].revision
          /\ \A j \in 1..i : settingsAnswers[j].kind # "Failed" =>
                settingsAnswers[i].settings.revision >= settingsAnswers[j].settings.revision
      BY <2>1, <2>4 DEF SettingsInvariant, AnswersAdvance
    <3> QED BY <1>1, <1>2, <2>2, <3>1
  <2>5. ASSUME NEW i \in 1..(n + 1), settingsAnswers'[i].kind # "Failed"
        PROVE  /\ \A p : p = settingsAnswers'[i].settings => Stored(p)'
               /\ settingsAnswers'[i].settings.revision >= confirmedSettings[signedIn].revision
               /\ \A j \in 1..i : settingsAnswers'[j].kind # "Failed" =>
                     settingsAnswers'[i].settings.revision >= settingsAnswers'[j].settings.revision
    <3>1. CASE i \in 1..n
      <4>1. settingsAnswers'[i] = settingsAnswers[i]
            /\ \A j \in 1..i : settingsAnswers'[j] = settingsAnswers[j]
        BY <2>1, <3>1
      <4> QED BY <2>4, <2>5, <3>1, <4>1
    <3>2. CASE i = n + 1
      <4>1. settingsAnswers'[i].settings = settingsRow' /\ HasSettings'
        BY <2>1, <2>5, <3>2
      <4>2. \A p : p = settingsRow' => Stored(p)'
        BY <4>1 DEF SettingsHistory, Stored, StoredAs
      <4>3. \A j \in 1..i : (j \in 1..n /\ settingsAnswers'[j] = settingsAnswers[j]) \/ j = i
        BY <2>1, <3>2
      <4>4. settingsRow'.revision >= settingsRow'.revision
        BY <1>1
      <4> QED BY <2>3, <2>4, <4>1, <4>2, <4>3, <4>4
    <3> QED BY <2>1, <3>1, <3>2
  <2>6. ASSUME NEW i \in 1..(n + 1), settingsAnswers'[i].kind # "Failed"
        PROVE  Stored(settingsAnswers[i].settings)'
    <3>1. PICK p : p = settingsAnswers'[i].settings
      OBVIOUS
    <3> QED BY <2>5, <2>6, <3>1 DEF Stored, StoredAs
  <2> QED BY <1>1, <2>1, <2>5, <2>6 DEF AnswersAdvance
<1> QED BY <1>3, <1>4, <1>5, <1>6 DEF SettingsInvariant

\* The row is made if it is not there.
LEMMA EnsureKeeps ==
    ASSUME SettingsInvariant, settingsRow' = EnsuredRow, UNCHANGED settingsEvents
    PROVE  /\ SettingsHistory' /\ settingsRow' \in SettingsProfile
           /\ settingsRow'.revision >= settingsRow.revision
           /\ Stored(settingsRow)'
<1>1. /\ EnsuredRow \in SettingsProfile /\ EnsuredRow.revision \in Nat
      /\ EnsuredRow.revision >= 1 /\ EnsuredRow.revision >= settingsRow.revision
      /\ EnsuredRow = StoredAs(EnsuredRow.revision)
      /\ Len(settingsEvents) = EnsuredRow.revision - 1
  BY EnsuredRowIsStored
<1>2. \A r : StoredAs(r)' = StoredAs(r)
  BY DEF StoredAs
<1>3. Stored(settingsRow)' /\ HasSettings'
  BY <1>1, <1>2 DEF Stored, HasSettings
<1>4. SettingsHistory'
  BY <1>1, <1>2, <1>3 DEF SettingsInvariant, SettingsHistory
<1> QED BY <1>1, <1>3, <1>4

\* A change is committed: the row of the next revision and its entry.
LEMMA RequestCommitKeeps ==
    ASSUME SettingsInvariant, NEW action \in SettingsEdit, NEW profile \in SettingsProfile,
           profile.revision = EnsuredRow.revision + 1, validUserSettings(profile),
           settingsRequests # << >>, Commit(action, profile)
    PROVE  SettingsInvariant'
<1> DEFINE n == Len(settingsEvents)
           entry == [action |-> action, from |-> EnsuredRow, to |-> profile]
<1>1. /\ EnsuredRow \in SettingsProfile /\ EnsuredRow.revision \in Nat
      /\ EnsuredRow.revision >= 1 /\ EnsuredRow.revision >= settingsRow.revision
      /\ EnsuredRow = StoredAs(EnsuredRow.revision) /\ n = EnsuredRow.revision - 1
      /\ settingsEvents \in Seq(SettingsEvent) /\ settingsRow.revision \in Nat
  BY EnsuredRowIsStored DEF SettingsInvariant, SettingsTypeOK, SettingsProfile
<1>2. entry \in SettingsEvent /\ entry.to = profile /\ entry.from = EnsuredRow
  BY <1>1 DEF SettingsEvent
<1>3. settingsRow' = profile /\ settingsEvents' = Append(settingsEvents, entry)
  BY DEF Commit
<1> HIDE DEF entry, n
<1>4. /\ settingsEvents' \in Seq(SettingsEvent) /\ n \in Nat
      /\ DOMAIN settingsEvents = 1..n /\ DOMAIN settingsEvents' = 1..(n + 1)
      /\ Len(settingsEvents') = n + 1 /\ settingsEvents'[n + 1] = entry
      /\ \A k \in 1..n : settingsEvents'[k] = settingsEvents[k]
  BY <1>1, <1>2, <1>3 DEF n
<1>5. \A k \in 1..(n + 1) : StoredAs(k)' = StoredAs(k)
  <2>1. \A k \in 1..(n + 1) : k # 1 => k - 1 \in 1..n
    BY <1>4
  <2> QED BY <1>4, <2>1 DEF StoredAs
<1>6. HasSettings' /\ Stored(settingsRow)' /\ Len(settingsEvents') = settingsRow'.revision - 1
  <2>1. /\ settingsRow' = profile /\ profile.revision = n + 2 /\ n \in Nat
        /\ settingsEvents'[profile.revision - 1].to = profile
    BY <1>1, <1>2, <1>3, <1>4
  <2> QED BY <1>4, <2>1 DEF HasSettings, Stored, StoredAs
<1>7. ASSUME NEW k \in 1..(n + 1)
      PROVE  /\ settingsEvents'[k].from = StoredAs(k)'
             /\ settingsEvents'[k].to.revision = k + 1
             /\ validUserSettings(settingsEvents'[k].to)
  <2>1. CASE k = n + 1
    BY <1>1, <1>2, <1>4, <1>5, <2>1
  <2>2. CASE k \in 1..n
    BY <1>4, <1>5, <2>2 DEF SettingsInvariant, SettingsHistory
  <2> QED BY <1>4, <2>1, <2>2
<1>8. SettingsHistory'
  BY <1>4, <1>6, <1>7 DEF SettingsHistory, validUserSettings
<1>9. /\ [kind |-> "Changed", settings |-> profile] \in SettingsAnswer
      /\ AnswerSettings([kind |-> "Changed", settings |-> profile])
      /\ settingsRow'.revision >= settingsRow.revision
  BY <1>1, <1>3 DEF SettingsAnswer, Commit
<1> QED BY <1>3, <1>4, <1>6, <1>8, <1>9, AnswerKeeps

\* A settings request answered with the row, created when there is none, keeps
\* the invariant.
LEMMA GetKeeps == ASSUME SettingsInvariant, handleSettingsGet PROVE SettingsInvariant'
<1> DEFINE answer == [kind |-> "Ready", settings |-> EnsuredRow]
<1>1. /\ settingsRow' = EnsuredRow /\ settingsEvents' = settingsEvents /\ AnswerSettings(answer)
      /\ settingsRequests # << >> /\ settingsEvents \in Seq(SettingsEvent)
  BY DEF handleSettingsGet, Received, SettingsInvariant, SettingsTypeOK
<1>2. /\ SettingsHistory' /\ settingsRow' \in SettingsProfile
      /\ settingsRow'.revision >= settingsRow.revision /\ Stored(settingsRow)'
  BY <1>1, EnsureKeeps
<1>3. answer \in SettingsAnswer /\ answer.settings = settingsRow'
  BY <1>1, <1>2 DEF SettingsAnswer
<1>4. HasSettings'
  BY <1>1, EnsuredRowIsStored DEF HasSettings
<1> HIDE DEF answer
<1> QED BY <1>1, <1>2, <1>3, <1>4, AnswerKeeps

\* A request that is refused or fails answers that and changes no revision.
LEMMA RequestFailureKeeps ==
    ASSUME SettingsInvariant, settingsRequests # << >>, AnswerSettings(SettingsFailed),
           settingsRow' = settingsRow \/ settingsRow' = EnsuredRow, UNCHANGED settingsEvents
    PROVE  SettingsInvariant'
<1>1. SettingsFailed \in SettingsAnswer /\ SettingsFailed.kind = "Failed"
      /\ settingsEvents \in Seq(SettingsEvent)
  BY DEF SettingsFailed, SettingsAnswer, SettingsInvariant, SettingsTypeOK
<1>2. CASE settingsRow' = EnsuredRow
  BY <1>1, <1>2, EnsureKeeps, AnswerKeeps
<1>3. CASE settingsRow' = settingsRow
  <2>1. /\ settingsRow' \in SettingsProfile /\ settingsRow'.revision >= settingsRow.revision
    BY <1>3 DEF SettingsInvariant, SettingsTypeOK, SettingsProfile
  <2>2. SettingsHistory'
    BY <1>3 DEF SettingsInvariant, SettingsHistory, Stored, StoredAs, HasSettings
  <2> QED BY <1>1, <2>1, <2>2, AnswerKeeps
<1> QED BY <1>2, <1>3

\* updateSettings writes only a request whose revision is the one of the row.
LEMMA SettingsUpdateKeeps == ASSUME SettingsInvariant, updateSettings PROVE SettingsInvariant'
<1> DEFINE request == Head(settingsRequests)
           profile == [request.settings EXCEPT !.revision = @ + 1]
<1>1. /\ settingsRequests # << >> /\ settingsRequests \in Seq(SettingsRequest)
      /\ request.kind = "Update" /\ validUserSettings(request.settings)
      /\ request.settings.revision = EnsuredRow.revision /\ Commit(request.edit, profile)
  BY DEF updateSettings, Received, SettingsInvariant, SettingsTypeOK
<1>2. request.settings \in SettingsProfile /\ request.edit \in SettingsEdit
  <2>1. request \in SettingsRequest
    BY <1>1
  <2> QED BY <1>1, <2>1 DEF SettingsRequest
<1>3. /\ profile \in SettingsProfile /\ profile.revision = EnsuredRow.revision + 1
      /\ profile.switches = request.settings.switches
  BY <1>1, <1>2 DEF SettingsProfile
<1>4. validUserSettings(profile)
  BY <1>1, <1>3 DEF validUserSettings
<1> HIDE DEF profile
<1> QED BY <1>1, <1>2, <1>3, <1>4, RequestCommitKeeps

\* resetSettings writes the defaults as the next revision.
LEMMA ResetKeeps == ASSUME SettingsInvariant, resetSettings PROVE SettingsInvariant'
<1> DEFINE profile == Defaults(settingsRow.revision + 1)
<1>1. /\ settingsRequests # << >> /\ HasSettings /\ Commit("resetAll", profile)
      /\ settingsRow.revision \in Nat
  BY DEF resetSettings, Received, SettingsInvariant, SettingsTypeOK, SettingsProfile
<1>2. /\ profile \in SettingsProfile /\ profile.revision = settingsRow.revision + 1
      /\ validUserSettings(profile)
  BY <1>1 DEF Defaults, Profile, SettingsProfile, Appearance, DefaultSwitches, Switches,
              validUserSettings
<1> HIDE DEF profile
<1>3. profile.revision = EnsuredRow.revision + 1 /\ "resetAll" \in SettingsEdit
  BY <1>1, <1>2, EnsuredRowIsStored DEF SettingsEdit
<1> QED BY <1>1, <1>2, <1>3, RequestCommitKeeps

\* Steps of the devices: the row and the audit stay.
LEMMA RowStays ==
    ASSUME UNCHANGED << settingsRow, settingsEvents >>
    PROVE  /\ SettingsHistory => SettingsHistory'
           /\ \A p : Stored(p)' <=> Stored(p)
           /\ \A p : Known(p)' <=> Known(p)
BY DEF SettingsHistory, Stored, StoredAs, HasSettings, Known

\* A new session starts with no request and no answer on the way.
LEMMA SignInKeeps ==
    ASSUME SettingsInvariant,
           \/ \E d \in Device : SettingsSignIn(d)
           \/ SettingsLinkLost
    PROVE  SettingsInvariant'
<1>1. /\ UNCHANGED << settingsRow, settingsEvents, remoteSettings, confirmedSettings >>
      /\ \/ signedIn' \in Device /\ settingsRequests' = << [kind |-> "Get"] >>
         \/ settingsRequests' = << >>
      /\ settingsAnswers' = << >>
  BY DEF SettingsSignIn, SettingsLinkLost
<1>2. settingsRequests' \in Seq(SettingsRequest)
      /\ \A i \in DOMAIN settingsRequests' : settingsRequests'[i].kind = "Get"
  <2> DEFINE get == [kind |-> "Get"]
  <2>1. get \in SettingsRequest /\ get.kind = "Get"
    BY DEF SettingsRequest
  <2> HIDE DEF get
  <2>2. /\ << get >> \in Seq(SettingsRequest) /\ << >> \in Seq(SettingsRequest)
        /\ \A i \in DOMAIN << get >> : << get >>[i] = get
    BY <2>1
  <2>3. settingsRequests' = << get >> \/ settingsRequests' = << >>
    BY <1>1 DEF get
  <2>4. \A i \in DOMAIN settingsRequests' : settingsRequests'[i] = get
    BY <2>2, <2>3
  <2> QED BY <2>1, <2>2, <2>3, <2>4
<1>3. SettingsTypeOK'
  BY <1>1, <1>2 DEF SettingsInvariant, SettingsTypeOK
<1>4. SettingsHistory' /\ PagesAreConfirmed'
  BY <1>1, RowStays DEF SettingsInvariant, PagesAreConfirmed
<1>5. RequestsHaveABasis' /\ AnswersAdvance'
  BY <1>1, <1>2 DEF RequestsHaveABasis, AnswersAdvance
<1> QED BY <1>3, <1>4, <1>5 DEF SettingsInvariant

\* A device edits its copy, or only asks, and sends it along with what it was shown.
LEMMA RequestSendKeeps ==
    ASSUME SettingsInvariant, NEW d \in Device, NEW request \in SettingsRequest,
           SendSettings(d, request), NEW profile \in SettingsProfile,
           profile.revision = remoteSettings[d].revision,
           remoteSettings' = [remoteSettings EXCEPT ![d] = profile],
           request.kind # "Get" => request.basis = confirmedSettings[d] /\ profile.revision > 0,
           request.kind = "Update" => request.settings.revision = profile.revision,
           request.kind = "Reset" => request.revision = profile.revision
    PROVE  SettingsInvariant'
<1>1. /\ SettingsTypeOK /\ settingsRequests \in Seq(SettingsRequest)
      /\ UNCHANGED << settingsRow, settingsEvents, signedIn, settingsAnswers, confirmedSettings >>
      /\ \/ settingsRequests' = settingsRequests
         \/ signedIn = d /\ settingsRequests' = Append(settingsRequests, request)
  BY DEF SettingsInvariant, SettingsTypeOK, SendSettings
<1>2. SettingsTypeOK'
  BY <1>1 DEF SettingsTypeOK
<1>3. /\ SettingsHistory'
      /\ \A p : Stored(p)' <=> Stored(p)
      /\ \A p : Known(p)' <=> Known(p)
  BY <1>1, RowStays DEF SettingsInvariant
<1>4. PagesAreConfirmed'
  BY <1>1, <1>3 DEF SettingsInvariant, PagesAreConfirmed, SettingsTypeOK
<1>5. AnswersAdvance'
  BY <1>1, <1>3 DEF SettingsInvariant, AnswersAdvance
<1>6. RequestsHaveABasis'
  <2>1. request.kind # "Get" => Stored(confirmedSettings[d])
                                /\ confirmedSettings[d].revision = profile.revision
    <3>1. /\ NoSettings.revision = 0 /\ profile.revision = confirmedSettings[d].revision
          /\ Known(confirmedSettings[d])
      BY DEF NoSettings, Profile, SettingsInvariant, PagesAreConfirmed
    <3> QED BY <3>1 DEF Known
  <2>2. CASE settingsRequests' = settingsRequests
    BY <1>3, <2>2 DEF SettingsInvariant, RequestsHaveABasis
  <2>3. CASE settingsRequests' = Append(settingsRequests, request)
    <3>1. \A i \in DOMAIN settingsRequests' :
             \/ i \in DOMAIN settingsRequests /\ settingsRequests'[i] = settingsRequests[i]
             \/ settingsRequests'[i] = request
      BY <1>1, <2>3
    <3> QED BY <1>3, <2>1, <3>1 DEF SettingsInvariant, RequestsHaveABasis
  <2> QED BY <1>1, <2>2, <2>3
<1> QED BY <1>2, <1>3, <1>4, <1>5, <1>6 DEF SettingsInvariant

\* A device edits what it was shown.
LEMMA EditKeeps ==
    ASSUME SettingsInvariant, NEW d \in Device, NEW edit \in SettingsEdit,
           NEW profile \in SettingsProfile, profile.revision = remoteSettings[d].revision,
           Edit(d, edit, profile)
    PROVE  SettingsInvariant'
<1> DEFINE request == [kind |-> "Update", edit |-> edit, settings |-> profile,
                       basis |-> confirmedSettings[d]]
<1>1. /\ SendSettings(d, request) /\ remoteSettings' = [remoteSettings EXCEPT ![d] = profile]
      /\ profile.revision > 0
  BY DEF Edit
<1>2. request \in SettingsRequest /\ request.kind = "Update" /\ request.settings = profile
      /\ request.basis = confirmedSettings[d]
  BY DEF SettingsInvariant, SettingsTypeOK, SettingsRequest
<1> HIDE DEF request
<1> QED BY <1>1, <1>2, RequestSendKeeps

\* Every edit on a device, with the request it sends, keeps the invariant.
LEMMA DeviceKeeps ==
    ASSUME SettingsInvariant, NEW d \in Device,
           \/ updateSetting(d) \/ applyAppearancePreset(d) \/ resetAppearanceSettings(d)
           \/ resetAllSettings(d) \/ refreshSettings(d)
    PROVE  SettingsInvariant'
<1> DEFINE now == remoteSettings[d]
<1>1. now \in SettingsProfile
  BY DEF SettingsInvariant, SettingsTypeOK
<1>2. ASSUME NEW on \in BOOLEAN,
             \/ Edit(d, "switch", [now EXCEPT !.switches.twoFactor = on])
             \/ Edit(d, "switch", [now EXCEPT !.switches.autoLogin = on])
      PROVE  SettingsInvariant'
  <2> DEFINE one == [now EXCEPT !.switches.twoFactor = on]
             two == [now EXCEPT !.switches.autoLogin = on]
  <2>1. /\ one \in SettingsProfile /\ one.revision = now.revision
        /\ two \in SettingsProfile /\ two.revision = now.revision
    BY <1>1 DEF SettingsProfile, Switches
  <2>2. (Edit(d, "switch", one) \/ Edit(d, "switch", two)) /\ "switch" \in SettingsEdit
    BY <1>2 DEF SettingsEdit
  <2> HIDE DEF one, two
  <2> QED BY <2>1, <2>2, EditKeeps
<1>3. ASSUME NEW theme \in Appearance, NEW edit \in SettingsEdit,
             Edit(d, edit, [now EXCEPT !.appearance = theme])
      PROVE  SettingsInvariant'
  <2> DEFINE profile == [now EXCEPT !.appearance = theme]
  <2>1. profile \in SettingsProfile /\ profile.revision = now.revision
    BY <1>1 DEF SettingsProfile
  <2>2. Edit(d, edit, profile)
    BY <1>3
  <2> HIDE DEF profile
  <2> QED BY <2>1, <2>2, EditKeeps
<1>4. /\ "dark" \in Appearance /\ "system" \in Appearance
      /\ "appearance" \in SettingsEdit /\ "resetAppearance" \in SettingsEdit
  BY DEF Appearance, SettingsEdit
<1>5. remoteSettings' = remoteSettings => remoteSettings' = [remoteSettings EXCEPT ![d] = now]
  BY DEF SettingsInvariant, SettingsTypeOK
<1>6. ASSUME resetAllSettings(d) PROVE SettingsInvariant'
  <2> DEFINE request == [kind |-> "Reset", revision |-> now.revision, basis |-> confirmedSettings[d]]
  <2>1. SendSettings(d, request) /\ remoteSettings' = remoteSettings /\ now.revision > 0
    BY <1>6 DEF resetAllSettings
  <2>2. request \in SettingsRequest /\ request.kind = "Reset" /\ request.revision = now.revision
        /\ request.basis = confirmedSettings[d]
    BY <1>1 DEF SettingsInvariant, SettingsTypeOK, SettingsRequest, SettingsProfile
  <2> HIDE DEF request, now
  <2> QED BY <1>1, <1>5, <2>1, <2>2, RequestSendKeeps DEF now
<1>7. ASSUME refreshSettings(d) PROVE SettingsInvariant'
  <2>1. /\ [kind |-> "Get"] \in SettingsRequest /\ SendSettings(d, [kind |-> "Get"])
        /\ remoteSettings' = remoteSettings
    BY <1>7 DEF refreshSettings, SettingsRequest
  <2> QED BY <1>1, <1>5, <2>1, RequestSendKeeps
<1>8. ASSUME updateSetting(d) PROVE SettingsInvariant'
  BY <1>2, <1>3, <1>4, <1>8 DEF updateSetting
<1>9. ASSUME applyAppearancePreset(d) \/ resetAppearanceSettings(d) PROVE SettingsInvariant'
  BY <1>3, <1>4, <1>9 DEF applyAppearancePreset, resetAppearanceSettings
<1> QED BY <1>6, <1>7, <1>8, <1>9

\* An answer replaces what the device edits and what it shows.
LEMMA ReceiveKeeps == ASSUME SettingsInvariant, ReceiveSettings PROVE SettingsInvariant'
<1> DEFINE answer == Head(settingsAnswers)
<1>1. /\ SettingsTypeOK /\ signedIn \in Device
      /\ settingsAnswers \in Seq(SettingsAnswer) /\ settingsAnswers # << >>
      /\ settingsAnswers' = Tail(settingsAnswers)
      /\ UNCHANGED << settingsRow, settingsEvents, signedIn, settingsRequests >>
  BY DEF SettingsInvariant, SettingsTypeOK, ReceiveSettings
<1>2. /\ answer \in SettingsAnswer /\ answer = settingsAnswers[1] /\ 1 \in DOMAIN settingsAnswers
      /\ settingsAnswers' \in Seq(SettingsAnswer)
      /\ \A i \in DOMAIN settingsAnswers' :
            i + 1 \in DOMAIN settingsAnswers /\ settingsAnswers'[i] = settingsAnswers[i + 1] /\ i \in Nat
  BY <1>1
<1>3. /\ SettingsHistory'
      /\ \A p : Stored(p)' <=> Stored(p)
      /\ \A p : Known(p)' <=> Known(p)
  BY <1>1, RowStays DEF SettingsInvariant
<1>4. RequestsHaveABasis'
  BY <1>1, <1>3 DEF SettingsInvariant, RequestsHaveABasis
<1>5. CASE answer.kind = "Failed"
  <2>1. remoteSettings' = remoteSettings /\ confirmedSettings' = confirmedSettings
    BY <1>5 DEF ReceiveSettings
  <2>2. SettingsTypeOK' /\ PagesAreConfirmed'
    BY <1>1, <1>2, <1>3, <2>1 DEF SettingsTypeOK, SettingsInvariant, PagesAreConfirmed
  <2>3. \A i \in DOMAIN settingsAnswers', j \in Nat \ {0} : j <= i =>
           /\ j + 1 \in 1..(i + 1) /\ settingsAnswers'[j] = settingsAnswers[j + 1]
    BY <1>1
  <2>4. AnswersAdvance'
    <3> SUFFICES ASSUME NEW i \in DOMAIN settingsAnswers', settingsAnswers'[i].kind # "Failed"
                 PROVE  /\ Stored(settingsAnswers'[i].settings)
                        /\ settingsAnswers'[i].settings.revision >= confirmedSettings[signedIn].revision
                        /\ \A j \in 1..i : settingsAnswers'[j].kind # "Failed" =>
                              settingsAnswers'[i].settings.revision >= settingsAnswers'[j].settings.revision
      BY <1>1, <1>3, <2>1 DEF AnswersAdvance
    <3>1. /\ i + 1 \in DOMAIN settingsAnswers /\ settingsAnswers'[i] = settingsAnswers[i + 1] /\ i \in Nat
          /\ \A j \in 1..i : j + 1 \in 1..(i + 1) /\ settingsAnswers'[j] = settingsAnswers[j + 1]
      BY <1>2, <2>3
    <3> QED BY <3>1 DEF SettingsInvariant, AnswersAdvance
  <2> QED BY <1>3, <1>4, <2>2, <2>4 DEF SettingsInvariant
<1>6. CASE answer.kind # "Failed"
  <2>1. /\ remoteSettings' = [remoteSettings EXCEPT ![signedIn] = answer.settings]
        /\ confirmedSettings' = [confirmedSettings EXCEPT ![signedIn] = answer.settings]
    BY <1>6 DEF ReceiveSettings, applySettings
  <2>2. Stored(answer.settings) /\ answer.settings \in SettingsProfile
    BY <1>2, <1>6 DEF SettingsInvariant, AnswersAdvance, SettingsAnswer
  <2> HIDE DEF answer
  <2>3. SettingsTypeOK'
    BY <1>1, <1>2, <2>1, <2>2 DEF SettingsTypeOK
  <2>4. PagesAreConfirmed'
    BY <1>1, <1>3, <2>1, <2>2 DEF SettingsTypeOK, SettingsInvariant, PagesAreConfirmed, Known
  <2>5. AnswersAdvance'
    <3> SUFFICES ASSUME NEW i \in DOMAIN settingsAnswers', settingsAnswers'[i].kind # "Failed"
                 PROVE  /\ Stored(settingsAnswers'[i].settings)
                        /\ settingsAnswers'[i].settings.revision >= answer.settings.revision
                        /\ \A j \in 1..i : settingsAnswers'[j].kind # "Failed" =>
                              settingsAnswers'[i].settings.revision >= settingsAnswers'[j].settings.revision
      BY <1>1, <1>3, <2>1 DEF AnswersAdvance, SettingsTypeOK
    <3>1. /\ i + 1 \in DOMAIN settingsAnswers /\ settingsAnswers'[i] = settingsAnswers[i + 1] /\ i \in Nat
          /\ 1 \in 1..(i + 1) /\ settingsAnswers[1] = answer
          /\ \A j \in 1..i : j + 1 \in 1..(i + 1) /\ settingsAnswers'[j] = settingsAnswers[j + 1]
      BY <1>1, <1>2
    <3> QED BY <1>6, <3>1 DEF SettingsInvariant, AnswersAdvance
  <2> QED BY <1>3, <1>4, <2>3, <2>4, <2>5 DEF SettingsInvariant
<1> QED BY <1>5, <1>6

\* Every step of the server and of the devices keeps the invariant.
LEMMA SettingsStep == SettingsInvariant /\ [SettingsNext]_settingsVars => SettingsInvariant'
<1> SUFFICES ASSUME SettingsInvariant, [SettingsNext]_settingsVars PROVE SettingsInvariant'
  OBVIOUS
<1>1. CASE updateSettingsConflict
  BY <1>1, RequestFailureKeeps DEF updateSettingsConflict, Received
<1>2. CASE SettingsRequestFails
  BY <1>2, RequestFailureKeeps DEF SettingsRequestFails
<1>3. CASE UNCHANGED settingsVars
  BY <1>3 DEF settingsVars, SettingsInvariant, SettingsTypeOK, SettingsHistory, PagesAreConfirmed,
              RequestsHaveABasis, AnswersAdvance, Known, Stored, StoredAs, HasSettings
<1> QED BY <1>1, <1>2, <1>3, GetKeeps, SettingsUpdateKeeps, ResetKeeps, SignInKeeps, DeviceKeeps, ReceiveKeeps
        DEF SettingsNext

\* The invariant holds in every reachable state.
LEMMA SettingsAlwaysSound == SettingsSpec => []SettingsInvariant
BY SettingsStart, SettingsStep, PTL DEF SettingsSpec

\* Row and audit tell one story of all devices (SettingsHaveOneHistory), for every set of
\* devices and every order of requests and answers.
THEOREM SettingsAlwaysHaveOneHistory == SettingsSpec => []SettingsHaveOneHistory
<1>1. SettingsInvariant => SettingsHaveOneHistory
  <2> SUFFICES ASSUME SettingsInvariant PROVE SettingsHaveOneHistory
    OBVIOUS
  <2>1. settingsEvents \in Seq(SettingsEvent) /\ settingsRow.revision \in Nat
    BY DEF SettingsInvariant, SettingsTypeOK, SettingsProfile
  <2>2. settingsEvents # << >> => settingsRow = settingsEvents[Len(settingsEvents)].to
    <3> SUFFICES ASSUME settingsEvents # << >> PROVE settingsRow = settingsEvents[Len(settingsEvents)].to
      OBVIOUS
    <3>1. /\ Stored(settingsRow) /\ Len(settingsEvents) = settingsRow.revision - 1
      BY DEF SettingsInvariant, SettingsHistory
    <3>2. settingsRow.revision # 1
      BY <2>1, <3>1
    <3> QED BY <3>1, <3>2 DEF Stored, StoredAs
  <2> QED BY <2>1, <2>2 DEF SettingsInvariant, SettingsHistory, SettingsHaveOneHistory, StoredAs,
                            validUserSettings
<1> QED BY <1>1, SettingsAlwaysSound, PTL

\* A change is committed only over the profile its device was shown (updateSettings,
\* resetSettings), for every set of devices.
THEOREM OthersAreNeverOverwritten == SettingsSpec => OthersAreNotOverwritten
<1>1. ASSUME SettingsInvariant, [SettingsNext]_settingsVars, settingsEvents' # settingsEvents
      PROVE  Head(settingsRequests).basis = EnsuredRow
  <2> DEFINE request == Head(settingsRequests)
  <2>1. /\ settingsRequests # << >>
        /\ \/ request.kind = "Update" /\ request.settings.revision = EnsuredRow.revision
           \/ request.kind = "Reset" /\ HasSettings /\ request.revision = settingsRow.revision
    BY <1>1 DEF SettingsNext, settingsVars, handleSettingsGet, updateSettings, updateSettingsConflict,
        resetSettings, SettingsRequestFails, SettingsLinkLost, ReceiveSettings, SettingsSignIn,
        updateSetting, applyAppearancePreset, resetAppearanceSettings, resetAllSettings,
        refreshSettings, Edit, SendSettings, Received
  <2>2. 1 \in DOMAIN settingsRequests /\ request = settingsRequests[1]
    BY <1>1, <2>1 DEF SettingsInvariant, SettingsTypeOK
  <2> HIDE DEF request
  <2>3. Stored(request.basis) /\ request.basis.revision = EnsuredRow.revision
    BY <1>1, <2>1, <2>2, EnsuredRowIsStored DEF SettingsInvariant, RequestsHaveABasis
  <2>4. EnsuredRow = StoredAs(EnsuredRow.revision)
    BY <1>1, EnsuredRowIsStored
  <2> QED BY <2>3, <2>4 DEF Stored, request
<1>2. SettingsInvariant /\ [SettingsNext]_settingsVars
         => [settingsEvents' # settingsEvents => Head(settingsRequests).basis = EnsuredRow]_settingsVars
  BY <1>1
<1> QED BY <1>2, SettingsAlwaysSound, PTL DEF SettingsSpec, OthersAreNotOverwritten

\* What a device shows as confirmed is what was stored and never turns back, through
\* failures and new logins.
THEOREM ShownSettingsAlwaysAdvance == SettingsSpec => ShownSettingsAdvance
<1> DEFINE Advances ==
        \A d \in Device : confirmedSettings'[d] # confirmedSettings[d] =>
          /\ confirmedSettings'[d].revision > confirmedSettings[d].revision
          /\ confirmedSettings'[d] \in {Defaults(1)} \cup {settingsEvents[k].to : k \in DOMAIN settingsEvents}
<1>1. ASSUME SettingsInvariant, [SettingsNext]_settingsVars, NEW d \in Device,
             confirmedSettings'[d] # confirmedSettings[d]
      PROVE  /\ confirmedSettings'[d].revision > confirmedSettings[d].revision
             /\ confirmedSettings'[d] \in {Defaults(1)} \cup {settingsEvents[k].to : k \in DOMAIN settingsEvents}
  <2> DEFINE answer == Head(settingsAnswers)
  <2>1. ReceiveSettings
    BY <1>1 DEF SettingsNext, settingsVars, handleSettingsGet, updateSettings, updateSettingsConflict,
        resetSettings, SettingsRequestFails, SettingsLinkLost, SettingsSignIn, AnswerSettings, Commit,
        updateSetting, applyAppearancePreset, resetAppearanceSettings, resetAllSettings,
        refreshSettings, Edit, SendSettings
  <2>2. /\ SettingsTypeOK /\ settingsAnswers # << >> /\ answer.kind # "Failed"
        /\ confirmedSettings' = [confirmedSettings EXCEPT ![signedIn] = answer.settings]
    BY <1>1, <2>1 DEF SettingsInvariant, ReceiveSettings, applySettings
  <2>3. d = signedIn /\ confirmedSettings'[d] = answer.settings
    BY <1>1, <2>2 DEF SettingsTypeOK
  <2>4. 1 \in DOMAIN settingsAnswers /\ answer = settingsAnswers[1]
    BY <2>2 DEF SettingsTypeOK
  <2> HIDE DEF answer
  <2>5. Stored(answer.settings) /\ answer.settings.revision >= confirmedSettings[d].revision
        /\ Known(confirmedSettings[d])
    BY <1>1, <2>2, <2>3, <2>4 DEF SettingsInvariant, AnswersAdvance, PagesAreConfirmed
  <2>6. /\ answer.settings.revision \in 1..settingsRow.revision /\ settingsRow.revision \in Nat
        /\ confirmedSettings[d].revision \in Nat /\ NoSettings.revision = 0
        /\ Len(settingsEvents) = settingsRow.revision - 1 /\ settingsEvents \in Seq(SettingsEvent)
    <3>1. settingsRow.revision \in Nat /\ answer.settings.revision \in 1..settingsRow.revision
      BY <2>2, <2>5 DEF SettingsTypeOK, SettingsProfile, Stored
    <3>2. HasSettings
      BY <3>1 DEF HasSettings
    <3> QED BY <1>1, <2>2, <3>1, <3>2 DEF SettingsInvariant, SettingsHistory, SettingsTypeOK,
              SettingsProfile, NoSettings, Profile
  <2>7. answer.settings.revision # confirmedSettings[d].revision
    BY <1>1, <2>3, <2>5, <2>6, StoredOnce DEF Known
  <2>8. answer.settings.revision > confirmedSettings[d].revision
    BY <2>5, <2>6, <2>7
  <2>9. answer.settings = Defaults(1)
        \/ \E k \in DOMAIN settingsEvents : answer.settings = settingsEvents[k].to
    <3>1. answer.settings.revision # 1 => answer.settings.revision - 1 \in DOMAIN settingsEvents
      BY <2>6
    <3> QED BY <2>5, <3>1 DEF Stored, StoredAs
  <2> QED BY <2>3, <2>8, <2>9
<1>2. SettingsInvariant /\ [SettingsNext]_settingsVars => [Advances]_settingsVars
  BY <1>1
<1> QED BY <1>2, SettingsAlwaysSound, PTL DEF SettingsSpec, ShownSettingsAdvance

----------------------------------------------------------------------------
\* Notifications.


NoticeStatus == 0..4
NoticeRecord == [category : NoticeCategory, status : NoticeStatus, read : BOOLEAN,
                 processed : BOOLEAN, ignored : BOOLEAN]
NoticeEntry == [action : 1..3, from : NoticeStatus, to : NoticeStatus]

\* A queue of frames of any shape.
IsQueue(s) == s \in Seq({s[i] : i \in DOMAIN s})

NoticesTypeOK ==
    /\ notices \in Seq(NoticeRecord)
    /\ noticeAudit \in Seq(Seq(NoticeEntry)) /\ DOMAIN noticeAudit = DOMAIN notices
    /\ IsQueue(noticeRequests)
    /\ \A i \in DOMAIN noticeRequests :
          noticeRequests[i].kind = "Status" => noticeRequests[i].action \in 1..3

\* What a row and its audit say.
OneHistory(row, events) ==
    /\ \A k \in DOMAIN events : k > 1 => events[k].from = events[k - 1].to
    /\ events # << >> => events[Len(events)].to = row.status
    /\ \A k \in DOMAIN events : events[k].from = 4 => events[k].to = 4
    /\ row.read <=> row.status # 0
    /\ \A k \in DOMAIN events : events[k].to = 2 => row.processed

NoticesInvariant ==
    NoticesTypeOK /\ \A i \in NoticeRow : OneHistory(notices[i], noticeAudit[i])

\* Appending to a queue gives a queue of the old elements and, behind them, the new one.
LEMMA QueueGrows ==
    ASSUME NEW s, IsQueue(s), NEW x
    PROVE  /\ IsQueue(Append(s, x))
           /\ DOMAIN s = 1..Len(s) /\ Len(s) \in Nat /\ DOMAIN Append(s, x) = 1..(Len(s) + 1)
           /\ Append(s, x)[Len(s) + 1] = x /\ \A i \in DOMAIN s : Append(s, x)[i] = s[i]
           /\ \A i \in DOMAIN Append(s, x) : \/ i \in DOMAIN s /\ Append(s, x)[i] = s[i]
                                             \/ Append(s, x)[i] = x
<1> DEFINE T == {s[i] : i \in DOMAIN s} \cup {x}
           later == Append(s, x)
<1>1. s \in Seq(T) /\ x \in T
  BY DEF IsQueue
<1> HIDE DEF T
<1>2. /\ later \in Seq(T) /\ Len(later) = Len(s) + 1
      /\ \A i \in 1..Len(s) : later[i] = s[i]
      /\ later[Len(s) + 1] = x
  BY <1>1, AppendProperties
<1> HIDE DEF later
<1>3. DOMAIN s = 1..Len(s) /\ DOMAIN later = 1..(Len(s) + 1) /\ Len(s) \in Nat
  BY <1>1, <1>2
<1>4. \A i \in DOMAIN later : (i \in DOMAIN s /\ later[i] = s[i]) \/ later[i] = x
  BY <1>2, <1>3
<1>5. IsQueue(later)
  BY <1>2 DEF IsQueue
<1> QED BY <1>2, <1>3, <1>4, <1>5 DEF later

\* Taking the head off a queue moves the others up.
LEMMA QueueShrinks ==
    ASSUME NEW s, IsQueue(s), s # << >>
    PROVE  /\ IsQueue(Tail(s)) /\ 1 \in DOMAIN s /\ Head(s) = s[1]
           /\ DOMAIN s = 1..Len(s) /\ Len(s) \in Nat /\ DOMAIN Tail(s) = 1..(Len(s) - 1)
           /\ \A i \in DOMAIN Tail(s) : i + 1 \in DOMAIN s /\ Tail(s)[i] = s[i + 1]
<1> DEFINE T == {s[i] : i \in DOMAIN s}
           later == Tail(s)
<1>1. s \in Seq(T)
  BY DEF IsQueue
<1> HIDE DEF T
<1>2. /\ later \in Seq(T) /\ Len(later) = Len(s) - 1
      /\ \A i \in 1..Len(later) : later[i] = s[i + 1]
  BY <1>1, HeadTailProperties
<1> HIDE DEF later
<1>3. DOMAIN s = 1..Len(s) /\ DOMAIN later = 1..(Len(s) - 1) /\ Len(s) \in Nat /\ Len(s) # 0
  BY <1>1, <1>2
<1>4. \A i \in DOMAIN later : i + 1 \in DOMAIN s /\ later[i] = s[i + 1]
  BY <1>2, <1>3
<1>5. IsQueue(later)
  BY <1>2 DEF IsQueue
<1>6. 1 \in DOMAIN s /\ Head(s) = s[1]
  BY <1>1, <1>3
<1> QED BY <1>3, <1>4, <1>5, <1>6 DEF later

\* The table without notices satisfies the invariant.
LEMMA NoticesStart == NoticesInit => NoticesInvariant
<1> SUFFICES ASSUME NoticesInit PROVE NoticesInvariant
  OBVIOUS
<1> DEFINE request == ListRequest(0, FALSE, 0, FALSE)
<1>1. /\ notices = << >> /\ noticeAudit = << >> /\ noticeRequests = << request >>
      /\ request.kind = "List"
  BY DEF NoticesInit, ListRequest
<1> HIDE DEF request
<1>2. /\ << request >> \in Seq({request}) /\ DOMAIN << request >> = {1} /\ << request >>[1] = request
  BY Z3
<1>3. IsQueue(noticeRequests)
      /\ \A i \in DOMAIN noticeRequests : noticeRequests[i].kind = "List"
  BY <1>1, <1>2 DEF IsQueue
<1> QED BY <1>1, <1>3 DEF NoticesInvariant, NoticesTypeOK, NoticeRow

\* One entry more: the row goes where the entry says, and only forward.
LEMMA HistoryGoesOn ==
    ASSUME NEW row \in NoticeRecord, NEW events \in Seq(NoticeEntry), OneHistory(row, events),
           NEW next \in NoticeRecord, NEW entry \in NoticeEntry,
           entry.from = row.status, entry.to = next.status,
           row.status = 4 => next.status = 4,
           next.read <=> next.status # 0,
           row.processed \/ next.status = 2 => next.processed
    PROVE  Append(events, entry) \in Seq(NoticeEntry) /\ OneHistory(next, Append(events, entry))
<1> DEFINE n == Len(events)
           later == Append(events, entry)
<1>1. /\ later \in Seq(NoticeEntry) /\ Len(later) = n + 1
      /\ \A k \in 1..n : later[k] = events[k]
      /\ later[n + 1] = entry
  BY AppendProperties
<1>2. n \in Nat /\ DOMAIN events = 1..n
  OBVIOUS
<1> HIDE DEF n, later
<1>3. DOMAIN later = 1..(n + 1)
  BY <1>1, <1>2
<1>4. \A k \in 1..(n + 1) : k \in 1..n \/ k = n + 1
  BY <1>2
<1>5. \A k \in 1..(n + 1) : k > 1 => later[k].from = later[k - 1].to
  <2> SUFFICES ASSUME NEW k \in 1..(n + 1), k > 1 PROVE later[k].from = later[k - 1].to
    OBVIOUS
  <2>1. k - 1 \in 1..n /\ later[k - 1] = events[k - 1]
    BY <1>1, <1>2
  <2>2. CASE k \in 1..n
    BY <1>1, <1>2, <2>1, <2>2 DEF OneHistory
  <2>3. CASE k = n + 1
    <3>1. k - 1 = n /\ events # << >>
      BY <1>2, <2>1, <2>3
    <3>2. events[n].to = row.status
      BY <3>1 DEF OneHistory, n
    <3> QED BY <1>1, <2>1, <2>3, <3>1, <3>2
  <2> QED BY <1>4, <2>2, <2>3
<1>6. \A k \in 1..(n + 1) : later[k].from = 4 => later[k].to = 4
  BY <1>1, <1>2, <1>4 DEF OneHistory
<1>7. \A k \in 1..(n + 1) : later[k].to = 2 => next.processed
  BY <1>1, <1>2, <1>4 DEF OneHistory
<1>8. later[Len(later)].to = next.status
  BY <1>1
<1>9. OneHistory(next, later)
  BY <1>3, <1>5, <1>6, <1>7, <1>8 DEF OneHistory
<1> QED BY <1>1, <1>9 DEF later

\* A function on 1..n is a sequence.
LEMMA FunctionIsSeq ==
    ASSUME NEW T, NEW n \in Nat, NEW s \in [1..n -> T] PROVE s \in Seq(T)
BY SeqDef

\* Rows are changed together with their audit, or not at all.
LEMMA RowsKeep ==
    ASSUME NoticesInvariant,
           \A i \in NoticeRow : \/ notices'[i] = notices[i] /\ noticeAudit'[i] = noticeAudit[i]
                                \/ /\ notices'[i] \in NoticeRecord
                                   /\ noticeAudit'[i] \in Seq(NoticeEntry)
                                   /\ OneHistory(notices'[i], noticeAudit'[i]),
           notices' = [i \in NoticeRow |-> notices'[i]],
           noticeAudit' = [i \in NoticeRow |-> noticeAudit'[i]]
    PROVE  /\ notices' \in Seq(NoticeRecord) /\ noticeAudit' \in Seq(Seq(NoticeEntry))
           /\ DOMAIN noticeAudit' = DOMAIN notices'
           /\ \A i \in DOMAIN notices' : OneHistory(notices'[i], noticeAudit'[i])
<1>1. /\ notices \in Seq(NoticeRecord) /\ noticeAudit \in Seq(Seq(NoticeEntry))
      /\ DOMAIN noticeAudit = NoticeRow /\ NoticeRow = 1..Len(notices) /\ Len(notices) \in Nat
  BY DEF NoticesInvariant, NoticesTypeOK, NoticeRow
<1>2. /\ \A i \in NoticeRow : notices[i] \in NoticeRecord
      /\ \A i \in NoticeRow : noticeAudit[i] \in Seq(NoticeEntry)
  BY <1>1
<1>3. ASSUME NEW i \in NoticeRow
      PROVE  /\ notices'[i] \in NoticeRecord /\ noticeAudit'[i] \in Seq(NoticeEntry)
             /\ OneHistory(notices'[i], noticeAudit'[i])
  BY <1>2 DEF NoticesInvariant
<1>4. notices' \in [1..Len(notices) -> NoticeRecord]
      /\ noticeAudit' \in [1..Len(notices) -> Seq(NoticeEntry)]
  BY <1>1, <1>3
<1>5. notices' \in Seq(NoticeRecord) /\ noticeAudit' \in Seq(Seq(NoticeEntry))
  <2> DEFINE E == Seq(NoticeEntry)
  <2> HIDE DEF E
  <2>1. notices' \in Seq(NoticeRecord)
    BY <1>1, <1>4, FunctionIsSeq
  <2>2. noticeAudit' \in Seq(E)
    BY <1>1, <1>4, FunctionIsSeq DEF E
  <2> QED BY <2>1, <2>2 DEF E
<1> QED BY <1>1, <1>3, <1>4, <1>5

\* updateNotificationStatus appends to the audit of the notice it changes, and
\* to no other.
LEMMA StatusKeeps ==
    ASSUME NoticesInvariant, NEW j, NEW action \in 1..3, updateNotificationStatus(j, action)
    PROVE  /\ notices' \in Seq(NoticeRecord) /\ noticeAudit' \in Seq(Seq(NoticeEntry))
           /\ DOMAIN noticeAudit' = DOMAIN notices'
           /\ \A i \in DOMAIN notices' : OneHistory(notices'[i], noticeAudit'[i])
<1> DEFINE previous == notices[j].status
           resulting == IF previous = 4 THEN 4 ELSE action
           next == [notices[j] EXCEPT !.status = resulting, !.read = TRUE,
                                      !.processed = @ \/ resulting = 2, !.ignored = @ \/ resulting = 3]
           entry == NoticeEvent(action, previous, resulting)
<1>1. /\ notices' = [notices EXCEPT ![j] = next]
      /\ noticeAudit' = [noticeAudit EXCEPT ![j] = Append(@, entry)]
  BY DEF updateNotificationStatus
<1>2. /\ notices \in Seq(NoticeRecord) /\ noticeAudit \in Seq(Seq(NoticeEntry))
      /\ DOMAIN noticeAudit = NoticeRow /\ DOMAIN notices = NoticeRow
      /\ \A i \in NoticeRow : OneHistory(notices[i], noticeAudit[i])
  BY DEF NoticesInvariant, NoticesTypeOK, NoticeRow
<1>3. CASE j \in NoticeRow
  <2>1. /\ notices[j] \in NoticeRecord /\ noticeAudit[j] \in Seq(NoticeEntry)
        /\ OneHistory(notices[j], noticeAudit[j])
    BY <1>2, <1>3
  <2>2. previous \in NoticeStatus /\ resulting \in NoticeStatus /\ resulting # 0 /\ action \in NoticeStatus
    BY <2>1 DEF NoticeRecord, NoticeStatus
  <2>3. entry \in NoticeEntry /\ entry.from = previous /\ entry.to = resulting
    BY <2>2 DEF NoticeEntry, NoticeEvent
  <2>4. previous = 4 => resulting = 4
    OBVIOUS
  <2> DEFINE processed == notices[j].processed \/ resulting = 2
             ignored == notices[j].ignored \/ resulting = 3
  <2>5. processed \in BOOLEAN /\ ignored \in BOOLEAN
    BY DEF processed, ignored
  <2>6. next = [notices[j] EXCEPT !.status = resulting, !.read = TRUE, !.processed = processed,
                                  !.ignored = ignored]
    BY DEF next, processed, ignored
  <2>7. notices[j].processed \/ resulting = 2 => processed
    BY DEF processed
  <2> HIDE DEF resulting, processed, ignored, next, entry
  <2>8. /\ next \in NoticeRecord /\ next.status = resulting /\ next.read /\ next.processed = processed
    BY <2>1, <2>2, <2>5, <2>6 DEF NoticeRecord
  <2>9. /\ Append(noticeAudit[j], entry) \in Seq(NoticeEntry)
        /\ OneHistory(next, Append(noticeAudit[j], entry))
    BY <2>1, <2>2, <2>3, <2>4, <2>7, <2>8, HistoryGoesOn
  <2>10. notices'[j] = next /\ noticeAudit'[j] = Append(noticeAudit[j], entry)
    BY <1>1, <1>2, <1>3
  <2>11. \A i \in NoticeRow \ {j} : notices'[i] = notices[i] /\ noticeAudit'[i] = noticeAudit[i]
    BY <1>1, <1>2
  <2>12. notices' = [i \in NoticeRow |-> notices'[i]] /\ noticeAudit' = [i \in NoticeRow |-> noticeAudit'[i]]
    BY <1>1, <1>2
  <2> QED BY <2>8, <2>9, <2>10, <2>11, <2>12, RowsKeep
<1>4. CASE j \notin NoticeRow
  <2>1. notices' = notices /\ noticeAudit' = noticeAudit
    BY <1>1, <1>2, <1>4
  <2> QED BY <1>2, <2>1
<1> QED BY <1>3, <1>4

\* markAllNotificationsRead appends one entry to the audit of each notice it
\* marks.
LEMMA AllReadKeeps ==
    ASSUME NoticesInvariant, NEW category, markAllNotificationsRead(category)
    PROVE  /\ notices' \in Seq(NoticeRecord) /\ noticeAudit' \in Seq(Seq(NoticeEntry))
           /\ DOMAIN noticeAudit' = DOMAIN notices'
           /\ \A i \in DOMAIN notices' : OneHistory(notices'[i], noticeAudit'[i])
<1> DEFINE entry == NoticeEvent(1, 0, 1)
           next(i) == [notices[i] EXCEPT !.status = 1, !.read = TRUE]
<1>1. /\ \A i \in NoticeRow :
            \/ notices'[i] = notices[i] /\ noticeAudit'[i] = noticeAudit[i]
            \/ /\ notices[i].status = 0 /\ notices'[i] = next(i)
               /\ noticeAudit'[i] = Append(noticeAudit[i], entry)
      /\ notices' = [i \in NoticeRow |-> notices'[i]]
      /\ noticeAudit' = [i \in NoticeRow |-> noticeAudit'[i]]
  BY DEF markAllNotificationsRead, ReadCandidates
<1>2. /\ notices \in Seq(NoticeRecord) /\ noticeAudit \in Seq(Seq(NoticeEntry))
      /\ DOMAIN noticeAudit = NoticeRow /\ DOMAIN notices = NoticeRow
      /\ \A i \in NoticeRow : OneHistory(notices[i], noticeAudit[i])
  BY DEF NoticesInvariant, NoticesTypeOK, NoticeRow
<1>3. entry \in NoticeEntry /\ entry.from = 0 /\ entry.to = 1
  BY DEF NoticeEntry, NoticeEvent, NoticeStatus
<1>4. ASSUME NEW i \in NoticeRow, notices[i].status = 0
      PROVE  /\ next(i) \in NoticeRecord /\ Append(noticeAudit[i], entry) \in Seq(NoticeEntry)
             /\ OneHistory(next(i), Append(noticeAudit[i], entry))
  <2>1. /\ notices[i] \in NoticeRecord /\ noticeAudit[i] \in Seq(NoticeEntry)
        /\ OneHistory(notices[i], noticeAudit[i])
    BY <1>2
  <2>2. 1 \in NoticeStatus
    BY DEF NoticeStatus
  <2>3. /\ next(i) \in NoticeRecord /\ next(i).status = 1 /\ next(i).read
        /\ next(i).processed = notices[i].processed
    BY <2>1, <2>2 DEF NoticeRecord
  <2> HIDE DEF next, entry
  <2> QED BY <1>3, <1>4, <2>1, <2>3, HistoryGoesOn
<1> HIDE DEF next, entry
<1>5. \A i \in NoticeRow : \/ notices'[i] = notices[i] /\ noticeAudit'[i] = noticeAudit[i]
                           \/ /\ notices'[i] \in NoticeRecord
                              /\ noticeAudit'[i] \in Seq(NoticeEntry)
                              /\ OneHistory(notices'[i], noticeAudit'[i])
  BY <1>1, <1>4
<1> QED BY <1>1, <1>5, RowsKeep

\* A new notice starts with an empty history.
LEMMA InsertKeeps ==
    ASSUME NoticesInvariant, NEW category \in NoticeCategory, NEW status \in {0, 4},
           InsertNotice(category, status)
    PROVE  /\ notices' \in Seq(NoticeRecord) /\ noticeAudit' \in Seq(Seq(NoticeEntry))
           /\ DOMAIN noticeAudit' = DOMAIN notices'
           /\ \A i \in DOMAIN notices' : OneHistory(notices'[i], noticeAudit'[i])
<1> DEFINE row == [category |-> category, status |-> status, read |-> status # 0,
                   processed |-> FALSE, ignored |-> FALSE]
           none == << >>
<1>1. /\ notices \in Seq(NoticeRecord) /\ noticeAudit \in Seq(Seq(NoticeEntry))
      /\ DOMAIN noticeAudit = DOMAIN notices
      /\ \A i \in DOMAIN notices : OneHistory(notices[i], noticeAudit[i])
      /\ notices' = Append(notices, row) /\ noticeAudit' = Append(noticeAudit, none)
  BY DEF NoticesInvariant, NoticesTypeOK, NoticeRow, InsertNotice
<1>2. row \in NoticeRecord /\ (row.read <=> row.status # 0)
  <2> DEFINE read == status # 0
  <2>1. read \in BOOLEAN /\ status \in NoticeStatus /\ (read <=> status # 0)
    BY DEF NoticeStatus
  <2>2. row = [category |-> category, status |-> status, read |-> read,
               processed |-> FALSE, ignored |-> FALSE]
    OBVIOUS
  <2> HIDE DEF read, row
  <2> QED BY <2>1, <2>2 DEF NoticeRecord
<1>3. none \in Seq(NoticeEntry) /\ OneHistory(row, none)
  BY <1>2 DEF OneHistory
<1> DEFINE E == Seq(NoticeEntry)
<1> HIDE DEF row, none, E
<1>4. /\ notices' \in Seq(NoticeRecord) /\ Len(notices') = Len(notices) + 1
      /\ \A i \in 1..Len(notices) : notices'[i] = notices[i]
      /\ notices'[Len(notices) + 1] = row
  BY <1>1, <1>2, AppendProperties
<1>5. /\ noticeAudit' \in Seq(E) /\ Len(noticeAudit') = Len(noticeAudit) + 1
      /\ \A i \in 1..Len(noticeAudit) : noticeAudit'[i] = noticeAudit[i]
      /\ noticeAudit'[Len(noticeAudit) + 1] = none
  BY <1>1, <1>3, AppendProperties DEF E
<1>6. /\ Len(notices) \in Nat /\ DOMAIN notices = 1..Len(notices)
      /\ Len(noticeAudit) = Len(notices) /\ DOMAIN noticeAudit' = DOMAIN notices'
      /\ DOMAIN notices' = 1..(Len(notices) + 1)
  <2>1. /\ Len(notices) \in Nat /\ DOMAIN notices = 1..Len(notices)
        /\ Len(noticeAudit) \in Nat /\ DOMAIN noticeAudit = 1..Len(noticeAudit)
        /\ DOMAIN notices' = 1..Len(notices') /\ DOMAIN noticeAudit' = 1..Len(noticeAudit')
    BY <1>1, <1>4, <1>5, LenProperties
  <2>2. Len(noticeAudit) = Len(notices)
    BY <1>1, <2>1
  <2> QED BY <1>4, <1>5, <2>1, <2>2
<1> QED BY <1>1, <1>3, <1>4, <1>5, <1>6 DEF E

\* The frames to the gateway: what is asked last is added, what is answered goes.
QueueStep ==
    \/ noticeRequests' = noticeRequests
    \/ noticeRequests # << >> /\ noticeRequests' = Tail(noticeRequests)
    \/ \E request : /\ request.kind = "Status" => request.action \in 1..3
                    /\ noticeRequests' = Append(noticeRequests, request)

\* A request put into or taken off the queue leaves requests of known actions.
LEMMA QueueKeeps ==
    ASSUME NoticesInvariant, QueueStep
    PROVE  /\ IsQueue(noticeRequests)'
           /\ \A i \in DOMAIN noticeRequests' :
                 noticeRequests'[i].kind = "Status" => noticeRequests'[i].action \in 1..3
<1>1. IsQueue(noticeRequests)
      /\ \A i \in DOMAIN noticeRequests :
            noticeRequests[i].kind = "Status" => noticeRequests[i].action \in 1..3
  BY DEF NoticesInvariant, NoticesTypeOK
<1>2. CASE noticeRequests' = noticeRequests
  BY <1>1, <1>2 DEF IsQueue
<1>3. CASE noticeRequests # << >> /\ noticeRequests' = Tail(noticeRequests)
  BY <1>1, <1>3, QueueShrinks DEF IsQueue
<1>4. ASSUME NEW request, request.kind = "Status" => request.action \in 1..3,
             noticeRequests' = Append(noticeRequests, request)
      PROVE  /\ IsQueue(noticeRequests)'
             /\ \A i \in DOMAIN noticeRequests' :
                   noticeRequests'[i].kind = "Status" => noticeRequests'[i].action \in 1..3
  BY <1>1, <1>4, QueueGrows DEF IsQueue
<1> QED BY <1>2, <1>3, <1>4 DEF QueueStep

\* A step of the page or of an answer: the rows stay.
LEMMA RowsStay ==
    ASSUME NoticesInvariant, UNCHANGED << notices, noticeAudit >>, QueueStep
    PROVE  NoticesInvariant'
BY QueueKeeps DEF NoticesInvariant, NoticesTypeOK, NoticeRow, OneHistory

\* Every transaction on the notices keeps the invariant.
LEMMA RowsChange ==
    ASSUME NoticesInvariant, QueueStep,
           \/ \E i : \E action \in 1..3 : updateNotificationStatus(i, action)
           \/ \E category : markAllNotificationsRead(category)
           \/ \E category \in NoticeCategory, status \in {0, 4} : InsertNotice(category, status)
    PROVE  NoticesInvariant'
<1>1. /\ notices' \in Seq(NoticeRecord) /\ noticeAudit' \in Seq(Seq(NoticeEntry))
      /\ DOMAIN noticeAudit' = DOMAIN notices'
      /\ \A i \in DOMAIN notices' : OneHistory(notices'[i], noticeAudit'[i])
  BY StatusKeeps, AllReadKeeps, InsertKeeps
<1>2. NoticesTypeOK'
  BY <1>1, QueueKeeps DEF NoticesTypeOK
<1> QED BY <1>1, <1>2 DEF NoticesInvariant, NoticeRow, OneHistory

\* Every step of the server and of the client keeps the invariant.
LEMMA NoticesStep == NoticesInvariant /\ [NoticesNext]_noticeVars => NoticesInvariant'
<1> SUFFICES ASSUME NoticesInvariant, [NoticesNext]_noticeVars PROVE NoticesInvariant'
  OBVIOUS
<1>1. ASSUME NEW category \in NoticeCategory, NEW status \in {0, 4}, InsertNotice(category, status)
      PROVE  NoticesInvariant'
  BY <1>1, RowsChange DEF InsertNotice, QueueStep
<1>2. CASE OtherDevice
  BY <1>2, RowsChange DEF OtherDevice, QueueStep
<1>3. CASE handleNotificationList \/ NoticeRequestFails
  BY <1>3, RowsStay DEF handleNotificationList, NoticeRequestFails, AnswerNotice, QueueStep
<1>4. CASE handleNotificationStatus
  <2> DEFINE request == Head(noticeRequests)
  <2>1. /\ noticeRequests # << >> /\ request.kind = "Status" /\ QueueStep
        /\ updateNotificationStatus(request.notification, request.action)
    BY <1>4 DEF handleNotificationStatus, AnswerNotice, QueueStep
  <2>2. request.action \in 1..3
    BY <2>1, QueueShrinks DEF NoticesInvariant, NoticesTypeOK
  <2> HIDE DEF request
  <2> QED BY <2>1, <2>2, RowsChange
<1>5. CASE handleNotificationMarkAllRead
  BY <1>5, RowsChange DEF handleNotificationMarkAllRead, AnswerNotice, QueueStep
<1>6. ASSUME NEW request, request.kind = "List", noticeRequests' = Append(noticeRequests, request),
             UNCHANGED << notices, noticeAudit >>
      PROVE  NoticesInvariant'
  BY <1>6, RowsStay DEF QueueStep
<1>7. CASE refreshNotifications
  BY <1>6, <1>7 DEF refreshNotifications, Ask, ListRequest, TableUnchanged
<1>8. ASSUME NEW category, NEW unreadOnly, loadNotifications(category, unreadOnly, 0)
      PROVE  NoticesInvariant'
  BY <1>6, <1>8 DEF loadNotifications, Ask, ListRequest, TableUnchanged
<1>9. CASE loadMoreNotifications
  BY <1>6, <1>9 DEF loadMoreNotifications, Ask, ListRequest, TableUnchanged
<1>10. CASE markNotifications
  <2>1. UNCHANGED << notices, noticeAudit >>
    BY <1>10 DEF markNotifications, TableUnchanged
  <2>2. QueueStep
    <3>1. ASSUME NEW i, Ask([kind |-> "Status", notification |-> i, action |-> 1]) PROVE QueueStep
      BY <3>1 DEF Ask, QueueStep
    <3>2. ASSUME NEW query, Ask([kind |-> "AllRead", category |-> query[1]]) PROVE QueueStep
      BY <3>2 DEF Ask, QueueStep
    <3> QED BY <1>10, <3>1, <3>2 DEF markNotifications
  <2> QED BY <2>1, <2>2, RowsStay
<1>11. CASE notificationChanged
  BY <1>6, <1>11 DEF notificationChanged, ListRequest, TableUnchanged
<1>12. CASE notificationListReady \/ notificationOperationFailed \/ UNCHANGED noticeVars
  BY <1>12, RowsStay DEF notificationListReady, notificationOperationFailed, noticeVars,
                         TableUnchanged, QueueStep
<1> QED BY <1>1, <1>2, <1>3, <1>4, <1>5, <1>7, <1>8, <1>9, <1>10, <1>11, <1>12 DEF NoticesNext

\* The state of every notice is the one its audit entries lead to, step by step,
\* for every number of notices and every order of requests.
THEOREM NoticesAlwaysHaveOneHistory == NoticesSpec => []NoticesHaveOneHistory
<1>1. NoticesInvariant => NoticesHaveOneHistory
  BY DEF NoticesInvariant, OneHistory, NoticesHaveOneHistory
<1> QED BY <1>1, NoticesStart, NoticesStep, PTL DEF NoticesSpec

\* The positions of a set of numbers in their order, as Selected chooses them.
LEMMA Ordered ==
    ASSUME NEW n \in Nat, NEW P \in SUBSET (1..n)
    PROVE  /\ Cardinality(P) \in Nat
           /\ \E f \in [1..Cardinality(P) -> P] :
                 \A j, k \in 1..Cardinality(P) : j < k => f[j] < f[k]
<1> DEFINE size == Cardinality(P)
           upTo(i) == {h \in P : h <= i}
           rank == [i \in P |-> Cardinality(upTo(i))]
<1>1. IsFiniteSet(P) /\ size \in Nat
  <2>1. IsFiniteSet(1..n)
    BY FS_Interval
  <2> QED BY <2>1, FS_Subset, FS_CardinalityType
<1>2. ASSUME NEW i \in P
      PROVE  /\ IsFiniteSet(upTo(i)) /\ rank[i] = Cardinality(upTo(i)) /\ rank[i] \in 1..size
  <2>1. upTo(i) \in SUBSET P /\ i \in upTo(i)
    OBVIOUS
  <2>2. IsFiniteSet(upTo(i)) /\ Cardinality(upTo(i)) <= size
    BY <1>1, <2>1, FS_Subset
  <2>3. Cardinality(upTo(i)) \in Nat /\ Cardinality(upTo(i)) # 0
    BY <2>1, <2>2, FS_CardinalityType, FS_EmptySet
  <2> HIDE DEF upTo, size
  <2>4. Cardinality(upTo(i)) \in 1..size
    BY <1>1, <2>2, <2>3
  <2> QED BY <2>2, <2>4
<1>3. ASSUME NEW i \in P, NEW j \in P, i < j
      PROVE  rank[i] < rank[j]
  <2>1. upTo(i) \in SUBSET upTo(j) /\ j \in upTo(j) /\ j \notin upTo(i)
    <3>1. i \in Int /\ j \in Int /\ \A h \in P : h \in Int
      OBVIOUS
    <3>2. \A h \in P : h <= i => h <= j
      BY <1>3, <3>1
    <3>3. j <= j /\ ~(j <= i)
      BY <1>3, <3>1
    <3> QED BY <3>2, <3>3
  <2>2. Cardinality(upTo(i)) <= Cardinality(upTo(j)) /\ Cardinality(upTo(i)) # Cardinality(upTo(j))
    BY <1>2, <2>1, FS_Subset
  <2> HIDE DEF upTo, size
  <2>3. rank[i] <= rank[j] /\ rank[i] # rank[j] /\ rank[i] \in Int /\ rank[j] \in Int
    BY <1>1, <1>2, <2>2
  <2> HIDE DEF rank
  <2> QED BY <2>3
<1>4. rank \in [P -> 1..size]
  BY <1>2
<1> HIDE DEF rank
<1>5. \A i, j \in P : rank[i] = rank[j] => i = j
  <2> SUFFICES ASSUME NEW i \in P, NEW j \in P, rank[i] = rank[j] PROVE i = j
    OBVIOUS
  <2>1. rank[i] \in Int /\ i \in Int /\ j \in Int
    BY <1>1, <1>4
  <2>2. i < j \/ j < i \/ i = j
    BY <2>1
  <2> QED BY <1>3, <2>1, <2>2
<1>6. rank \in Injection(P, 1..size)
  BY <1>4, <1>5 DEF Injection, IsInjective
<1>7. rank \in Surjection(P, 1..size)
  <2>1. IsFiniteSet(1..size) /\ Cardinality(1..size) = size
    BY <1>1, FS_Interval
  <2> QED BY <1>6, <2>1, FS_Injection
<1> DEFINE ranked(k) == CHOOSE i \in P : rank[i] = k
<1>8. \A k \in 1..size : ranked(k) \in P /\ rank[ranked(k)] = k
  BY <1>7 DEF Surjection
<1> HIDE DEF ranked
<1> DEFINE f == [k \in 1..size |-> ranked(k)]
<1>9. f \in [1..size -> P] /\ \A k \in 1..size : f[k] \in P /\ rank[f[k]] = k
  BY <1>8
<1> HIDE DEF f
<1>10. \A j, k \in 1..size : j < k => f[j] < f[k]
  <2> SUFFICES ASSUME NEW j \in 1..size, NEW k \in 1..size, j < k, ~(f[j] < f[k]) PROVE FALSE
    OBVIOUS
  <2>1. f[j] \in P /\ f[k] \in P /\ \A h \in P : h \in Int
    BY <1>9
  <2>2. f[j] \in Int /\ f[k] \in Int
    BY <2>1
  <2>3. f[k] < f[j] \/ f[k] = f[j]
    BY <2>2
  <2>4. rank[f[k]] < rank[f[j]] \/ rank[f[k]] = rank[f[j]]
    BY <1>3, <2>1, <2>3
  <2>5. j \in Int /\ k \in Int /\ rank[f[k]] = k /\ rank[f[j]] = j
    BY <1>1, <1>9
  <2> HIDE DEF size
  <2> QED BY <2>4, <2>5
<1> QED BY <1>1, <1>9, <1>10

\* No two elements of s are equal.
Distinct(s) == \A j, k \in DOMAIN s : s[j] = s[k] => j = k

\* What is selected from a sequence without repetitions is one, of its elements.
LEMMA SelectedIsDistinct ==
    ASSUME NEW T, NEW s \in Seq(T), Distinct(s), NEW P \in SUBSET DOMAIN s
    PROVE  /\ Selected(s, P) \in Seq(T) /\ Distinct(Selected(s, P))
           /\ \A k \in DOMAIN Selected(s, P) : \E i \in P : Selected(s, P)[k] = s[i]
<1> DEFINE size == Cardinality(P)
           Orders(f) == \A j, k \in 1..size : j < k => f[j] < f[k]
           position == CHOOSE f \in [1..size -> P] : Orders(f)
           chosen == [k \in 1..size |-> s[position[k]]]
<1>1. Len(s) \in Nat /\ DOMAIN s = 1..Len(s) /\ \A i \in DOMAIN s : s[i] \in T
  BY LenProperties
<1>2. size \in Nat /\ \E f \in [1..size -> P] : Orders(f)
  BY <1>1, Ordered
<1>3. position \in [1..size -> P] /\ Orders(position)
  BY <1>2
<1>4. Selected(s, P) = chosen
  BY DEF Selected
<1> HIDE DEF position
<1>5. chosen \in [1..size -> T]
  BY <1>1, <1>3
<1>6. chosen \in Seq(T)
  BY <1>2, <1>5, FunctionIsSeq
<1>7. \A j, k \in 1..size : position[j] = position[k] => j = k
  <2> SUFFICES ASSUME NEW j \in 1..size, NEW k \in 1..size, position[j] = position[k] PROVE j = k
    OBVIOUS
  <2>1. position[j] \in Int /\ position[k] \in Int /\ j \in Int /\ k \in Int
    BY <1>1, <1>2, <1>3
  <2>2. (j < k => position[j] < position[k]) /\ (k < j => position[k] < position[j])
    BY <1>3
  <2> QED BY <2>1, <2>2
<1>8. \A k \in 1..size : position[k] \in P /\ position[k] \in DOMAIN s /\ chosen[k] = s[position[k]]
  BY <1>3
<1>9. DOMAIN chosen = 1..size
  OBVIOUS
<1> HIDE DEF chosen
<1>10. Distinct(chosen)
  BY <1>7, <1>8, <1>9 DEF Distinct
<1> QED BY <1>4, <1>6, <1>8, <1>9, <1>10

\* An answer to a list request shows no notification twice.
LEMMA AnswerRowsAreDistinct ==
    ASSUME NEW request, request.offset \in Nat, Len(notices) \in Nat, NoticeRow = 1..Len(notices)
    PROVE  /\ listNotifications(request).rows \in Seq(Int)
           /\ Distinct(listNotifications(request).rows)
<1> DEFINE P == {k \in NoticeRow :
                    /\ OfCategory(notices[NewestFirst[k]], request.category)
                    /\ request.unreadOnly => notices[NewestFirst[k]].status = 0}
           first == request.offset + 1
           last == IF Len(MatchingNotices(request)) < request.offset + PageSize
                     THEN Len(MatchingNotices(request)) ELSE request.offset + PageSize
           rows == SubSeq(MatchingNotices(request), first, last)
<1>1. NewestFirst \in [1..Len(notices) -> Int]
      /\ \A j, k \in 1..Len(notices) : NewestFirst[j] = NewestFirst[k] => j = k
  BY DEF NewestFirst
<1>2. NewestFirst \in Seq(Int) /\ DOMAIN NewestFirst = NoticeRow /\ Distinct(NewestFirst)
  BY <1>1, FunctionIsSeq DEF Distinct
<1>3. P \in SUBSET DOMAIN NewestFirst /\ MatchingNotices(request) = Selected(NewestFirst, P)
  BY <1>2 DEF MatchingNotices
<1> HIDE DEF P
<1> DEFINE found == MatchingNotices(request)
<1>4. found \in Seq(Int) /\ Distinct(found)
  BY <1>2, <1>3, SelectedIsDistinct
<1> HIDE DEF found
<1>5. /\ Len(found) \in Nat /\ DOMAIN found = 1..Len(found) /\ \A i \in DOMAIN found : found[i] \in Int
  BY <1>4
<1>6. /\ first \in Int /\ last \in Int /\ first >= 1 /\ last <= Len(found)
  BY <1>5, NoticesAssumption DEF found
<1>7. listNotifications(request).rows = rows
  BY DEF listNotifications
<1> HIDE DEF first, last
<1>8. \A i \in first..last : i \in DOMAIN found /\ found[i] \in Int
  BY <1>5, <1>6
<1>9. /\ rows \in Seq(Int) /\ Len(rows) = (IF first <= last THEN last - first + 1 ELSE 0)
      /\ \A i \in 1..(last - first + 1) : rows[i] = found[first + i - 1]
  BY <1>6, <1>8, SubSeqProperties DEF found
<1> HIDE DEF rows
<1>10. \A j \in DOMAIN rows : /\ j \in 1..(last - first + 1) /\ j \in Int
                              /\ first + j - 1 \in DOMAIN found /\ rows[j] = found[first + j - 1]
  <2>1. DOMAIN rows = 1..Len(rows)
    BY <1>9
  <2>2. \A j \in DOMAIN rows : j \in 1..(last - first + 1) /\ j \in Int
    BY <1>6, <1>9, <2>1
  <2>3. \A j \in DOMAIN rows : first + j - 1 \in first..last
    BY <1>6, <2>2
  <2> QED BY <1>8, <1>9, <2>2, <2>3
<1>11. Distinct(rows)
  <2> SUFFICES ASSUME NEW j \in DOMAIN rows, NEW k \in DOMAIN rows, rows[j] = rows[k] PROVE j = k
    BY DEF Distinct
  <2>1. first + j - 1 = first + k - 1
    BY <1>4, <1>10 DEF Distinct
  <2>2. j \in Int /\ k \in Int
    BY <1>10
  <2> QED BY <1>6, <2>1, <2>2
<1> QED BY <1>7, <1>9, <1>11

\* What is joined is shown once: the rows that are kept, and of those received the others.
LEMMA JoinedRowsAreDistinct ==
    ASSUME NEW kept \in Seq(Int), Distinct(kept), NEW received \in Seq(Int), Distinct(received)
    PROVE  /\ kept \o NewRows(kept, received) \in Seq(Int)
           /\ Distinct(kept \o NewRows(kept, received))
<1> DEFINE P == {k \in DOMAIN received : received[k] \notin ToSet(kept)}
           new == NewRows(kept, received)
           joined == kept \o new
<1>1. new = Selected(received, P) /\ P \in SUBSET DOMAIN received
      /\ \A i \in P : received[i] \notin ToSet(kept)
  BY DEF NewRows
<1> HIDE DEF P, new
<1>2. /\ new \in Seq(Int) /\ Distinct(new)
      /\ \A k \in DOMAIN new : \E i \in P : new[k] = received[i]
  BY <1>1, SelectedIsDistinct
<1>3. \A j \in DOMAIN new, k \in DOMAIN kept : new[j] # kept[k]
  BY <1>1, <1>2 DEF ToSet
<1>4. /\ joined \in Seq(Int) /\ Len(joined) = Len(kept) + Len(new)
      /\ \A i \in 1..(Len(kept) + Len(new)) :
            joined[i] = IF i <= Len(kept) THEN kept[i] ELSE new[i - Len(kept)]
  BY <1>2, ConcatProperties
<1> HIDE DEF joined
<1>5. /\ DOMAIN kept = 1..Len(kept) /\ DOMAIN new = 1..Len(new)
      /\ DOMAIN joined = 1..(Len(kept) + Len(new)) /\ Len(kept) \in Nat /\ Len(new) \in Nat
  BY <1>2, <1>4
<1>6. \A i \in DOMAIN joined :
        \/ i <= Len(kept) /\ i \in DOMAIN kept /\ joined[i] = kept[i]
        \/ i > Len(kept) /\ i - Len(kept) \in DOMAIN new /\ joined[i] = new[i - Len(kept)]
  BY <1>4, <1>5
<1>7. Distinct(joined)
  <2> SUFFICES ASSUME NEW j \in DOMAIN joined, NEW k \in DOMAIN joined, joined[j] = joined[k]
               PROVE  j = k
    BY DEF Distinct
  <2>1. j \in Int /\ k \in Int
    BY <1>5
  <2>2. ASSUME NEW i \in DOMAIN joined, i <= Len(kept)
        PROVE  i \in DOMAIN kept /\ joined[i] = kept[i]
    BY <1>5, <1>6, <2>2
  <2>3. ASSUME NEW i \in DOMAIN joined, ~(i <= Len(kept))
        PROVE  i - Len(kept) \in DOMAIN new /\ joined[i] = new[i - Len(kept)]
    BY <1>5, <1>6, <2>3
  <2>4. CASE j <= Len(kept) /\ k <= Len(kept)
    BY <2>2, <2>4 DEF Distinct
  <2>5. CASE ~(j <= Len(kept)) /\ ~(k <= Len(kept))
    <3>1. j - Len(kept) = k - Len(kept)
      BY <1>2, <2>3, <2>5 DEF Distinct
    <3> QED BY <1>5, <2>1, <3>1
  <2>6. CASE j <= Len(kept) /\ ~(k <= Len(kept))
    BY <1>3, <2>2, <2>3, <2>6
  <2>7. CASE ~(j <= Len(kept)) /\ k <= Len(kept)
    BY <1>3, <2>2, <2>3, <2>7
  <2> QED BY <2>4, <2>5, <2>6, <2>7
<1> QED BY <1>4, <1>7 DEF joined, new

\* The page has its members, its offsets are numbers, and it shows no row twice.
PageMembers == {"rows", "category", "unreadOnly", "offset", "requestOffset", "nextOffset",
                "append", "hasMore", "badge"}
PageOK ==
    /\ DOMAIN noticePage = PageMembers
    /\ noticePage.rows \in Seq(Int) /\ Distinct(noticePage.rows)
    /\ noticePage.offset \in Nat /\ noticePage.requestOffset \in Nat /\ noticePage.nextOffset \in Nat

RequestOK(request) == request.kind = "List" => request.offset \in Nat
AnswerOK(answer) == answer.kind = "List" => answer.rows \in Seq(Int) /\ Distinct(answer.rows)
FramesOK ==
    /\ IsQueue(noticeAnswers)
    /\ \A i \in DOMAIN noticeRequests : RequestOK(noticeRequests[i])
    /\ \A i \in DOMAIN noticeAnswers : AnswerOK(noticeAnswers[i])

\* With nobody else at the table the last answer that is no failure has its number of unread
\* notices, and the badge has it when no such answer is under way.
BadgeFollows ==
    ~badgeMayLag =>
        \/ \E k \in DOMAIN noticeAnswers :
              /\ noticeAnswers[k].kind # "Failed" /\ noticeAnswers[k].unread = UnreadCount(notices)
              /\ \A j \in DOMAIN noticeAnswers : j > k => noticeAnswers[j].kind = "Failed"
        \/ /\ \A j \in DOMAIN noticeAnswers : noticeAnswers[j].kind = "Failed"
           /\ noticePage.badge = UnreadCount(notices)

PageInvariant == PageOK /\ FramesOK /\ BadgeFollows

\* The page that was never filled satisfies the invariant.
LEMMA PageStart == NoticesInit => PageInvariant
<1> SUFFICES ASSUME NoticesInit PROVE PageInvariant
  OBVIOUS
<1> DEFINE request == ListRequest(0, FALSE, 0, FALSE)
<1>1. /\ noticeRequests = << request >> /\ noticeAnswers = << >> /\ badgeMayLag
      /\ request.kind = "List" /\ request.offset = 0
  BY DEF NoticesInit, ListRequest
<1>2. PageOK
  BY DEF NoticesInit, PageOK, PageMembers, Distinct
<1> HIDE DEF request
<1>3. DOMAIN << request >> = {1} /\ << request >>[1] = request
  BY Z3
<1>4. IsQueue(noticeAnswers)
  BY <1>1 DEF IsQueue
<1>5. FramesOK
  BY <1>1, <1>3, <1>4 DEF FramesOK, RequestOK
<1> QED BY <1>1, <1>2, <1>5 DEF PageInvariant, BadgeFollows

\* What a step does to the frames: it takes one off and adds one of the right shape.
FrameStep ==
    /\ \/ noticeRequests' = noticeRequests
       \/ noticeRequests # << >> /\ noticeRequests' = Tail(noticeRequests)
       \/ \E request : RequestOK(request) /\ noticeRequests' = Append(noticeRequests, request)
    /\ \/ noticeAnswers' = noticeAnswers
       \/ noticeAnswers # << >> /\ noticeAnswers' = Tail(noticeAnswers)
       \/ \E answer : AnswerOK(answer) /\ noticeAnswers' = Append(noticeAnswers, answer)

\* What is added has the right shape, so that all frames have.
LEMMA FramesKeep ==
    ASSUME NoticesInvariant, FramesOK, FrameStep
    PROVE  FramesOK'
<1>1. IsQueue(noticeRequests) /\ IsQueue(noticeAnswers)
  BY DEF NoticesInvariant, NoticesTypeOK, FramesOK
<1>2. \A i \in DOMAIN noticeRequests' : RequestOK(noticeRequests'[i])
  <2>1. CASE noticeRequests' = noticeRequests
    BY <2>1 DEF FramesOK
  <2>2. CASE noticeRequests # << >> /\ noticeRequests' = Tail(noticeRequests)
    BY <1>1, <2>2, QueueShrinks DEF FramesOK
  <2>3. ASSUME NEW request, RequestOK(request), noticeRequests' = Append(noticeRequests, request)
        PROVE  \A i \in DOMAIN noticeRequests' : RequestOK(noticeRequests'[i])
    BY <1>1, <2>3, QueueGrows DEF FramesOK
  <2> QED BY <2>1, <2>2, <2>3 DEF FrameStep
<1>3. IsQueue(noticeAnswers)' /\ \A i \in DOMAIN noticeAnswers' : AnswerOK(noticeAnswers'[i])
  <2>1. CASE noticeAnswers' = noticeAnswers
    BY <1>1, <2>1 DEF FramesOK, IsQueue
  <2>2. CASE noticeAnswers # << >> /\ noticeAnswers' = Tail(noticeAnswers)
    <3>1. IsQueue(Tail(noticeAnswers))
          /\ \A i \in DOMAIN Tail(noticeAnswers) : AnswerOK(Tail(noticeAnswers)[i])
      BY <1>1, <2>2, QueueShrinks DEF FramesOK
    <3> QED BY <2>2, <3>1 DEF IsQueue
  <2>3. ASSUME NEW answer, AnswerOK(answer), noticeAnswers' = Append(noticeAnswers, answer)
        PROVE  IsQueue(noticeAnswers)' /\ \A i \in DOMAIN noticeAnswers' : AnswerOK(noticeAnswers'[i])
    <3> DEFINE later == Append(noticeAnswers, answer)
    <3>1. IsQueue(later) /\ \A i \in DOMAIN later : AnswerOK(later[i])
      BY <1>1, <2>3, QueueGrows DEF FramesOK
    <3>2. noticeAnswers' = later
      BY <2>3
    <3> HIDE DEF later
    <3> QED BY <3>1, <3>2 DEF IsQueue
  <2> QED BY <2>1, <2>2, <2>3 DEF FrameStep
<1> QED BY <1>2, <1>3 DEF FramesOK, RequestOK, AnswerOK

\* An answer that is no failure carries the number the table has now.
LEMMA BadgeAnswered ==
    ASSUME IsQueue(noticeAnswers), BadgeFollows, NEW answer,
           noticeAnswers' = Append(noticeAnswers, answer), noticePage' = noticePage,
           badgeMayLag' => answer.kind = "Failed" /\ badgeMayLag,
           ~badgeMayLag' => answer.kind # "Failed" \/ ~badgeMayLag,
           answer.kind # "Failed" => answer.unread = UnreadCount(notices'),
           answer.kind = "Failed" => notices' = notices
    PROVE  BadgeFollows'
<1> DEFINE later == Append(noticeAnswers, answer)
           last == Len(noticeAnswers) + 1
<1>1. /\ DOMAIN noticeAnswers = 1..Len(noticeAnswers) /\ Len(noticeAnswers) \in Nat
      /\ DOMAIN later = 1..last /\ later[last] = answer
      /\ \A i \in DOMAIN noticeAnswers : later[i] = noticeAnswers[i]
  BY QueueGrows
<1>2. noticeAnswers' = later
  OBVIOUS
<1> HIDE DEF later
<1>3. /\ last \in DOMAIN later /\ \A i \in DOMAIN later : ~(i > last)
      /\ \A i \in DOMAIN later : i \in DOMAIN noticeAnswers \/ i = last
      /\ \A i \in DOMAIN noticeAnswers : i \in DOMAIN later /\ last > i
  BY <1>1
<1> HIDE DEF last
<1>4. CASE answer.kind # "Failed"
  <2>1. /\ last \in DOMAIN later /\ later[last].kind # "Failed"
        /\ later[last].unread = UnreadCount(notices')
        /\ \A j \in DOMAIN later : j > last => later[j].kind = "Failed"
    BY <1>1, <1>3, <1>4
  <2> QED BY <1>2, <2>1 DEF BadgeFollows, UnreadCount
<1>5. CASE answer.kind = "Failed" /\ ~badgeMayLag
  <2>1. UnreadCount(notices') = UnreadCount(notices)
    BY <1>5
  <2>2. ASSUME NEW k \in DOMAIN noticeAnswers, noticeAnswers[k].kind # "Failed",
               noticeAnswers[k].unread = UnreadCount(notices),
               \A j \in DOMAIN noticeAnswers : j > k => noticeAnswers[j].kind = "Failed"
        PROVE  /\ k \in DOMAIN later /\ later[k].kind # "Failed"
               /\ later[k].unread = UnreadCount(notices')
               /\ \A j \in DOMAIN later : j > k => later[j].kind = "Failed"
    BY <1>1, <1>3, <1>5, <2>1, <2>2
  <2>3. ASSUME \A j \in DOMAIN noticeAnswers : noticeAnswers[j].kind = "Failed",
               noticePage.badge = UnreadCount(notices)
        PROVE  /\ \A j \in DOMAIN later : later[j].kind = "Failed"
               /\ noticePage'.badge = UnreadCount(notices')
    BY <1>1, <1>3, <1>5, <2>1, <2>3
  <2> QED BY <1>2, <1>5, <2>2, <2>3 DEF BadgeFollows, UnreadCount
<1>6. CASE badgeMayLag'
  BY <1>6 DEF BadgeFollows
<1> QED BY <1>4, <1>5, <1>6

\* The page takes the number of an answer, and keeps its own at a failure.
LEMMA BadgeTaken ==
    ASSUME IsQueue(noticeAnswers), BadgeFollows, noticeAnswers # << >>,
           noticeAnswers' = Tail(noticeAnswers), notices' = notices, badgeMayLag' <=> badgeMayLag,
           Head(noticeAnswers).kind = "Failed" => noticePage'.badge = noticePage.badge,
           Head(noticeAnswers).kind # "Failed" => noticePage'.badge = Head(noticeAnswers).unread
    PROVE  BadgeFollows'
<1> DEFINE later == Tail(noticeAnswers)
<1>1. /\ DOMAIN noticeAnswers = 1..Len(noticeAnswers) /\ Len(noticeAnswers) \in Nat
      /\ 1 \in DOMAIN noticeAnswers /\ Head(noticeAnswers) = noticeAnswers[1]
      /\ DOMAIN later = 1..(Len(noticeAnswers) - 1)
      /\ \A i \in DOMAIN later : later[i] = noticeAnswers[i + 1]
  BY QueueShrinks
<1>2. noticeAnswers' = later
  OBVIOUS
<1> HIDE DEF later
<1>3. /\ \A i \in DOMAIN later : i + 1 \in DOMAIN noticeAnswers /\ i \in Int
      /\ \A i \in DOMAIN noticeAnswers : i = 1 \/ i - 1 \in DOMAIN later
      /\ \A i \in DOMAIN noticeAnswers : i \in Int
  BY <1>1
<1>4. CASE badgeMayLag
  BY <1>4 DEF BadgeFollows
<1>5. ASSUME ~badgeMayLag, NEW k \in DOMAIN noticeAnswers, noticeAnswers[k].kind # "Failed",
             noticeAnswers[k].unread = UnreadCount(notices),
             \A j \in DOMAIN noticeAnswers : j > k => noticeAnswers[j].kind = "Failed"
      PROVE  BadgeFollows'
  <2>1. CASE k = 1
    <3>1. \A j \in DOMAIN later : later[j].kind = "Failed"
      <4> SUFFICES ASSUME NEW j \in DOMAIN later PROVE later[j].kind = "Failed"
        OBVIOUS
      <4>1. j + 1 \in DOMAIN noticeAnswers /\ j + 1 > 1 /\ later[j] = noticeAnswers[j + 1]
        BY <1>1, <1>3
      <4> QED BY <1>5, <2>1, <4>1
    <3>2. noticePage'.badge = UnreadCount(notices')
      BY <1>1, <1>5, <2>1
    <3> QED BY <1>2, <3>1, <3>2 DEF BadgeFollows, UnreadCount
  <2>2. CASE k # 1
    <3>1. k - 1 \in DOMAIN later /\ later[k - 1] = noticeAnswers[k]
      <4>1. k - 1 \in DOMAIN later /\ (k - 1) + 1 = k
        BY <1>3, <2>2
      <4> QED BY <1>1, <4>1
    <3>2. \A j \in DOMAIN later : j > k - 1 => later[j].kind = "Failed"
      <4> SUFFICES ASSUME NEW j \in DOMAIN later, j > k - 1 PROVE later[j].kind = "Failed"
        OBVIOUS
      <4>1. j + 1 \in DOMAIN noticeAnswers /\ j + 1 > k /\ later[j] = noticeAnswers[j + 1]
        BY <1>1, <1>3
      <4> QED BY <1>5, <4>1
    <3>3. later[k - 1].kind # "Failed" /\ later[k - 1].unread = UnreadCount(notices')
      BY <1>5, <3>1
    <3> QED BY <1>2, <3>1, <3>2, <3>3 DEF BadgeFollows, UnreadCount
  <2> QED BY <2>1, <2>2
<1>6. ASSUME ~badgeMayLag, \A j \in DOMAIN noticeAnswers : noticeAnswers[j].kind = "Failed",
             noticePage.badge = UnreadCount(notices)
      PROVE  BadgeFollows'
  <2>1. \A j \in DOMAIN later : later[j].kind = "Failed"
    BY <1>1, <1>3, <1>6
  <2>2. noticePage'.badge = UnreadCount(notices')
    BY <1>1, <1>6
  <2> QED BY <1>2, <2>1, <2>2 DEF BadgeFollows, UnreadCount
<1> QED BY <1>4, <1>5, <1>6 DEF BadgeFollows

\* A handler takes a request and answers it.
LEMMA AnsweredKeeps ==
    ASSUME NoticesInvariant, PageInvariant, NEW answer, AnswerNotice(answer), AnswerOK(answer),
           noticeRequests # << >>,
           answer.kind # "Failed" => answer.unread = UnreadCount(notices'),
           answer.kind = "Failed" => notices' = notices
    PROVE  PageInvariant'
<1>1. /\ noticeAnswers' = Append(noticeAnswers, answer) /\ noticeRequests' = Tail(noticeRequests)
      /\ badgeMayLag' <=> answer.kind = "Failed" /\ badgeMayLag
      /\ noticePage' = noticePage
  BY DEF AnswerNotice
<1>2. FramesOK'
  BY <1>1, FramesKeep DEF FrameStep, PageInvariant
<1>3. PageOK'
  BY <1>1 DEF PageOK, PageInvariant, Distinct
<1>4. IsQueue(noticeAnswers) /\ BadgeFollows
  BY DEF PageInvariant, FramesOK
<1>5. BadgeFollows'
  BY <1>1, <1>4, BadgeAnswered
<1> QED BY <1>2, <1>3, <1>5 DEF PageInvariant

\* The page asks.
LEMMA AskedKeeps ==
    ASSUME NoticesInvariant, PageInvariant, NEW request, RequestOK(request),
           noticeRequests' = Append(noticeRequests, request), noticeAnswers' = noticeAnswers,
           TableUnchanged, PageOK', noticePage'.badge = noticePage.badge
    PROVE  PageInvariant'
<1>1. notices' = notices /\ badgeMayLag' = badgeMayLag
  BY DEF TableUnchanged
<1>2. FramesOK'
  BY FramesKeep DEF FrameStep, PageInvariant
<1>3. BadgeFollows'
  BY <1>1 DEF PageInvariant, BadgeFollows, UnreadCount
<1> QED BY <1>2, <1>3 DEF PageInvariant

\* The page takes an answer that is none to a list, and perhaps asks again.
LEMMA QueriedKeeps ==
    ASSUME PageOK, NEW category, NEW unreadOnly, NEW offset \in Nat,
           noticePage' = Queried(category, unreadOnly, offset)
    PROVE  PageOK' /\ noticePage'.badge = noticePage.badge
BY DEF PageOK, PageMembers, Queried, Distinct

\* An answer to a list is joined to the rows that are kept.
LEMMA ListReadyKeeps ==
    ASSUME NoticesInvariant, PageInvariant, notificationListReady
    PROVE  PageInvariant'
<1> DEFINE answer == Head(noticeAnswers)
           kept == IF noticePage.append THEN noticePage.rows ELSE << >>
           joined == kept \o NewRows(kept, answer.rows)
           offset == Clamped(noticePage.requestOffset + Len(answer.rows))
           more == Len(answer.rows) >= PageSize
<1>1. /\ noticeAnswers # << >> /\ answer.kind = "List" /\ noticeAnswers' = Tail(noticeAnswers)
      /\ noticePage' = [noticePage EXCEPT !.rows = joined, !.hasMore = more, !.nextOffset = offset,
                                          !.append = FALSE, !.badge = answer.unread]
      /\ noticeRequests' = noticeRequests /\ notices' = notices /\ badgeMayLag' = badgeMayLag
  BY DEF notificationListReady, TableUnchanged
<1>2. PageOK /\ FramesOK /\ BadgeFollows /\ IsQueue(noticeAnswers)
  BY DEF PageInvariant, FramesOK
<1>3. answer.rows \in Seq(Int) /\ Distinct(answer.rows)
  BY <1>1, <1>2, QueueShrinks DEF FramesOK, AnswerOK
<1>4. kept \in Seq(Int) /\ Distinct(kept)
  BY <1>2 DEF PageOK, Distinct
<1> HIDE DEF answer, kept, more
<1>5. joined \in Seq(Int) /\ Distinct(joined)
  BY <1>3, <1>4, JoinedRowsAreDistinct
<1>6. offset \in Nat
  <2>1. Len(answer.rows) \in Nat /\ noticePage.requestOffset \in Nat
    BY <1>2, <1>3 DEF PageOK
  <2> QED BY <2>1, NoticesAssumption DEF Clamped
<1> HIDE DEF joined, offset
<1>7. PageOK' /\ noticePage'.badge = answer.unread
  BY <1>1, <1>2, <1>5, <1>6 DEF PageOK, PageMembers, Distinct
<1>8. FramesOK'
  BY <1>1, <1>2, FramesKeep DEF FrameStep
<1>9. BadgeFollows'
  BY <1>1, <1>2, <1>7, BadgeTaken DEF answer
<1> QED BY <1>7, <1>8, <1>9 DEF PageInvariant

\* A change that was accepted makes the page ask for its list again.
LEMMA ChangedKeeps ==
    ASSUME NoticesInvariant, PageInvariant, notificationChanged
    PROVE  PageInvariant'
<1> DEFINE answer == Head(noticeAnswers)
           queried == Queried(noticePage.category, noticePage.unreadOnly, noticePage.offset)
           request == ListRequest(noticePage.category, noticePage.unreadOnly, noticePage.offset, FALSE)
<1>1. /\ noticeAnswers # << >> /\ answer.kind \in {"Status", "AllRead"}
      /\ noticeAnswers' = Tail(noticeAnswers) /\ noticePage' = [queried EXCEPT !.badge = answer.unread]
      /\ noticeRequests' = Append(noticeRequests, request)
      /\ notices' = notices /\ badgeMayLag' = badgeMayLag
  BY DEF notificationChanged, TableUnchanged
<1>2. PageOK /\ FramesOK /\ BadgeFollows /\ IsQueue(noticeAnswers)
  BY DEF PageInvariant, FramesOK
<1>3. RequestOK(request)
  BY <1>2 DEF PageOK, RequestOK, ListRequest
<1> HIDE DEF answer, request
<1>4. PageOK' /\ noticePage'.badge = answer.unread
  BY <1>1, <1>2 DEF PageOK, PageMembers, Queried, Distinct
<1>5. FramesOK'
  BY <1>1, <1>2, <1>3, FramesKeep DEF FrameStep
<1>6. BadgeFollows'
  BY <1>1, <1>2, <1>4, BadgeTaken DEF answer
<1> QED BY <1>4, <1>5, <1>6 DEF PageInvariant

\* Every step of the table, of the gateway and of the page keeps the invariant.
LEMMA PageStep == NoticesInvariant /\ PageInvariant /\ [NoticesNext]_noticeVars => PageInvariant'
<1> SUFFICES ASSUME NoticesInvariant, PageInvariant, [NoticesNext]_noticeVars PROVE PageInvariant'
  OBVIOUS
<1> DEFINE request == Head(noticeRequests)
<1>1. ASSUME UNCHANGED << noticeRequests, noticeAnswers, noticePage >>,
             badgeMayLag' \/ UNCHANGED << notices, badgeMayLag >>
      PROVE  PageInvariant'
  <2>1. PageOK'
    BY <1>1 DEF PageOK, PageInvariant, Distinct
  <2>2. FramesOK'
    BY <1>1, FramesKeep DEF FrameStep, PageInvariant
  <2>3. BadgeFollows'
    BY <1>1 DEF PageInvariant, BadgeFollows, UnreadCount
  <2> QED BY <2>1, <2>2, <2>3 DEF PageInvariant
<1>2. CASE \/ \E category \in NoticeCategory, status \in {0, 4} : InsertNotice(category, status)
           \/ OtherDevice \/ UNCHANGED noticeVars
  BY <1>1, <1>2 DEF InsertNotice, OtherDevice, noticeVars
<1>3. CASE handleNotificationList
  <2>1. noticeRequests # << >> /\ request.kind = "List" /\ AnswerNotice(listNotifications(request))
        /\ notices' = notices
    BY <1>3 DEF handleNotificationList
  <2>2. request.offset \in Nat
    BY <2>1, QueueShrinks DEF PageInvariant, FramesOK, RequestOK, NoticesInvariant, NoticesTypeOK
  <2>3. Len(notices) \in Nat /\ NoticeRow = 1..Len(notices)
    BY DEF NoticesInvariant, NoticesTypeOK, NoticeRow
  <2> HIDE DEF request
  <2> DEFINE answer == listNotifications(request)
  <2>4. AnswerOK(answer)
    BY <2>2, <2>3, AnswerRowsAreDistinct DEF AnswerOK
  <2>5. answer.kind = "List" /\ answer.unread = UnreadCount(notices)
    BY DEF listNotifications
  <2>6. AnswerNotice(answer)
    BY <2>1
  <2> HIDE DEF answer
  <2>7. answer.unread = UnreadCount(notices')
    BY <2>1, <2>5
  <2> QED BY <2>1, <2>4, <2>5, <2>6, <2>7, AnsweredKeeps
<1>4. CASE handleNotificationStatus
  <2> DEFINE answer == [kind |-> "Status", unread |-> UnreadCount(notices')]
  <2>1. noticeRequests # << >> /\ AnswerNotice(answer)
    BY <1>4 DEF handleNotificationStatus
  <2>2. answer.kind = "Status" /\ answer.unread = UnreadCount(notices')
    OBVIOUS
  <2> HIDE DEF answer
  <2> QED BY <2>1, <2>2, AnsweredKeeps DEF AnswerOK
<1>5. CASE handleNotificationMarkAllRead
  <2> DEFINE answer == [kind |-> "AllRead", unread |-> UnreadCount(notices')]
  <2>1. noticeRequests # << >> /\ AnswerNotice(answer)
    BY <1>5 DEF handleNotificationMarkAllRead
  <2>2. answer.kind = "AllRead" /\ answer.unread = UnreadCount(notices')
    OBVIOUS
  <2> HIDE DEF answer
  <2> QED BY <2>1, <2>2, AnsweredKeeps DEF AnswerOK
<1>6. CASE NoticeRequestFails
  <2> DEFINE answer == [kind |-> "Failed"]
  <2>1. noticeRequests # << >> /\ AnswerNotice(answer) /\ notices' = notices /\ answer.kind = "Failed"
    BY <1>6 DEF NoticeRequestFails
  <2> HIDE DEF answer
  <2> QED BY <2>1, AnsweredKeeps DEF AnswerOK
<1>7. CASE refreshNotifications
  <2> DEFINE asked == ListRequest(0, FALSE, 0, FALSE)
  <2>1. /\ noticeRequests' = Append(noticeRequests, asked) /\ noticeAnswers' = noticeAnswers
        /\ TableUnchanged /\ noticePage' = noticePage
    BY <1>7 DEF refreshNotifications, Ask
  <2>2. RequestOK(asked)
    BY DEF RequestOK, ListRequest
  <2>3. PageOK'
    BY <2>1 DEF PageOK, PageInvariant, Distinct
  <2> HIDE DEF asked
  <2> QED BY <2>1, <2>2, <2>3, AskedKeeps
<1>8. ASSUME NEW category, NEW unreadOnly, loadNotifications(category, unreadOnly, 0)
      PROVE  PageInvariant'
  <2> DEFINE asked == ListRequest(category, unreadOnly, 0, FALSE)
  <2>1. /\ noticeRequests' = Append(noticeRequests, asked) /\ noticeAnswers' = noticeAnswers
        /\ TableUnchanged /\ noticePage' = Queried(category, unreadOnly, 0)
    BY <1>8 DEF loadNotifications, Ask
  <2>2. RequestOK(asked)
    BY DEF RequestOK, ListRequest
  <2>3. PageOK' /\ noticePage'.badge = noticePage.badge
    BY <2>1, QueriedKeeps DEF PageInvariant
  <2> HIDE DEF asked
  <2> QED BY <2>1, <2>2, <2>3, AskedKeeps
<1>9. CASE loadMoreNotifications
  <2> DEFINE asked == ListRequest(noticePage.category, noticePage.unreadOnly, noticePage.nextOffset, TRUE)
  <2>1. /\ noticeRequests' = Append(noticeRequests, asked) /\ noticeAnswers' = noticeAnswers
        /\ TableUnchanged
        /\ noticePage' = [noticePage EXCEPT !.append = TRUE, !.requestOffset = noticePage.nextOffset]
    BY <1>9 DEF loadMoreNotifications, Ask
  <2>2. RequestOK(asked)
    BY DEF RequestOK, ListRequest, PageInvariant, PageOK
  <2>3. PageOK' /\ noticePage'.badge = noticePage.badge
    BY <2>1 DEF PageInvariant, PageOK, PageMembers, Distinct
  <2> HIDE DEF asked
  <2> QED BY <2>1, <2>2, <2>3, AskedKeeps
<1>10. CASE markNotifications
  <2>1. /\ noticeAnswers' = noticeAnswers /\ noticePage' = noticePage /\ TableUnchanged
    BY <1>10 DEF markNotifications
  <2>2. PageOK'
    BY <2>1 DEF PageOK, PageInvariant, Distinct
  <2>3. ASSUME NEW asked, asked.kind # "List", Ask(asked) PROVE PageInvariant'
    BY <2>1, <2>2, <2>3, AskedKeeps DEF Ask, RequestOK
  <2>4. ASSUME NEW i, Ask([kind |-> "Status", notification |-> i, action |-> 1]) PROVE PageInvariant'
    BY <2>3, <2>4
  <2>5. ASSUME NEW query, Ask([kind |-> "AllRead", category |-> query[1]]) PROVE PageInvariant'
    BY <2>3, <2>5
  <2> QED BY <1>10, <2>4, <2>5 DEF markNotifications
<1>11. CASE notificationListReady
  BY <1>11, ListReadyKeeps
<1>12. CASE notificationChanged
  BY <1>12, ChangedKeeps
<1>13. CASE notificationOperationFailed
  <2>1. /\ noticeAnswers # << >> /\ Head(noticeAnswers).kind = "Failed"
        /\ noticeAnswers' = Tail(noticeAnswers) /\ noticeRequests' = noticeRequests
        /\ notices' = notices /\ badgeMayLag' = badgeMayLag /\ noticePage' = noticePage
    BY <1>13 DEF notificationOperationFailed, TableUnchanged
  <2>2. PageOK'
    BY <2>1 DEF PageOK, PageInvariant, Distinct
  <2>3. FramesOK'
    BY <2>1, FramesKeep DEF FrameStep, PageInvariant
  <2>4. BadgeFollows'
    BY <2>1, BadgeTaken DEF PageInvariant, FramesOK
  <2> QED BY <2>2, <2>3, <2>4 DEF PageInvariant
<1> QED BY <1>2, <1>3, <1>4, <1>5, <1>6, <1>7, <1>8, <1>9, <1>10, <1>11, <1>12, <1>13
        DEF NoticesNext

\* Paging never shows a notification twice, and with nothing under way and nobody else at the
\* table the badge is the number of unread ones, for any page size, filters and failures.
THEOREM PagesAreAlwaysConsistent == NoticesSpec => []PageIsConsistent
<1>1. NoticesInvariant /\ PageInvariant => PageIsConsistent
  <2> SUFFICES ASSUME PageOK, FramesOK, BadgeFollows PROVE PageIsConsistent
    BY DEF PageInvariant
  <2>1. \A j, k \in DOMAIN noticePage.rows : noticePage.rows[j] = noticePage.rows[k] => j = k
    BY DEF PageOK, Distinct
  <2>2. ASSUME noticeAnswers = << >>, ~badgeMayLag PROVE noticePage.badge = UnreadCount(notices)
    BY <2>2 DEF BadgeFollows
  <2> QED BY <2>1, <2>2 DEF PageIsConsistent
<1> QED BY <1>1, NoticesStart, NoticesStep, PageStart, PageStep, PTL DEF NoticesSpec

----------------------------------------------------------------------------
\* Login session.


LoginCall == 1..MaxLogins

Worker == [login : 0..MaxLogins, loginPending : BOOLEAN, pendingLogin : BOOLEAN, sent : BOOLEAN,
           timer : BOOLEAN, signedIn : BOOLEAN, failureHandled : BOOLEAN]

\* What a worker may have reported of a login.
Outcome == {"succeeded", "failed"}
Reports == {results \in Seq(Outcome) : /\ \A j, k \in DOMAIN results : results[j] = results[k]
                                       /\ Len(results) <= 2
                                       /\ Len(results) = 2 => results[1] = "failed"}

LoginTypeOK ==
    /\ logins \in 0..MaxLogins
    /\ workerCalls \in Seq(LoginCall)
    /\ workerSignals \in Seq({"succeeded", "failed"})
    /\ worker \in Worker
    /\ link \in {"none", "opening", "open", "closed"}
    /\ loginResults \in [1..MaxLogins -> Reports]

\* The calls wait in the order in which they were made; of those nothing is reported.
CallsAreNew ==
    /\ worker.login <= logins
    /\ \A i \in DOMAIN workerCalls :
          /\ worker.login < workerCalls[i] /\ workerCalls[i] <= logins
          /\ \A j \in DOMAIN workerCalls : i < j => workerCalls[i] < workerCalls[j]
    /\ \A n \in 1..MaxLogins : (n > worker.login) => loginResults[n] = << >>

\* The phases of the worker: nothing reported while a login is under way, and of the three
\* ways to be without one only a refusal leaves the socket open.
WorkerIsSound ==
    /\ worker.login = 0 => link = "none" /\ ~worker.loginPending
    /\ worker.pendingLogin => worker.loginPending
    /\ worker.timer <=> worker.loginPending
    /\ link = "opening" => worker.loginPending
    /\ worker.loginPending => /\ link \in {"opening", "open"} /\ ~worker.signedIn
                              /\ loginResults[worker.login] = << >>
    /\ worker.signedIn => link = "open" /\ loginResults[worker.login] = << "succeeded" >>
    /\ link = "open" /\ ~worker.signedIn /\ ~worker.loginPending
          => loginResults[worker.login] = << "failed" >>

LoginInvariant == LoginTypeOK /\ CallsAreNew /\ WorkerIsSound

\* A first report, and a failure after nothing or after a failure.
LEMMA FirstReport ==
    ASSUME NEW kind \in Outcome PROVE << kind >> \in Reports /\ Append(<< >>, kind) = << kind >>
<1>1. << kind >> \in Seq(Outcome) /\ Len(<< kind >>) = 1 /\ DOMAIN << kind >> = 1..1
  OBVIOUS
<1>2. Append(<< >>, kind) = << kind >>
  OBVIOUS
<1> QED BY <1>1, <1>2 DEF Reports

\* One more failure after at most one failure is a report the view may get.
LEMMA FailuresOnly ==
    ASSUME NEW s \in Seq(Outcome), NEW failed \in Outcome, failed = "failed", Len(s) <= 1,
           \A k \in 1..Len(s) : s[k] = failed
    PROVE  Append(s, failed) \in Reports
<1> DEFINE later == Append(s, failed)
<1>1. /\ later \in Seq(Outcome) /\ Len(later) = Len(s) + 1
      /\ \A i \in 1..Len(s) : later[i] = s[i]
      /\ later[Len(s) + 1] = failed
  BY AppendProperties
<1> HIDE DEF later
<1>2. Len(s) \in Nat /\ DOMAIN later = 1..(Len(s) + 1)
  BY <1>1
<1>3. \A k \in DOMAIN later : later[k] = failed
  BY <1>1, <1>2
<1>4. Len(later) = 2 => 1 \in DOMAIN later
  BY <1>1, <1>2
<1>5. later \in Reports
  BY <1>1, <1>2, <1>3, <1>4 DEF Reports
<1> QED BY <1>5 DEF later

\* A failure reported after nothing or after one failure is such a report.
LEMMA SecondFailure ==
    ASSUME NEW results, results = << >> \/ results = << "failed" >>
    PROVE  Append(results, "failed") \in Reports
<1>1. PICK failed : failed = "failed"
  OBVIOUS
<1>2. failed \in Outcome
  BY <1>1 DEF Outcome
<1>3. results \in Seq(Outcome) /\ Len(results) <= 1 /\ \A k \in 1..Len(results) : results[k] = failed
  <2>1. CASE results = << >>
    BY <2>1
  <2>2. CASE results = << failed >>
    <3>1. << failed >> \in Seq(Outcome) /\ Len(<< failed >>) = 1 /\ << failed >>[1] = failed
      BY <1>2
    <3>2. \A k \in 1..1 : k = 1
      OBVIOUS
    <3> QED BY <2>2, <3>1, <3>2
  <2> QED BY <1>1, <2>1, <2>2
<1>4. Append(results, failed) \in Reports
  BY <1>1, <1>2, <1>3, FailuresOnly
<1> QED BY <1>1, <1>4

\* A client that was just started satisfies the invariant.
LEMMA LoginStart == LoginInit => LoginInvariant
<1> SUFFICES ASSUME LoginInit PROVE LoginInvariant
  OBVIOUS
<1>1. Idling \in Worker /\ Idling.login = 0 /\ ~Idling.loginPending /\ ~Idling.pendingLogin
      /\ ~Idling.timer /\ ~Idling.signedIn
  BY LoginAssumption DEF Idling, Worker
<1>2. LoginTypeOK
  BY <1>1, LoginAssumption DEF LoginInit, LoginTypeOK, Reports
<1> HIDE DEF Reports
<1>3. CallsAreNew
  BY <1>1 DEF LoginInit, CallsAreNew
<1>4. WorkerIsSound
  BY <1>1 DEF LoginInit, WorkerIsSound
<1> QED BY <1>2, <1>3, <1>4 DEF LoginInvariant

\* The worker goes on with its login: its members, and perhaps one report more.
LEMMA WorkerGoesOn ==
    ASSUME LoginInvariant, PageUnchanged, worker' \in Worker, worker'.login = worker.login,
           link' \in {"none", "opening", "open", "closed"},
           \/ UNCHANGED << workerSignals, loginResults >>
           \/ \E kind \in {"succeeded", "failed"} :
                 /\ worker.login \in 1..MaxLogins
                 /\ Append(loginResults[worker.login], kind) \in Reports
                 /\ Report(kind)
    PROVE  LoginTypeOK' /\ CallsAreNew'
<1>1. /\ LoginTypeOK /\ CallsAreNew /\ loginResults \in [1..MaxLogins -> Reports]
      /\ workerSignals \in Seq({"succeeded", "failed"})
      /\ UNCHANGED << logins, workerCalls >>
  BY DEF LoginInvariant, LoginTypeOK, PageUnchanged
<1>2. /\ workerSignals' \in Seq({"succeeded", "failed"})
      /\ loginResults' \in [1..MaxLogins -> Reports]
      /\ \A n \in 1..MaxLogins : n # worker.login => loginResults'[n] = loginResults[n]
  <2>1. CASE UNCHANGED << workerSignals, loginResults >>
    BY <1>1, <2>1
  <2>2. CASE ~UNCHANGED << workerSignals, loginResults >>
    <3>1. PICK kind \in {"succeeded", "failed"} :
             /\ worker.login \in 1..MaxLogins
             /\ Append(loginResults[worker.login], kind) \in Reports
             /\ Report(kind)
      BY <2>2
    <3>2. Append(workerSignals, kind) \in Seq({"succeeded", "failed"})
      BY <1>1
    <3> QED BY <1>1, <3>1, <3>2 DEF Report
  <2> QED BY <2>1, <2>2
<1>3. LoginTypeOK'
  BY <1>1, <1>2 DEF LoginTypeOK
<1>4. worker.login \in Nat
  BY <1>1, LoginAssumption DEF LoginTypeOK, Worker
<1>5. \A n \in 1..MaxLogins : n > worker.login => n # worker.login
  BY <1>4, LoginAssumption
<1>6. CallsAreNew'
  BY <1>1, <1>2, <1>5 DEF CallsAreNew
<1> QED BY <1>3, <1>6

\* A socket that fails during a login reports that login failed, once.
LEMMA LinkFailureKeeps == ASSUME LoginInvariant, handleSocketFailure,
                             worker.loginPending \/ (link = "open" /\ ~worker.signedIn)
                      PROVE  LoginInvariant'
<1> DEFINE results == loginResults[worker.login]
<1>1. LoginTypeOK /\ WorkerIsSound /\ CallsAreNew /\ worker \in Worker
  BY DEF LoginInvariant, LoginTypeOK
<1>2. results = << >> \/ results = << "failed" >>
  BY <1>1 DEF WorkerIsSound
<1>3. worker.login \in 1..MaxLogins
  BY <1>1, LoginAssumption DEF WorkerIsSound, Worker
<1>4. Append(results, "failed") \in Reports
  BY <1>2, SecondFailure
<1>5. /\ worker' \in Worker /\ worker'.login = worker.login /\ link' = "closed"
      /\ ~worker'.loginPending /\ ~worker'.pendingLogin /\ ~worker'.timer /\ ~worker'.signedIn
      /\ PageUnchanged /\ Report("failed")
  BY <1>1 DEF handleSocketFailure, Worker
<1>6. LoginTypeOK' /\ CallsAreNew'
  BY <1>3, <1>4, <1>5, WorkerGoesOn
<1>7. WorkerIsSound'
  BY <1>3, <1>5, LoginAssumption DEF WorkerIsSound
<1> QED BY <1>6, <1>7 DEF LoginInvariant

\* A disconnect ends the login that is under way, and the session.
LEMMA DisconnectedKeeps == ASSUME LoginInvariant, socketDisconnected PROVE LoginInvariant'
<1>1. CASE ~worker.signedIn /\ worker.loginPending
  BY <1>1, LinkFailureKeeps DEF socketDisconnected
<1>2. CASE ~(~worker.signedIn /\ worker.loginPending)
  <2>1. LoginTypeOK /\ WorkerIsSound /\ worker \in Worker /\ link = "open"
    BY DEF LoginInvariant, LoginTypeOK, socketDisconnected
  <2>2. ~worker.loginPending /\ ~worker.pendingLogin /\ ~worker.timer /\ worker.login # 0
    BY <1>2, <2>1 DEF WorkerIsSound
  <2>3. /\ worker' = [worker EXCEPT !.signedIn = FALSE] /\ link' = "closed"
        /\ PageUnchanged /\ UNCHANGED << workerSignals, loginResults >>
    BY <1>2 DEF socketDisconnected, Quiet
  <2>4. /\ worker' \in Worker /\ worker'.login = worker.login /\ ~worker'.loginPending
        /\ ~worker'.pendingLogin /\ ~worker'.timer /\ ~worker'.signedIn
    BY <2>1, <2>2, <2>3 DEF Worker
  <2>5. LoginTypeOK' /\ CallsAreNew'
    BY <2>3, <2>4, WorkerGoesOn
  <2>6. WorkerIsSound'
    BY <2>2, <2>3, <2>4 DEF WorkerIsSound
  <2> QED BY <2>5, <2>6 DEF LoginInvariant
<1> QED BY <1>1, <1>2

\* The answer to a login reports to the call it belongs to and to no other.
LEMMA ResponseKeeps == ASSUME LoginInvariant, handleLoginResponse PROVE LoginInvariant'
<1> DEFINE accepted == serverAnswer = "accepted"
           kind == IF accepted THEN "succeeded" ELSE "failed"
<1>1. /\ LoginTypeOK /\ WorkerIsSound /\ worker \in Worker
      /\ link = "open" /\ worker.loginPending
  BY DEF LoginInvariant, LoginTypeOK, handleLoginResponse
<1>2. /\ loginResults[worker.login] = << >> /\ worker.login \in 1..MaxLogins
      /\ loginResults \in [1..MaxLogins -> Reports]
  BY <1>1, LoginAssumption DEF LoginTypeOK, WorkerIsSound, Worker
<1>3. /\ worker' = [worker EXCEPT !.timer = FALSE, !.loginPending = FALSE, !.pendingLogin = FALSE,
                                  !.signedIn = accepted]
      /\ Report(kind) /\ link' = link /\ PageUnchanged
  BY DEF handleLoginResponse
<1>4. /\ kind \in {"succeeded", "failed"}
      /\ Append(loginResults[worker.login], kind) = << kind >>
      /\ << kind >> \in Reports
  <2>1. kind \in Outcome
    BY DEF Outcome
  <2> HIDE DEF kind
  <2> QED BY <1>2, <2>1, FirstReport DEF Outcome
<1> HIDE DEF accepted
<1>5. /\ worker' \in Worker /\ worker'.login = worker.login
      /\ ~worker'.loginPending /\ ~worker'.pendingLogin /\ ~worker'.timer
      /\ worker'.signedIn <=> accepted
  <2>1. accepted \in BOOLEAN
    BY DEF accepted
  <2> QED BY <1>1, <1>3, <2>1 DEF Worker
<1>6. LoginTypeOK' /\ CallsAreNew'
  <2> HIDE DEF kind
  <2> QED BY <1>1, <1>2, <1>3, <1>4, <1>5, WorkerGoesOn
<1>7. loginResults'[worker.login] = << kind >>
  BY <1>2, <1>3, <1>4 DEF Report
<1>8. WorkerIsSound'
  BY <1>1, <1>2, <1>3, <1>5, <1>7, LoginAssumption DEF WorkerIsSound
<1> QED BY <1>6, <1>8 DEF LoginInvariant

\* The worker takes the next call: a login of which nothing has been reported.
LEMMA CallTaken ==
    ASSUME LoginInvariant, workerCalls # << >>
    PROVE  /\ Head(workerCalls) \in 1..MaxLogins /\ Head(workerCalls) <= logins
           /\ loginResults[Head(workerCalls)] = << >>
           /\ Head(workerCalls) > worker.login
           /\ Tail(workerCalls) \in Seq(LoginCall)
           /\ \A i \in DOMAIN Tail(workerCalls) :
                 /\ Head(workerCalls) < Tail(workerCalls)[i] /\ Tail(workerCalls)[i] <= logins
                 /\ \A j \in DOMAIN Tail(workerCalls) :
                       i < j => Tail(workerCalls)[i] < Tail(workerCalls)[j]
<1>1. workerCalls \in Seq(LoginCall) /\ CallsAreNew /\ worker \in Worker
  BY DEF LoginInvariant, LoginTypeOK
<1>2. /\ 1 \in DOMAIN workerCalls /\ Head(workerCalls) = workerCalls[1]
      /\ workerCalls[1] \in 1..MaxLogins
      /\ Tail(workerCalls) \in Seq(LoginCall)
      /\ \A i \in DOMAIN Tail(workerCalls) :
            i \in Nat /\ i + 1 \in DOMAIN workerCalls /\ 1 < i + 1
            /\ Tail(workerCalls)[i] = workerCalls[i + 1]
  <2>1. workerCalls # << >> /\ workerCalls \in Seq(LoginCall)
    BY <1>1
  <2>2. \A i \in DOMAIN Tail(workerCalls) :
            i \in Nat /\ i + 1 \in DOMAIN workerCalls /\ 1 < i + 1
            /\ Tail(workerCalls)[i] = workerCalls[i + 1]
    <3>1. /\ Len(workerCalls) \in Nat /\ Len(Tail(workerCalls)) = Len(workerCalls) - 1
          /\ DOMAIN Tail(workerCalls) = 1..Len(Tail(workerCalls))
          /\ DOMAIN workerCalls = 1..Len(workerCalls)
          /\ \A i \in 1..Len(Tail(workerCalls)) : Tail(workerCalls)[i] = workerCalls[i + 1]
      BY <2>1, HeadTailProperties
    <3> QED BY <3>1
  <2>3. /\ 1 \in DOMAIN workerCalls /\ Head(workerCalls) = workerCalls[1]
        /\ workerCalls[1] \in LoginCall
    BY <2>1
  <2>4. Tail(workerCalls) \in Seq(LoginCall)
    BY <2>1
  <2> QED BY <2>2, <2>3, <2>4 DEF LoginCall
<1>3. worker.login < workerCalls[1] /\ workerCalls[1] <= logins
  BY <1>1, <1>2 DEF CallsAreNew
<1>4. loginResults[workerCalls[1]] = << >>
  BY <1>1, <1>2, <1>3, LoginAssumption DEF CallsAreNew, Worker
<1>5. \A i \in DOMAIN Tail(workerCalls) :
         /\ workerCalls[1] < workerCalls[i + 1] /\ workerCalls[i + 1] <= logins
         /\ \A j \in DOMAIN Tail(workerCalls) : i < j => workerCalls[i + 1] < workerCalls[j + 1]
  BY <1>1, <1>2 DEF CallsAreNew
<1> QED BY <1>1, <1>2, <1>3, <1>4, <1>5, LoginAssumption DEF Worker

\* A new call of connectAndLogin gives up the earlier one before it counts.
LEMMA ConnectKeeps == ASSUME LoginInvariant, connectAndLogin PROVE LoginInvariant'
<1> DEFINE call == Head(workerCalls)
           new == [Given(call) EXCEPT !.loginPending = TRUE, !.pendingLogin = TRUE, !.timer = TRUE]
<1>1. /\ workerCalls # << >> /\ workerCalls' = Tail(workerCalls) /\ worker' = new
      /\ link' = "opening" /\ UNCHANGED << logins, workerSignals, loginResults >>
      /\ LoginTypeOK /\ CallsAreNew
  BY DEF connectAndLogin, Quiet, LoginInvariant
<1>2. /\ call \in 1..MaxLogins /\ call <= logins /\ loginResults[call] = << >>
      /\ call > worker.login
  BY <1>1, CallTaken
<1> HIDE DEF call
<1>3. /\ new \in Worker /\ new.login = call /\ new.loginPending /\ new.pendingLogin /\ new.timer
      /\ ~new.signedIn
  <2>1. /\ Given(call) \in Worker /\ Given(call).login = call /\ ~Given(call).loginPending
        /\ ~Given(call).pendingLogin /\ ~Given(call).timer /\ ~Given(call).signedIn
    <3>1. call \in 0..MaxLogins
      BY <1>2, LoginAssumption
    <3>2. Idling \in Worker /\ ~Idling.loginPending /\ ~Idling.pendingLogin /\ ~Idling.timer
          /\ ~Idling.signedIn
      BY LoginAssumption DEF Idling, Worker
    <3> QED BY <3>1, <3>2 DEF Given, Worker
  <2> QED BY <2>1 DEF Worker
<1> HIDE DEF new
<1>4. LoginTypeOK'
  BY <1>1, <1>3, CallTaken DEF LoginTypeOK
<1>5. worker.login \in Nat /\ call \in Nat
  BY <1>1, <1>2, LoginAssumption DEF LoginTypeOK, Worker
<1>6. \A n \in 1..MaxLogins : n > call => n > worker.login
  BY <1>2, <1>5, LoginAssumption
<1>7. CallsAreNew'
  BY <1>1, <1>2, <1>3, <1>6, CallTaken DEF CallsAreNew, call
<1>8. WorkerIsSound'
  BY <1>1, <1>2, <1>3, <1>5, LoginAssumption DEF WorkerIsSound
<1> QED BY <1>4, <1>7, <1>8 DEF LoginInvariant

\* A refused connection reports the failure of the call it was opened for.
LEMMA RefusedKeeps == ASSUME LoginInvariant, connectionRefused PROVE LoginInvariant'
<1> DEFINE call == Head(workerCalls)
           new == Given(call)
<1>1. /\ workerCalls # << >> /\ workerCalls' = Tail(workerCalls) /\ worker' = new
      /\ link' = "none" /\ UNCHANGED logins
      /\ workerSignals' = Append(workerSignals, "failed")
      /\ loginResults' = [loginResults EXCEPT ![call] = Append(@, "failed")]
      /\ LoginTypeOK /\ CallsAreNew
  BY DEF connectionRefused, LoginInvariant
<1>2. /\ call \in 1..MaxLogins /\ call <= logins /\ loginResults[call] = << >>
      /\ call > worker.login
  BY <1>1, CallTaken
<1> HIDE DEF call
<1>3. /\ new \in Worker /\ new.login = call /\ ~new.loginPending /\ ~new.pendingLogin /\ ~new.timer
      /\ ~new.signedIn
  <2>1. /\ Given(call) \in Worker /\ Given(call).login = call /\ ~Given(call).loginPending
        /\ ~Given(call).pendingLogin /\ ~Given(call).timer /\ ~Given(call).signedIn
    <3>1. call \in 0..MaxLogins
      BY <1>2, LoginAssumption
    <3>2. Idling \in Worker /\ ~Idling.loginPending /\ ~Idling.pendingLogin /\ ~Idling.timer
          /\ ~Idling.signedIn
      BY LoginAssumption DEF Idling, Worker
    <3> QED BY <3>1, <3>2 DEF Given, Worker
  <2> QED BY <2>1 DEF Worker
<1> HIDE DEF new
<1>4. Append(loginResults[call], "failed") \in Reports /\ DOMAIN loginResults = 1..MaxLogins
  BY <1>1, <1>2, SecondFailure DEF LoginTypeOK
<1>5. /\ loginResults' \in [1..MaxLogins -> Reports]
      /\ \A n \in 1..MaxLogins : n # call => loginResults'[n] = loginResults[n]
      /\ workerSignals' \in Seq({"succeeded", "failed"})
  <2>1. /\ loginResults \in [1..MaxLogins -> Reports]
        /\ workerSignals \in Seq({"succeeded", "failed"})
    BY <1>1 DEF LoginTypeOK
  <2>2. workerSignals' \in Seq({"succeeded", "failed"})
    BY <1>1, <2>1
  <2> HIDE DEF Reports
  <2> QED BY <1>1, <1>4, <2>1, <2>2
<1>6. LoginTypeOK'
  BY <1>1, <1>3, <1>5, CallTaken DEF LoginTypeOK
<1>7. worker.login \in Nat /\ call \in Nat
  BY <1>1, <1>2, LoginAssumption DEF LoginTypeOK, Worker
<1>8. \A n \in 1..MaxLogins : n > call => n > worker.login /\ n # call
  BY <1>2, <1>7, LoginAssumption
<1>9. CallsAreNew'
  BY <1>1, <1>2, <1>3, <1>5, <1>8, CallTaken DEF CallsAreNew, call
<1>10. WorkerIsSound'
  BY <1>1, <1>2, <1>3, <1>7, LoginAssumption DEF WorkerIsSound
<1> QED BY <1>6, <1>9, <1>10 DEF LoginInvariant

\* The page asks for one login more.
LEMMA AskKeeps == ASSUME LoginInvariant, login PROVE LoginInvariant'
<1>1. /\ LoginTypeOK /\ CallsAreNew /\ WorkerIsSound /\ logins \in 0..MaxLogins
      /\ workerCalls \in Seq(LoginCall)
      /\ logins' = logins + 1 /\ workerCalls' = Append(workerCalls, logins + 1)
      /\ UNCHANGED << worker, link, workerSignals, loginResults >> /\ logins < MaxLogins
  BY DEF LoginInvariant, LoginTypeOK, login, Quiet
<1>2. logins + 1 \in 1..MaxLogins
  BY <1>1, LoginAssumption
<1>3. /\ workerCalls' \in Seq(LoginCall)
      /\ \A i \in DOMAIN workerCalls' :
            \/ i \in DOMAIN workerCalls /\ workerCalls'[i] = workerCalls[i]
            \/ i = Len(workerCalls) + 1 /\ workerCalls'[i] = logins + 1
      /\ \A i \in DOMAIN workerCalls : i <= Len(workerCalls) /\ workerCalls[i] \in 1..MaxLogins
  <2> DEFINE call == logins + 1
  <2>1. call \in LoginCall /\ workerCalls \in Seq(LoginCall) /\ workerCalls' = Append(workerCalls, call)
    BY <1>1, <1>2 DEF LoginCall
  <2> HIDE DEF call
  <2>2. workerCalls' \in Seq(LoginCall)
    BY <2>1
  <2>3. \A i \in DOMAIN workerCalls' :
            \/ i \in DOMAIN workerCalls /\ workerCalls'[i] = workerCalls[i]
            \/ i = Len(workerCalls) + 1 /\ workerCalls'[i] = call
    <3>1. /\ DOMAIN workerCalls = 1..Len(workerCalls) /\ Len(workerCalls) \in Nat
          /\ workerCalls' \in Seq(LoginCall) /\ Len(workerCalls') = Len(workerCalls) + 1
          /\ workerCalls'[Len(workerCalls) + 1] = call
          /\ \A i \in 1..Len(workerCalls) : workerCalls'[i] = workerCalls[i]
      BY <2>1, AppendProperties
    <3>2. DOMAIN workerCalls' = 1..(Len(workerCalls) + 1)
      BY <3>1
    <3> QED BY <3>1, <3>2
  <2>4. \A i \in DOMAIN workerCalls : i <= Len(workerCalls) /\ workerCalls[i] \in LoginCall
    BY <2>1
  <2> QED BY <2>2, <2>3, <2>4 DEF call, LoginCall
<1>4. LoginTypeOK'
  BY <1>1, <1>2, <1>3, LoginAssumption DEF LoginTypeOK
<1>5. /\ worker.login \in Nat /\ worker.login <= logins /\ logins \in Nat /\ Len(workerCalls) \in Nat
  BY <1>1, LoginAssumption DEF LoginTypeOK, Worker, CallsAreNew
<1>6. CallsAreNew'
  <2>1. worker'.login <= logins'
    BY <1>1, <1>5
  <2>2. ASSUME NEW i \in DOMAIN workerCalls'
        PROVE  /\ worker.login < workerCalls'[i] /\ workerCalls'[i] <= logins + 1
               /\ \A j \in DOMAIN workerCalls' : i < j => workerCalls'[i] < workerCalls'[j]
    <3>1. \A k \in DOMAIN workerCalls : /\ worker.login < workerCalls[k] /\ workerCalls[k] <= logins
                                        /\ workerCalls[k] < logins + 1 /\ workerCalls[k] <= logins + 1
      BY <1>1, <1>3, <1>5, LoginAssumption DEF CallsAreNew
    <3>2. CASE i \in DOMAIN workerCalls /\ workerCalls'[i] = workerCalls[i]
      BY <1>1, <1>3, <3>1, <3>2 DEF CallsAreNew
    <3>3. CASE i = Len(workerCalls) + 1 /\ workerCalls'[i] = logins + 1
      BY <1>1, <1>3, <1>5, <3>3
    <3> QED BY <1>3, <3>2, <3>3
  <2> QED BY <1>1, <2>1, <2>2 DEF CallsAreNew
<1>7. WorkerIsSound'
  BY <1>1 DEF WorkerIsSound
<1> QED BY <1>4, <1>6, <1>7 DEF LoginInvariant

\* Sending the login request reports nothing.
LEMMA LoginSendKeeps == ASSUME LoginInvariant, sendPendingLogin PROVE LoginInvariant'
<1>1. /\ LoginTypeOK /\ WorkerIsSound /\ worker \in Worker /\ link = "opening" /\ link' = "open"
      /\ worker' = [worker EXCEPT !.pendingLogin = FALSE, !.sent = worker.pendingLogin]
      /\ PageUnchanged /\ UNCHANGED << workerSignals, loginResults >>
  BY DEF LoginInvariant, LoginTypeOK, sendPendingLogin, Quiet
<1>2. /\ worker' \in Worker /\ worker'.login = worker.login
      /\ worker'.loginPending = worker.loginPending /\ ~worker'.pendingLogin
      /\ worker'.timer = worker.timer /\ worker'.signedIn = worker.signedIn
  <2>1. worker.pendingLogin \in BOOLEAN
    BY <1>1 DEF Worker
  <2> QED BY <1>1, <2>1 DEF Worker
<1>3. LoginTypeOK' /\ CallsAreNew'
  BY <1>1, <1>2, WorkerGoesOn
<1>4. WorkerIsSound'
  BY <1>1, <1>2 DEF WorkerIsSound
<1> QED BY <1>3, <1>4 DEF LoginInvariant

\* Every step of the worker and of the network keeps the invariant.
LEMMA LoginStep == LoginInvariant /\ [LoginNext]_loginVars => LoginInvariant'
<1> SUFFICES ASSUME LoginInvariant, [LoginNext]_loginVars PROVE LoginInvariant'
  OBVIOUS
<1>1. LoginTypeOK /\ WorkerIsSound
  BY DEF LoginInvariant
<1>2. CASE LoginTimeout
  BY <1>2, LinkFailureKeeps DEF LoginTimeout
<1>3. CASE HandshakeTimeout
  BY <1>1, <1>3, LinkFailureKeeps DEF HandshakeTimeout, WorkerIsSound
<1>4. CASE socketError
  BY <1>1, <1>4, LinkFailureKeeps DEF socketError, WorkerIsSound
<1>5. CASE HeartbeatTimeout
  BY <1>5, DisconnectedKeeps DEF HeartbeatTimeout
<1>6. CASE ReceiveResult
  <2>1. Tail(workerSignals) \in Seq({"succeeded", "failed"})
    BY <1>1, <1>6 DEF ReceiveResult, LoginTypeOK
  <2> QED BY <1>6, <2>1 DEF ReceiveResult, LoginInvariant, LoginTypeOK, CallsAreNew, WorkerIsSound
<1>7. CASE handleLogin \/ LinkDies \/ UNCHANGED loginVars
  <2>1. UNCHANGED << logins, workerCalls, workerSignals, worker, link, loginResults >>
    BY <1>7 DEF handleLogin, LinkDies, loginVars, PageUnchanged, Quiet
  <2> QED BY <2>1 DEF LoginInvariant, LoginTypeOK, CallsAreNew, WorkerIsSound
<1> QED BY <1>2, <1>3, <1>4, <1>5, <1>6, <1>7, AskKeeps, ConnectKeeps, RefusedKeeps, LoginSendKeeps,
           ResponseKeeps, DisconnectedKeeps DEF LoginNext

\* Every login gets reports that agree with the state of the session, for every
\* number of calls and every interleaving with the socket and the timer.
THEOREM LoginsAlwaysAgree == LoginSpec => []LoginsAgree
<1>1. LoginInvariant => LoginsAgree
  <2> SUFFICES ASSUME LoginInvariant PROVE LoginsAgree
    OBVIOUS
  <2>1. /\ LoginTypeOK /\ WorkerIsSound /\ DOMAIN loginResults = 1..MaxLogins
        /\ \A n \in 1..MaxLogins : loginResults[n] \in Reports
    BY DEF LoginInvariant, LoginTypeOK
  <2>2. ASSUME NEW results \in Reports
        PROVE  /\ \A j, k \in DOMAIN results : results[j] = results[k]
               /\ Len(results) <= 2
               /\ Len(results) = 2 => results[1] = "failed"
    BY DEF Reports
  <2>3. LoginResultsAgree
    BY <2>1, <2>2 DEF WorkerIsSound, LoginResultsAgree
  <2>4. PasswordHasATimer
    BY <2>1 DEF WorkerIsSound, PasswordHasATimer
  <2> QED BY <2>3, <2>4 DEF LoginsAgree
<1> QED BY <1>1, LoginStart, LoginStep, PTL DEF LoginSpec
============================================================================
