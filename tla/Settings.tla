------------------------------ MODULE Settings ------------------------------
(***************************************************************************)
(* The settings of one person: user_settings and its audit in              *)
(* PostgresRuntimeStore, and remoteSettings_ of QmlClientBackend on the    *)
(* devices the person signs in from.  The login of one device disconnects  *)
(* the other (module Gateway), a connection keeps the order of its frames, *)
(* and the frames of a connection that is gone are lost.                   *)
(*                                                                         *)
(* A profile is an appearance and the two switches that exclude each       *)
(* other; the columns left out are edited and stored like these.           *)
(***************************************************************************)
EXTENDS Integers, Sequences, FiniteSets, SequencesExt

CONSTANTS
    Device,
    MaxSettingsRevision, MaxSettingsFrames    \* bounds

VARIABLES
    settingsRow,        \* the row of user_settings, revision 0 while there is none
    settingsEvents,     \* user_setting_events
    signedIn,           \* device with the live connection, or none
    settingsRequests, settingsAnswers,    \* frames of that connection
    remoteSettings,     \* of each device: what it edits and sends, revision 0 at first
    confirmedSettings   \* of each device: SettingsModel, what the page shows
settingsVars == << settingsRow, settingsEvents, signedIn, settingsRequests, settingsAnswers,
                   remoteSettings, confirmedSettings >>

Appearance == {"system", "dark"}
Profile(revision, appearance, switches) ==
    [revision |-> revision, appearance |-> appearance, switches |-> switches]
DefaultSwitches == [twoFactor |-> FALSE, autoLogin |-> FALSE]
NoSettings == Profile(0, "system", DefaultSwitches)
Defaults(revision) == Profile(revision, "system", DefaultSwitches)

\* Mutant: the combination of the switches is not checked.
anyUserSettings(profile) == TRUE

validUserSettings(profile) == ~(profile.switches.twoFactor /\ profile.switches.autoLogin)

(* INSERT ... ON CONFLICT DO NOTHING before the row is read or updated.    *)
EnsuredRow == IF settingsRow.revision = 0 THEN Defaults(1) ELSE settingsRow
HasSettings == settingsRow.revision > 0

-----------------------------------------------------------------------------
AnswerSettings(answer) ==
    /\ settingsAnswers' = Append(settingsAnswers, answer)
    /\ settingsRequests' = Tail(settingsRequests)
    /\ UNCHANGED << signedIn, remoteSettings, confirmedSettings >>
Received(kind) == settingsRequests # << >> /\ Head(settingsRequests).kind = kind
SettingsFailed == [kind |-> "Failed"]

handleSettingsGet ==
    /\ Received("Get")
    /\ settingsRow' = EnsuredRow
    /\ AnswerSettings([kind |-> "Ready", settings |-> EnsuredRow])
    /\ UNCHANGED settingsEvents

(* The row at the expected revision is locked, changed and audited in one  *)
(* statement.  Without it the transaction is rolled back; the answer of    *)
(* updateSettings then loads the row, which may have to be made again.     *)
Commit(action, profile) ==
    /\ settingsRow' = profile
    /\ settingsEvents' = Append(settingsEvents,
           [action |-> action, from |-> EnsuredRow, to |-> profile])
    /\ AnswerSettings([kind |-> "Changed", settings |-> profile])

\* Mutant: the statement does not ask for the revision.
updateSettingsAnyRevision ==
    LET request == Head(settingsRequests) IN
    /\ Received("Update") /\ validUserSettings(request.settings)
    /\ EnsuredRow.revision < MaxSettingsRevision
    /\ Commit(request.edit, [request.settings EXCEPT !.revision = EnsuredRow.revision + 1])

updateSettings ==
    LET request == Head(settingsRequests) IN
    /\ Received("Update") /\ validUserSettings(request.settings)
    /\ request.settings.revision = EnsuredRow.revision
    /\ EnsuredRow.revision < MaxSettingsRevision
    /\ Commit(request.edit, [request.settings EXCEPT !.revision = @ + 1])
updateSettingsConflict ==
    LET request == Head(settingsRequests) IN
    /\ Received("Update") /\ validUserSettings(request.settings)
    /\ request.settings.revision # EnsuredRow.revision
    /\ settingsRow' = EnsuredRow
    /\ AnswerSettings(SettingsFailed)
    /\ UNCHANGED settingsEvents

resetSettings ==
    /\ Received("Reset") /\ HasSettings
    /\ Head(settingsRequests).revision = settingsRow.revision
    /\ settingsRow.revision < MaxSettingsRevision
    /\ Commit("resetAll", Defaults(settingsRow.revision + 1))

(* Refused by a check, by the revision of a reset, or a statement failed.  *)
SettingsRequestFails ==
    /\ settingsRequests # << >>
    /\ AnswerSettings(SettingsFailed)
    /\ UNCHANGED << settingsRow, settingsEvents >>

-----------------------------------------------------------------------------
(* initializeAuthenticatedSession asks for the settings.                   *)
SettingsSignIn(d) ==
    /\ d # signedIn
    /\ signedIn' = d
    /\ settingsRequests' = << [kind |-> "Get"] >> /\ settingsAnswers' = << >>
    /\ UNCHANGED << settingsRow, settingsEvents, remoteSettings, confirmedSettings >>

SettingsLinkLost ==
    /\ signedIn # "none"
    /\ signedIn' = "none" /\ settingsRequests' = << >> /\ settingsAnswers' = << >>
    /\ UNCHANGED << settingsRow, settingsEvents, remoteSettings, confirmedSettings >>

(* NetworkWorker drops what is asked of it while it is not authenticated.  *)
SendSettings(d, request) ==
    /\ Len(settingsRequests) + Len(settingsAnswers) < MaxSettingsFrames
    /\ settingsRequests' = IF signedIn = d THEN Append(settingsRequests, request) ELSE settingsRequests
    /\ UNCHANGED << settingsRow, settingsEvents, signedIn, settingsAnswers, confirmedSettings >>

(* remoteSettings_ is changed in place, then sent with its revision.  The  *)
(* profile as it was when the device last saw it goes along as a ghost.    *)
Edit(d, edit, profile) ==
    /\ remoteSettings[d].revision > 0
    /\ remoteSettings' = [remoteSettings EXCEPT ![d] = profile]
    /\ SendSettings(d, [kind |-> "Update", edit |-> edit, settings |-> profile,
                        basis |-> confirmedSettings[d]])

updateSetting(d) ==
    LET now == remoteSettings[d] IN
    \/ \E on \in BOOLEAN :
          \/ Edit(d, "switch", [now EXCEPT !.switches.twoFactor = on])
          \/ Edit(d, "switch", [now EXCEPT !.switches.autoLogin = on])
    \/ \E theme \in Appearance : Edit(d, "appearance", [now EXCEPT !.appearance = theme])
applyAppearancePreset(d) == Edit(d, "appearance", [remoteSettings[d] EXCEPT !.appearance = "dark"])
resetAppearanceSettings(d) ==
    Edit(d, "resetAppearance", [remoteSettings[d] EXCEPT !.appearance = "system"])
resetAllSettings(d) ==
    /\ signedIn = d /\ remoteSettings[d].revision > 0
    /\ SendSettings(d, [kind |-> "Reset", revision |-> remoteSettings[d].revision,
                        basis |-> confirmedSettings[d]])
    /\ UNCHANGED remoteSettings
refreshSettings(d) ==
    /\ signedIn = d
    /\ SendSettings(d, [kind |-> "Get"])
    /\ UNCHANGED remoteSettings

(* settingsReady, settingsUpdated and settingsReset replace everything; an *)
(* error shows a text and leaves what was edited.                          *)
applySettings(settings) ==
    /\ remoteSettings' = [remoteSettings EXCEPT ![signedIn] = settings]
    /\ confirmedSettings' = [confirmedSettings EXCEPT ![signedIn] = settings]

\* Mutant: an error shows what was edited.
ReceiveSettingsOrEdits ==
    /\ settingsAnswers # << >>
    /\ settingsAnswers' = Tail(settingsAnswers)
    /\ applySettings(IF Head(settingsAnswers).kind = "Failed" THEN remoteSettings[signedIn]
                     ELSE Head(settingsAnswers).settings)
    /\ UNCHANGED << settingsRow, settingsEvents, signedIn, settingsRequests >>

ReceiveSettings ==
    /\ settingsAnswers # << >>
    /\ settingsAnswers' = Tail(settingsAnswers)
    /\ IF Head(settingsAnswers).kind = "Failed"
         THEN UNCHANGED << remoteSettings, confirmedSettings >>
         ELSE applySettings(Head(settingsAnswers).settings)
    /\ UNCHANGED << settingsRow, settingsEvents, signedIn, settingsRequests >>

-----------------------------------------------------------------------------
SettingsInit ==
    /\ settingsRow = NoSettings /\ settingsEvents = << >>
    /\ signedIn = "none" /\ settingsRequests = << >> /\ settingsAnswers = << >>
    /\ remoteSettings = [d \in Device |-> NoSettings]
    /\ confirmedSettings = [d \in Device |-> NoSettings]

SettingsNext ==
    \/ handleSettingsGet
    \/ updateSettings
    \/ updateSettingsConflict
    \/ resetSettings
    \/ SettingsRequestFails
    \/ SettingsLinkLost
    \/ ReceiveSettings
    \/ \E d \in Device :
          \/ SettingsSignIn(d)
          \/ updateSetting(d)
          \/ applyAppearancePreset(d)
          \/ resetAppearanceSettings(d)
          \/ resetAllSettings(d)
          \/ refreshSettings(d)
SettingsSpec == SettingsInit /\ [][SettingsNext]_settingsVars

-----------------------------------------------------------------------------
(* The row and the audit tell one story over all devices: every revision   *)
(* has one entry that starts from the profile the one before left, the     *)
(* last one left what is stored, and no stored profile has both switches.  *)
SettingsHaveOneHistory ==
    /\ HasSettings => Len(settingsEvents) = settingsRow.revision - 1
    /\ \A k \in DOMAIN settingsEvents :
          /\ settingsEvents[k].from = IF k = 1 THEN Defaults(1) ELSE settingsEvents[k - 1].to
          /\ settingsEvents[k].to.revision = k + 1
          /\ ~(settingsEvents[k].to.switches.twoFactor /\ settingsEvents[k].to.switches.autoLogin)
    /\ settingsEvents # << >> => settingsRow = settingsEvents[Len(settingsEvents)].to

(* ClientTlsStackTests.cpp:389: two devices must not overwrite what the    *)
(* other changed.  A change is committed only over the profile the device  *)
(* was shown last when it asked, so that it undoes nothing unseen.         *)
OthersAreNotOverwritten ==
    [][settingsEvents' # settingsEvents => Head(settingsRequests).basis = EnsuredRow]_settingsVars

(* SettingsModel.h:120: the page shows what the server confirmed, and      *)
(* never turns back to an older profile, through any failure or new login. *)
ShownSettingsAdvance ==
    [][\A d \in Device : confirmedSettings'[d] # confirmedSettings[d] =>
          /\ confirmedSettings'[d].revision > confirmedSettings[d].revision
          /\ confirmedSettings'[d] \in {Defaults(1)} \cup {settingsEvents[k].to : k \in DOMAIN settingsEvents}
      ]_settingsVars
=============================================================================
