------------------------------ MODULE MCClient ------------------------------
(***************************************************************************)
(* What clients do beside chats, for TLC: uploads, notifications and       *)
(* settings.  They share nothing, so each behaviour runs one of them and   *)
(* their states add up.  The bounds named Few.. keep one of them small.    *)
(***************************************************************************)
EXTENDS MCFileUpload, Notices, Settings, TLC

VARIABLE part
clientVars == << part, uploadVars, noticeVars, settingsVars >>

MCNoticeQuery == {<< 0, FALSE >>, << 1, TRUE >>}
FewNotices == \A i \in DOMAIN notices' : ~notices'[i].ignored
\* Of the two devices one edits switches, and the other one its appearance.
FewSettings ==
    /\ remoteSettings'["d2"].switches = confirmedSettings'["d2"].switches
    /\ remoteSettings'["d1"].appearance = confirmedSettings'["d1"].appearance
    /\ signedIn' = "d2" => \A i \in DOMAIN settingsRequests' : settingsRequests'[i].kind # "Reset"

ClientInit ==
    /\ UploadInit /\ NoticesInit /\ SettingsInit
    /\ part \in {"uploads", "notices", "settings"}
ClientNext ==
    \/ /\ part = "uploads" /\ UploadNext
       /\ UNCHANGED << part, noticeVars, settingsVars >>
    \/ /\ part = "notices" /\ NoticesNext /\ FewNotices
       /\ UNCHANGED << part, uploadVars, settingsVars >>
    \/ /\ part = "settings" /\ SettingsNext /\ FewSettings
       /\ UNCHANGED << part, uploadVars, noticeVars >>
ClientSpec == ClientInit /\ [][ClientNext]_clientVars
=============================================================================
