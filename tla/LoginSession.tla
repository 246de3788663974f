---------------------------- MODULE LoginSession ----------------------------
(***************************************************************************)
(* Signing in: QmlClientBackend asks, NetworkWorker on its own thread      *)
(* opens a socket, sends the login frame once the channel is secure and    *)
(* reports one way or the other.  Calls to the worker and its signals are  *)
(* queued between the threads; a new login gives up the socket before it.  *)
(* The server answers, refuses, closes or is never heard of again: then    *)
(* the timers of the worker end what is under way.                         *)
(***************************************************************************)
EXTENDS Naturals, Sequences

CONSTANT MaxLogins    \* bound on the logins asked for
ASSUME LoginAssumption == MaxLogins \in Nat

VARIABLES
    logins,             \* number of logins asked for
    busy,               \* busy_, what the login page shows
    workerCalls,        \* queued calls of connectAndLogin
    workerSignals,      \* queued loginSucceeded and loginFailed
    worker,             \* the members of NetworkWorker
    link,               \* its socket: none, opening, open or closed
    linkAlive,          \* does anything still get through?
    serverAnswer,       \* what the gateway has sent on this socket: none, accepted, refused
    loginResults        \* ghost: what the worker reported, per login
loginVars == << logins, busy, workerCalls, workerSignals, worker, link, linkAlive,
                serverAnswer, loginResults >>

Idling == [login |-> 0, loginPending |-> FALSE, pendingLogin |-> FALSE, sent |-> FALSE,
           timer |-> FALSE, signedIn |-> FALSE, failureHandled |-> FALSE]

Report(kind) ==
    /\ workerSignals' = Append(workerSignals, kind)
    /\ loginResults' = [loginResults EXCEPT ![worker.login] = Append(@, kind)]
Quiet == UNCHANGED << workerSignals, loginResults >>
PageUnchanged == UNCHANGED << logins, busy, workerCalls >>

-----------------------------------------------------------------------------
(* QmlClientBackend::login: the return key asks also while it is busy.     *)
login ==
    /\ logins < MaxLogins
    /\ logins' = logins + 1 /\ busy' = TRUE
    /\ workerCalls' = Append(workerCalls, logins + 1)
    /\ UNCHANGED << worker, link, linkAlive, serverAnswer >> /\ Quiet

ReceiveResult ==
    /\ workerSignals # << >>
    /\ workerSignals' = Tail(workerSignals) /\ busy' = FALSE
    /\ UNCHANGED << logins, workerCalls, worker, link, linkAlive, serverAnswer, loginResults >>

-----------------------------------------------------------------------------
(* connectAndLogin, which begins with shutdown; an address or certificate  *)
(* that is no good ends it at once.                                        *)
Given(call) == [Idling EXCEPT !.login = call]
connectAndLogin ==
    /\ workerCalls # << >>
    /\ workerCalls' = Tail(workerCalls)
    /\ worker' = [Given(Head(workerCalls)) EXCEPT !.loginPending = TRUE, !.pendingLogin = TRUE,
                                                  !.timer = TRUE]
    /\ link' = "opening" /\ linkAlive' = TRUE /\ serverAnswer' = "none"
    /\ UNCHANGED << logins, busy >> /\ Quiet
connectionRefused ==
    /\ workerCalls # << >>
    /\ workerCalls' = Tail(workerCalls)
    /\ worker' = Given(Head(workerCalls))
    /\ link' = "none" /\ linkAlive' = FALSE /\ serverAnswer' = "none"
    /\ workerSignals' = Append(workerSignals, "failed")
    /\ loginResults' = [loginResults EXCEPT ![Head(workerCalls)] = Append(@, "failed")]
    /\ UNCHANGED << logins, busy >>

(* The channel is secure.                                                  *)
sendPendingLogin ==
    /\ link = "opening" /\ linkAlive
    /\ link' = "open"
    /\ worker' = [worker EXCEPT !.pendingLogin = FALSE, !.sent = worker.pendingLogin]
    /\ UNCHANGED << linkAlive, serverAnswer >> /\ PageUnchanged /\ Quiet

(* handleSocketFailure: the failure is marked first, so that what abort    *)
(* calls back does not report it again.                                    *)
handleSocketFailure ==
    /\ ~worker.failureHandled
    /\ worker' = [worker EXCEPT !.failureHandled = TRUE, !.loginPending = FALSE,
                                !.pendingLogin = FALSE, !.timer = FALSE, !.signedIn = FALSE]
    /\ link' = "closed"
    /\ Report("failed")
    /\ UNCHANGED << linkAlive, serverAnswer >> /\ PageUnchanged

\* Mutant: the time runs only for a request that was sent.
LoginTimeoutOnceSent ==
    worker.sent /\ worker.timer /\ worker.loginPending /\ ~worker.signedIn /\ handleSocketFailure

LoginTimeout == worker.timer /\ worker.loginPending /\ ~worker.signedIn /\ handleSocketFailure
HandshakeTimeout == link = "opening" /\ worker.pendingLogin /\ handleSocketFailure

\* Mutant: nobody asks whether somebody is signed in.
socketErrorAnytime == link \in {"opening", "open"} /\ handleSocketFailure

(* errorOccurred, sslErrors: the socket is there and nobody is signed in.  *)
socketError ==
    /\ link \in {"opening", "open"} /\ ~worker.signedIn
    /\ handleSocketFailure

(* disconnected, after an answer or without one.                           *)
socketDisconnected ==
    /\ link = "open"
    /\ IF ~worker.signedIn /\ worker.loginPending
         THEN handleSocketFailure
         ELSE /\ worker' = [worker EXCEPT !.signedIn = FALSE]
              /\ link' = "closed"
              /\ UNCHANGED << linkAlive, serverAnswer >> /\ PageUnchanged /\ Quiet

(* dispatchFrame of the LoginResponse.                                     *)
handleLoginResponse ==
    /\ link = "open" /\ linkAlive /\ serverAnswer # "none" /\ worker.sent /\ worker.loginPending
    /\ worker' = [worker EXCEPT !.timer = FALSE, !.loginPending = FALSE, !.pendingLogin = FALSE,
                                !.signedIn = serverAnswer = "accepted"]
    /\ Report(IF serverAnswer = "accepted" THEN "succeeded" ELSE "failed")
    /\ UNCHANGED << link, linkAlive, serverAnswer >> /\ PageUnchanged

(* sendHeartbeat: no pong for 75 s.                                        *)
HeartbeatTimeout ==
    /\ worker.signedIn /\ ~linkAlive
    /\ socketDisconnected

-----------------------------------------------------------------------------
(* The gateway answers the login it received.                              *)
handleLogin ==
    /\ link = "open" /\ linkAlive /\ worker.sent /\ serverAnswer = "none"
    /\ serverAnswer' \in {"accepted", "refused"}
    /\ UNCHANGED << worker, link, linkAlive >> /\ PageUnchanged /\ Quiet

LinkDies ==
    /\ linkAlive
    /\ linkAlive' = FALSE
    /\ UNCHANGED << worker, link, serverAnswer >> /\ PageUnchanged /\ Quiet

LoginInit ==
    /\ logins = 0 /\ busy = FALSE /\ workerCalls = << >> /\ workerSignals = << >>
    /\ worker = Idling /\ link = "none" /\ linkAlive = FALSE /\ serverAnswer = "none"
    /\ loginResults = [n \in 1..MaxLogins |-> << >>]
LoginNext ==
    \/ login \/ ReceiveResult
    \/ connectAndLogin \/ connectionRefused
    \/ sendPendingLogin \/ handleLoginResponse
    \/ LoginTimeout \/ HandshakeTimeout \/ HeartbeatTimeout
    \/ socketError \/ socketDisconnected
    \/ handleLogin \/ LinkDies
(* The event loops turn and the timers fire: nothing is asked of the       *)
(* network or the server.                                                  *)
LoginFairness ==
    /\ WF_loginVars(ReceiveResult) /\ WF_loginVars(connectAndLogin \/ connectionRefused)
    /\ WF_loginVars(LoginTimeout) /\ WF_loginVars(HeartbeatTimeout)
LoginSpec == LoginInit /\ [][LoginNext]_loginVars /\ LoginFairness

-----------------------------------------------------------------------------
(* One login is never reported both ways, whichever of the answer, the two *)
(* timers, the error and the disconnection come first; and only a refused  *)
(* one, whose socket the worker keeps, may be reported failed again.       *)
LoginResultsAgree ==
    \A n \in DOMAIN loginResults :
        LET results == loginResults[n] IN
        /\ \A j, k \in DOMAIN results : results[j] = results[k]
        /\ Len(results) <= 2
        /\ Len(results) = 2 => results[1] = "failed"
        /\ worker.login = n /\ worker.signedIn => results = << "succeeded" >>

(* The copy of the password lives only while a login is under way and a    *)
(* timer is there to end it (NetworkWorker.cpp, clearPendingPassword).     *)
PasswordHasATimer ==
    /\ worker.pendingLogin => worker.loginPending
    /\ worker.loginPending => worker.timer /\ loginResults[worker.login] = << >>
    /\ worker.signedIn => link = "open" /\ ~worker.timer

(* What is reported and what is kept of a login: both of the above.        *)
LoginsAgree == LoginResultsAgree /\ PasswordHasATimer

(* The login page does not stay busy, and a dead link is noticed.          *)
LoginsEnd ==
    /\ busy ~> ~busy
    /\ worker.signedIn /\ ~linkAlive ~> ~worker.signedIn \/ linkAlive
=============================================================================
