---------------------------- MODULE BridgeClient ----------------------------
(***************************************************************************)
(* The session of the sidecar with the Proton Bridge: the BridgeClient of  *)
(* sidecar/bridge.go with every goroutine that touches it.                 *)
(*                                                                         *)
(*  - login goroutines: TryAutoLogin, once at startup, and one doLogin for *)
(*    each POST or PUT, both ending in finishLogin;                        *)
(*  - the monitorBridge goroutine that finishLogin starts, with the IMAP   *)
(*    watchers it starts and stops;                                        *)
(*  - the REST handlers that call StartLogin and Logout (sidecar/api.go).  *)
(*                                                                         *)
(* An element of Logins names one login attempt and what it creates: its   *)
(* connection, its monitor and that monitor's stop channel.  It may be     *)
(* used again once all of these are gone, so Logins bounds how many are    *)
(* alive at a time and not how many there are.                             *)
(***************************************************************************)
EXTENDS GrpcBridge

CONSTANTS
    AutoLogin,  \* the attempt of TryAutoLogin
    Handlers,   \* REST requests served at a time that log out
    Client      \* what the callers of the REST API do: see MayPost

ASSUME ClientAssumption ==
    /\ AutoLogin \in Logins
    /\ None \notin Handlers
    /\ Client \in {"any", "polite", "careful"}

VARIABLES
    bc,     \* the BridgeClient's fields, guarded by bc.mu
    lpc,    \* where each login goroutine is
    luser,  \* the user each attempt is about
    mon,    \* the monitor of each attempt, a record
    hpc,    \* where each REST handler is in Logout
    hloc    \* the session and the user a handler took out of bc

loginVars == <<lpc, luser>>
handlerVars == <<hpc, hloc>>
clientVars == <<bc, lpc, luser, mon, hpc, hloc>>
vars == <<bridge, restarts, bc, lpc, luser, mon, hpc, hloc>>

States == {"idle", "pending", "connected", "reconnecting", "error"}

\* conn, grpcClient, callCtx, userID, username, imapPassword and monitorStop are
\* written together by finishLogin and cleared together by Logout: session, the
\* attempt they come from, stands for all of them.  stateMsg only words state,
\* and watcherStop is never read.
ClientStates == [state : States, session : Logins \cup {None}]

LoginPcs == {"idle", "start", "connect", "open", "list", "wait", "check",
             "login", "event", "stop", "stopfail", "giveup", "finish", "publish"}

ChanStates == {"none", "open", "closed", "panic"}

\* stop is monitorStop.  imap is imapRunning and ch the channel watcherStop, both
\* local to the monitor; live counts the watchers nobody told to stop.  snap is
\* what GetUser answered.
MonitorStates ==
    [pc    : {"none", "start", "loop", "open", "backoff", "sync", "apply",
              "select", "stop"},
     stop  : ChanStates,
     snap  : UserStates,
     imap  : BOOLEAN,
     ch    : ChanStates,
     live  : Nat]

NoMonitor == [pc |-> "none", stop |-> "none", snap |-> "none", imap |-> FALSE,
              ch |-> "none", live |-> 0]

HandlerPcs == {"idle", "close", "user", "conn", "relogin"}

\* Every variable has values of its type.
TypeOK ==
    /\ BridgeTypeOK
    /\ bc \in ClientStates
    /\ lpc \in [Logins -> LoginPcs]
    /\ luser \in [Logins -> Users \cup {None}]
    /\ mon \in [Logins -> MonitorStates]
    /\ hpc \in [Handlers -> HandlerPcs]
    /\ hloc \in [Handlers -> [session : Logins \cup {None},
                              user : Users \cup {None}]]

Nothing == [session |-> None, user |-> None]

Init ==
    /\ BridgeInit
    /\ bc = [state |-> "idle", session |-> None]
    /\ lpc = [a \in Logins |-> IF a = AutoLogin THEN "start" ELSE "idle"]
    /\ luser = [a \in Logins |-> None]
    /\ mon = [a \in Logins |-> NoMonitor]
    /\ hpc = [h \in Handlers |-> "idle"]
    /\ hloc = [h \in Handlers |-> Nothing]

\* close(ch) of Go: closing a channel twice, or one that was never made, panics.
CloseChan(c) == IF c = "open" THEN "closed" ELSE "panic"

-----------------------------------------------------------------------------
(* Login: TryAutoLogin and doLogin.                                        *)

SetState(s) == bc' = [bc EXCEPT !.state = s]

Goto(a, pc) == lpc' = [lpc EXCEPT ![a] = pc]

\* Nothing is left of an earlier attempt of this name.
Free(a) ==
    /\ lpc[a] = "idle"
    /\ mon[a] = NoMonitor
    /\ bridge.conn[a] = "none"
    /\ bc.session # a
    /\ \A h \in Handlers : hloc[h].session # a

StartLogin(a) ==
    /\ a # AutoLogin
    /\ Free(a)
    /\ bc.state # "pending"
    /\ SetState("pending")
    /\ Goto(a, "connect")

AutoStart ==
    /\ lpc[AutoLogin] = "start"
    /\ SetState("pending")
    /\ Goto(AutoLogin, "connect")
    /\ UNCHANGED <<bridge, restarts, luser, mon, handlerVars>>

\* The state an attempt that fails before finishLogin leaves.
Verdict(a) == IF a = AutoLogin THEN "idle" ELSE "error"

\* conn.Close() and return, having set the state.
Abandon(a, state) ==
    /\ bridge' = Close(bridge, a)
    /\ SetState(state)
    /\ Goto(a, "idle")
    /\ luser' = [luser EXCEPT ![a] = None]

\* connectAndReady, whose retries are one step: it ends with a connection that
\* answered GuiReady, or gives up.
Connect(a) ==
    /\ lpc[a] = "connect"
    /\ \/ bridge' = Dial(bridge, a) /\ Goto(a, "open") /\ UNCHANGED <<bc, luser>>
       \/ "connect" \in FailingRpcs /\ Abandon(a, Verdict(a))
    /\ UNCHANGED <<restarts, mon, handlerVars>>

LoginOpen(a) ==
    /\ lpc[a] = "open"
    /\ \/ /\ CanSucceed(bridge, a)
          /\ bridge' = RunEventStream(bridge, a)
          /\ Goto(a, IF a = AutoLogin THEN "list" ELSE "login")
          /\ UNCHANGED <<bc, luser>>
       \/ CanFail(bridge, a, "open") /\ Abandon(a, Verdict(a))
    /\ UNCHANGED <<restarts, mon, handlerVars>>

\* The Login call.  When it fails the connection is closed at once.
LoginCall(a) ==
    /\ lpc[a] = "login"
    /\ \/ CanSucceed(bridge, a) /\ Goto(a, "event") /\ UNCHANGED <<bridge, bc, luser>>
       \/ CanFail(bridge, a, "login") /\ Abandon(a, "error")
    /\ UNCHANGED <<restarts, mon, handlerVars>>

\* waitForLoginEvent: the bridge reports the user it logged in, or there is an
\* error event, a challenge, the timeout, or the end of the stream.
LoginEvent(a) ==
    /\ lpc[a] = "event"
    /\ \/ \E u \in Users :
            /\ bridge.stream = a
            /\ bridge' = LoggedIn(bridge, u)
            /\ luser' = [luser EXCEPT ![a] = u]
            /\ Goto(a, "stop")
       \/ Goto(a, "stopfail") /\ UNCHANGED <<bridge, luser>>
    /\ UNCHANGED <<restarts, bc, mon, handlerVars>>

\* stopEventStream ignores the error of its call.
StopEventStream(b, a) ==
    (IF CanSucceed(b, a) THEN {EndStream(b)} ELSE {})
        \cup (IF CanFail(b, a, "stop") THEN {b} ELSE {})

LoginStop(a) ==
    /\ lpc[a] \in {"stop", "stopfail"}
    /\ bridge' \in StopEventStream(bridge, a)
    /\ Goto(a, IF lpc[a] = "stop" THEN "finish" ELSE "giveup")
    /\ UNCHANGED <<restarts, bc, luser, mon, handlerVars>>

\* Mutant: returns without setError.
GiveUpSilently(a) ==
    /\ lpc[a] = "giveup"
    /\ bridge' = Close(bridge, a)
    /\ Goto(a, "idle")
    /\ luser' = [luser EXCEPT ![a] = None]
    /\ UNCHANGED <<restarts, bc, mon, handlerVars>>

GiveUp(a) ==
    /\ lpc[a] = "giveup"
    /\ Abandon(a, Verdict(a))
    /\ UNCHANGED <<restarts, mon, handlerVars>>

-----------------------------------------------------------------------------
(* TryAutoLogin between opening the stream and stopping it.                *)

\* Mutant: the connection is closed without stopEventStream.
NobodyNoStop == "giveup"

\* Where TryAutoLogin goes when there is nobody to restore.
NobodyToRestore == "stopfail"

AutoList ==
    /\ lpc[AutoLogin] = "list"
    /\ \/ /\ CanSucceed(bridge, AutoLogin)
          /\ \E u \in Vault(bridge) :
               /\ luser' = [luser EXCEPT ![AutoLogin] = u]
               /\ Goto(AutoLogin, IF bridge.ustate[u] = "CONNECTED" THEN "stop" ELSE "wait")
       \/ /\ CanFail(bridge, AutoLogin, "list") \/ Vault(bridge) = {}
          /\ Goto(AutoLogin, NobodyToRestore)
          /\ UNCHANGED luser
    /\ UNCHANGED <<bridge, restarts, bc, mon, handlerVars>>

\* Mutant: AllUsersLoaded does not count.
RelevantChanged(u) == {Changed(u)}

\* The events after which waitForUserConnected asks for the user's state.
Relevant(u) == {Changed(u), Loaded}

AutoEvent ==
    /\ lpc[AutoLogin] = "wait"
    /\ bridge.stream = AutoLogin
    /\ \E e \in bridge.queue :
         /\ bridge' = [bridge EXCEPT !.queue = @ \ {e}]
         /\ Goto(AutoLogin, IF e \in Relevant(luser[AutoLogin]) THEN "check" ELSE "wait")
    /\ UNCHANGED <<restarts, bc, luser, mon, handlerVars>>

\* Mutant: it waits for ever.
AutoNoTimeout == FALSE

\* The 60 seconds are over, or the stream is.
AutoTimeout ==
    /\ lpc[AutoLogin] = "wait"
    /\ Goto(AutoLogin, "stopfail")
    /\ UNCHANGED <<bridge, restarts, bc, luser, mon, handlerVars>>

AutoCheck ==
    /\ lpc[AutoLogin] = "check"
    /\ \/ /\ CanSucceed(bridge, AutoLogin)
          /\ Goto(AutoLogin, IF bridge.ustate[luser[AutoLogin]] = "CONNECTED"
                        THEN "stop" ELSE "wait")
       \/ CanFail(bridge, AutoLogin, "get") /\ Goto(AutoLogin, "stopfail")
    /\ UNCHANGED <<bridge, restarts, bc, luser, mon, handlerVars>>

-----------------------------------------------------------------------------
(* finishLogin.                                                            *)

\* SetIsAutomaticUpdateOn, whose result is ignored, and GetUserList.
FinishList(a) ==
    /\ lpc[a] = "finish"
    /\ \/ /\ CanSucceed(bridge, a)
          /\ Vault(bridge) # {}
          /\ Goto(a, "publish")
          /\ UNCHANGED <<bridge, bc, luser>>
       \/ /\ CanFail(bridge, a, "list") \/ Vault(bridge) = {}
          /\ Abandon(a, "error")
    /\ UNCHANGED <<restarts, mon, handlerVars>>

\* monitorBridge, about to run, with a channel to stop it.
NewMonitor == [NoMonitor EXCEPT !.pc = "start", !.stop = "open"]

\* The session is published and its monitor started, whatever bc held before.
\* The caller's deferred streamCancel() is part of the step.
Publish(a) ==
    /\ lpc[a] = "publish"
    /\ bc' = [state |-> "connected", session |-> a]
    /\ mon' = [mon EXCEPT ![a] = NewMonitor]
    /\ bridge' = CancelStream(bridge, a)
    /\ Goto(a, "idle")
    /\ UNCHANGED <<restarts, luser, handlerVars>>

-----------------------------------------------------------------------------
(* The monitor of one session, and its IMAP watchers.                      *)

StartWatcher(m) == [m EXCEPT !.imap = TRUE, !.ch = "open", !.live = @ + 1]

\* Mutant: imapRunning is not consulted.
StopWatcherAlways(m) ==
    [m EXCEPT !.imap = FALSE, !.ch = CloseChan(@), !.live = @ - 1]

StopWatcher(m) ==
    IF m.imap
    THEN [m EXCEPT !.imap = FALSE, !.ch = CloseChan(@), !.live = @ - 1]
    ELSE m

\* Mutant: the monitor returns without closing watcherStop.
ExitedLeaky(m) == [m EXCEPT !.pc = "none", !.stop = "none", !.ch = "none"]

Exited(m) ==
    [StopWatcher(m) EXCEPT !.pc = "none", !.stop = "none", !.ch = "none"]

MonitorIs(a, pc) == mon[a].pc = pc
MonitorGoto(a, m, pc) == mon' = [mon EXCEPT ![a] = [m EXCEPT !.pc = pc]]

MonitorStart(a) ==
    /\ MonitorIs(a, "start")
    /\ MonitorGoto(a, StartWatcher(mon[a]), "loop")
    /\ UNCHANGED <<bridge, restarts, bc, loginVars, handlerVars>>

MonitorExit(a) ==
    /\ mon[a].pc \in {"loop", "backoff"}
    /\ mon[a].stop # "open"
    /\ mon' = [mon EXCEPT ![a] = Exited(@)]
    /\ luser' = [luser EXCEPT ![a] = None]
    /\ UNCHANGED <<bridge, restarts, bc, lpc, handlerVars>>

MonitorLoop(a) ==
    /\ \/ MonitorIs(a, "loop") /\ mon[a].stop = "open" /\ MonitorGoto(a, mon[a], "open")
       \/ MonitorIs(a, "backoff") /\ MonitorGoto(a, mon[a], "loop")
    /\ UNCHANGED <<bridge, restarts, bc, loginVars, handlerVars>>

\* Mutant: the monitor returns when the stream cannot be opened.
NotOpenedReturns(m) == Exited(m)

\* The stream could not be opened: wait and try again.
NotOpened(m) == [m EXCEPT !.pc = "backoff"]

MonitorOpen(a) ==
    /\ MonitorIs(a, "open")
    /\ \/ /\ CanSucceed(bridge, a)
          /\ bridge' = RunEventStream(bridge, a)
          /\ MonitorGoto(a, mon[a], "sync")
       \/ /\ CanFail(bridge, a, "open")
          /\ mon' = [mon EXCEPT ![a] = NotOpened(@)]
          /\ UNCHANGED bridge
    /\ UNCHANGED <<restarts, bc, loginVars, handlerVars>>

\* monitorSyncState up to the answer of GetUser...
MonitorSync(a) ==
    /\ MonitorIs(a, "sync")
    /\ \/ /\ CanSucceed(bridge, a)
          /\ MonitorGoto(a, [mon[a] EXCEPT !.snap = bridge.ustate[luser[a]]], "apply")
       \/ CanFail(bridge, a, "get") /\ MonitorGoto(a, mon[a], "select")
    /\ UNCHANGED <<bridge, restarts, bc, loginVars, handlerVars>>

\* ... and what it makes of the answer, which may be out of date by now.
\* Mutant: a watcher is started even if one is running.
AppliedTwice(m) ==
    CASE m.snap = "CONNECTED" -> StartWatcher(m)
      [] m.snap \in {"LOCKED", "SIGNED_OUT"} -> StopWatcher(m)
      [] OTHER -> m

\* Mutant: LOCKED is taken for a passing state.
AppliedIgnoresLocked(m) ==
    CASE m.snap = "CONNECTED" /\ ~m.imap -> StartWatcher(m)
      [] m.snap = "SIGNED_OUT" -> StopWatcher(m)
      [] OTHER -> m

Applied(m) ==
    CASE m.snap = "CONNECTED" /\ ~m.imap -> StartWatcher(m)
      [] m.snap \in {"LOCKED", "SIGNED_OUT"} -> StopWatcher(m)
      [] OTHER -> m

\* Mutant: LOCKED does not change the state.
AppliedStateLocked(m) ==
    CASE m.snap = "CONNECTED" /\ ~m.imap -> "connected"
      [] m.snap = "SIGNED_OUT" -> "error"
      [] OTHER -> bc.state

\* Mutant: the state is not set back to connected.
AppliedStateStuck(m) ==
    CASE m.snap = "LOCKED" /\ m.imap -> "reconnecting"
      [] m.snap = "SIGNED_OUT" -> "error"
      [] OTHER -> bc.state

AppliedState(m) ==
    CASE m.snap = "CONNECTED" /\ ~m.imap -> "connected"
      [] m.snap = "LOCKED" /\ m.imap -> "reconnecting"
      [] m.snap = "SIGNED_OUT" -> "error"
      [] OTHER -> bc.state

MonitorApply(a) ==
    /\ MonitorIs(a, "apply")
    /\ MonitorGoto(a, [Applied(mon[a]) EXCEPT !.snap = "none"], "select")
    /\ SetState(AppliedState(mon[a]))
    /\ UNCHANGED <<bridge, restarts, loginVars, handlerVars>>

\* The select of monitorEventLoop: each ready case may be taken.
SeesStop(a) ==
    /\ MonitorIs(a, "select")
    /\ mon[a].stop # "open"
    /\ MonitorGoto(a, mon[a], "stop")
    /\ UNCHANGED <<bridge, restarts, bc, loginVars, handlerVars>>

PollTick(a) ==
    /\ MonitorIs(a, "select")
    /\ MonitorGoto(a, mon[a], "sync")
    /\ UNCHANGED <<bridge, restarts, bc, loginVars, handlerVars>>

StreamEnded(a) ==
    /\ MonitorIs(a, "select")
    /\ bridge.stream # a
    /\ MonitorGoto(a, mon[a], "stop")
    /\ UNCHANGED <<bridge, restarts, bc, loginVars, handlerVars>>

\* UserDisconnected counts for whichever user it names; UserChanged only for ours.
Receives(a) ==
    /\ MonitorIs(a, "select")
    /\ bridge.stream = a
    /\ \E e \in bridge.queue :
         /\ bridge' = [bridge EXCEPT !.queue = @ \ {e}]
         /\ \/ /\ e[1] = "disc"
               /\ MonitorGoto(a, StopWatcher(mon[a]), "select")
               /\ SetState("error")
            \/ /\ e = Changed(luser[a])
               /\ MonitorGoto(a, mon[a], "sync")
               /\ UNCHANGED bc
            \/ /\ e[1] # "disc" /\ e # Changed(luser[a])
               /\ UNCHANGED <<bc, mon>>
    /\ UNCHANGED <<restarts, loginVars, handlerVars>>

\* stopEventStream, then streamCancel.
MonitorStopStream(a) ==
    /\ MonitorIs(a, "stop")
    /\ \E b \in StopEventStream(bridge, a) : bridge' = CancelStream(b, a)
    /\ MonitorGoto(a, mon[a], "loop")
    /\ UNCHANGED <<restarts, bc, loginVars, handlerVars>>

-----------------------------------------------------------------------------
(* The REST handlers.  PUT is Logout followed by StartLogin; DELETE is      *)
(* Logout alone.                                                            *)

HandlersIdle == \A h \in Handlers : hpc[h] = "idle"
NoLogin == \A a \in Logins : lpc[a] = "idle"

\* What the callers of the API do.  "any": whatever they like, whenever they like.
\* "polite": one request at a time, none while a login runs, and POST only in the
\* states idle and error.  "careful": POST only when no session is held, too.
MayPost ==
    CASE Client = "any" -> TRUE
      [] Client = "polite" -> HandlersIdle /\ NoLogin /\ bc.state \in {"idle", "error"}
      [] Client = "careful" -> HandlersIdle /\ NoLogin /\ bc.session = None

MayLogout ==
    Client # "any" => HandlersIdle /\ NoLogin

PostCredentials(a) ==
    /\ MayPost
    /\ StartLogin(a)
    /\ UNCHANGED <<bridge, restarts, luser, mon, handlerVars>>

\* Mutant: monitorStop is not cleared.
ClearedButSession == [state |-> "idle", session |-> bc.session]

Cleared == [state |-> "idle", session |-> None]

\* Logout under bc.mu: everything is taken out of bc.  With no session in it
\* there is nothing to close, to log out or to disconnect.
LogoutTake(h) ==
    /\ MayLogout
    /\ hpc[h] = "idle"
    /\ hpc' = [hpc EXCEPT ![h] = IF bc.session = None THEN "conn" ELSE "close"]
    /\ hloc' = [hloc EXCEPT ![h] =
                  [session |-> bc.session,
                   user |-> IF bc.session = None THEN None ELSE luser[bc.session]]]
    /\ bc' = Cleared
    /\ UNCHANGED <<bridge, restarts, loginVars, mon>>

\* Mutant: the channel is not closed.
LogoutLeavesMonitor(h) ==
    /\ hpc[h] = "close"
    /\ hpc' = [hpc EXCEPT ![h] = "user"]
    /\ UNCHANGED <<bridge, restarts, bc, loginVars, mon, hloc>>

\* close(monStop)
LogoutClose(h) ==
    /\ hpc[h] = "close"
    /\ hpc' = [hpc EXCEPT ![h] = "user"]
    /\ mon' = [mon EXCEPT ![hloc[h].session].stop = CloseChan(@)]
    /\ UNCHANGED <<bridge, restarts, bc, loginVars, hloc>>

\* client.LogoutUser, whose result is ignored.
LogoutUser(h) ==
    /\ hpc[h] = "user"
    /\ hpc' = [hpc EXCEPT ![h] = "conn"]
    /\ \/ /\ CanSucceed(bridge, hloc[h].session)
          /\ bridge' = LoggedOut(bridge, hloc[h].user)
       \/ CanFail(bridge, hloc[h].session, "logout") /\ UNCHANGED bridge
    /\ UNCHANGED <<restarts, bc, loginVars, mon, hloc>>

\* conn.Close(); a DELETE ends here.
LogoutConn(h) ==
    /\ hpc[h] = "conn"
    /\ \E pc \in {"relogin", "idle"} : hpc' = [hpc EXCEPT ![h] = pc]
    /\ bridge' = IF hloc[h].session = None THEN bridge ELSE Close(bridge, hloc[h].session)
    /\ hloc' = [hloc EXCEPT ![h] = Nothing]
    /\ UNCHANGED <<restarts, bc, loginVars, mon>>

\* The StartLogin of a PUT, refused when another login is pending.
Relogin(h) ==
    /\ hpc[h] = "relogin"
    /\ hpc' = [hpc EXCEPT ![h] = "idle"]
    /\ \/ \E a \in Logins : StartLogin(a)
       \/ bc.state = "pending" /\ UNCHANGED <<bc, lpc>>
    /\ UNCHANGED <<bridge, restarts, luser, mon, hloc>>

-----------------------------------------------------------------------------
AutoStep == AutoStart \/ AutoList \/ AutoEvent \/ AutoTimeout \/ AutoCheck

LoginStep(a) ==
    \/ Connect(a) \/ LoginOpen(a) \/ LoginCall(a) \/ LoginEvent(a)
    \/ LoginStop(a) \/ GiveUp(a) \/ FinishList(a) \/ Publish(a)

MonitorStep(a) ==
    \/ MonitorStart(a) \/ MonitorExit(a) \/ MonitorLoop(a) \/ MonitorOpen(a)
    \/ MonitorSync(a) \/ MonitorApply(a) \/ SeesStop(a) \/ PollTick(a)
    \/ StreamEnded(a) \/ Receives(a) \/ MonitorStopStream(a)

HandlerStep(h) ==
    \/ LogoutClose(h) \/ LogoutUser(h) \/ LogoutConn(h) \/ Relogin(h)

BridgeStep ==
    /\ \/ \E u \in Users : TokenExpires(u) \/ TokenRefreshed(u) \/ Deauth(u)
       \/ StreamBreaks
       \/ BridgeRestart
    /\ UNCHANGED clientVars

Next ==
    \/ BridgeStep
    \/ AutoStep
    \/ \E a \in Logins :
         LoginStep(a) \/ MonitorStep(a) \/ PostCredentials(a)
    \/ \E h \in Handlers : LogoutTake(h) \/ HandlerStep(h)

Spec == Init /\ [][Next]_vars

\* Goroutines and handlers run, and calls return.  Of the cases of a
\* select that stay ready, or become ready again and again, each is taken at
\* some time: Go picks among the ready ones at random, and the timers fire.
Fairness ==
    /\ WF_vars(AutoStep) /\ SF_vars(AutoTimeout)
    /\ \A a \in Logins :
         /\ WF_vars(LoginStep(a))
         /\ WF_vars(MonitorStep(a))
         /\ SF_vars(SeesStop(a))
         /\ SF_vars(PollTick(a))
    /\ \A h \in Handlers : WF_vars(HandlerStep(h))

FairSpec == Spec /\ Fairness

-----------------------------------------------------------------------------
(* Properties.                                                             *)

\* No channel is closed twice, and none that was never made: a monitorStop by two
\* Logouts, a watcherStop by two branches of the monitor.  Either would panic and
\* end the sidecar.
NoPanic == \A a \in Logins : mon[a].stop # "panic" /\ mon[a].ch # "panic"

\* A status of pending is always the work of a login that is still running and
\* will replace it: StartLogin, which refuses while it reads pending, is never
\* locked out for good.
PendingHasLogin ==
    bc.state = "pending" => \E a \in Logins : lpc[a] \notin {"idle", "start"}

\* A monitor has one watcher nobody told to stop while its imapRunning is set and
\* none otherwise, through every start, stop and exit, whether or not anyone
\* can still reach the monitor.
WatcherOwned ==
    \A a \in Logins :
        /\ mon[a].live = (IF mon[a].imap THEN 1 ELSE 0)
        /\ mon[a].imap <=> mon[a].ch = "open"
        /\ mon[a].pc \in {"none", "start"} => ~mon[a].imap

\* The session in bc has a monitor that was not told to stop and a connection
\* that nobody closed, whatever logins, logouts and failures went on meanwhile.
SessionLive ==
    bc.session # None =>
        /\ mon[bc.session].pc # "none"
        /\ mon[bc.session].stop = "open"
        /\ bridge.conn[bc.session] # "none"
        /\ luser[bc.session] # None

\* Logout can reach every monitor that is to go on: it is the one in bc, or a
\* Logout has it in hand.  So there is never more than one account monitored.
MonitorReachable ==
    \A a \in Logins : mon[a].stop = "open" =>
        \/ bc.session = a
        \/ \E h \in Handlers : hpc[h] = "close" /\ hloc[h].session = a

\* What an attempt has come to, for those who only see the watchers it starts.
StageOf(a) ==
    CASE lpc[a] \notin {"idle", "start"} -> "login"
      [] mon[a].stop = "open" -> "held"
      [] mon[a].stop # "open" /\ mon[a].pc # "none" -> "left"
      [] OTHER -> "none"

Stage == [a \in Logins |-> StageOf(a)]
Watched == {a \in Logins : mon[a].live > 0}

Promise == INSTANCE Session WITH stage <- Stage, watched <- Watched

\* Of careful callers the client keeps the promise of Session: one account is held
\* at a time, and each has one watcher at most, only while it is held or its
\* monitor is on its way out, whatever the monitor makes of answers out of date.
KeepsSession == Promise!Spec

\* Without REST requests, the status says connected exactly when the monitor has
\* its watcher running.
StatusMatchesWatcher ==
    \A a \in Logins :
        mon[a].pc \notin {"none", "start"} => (mon[a].imap <=> bc.state = "connected")

\* stopEventStream comes before a stream's context or connection goes away: the
\* connection of the stream being served is lost in a restart of the bridge only,
\* never because the sidecar made the bridge call s.quit().
StopBeforeCancel ==
    [][\A a \in Logins :
         /\ bridge.stream = a
         /\ bridge.conn[a] = "open"
         /\ restarts' = restarts
         => bridge'.conn[a] = "open"]_vars

\* When TryAutoLogin waits for a user that is connected, an event that makes it
\* look again is on its way: it subscribed before it listed the users.
NoLostWakeup ==
    /\ lpc[AutoLogin] = "wait"
    /\ bridge.stream = AutoLogin
    /\ bridge.ustate[luser[AutoLogin]] = "CONNECTED"
    => bridge.queue \cap {Changed(luser[AutoLogin]), Loaded} # {}

\* Every login ends.
LoginsEnd == \A a \in Logins : lpc[a] # "idle" ~> lpc[a] = "idle"

\* A monitor whose stop channel is closed returns, and leaves no watcher behind
\* that nobody told to stop.
StopIsHeeded ==
    \A a \in Logins :
        mon[a].stop = "closed" ~> (mon[a].pc = "none" /\ mon[a].live = 0)

\* Of a monitor that goes on: once its user stays connected, and its connection
\* up, it ends with the watcher running and a status of connected.
Heals ==
    \A a \in Logins, u \in Users :
        <>[](mon[a].stop = "open" /\ luser[a] = u /\ bridge.conn[a] = "open"
               /\ bridge.ustate[u] = "CONNECTED")
          => <>[](mon[a].imap /\ bc.state = "connected")

\* And once its user stays out, it ends with no watcher.
Quiesces ==
    \A a \in Logins, u \in Users :
        <>[](mon[a].stop = "open" /\ luser[a] = u /\ bridge.conn[a] = "open"
               /\ bridge.ustate[u] \in {"LOCKED", "SIGNED_OUT"})
          => <>[](mon[a].live = 0 /\ bc.state # "connected")
=============================================================================
