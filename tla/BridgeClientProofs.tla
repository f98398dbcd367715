------------------------- MODULE BridgeClientProofs -------------------------
(* What the safety properties of BridgeClient rest on, for every number of *)
(* login attempts, REST handlers and users, proved.                        *)
EXTENDS BridgeClient, TLAPS

-----------------------------------------------------------------------------
(* The calls to the bridge, as functions of its state.                     *)

\* Every call leaves the bridge in a state of its type.
LEMMA CallsTyped ==
    ASSUME NEW b \in BridgeStates, NEW a \in Logins
    PROVE  /\ Dial(b, a) \in BridgeStates
           /\ RunEventStream(b, a) \in BridgeStates
           /\ EndStream(b) \in BridgeStates
           /\ Restarted(b) \in BridgeStates
           /\ CancelStream(b, a) \in BridgeStates
           /\ Close(b, a) \in BridgeStates
<1>1. Dial(b, a) \in BridgeStates
  BY DEF BridgeStates, Dial, ConnStates
<1>2. EndStream(b) \in BridgeStates
  BY DEF BridgeStates, EndStream
<1>3. RunEventStream(b, a) \in BridgeStates
  BY DEF BridgeStates, RunEventStream
<1>4. Restarted(b) \in BridgeStates
  BY <1>2 DEF BridgeStates, Restarted, ConnStates, UserStates
<1>5. CancelStream(b, a) \in BridgeStates
  BY <1>4 DEF CancelStream
<1>6. Close(b, a) \in BridgeStates
  BY <1>5 DEF BridgeStates, Close, ConnStates
<1> QED
  BY <1>1, <1>2, <1>3, <1>4, <1>5, <1>6

\* So does every event, and every login and logout.
LEMMA UsersTyped ==
    ASSUME NEW b \in BridgeStates, NEW u \in Users
    PROVE  /\ \A e \in Events : Emit(b, e) \in BridgeStates
           /\ \A e \in Events : [b EXCEPT !.queue = @ \ {e}] \in BridgeStates
           /\ \A s \in UserStates : [b EXCEPT !.ustate[u] = s] \in BridgeStates
           /\ LoggedIn(b, u) \in BridgeStates
           /\ LoggedOut(b, u) \in BridgeStates
<1>1. ASSUME NEW c \in BridgeStates, NEW e \in Events
      PROVE  Emit(c, e) \in BridgeStates
  BY <1>1 DEF BridgeStates, Emit
<1>2. \A e \in Events : [b EXCEPT !.queue = @ \ {e}] \in BridgeStates
  BY DEF BridgeStates
<1>3. \A s \in UserStates : [b EXCEPT !.ustate[u] = s] \in BridgeStates
  BY DEF BridgeStates
<1>4. Changed(u) \in Events
  BY DEF Changed, Events
<1>5. LoggedIn(b, u) \in BridgeStates
  BY <1>1, <1>3, <1>4 DEF LoggedIn, UserStates
<1>6. LoggedOut(b, u) \in BridgeStates
  BY <1>1, <1>3, <1>4 DEF LoggedOut, UserStates
<1> QED
  BY <1>1, <1>2, <1>3, <1>5, <1>6

\* Of all the calls only Close takes a connection away, and only its own.
LEMMA CallsKeepConnections ==
    ASSUME NEW b \in BridgeStates, NEW a \in Logins, NEW c \in Logins,
           b.conn[c] # "none"
    PROVE  /\ Dial(b, a).conn[c] # "none"
           /\ RunEventStream(b, a).conn[c] # "none"
           /\ EndStream(b).conn[c] # "none"
           /\ Restarted(b).conn[c] # "none"
           /\ CancelStream(b, a).conn[c] # "none"
           /\ c # a => Close(b, a).conn[c] # "none"
<1>1. /\ Dial(b, a).conn[c] # "none"
      /\ RunEventStream(b, a).conn[c] # "none"
      /\ EndStream(b).conn[c] # "none"
  BY DEF BridgeStates, Dial, RunEventStream, EndStream
<1>2. Restarted(b).conn[c] # "none"
  BY DEF BridgeStates, Restarted, EndStream
<1>3. CancelStream(b, a).conn[c] # "none"
  BY <1>2 DEF CancelStream
<1>4. c # a => Close(b, a).conn[c] # "none"
  BY <1>3, CallsTyped DEF BridgeStates, Close
<1> QED
  BY <1>1, <1>2, <1>3, <1>4

\* Events, logins and logouts leave the connections alone.
LEMMA UsersKeepConnections ==
    ASSUME NEW b \in BridgeStates, NEW u \in Users
    PROVE  /\ \A e \in Events : Emit(b, e).conn = b.conn
           /\ \A e \in Events : [b EXCEPT !.queue = @ \ {e}].conn = b.conn
           /\ \A s \in UserStates, e \in Events :
                Emit([b EXCEPT !.ustate[u] = s], e).conn = b.conn
           /\ LoggedIn(b, u).conn = b.conn
           /\ LoggedOut(b, u).conn = b.conn
<1>1. /\ \A e \in Events : Emit(b, e).conn = b.conn
      /\ \A e \in Events : [b EXCEPT !.queue = @ \ {e}].conn = b.conn
  BY DEF BridgeStates, Emit
<1>2. \A s \in UserStates, e \in Events :
        Emit([b EXCEPT !.ustate[u] = s], e).conn = b.conn
  BY DEF BridgeStates, Emit
<1>3. LoggedIn(b, u).conn = b.conn /\ LoggedOut(b, u).conn = b.conn
  BY DEF BridgeStates, LoggedIn, LoggedOut, Emit
<1> QED
  BY <1>1, <1>2, <1>3

-----------------------------------------------------------------------------
(* The inductive invariant.                                                *)

\* A monitor that runs is about a user of the vault; NoPanic and WatcherOwned say
\* the rest about monitors.
MonitorHasUser ==
    \A a \in Logins : mon[a].pc # "none" => luser[a] \in Users

\* While a login runs, nothing of an earlier attempt of its name is in use: the
\* monitor and the session it will publish are its own.
LoginFresh ==
    \A a \in Logins : lpc[a] # "idle" =>
        /\ mon[a] = NoMonitor
        /\ bc.session # a
        /\ \A h \in Handlers : hloc[h].session # a

\* What a login needs to publish: a connection that is not closed, and a user.
LoginEquipped ==
    \A a \in Logins :
        /\ lpc[a] \notin {"idle", "start", "connect"} => bridge.conn[a] # "none"
        /\ lpc[a] \in {"wait", "check", "stop", "finish", "publish"} => luser[a] \in Users

\* A Logout has the session it took to itself: it is not in bc any more, no other
\* Logout has it, and until close(monStop) its monitor was not told to stop.
LogoutOwns ==
    \A h \in Handlers :
        /\ hpc[h] \in {"close", "user"} =>
              hloc[h].session \in Logins /\ hloc[h].user \in Users
        /\ hpc[h] = "close" => mon[hloc[h].session].stop = "open"
        /\ hloc[h].session # None => bc.session # hloc[h].session
        /\ \A g \in Handlers \ {h} :
              hloc[h].session # None => hloc[g].session # hloc[h].session

IInv ==
    /\ TypeOK
    /\ NoPanic
    /\ PendingHasLogin
    /\ WatcherOwned
    /\ SessionLive
    /\ MonitorHasUser
    /\ LoginFresh
    /\ LoginEquipped
    /\ LogoutOwns

\* What a step leaves of the connections: none is closed.
Kept(b) == \A c \in Logins : bridge.conn[c] # "none" => b.conn[c] # "none"

\* What holds of a monitor's own fields.
MonitorOK(m) ==
    /\ m \in MonitorStates
    /\ m.live = (IF m.imap THEN 1 ELSE 0)
    /\ m.imap <=> m.ch = "open"
    /\ m.pc \in {"none", "start"} => ~m.imap
    /\ m.stop # "panic"
    /\ m.ch # "panic"

\* The invariant says that of every monitor.
LEMMA MonitorsOK ==
    ASSUME IInv, NEW a \in Logins
    PROVE  MonitorOK(mon[a])
BY DEF IInv, TypeOK, NoPanic, WatcherOwned, MonitorOK

\* Starting and stopping a watcher preserves it.
LEMMA WatchersOK ==
    ASSUME NEW m, MonitorOK(m)
    PROVE  /\ MonitorOK(StopWatcher(m))
           /\ ~StopWatcher(m).imap
           /\ StopWatcher(m).pc = m.pc /\ StopWatcher(m).stop = m.stop
           /\ \A pc \in {"loop", "select"} : ~m.imap =>
                 /\ MonitorOK([StartWatcher(m) EXCEPT !.pc = pc])
                 /\ [StartWatcher(m) EXCEPT !.pc = pc].stop = m.stop
<1>1. CASE m.imap
  <2> DEFINE s == [m EXCEPT !.imap = FALSE, !.ch = "closed", !.live = 0]
  <2>1. m \in MonitorStates /\ m.ch = "open" /\ m.live = 1 /\ m.stop # "panic"
    BY <1>1 DEF MonitorOK
  <2>2. StopWatcher(m) = s
    BY <1>1, <2>1 DEF StopWatcher, MonitorStates, CloseChan
  <2>3. /\ s.pc = m.pc /\ s.stop = m.stop /\ s.imap = FALSE
        /\ s.ch = "closed" /\ s.live = 0 /\ s \in MonitorStates
    BY <2>1 DEF MonitorStates, ChanStates
  <2> HIDE DEF s
  <2> QED
    BY <1>1, <2>1, <2>2, <2>3 DEF MonitorOK
<1>2. CASE ~m.imap
  <2>1. StopWatcher(m) = m
    BY <1>2 DEF StopWatcher
  <2>2. ASSUME NEW pc \in {"loop", "select"}
        PROVE  /\ MonitorOK([StartWatcher(m) EXCEPT !.pc = pc])
               /\ [StartWatcher(m) EXCEPT !.pc = pc].stop = m.stop
    <3> DEFINE s == [m EXCEPT !.imap = TRUE, !.ch = "open", !.live = 1, !.pc = pc]
    <3>1. m \in MonitorStates /\ m.live = 0 /\ m.stop # "panic"
      BY <1>2 DEF MonitorOK
    <3>2. [StartWatcher(m) EXCEPT !.pc = pc] = s
      BY <3>1 DEF MonitorStates, StartWatcher
    <3>3. /\ s.pc = pc /\ s.stop = m.stop /\ s.imap = TRUE
          /\ s.ch = "open" /\ s.live = 1 /\ s \in MonitorStates
      BY <3>1 DEF MonitorStates, ChanStates
    <3> HIDE DEF s
    <3> QED
      BY <3>1, <3>2, <3>3 DEF MonitorOK
  <2> QED
    BY <1>2, <2>1, <2>2
<1> QED
  BY <1>1, <1>2 DEF MonitorOK, MonitorStates

\* A login goroutine goes on without having failed or published.
LEMMA LoginMoves ==
    ASSUME IInv, NEW a \in Logins, NEW pc \in LoginPcs \ {"idle", "start"},
           lpc[a] # "idle", Goto(a, pc),
           bridge' \in BridgeStates, Kept(bridge'),
           pc # "connect" => bridge'.conn[a] # "none",
           luser' \in [Logins -> Users \cup {None}],
           \A c \in Logins \ {a} : luser'[c] = luser[c],
           pc \in {"wait", "check", "stop", "finish", "publish"} => luser'[a] \in Users,
           bc' \in ClientStates, bc'.session = bc.session,
           UNCHANGED <<restarts, mon, handlerVars>>
    PROVE  IInv'
<1> USE DEF handlerVars, Goto
<1>1. TypeOK'
  BY DEF IInv, TypeOK, BridgeTypeOK
<1>2. NoPanic' /\ WatcherOwned'
  BY DEF IInv, NoPanic, WatcherOwned
<1>3. PendingHasLogin'
  BY DEF IInv, TypeOK, PendingHasLogin
<1>4. LoginFresh'
  BY DEF IInv, TypeOK, LoginFresh
<1>5. SessionLive'
  BY DEF IInv, TypeOK, ClientStates, SessionLive, LoginFresh, Kept
<1>6. MonitorHasUser'
  BY DEF IInv, TypeOK, MonitorHasUser, LoginFresh, NoMonitor
<1>7. LoginEquipped'
  BY DEF IInv, TypeOK, LoginEquipped, Kept
<1>8. LogoutOwns'
  BY DEF IInv, LogoutOwns
<1> QED
  BY <1>1, <1>2, <1>3, <1>4, <1>5, <1>6, <1>7, <1>8 DEF IInv

\* A login goroutine fails: the connection it closes is no session's.
LEMMA LoginFails ==
    ASSUME IInv, NEW a \in Logins, NEW s \in {"idle", "error"},
           lpc[a] # "idle", Abandon(a, s),
           UNCHANGED <<restarts, mon, handlerVars>>
    PROVE  IInv'
<1> USE DEF handlerVars, Abandon, Goto, SetState
<1>1. /\ bridge' \in BridgeStates
      /\ \A c \in Logins \ {a} : bridge.conn[c] # "none" => bridge'.conn[c] # "none"
  BY CallsTyped, CallsKeepConnections DEF IInv, TypeOK, BridgeTypeOK
<1>2. TypeOK'
  BY <1>1 DEF IInv, TypeOK, BridgeTypeOK, ClientStates, States, LoginPcs
<1>3. NoPanic' /\ WatcherOwned'
  BY DEF IInv, NoPanic, WatcherOwned
<1>4. PendingHasLogin'
  BY DEF IInv, TypeOK, ClientStates, PendingHasLogin
<1>5. LoginFresh'
  BY DEF IInv, TypeOK, ClientStates, LoginFresh
<1>6. SessionLive'
  BY <1>1 DEF IInv, TypeOK, ClientStates, SessionLive, LoginFresh
<1>7. MonitorHasUser'
  BY DEF IInv, TypeOK, MonitorHasUser, LoginFresh, NoMonitor
<1>8. LoginEquipped'
  BY <1>1 DEF IInv, TypeOK, LoginEquipped
<1>9. LogoutOwns'
  BY DEF IInv, TypeOK, ClientStates, LogoutOwns
<1> QED
  BY <1>2, <1>3, <1>4, <1>5, <1>6, <1>7, <1>8, <1>9 DEF IInv

\* A monitor goes on, with what it does to its watchers, the status and the bridge.
LEMMA MonitorMoves ==
    ASSUME IInv, NEW a \in Logins, NEW m,
           mon[a].pc # "none", mon' = [mon EXCEPT ![a] = m],
           MonitorOK(m), m.pc \notin {"none", "start"}, m.stop = mon[a].stop,
           bridge' \in BridgeStates, Kept(bridge'),
           bc' \in ClientStates, bc'.session = bc.session,
           bc'.state = "pending" => bc.state = "pending",
           UNCHANGED <<restarts, loginVars, handlerVars>>
    PROVE  IInv'
<1> USE DEF loginVars, handlerVars
<1>1. TypeOK'
  BY DEF IInv, TypeOK, BridgeTypeOK, MonitorOK
<1>2. NoPanic' /\ WatcherOwned'
  BY DEF IInv, TypeOK, NoPanic, WatcherOwned, MonitorOK
<1>3. PendingHasLogin'
  BY DEF IInv, PendingHasLogin
<1>4. lpc[a] = "idle"
  BY DEF IInv, LoginFresh, NoMonitor
<1>5. LoginFresh'
  BY <1>4 DEF IInv, TypeOK, LoginFresh
<1>6. SessionLive'
  BY DEF IInv, TypeOK, SessionLive, ClientStates, Kept
<1>7. MonitorHasUser'
  BY DEF IInv, TypeOK, MonitorHasUser
<1>8. LoginEquipped'
  BY DEF IInv, LoginEquipped, Kept
<1>9. LogoutOwns'
  BY DEF IInv, TypeOK, LogoutOwns
<1> QED
  BY <1>1, <1>2, <1>3, <1>5, <1>6, <1>7, <1>8, <1>9 DEF IInv

-----------------------------------------------------------------------------
(* The steps, by who takes them.                                           *)

\* What the invariant says of the bridge.
LEMMA BridgeInState ==
    ASSUME IInv
    PROVE  bridge \in BridgeStates /\ Kept(bridge)
BY DEF IInv, TypeOK, BridgeTypeOK, Kept

\* stopEventStream changes nothing but the stream.
LEMMA StopTyped ==
    ASSUME IInv, NEW a \in Logins, NEW b \in StopEventStream(bridge, a)
    PROVE  b \in BridgeStates /\ Kept(b)
BY BridgeInState, CallsTyped, CallsKeepConnections DEF StopEventStream, Kept

\* The bridge's own steps close no connection and touch nothing of the sidecar.
LEMMA BridgeStepInv ==
    ASSUME IInv, BridgeStep
    PROVE  IInv'
<1> USE DEF clientVars
<1>1. /\ bridge' \in BridgeStates
      /\ restarts' \in 0..MaxRestarts
      /\ Kept(bridge')
  <2>1. ASSUME NEW u \in Users, NEW from, NEW to \in UserStates, NEW e \in Events,
               UserMoves(u, from, to, e)
        PROVE  bridge' \in BridgeStates /\ restarts' = restarts /\ Kept(bridge')
    <3> DEFINE b == [bridge EXCEPT !.ustate[u] = to]
    <3>1. bridge' = Emit(b, e) /\ restarts' = restarts
      BY <2>1 DEF UserMoves
    <3>2. b \in BridgeStates
      BY BridgeInState, UsersTyped
    <3>3. Emit(b, e) \in BridgeStates
      BY <3>2, UsersTyped
    <3>4. Emit(b, e).conn = bridge.conn
      BY BridgeInState, UsersKeepConnections
    <3> QED
      BY <3>1, <3>3, <3>4 DEF Kept
  <2>2. restarts \in 0..MaxRestarts /\ MaxRestarts \in Nat
    BY BridgeAssumption DEF IInv, TypeOK, BridgeTypeOK
  <2>3. ASSUME NEW u \in Users
        PROVE  Changed(u) \in Events /\ Disconnected(u) \in Events /\ Loaded \in Events
    BY DEF Changed, Disconnected, Loaded, Events
  <2>4. CASE \E u \in Users : TokenExpires(u)
    BY <2>1, <2>2, <2>3, <2>4 DEF TokenExpires, UserStates
  <2>5. CASE \E u \in Users : TokenRefreshed(u)
    BY <2>1, <2>2, <2>3, <2>5 DEF TokenRefreshed, UserStates
  <2>6. CASE \E u \in Users : Deauth(u)
    BY <2>1, <2>2, <2>3, <2>6 DEF Deauth, UserStates
  <2>7. CASE StreamBreaks
    BY <2>2, <2>7, BridgeInState, CallsTyped, CallsKeepConnections, ClientAssumption
    DEF StreamBreaks, Kept
  <2>8. CASE BridgeRestart
    <3>1. bridge' \in BridgeStates /\ Kept(bridge')
      BY <2>8, BridgeInState, CallsTyped, CallsKeepConnections, ClientAssumption
      DEF BridgeRestart, Kept
    <3>2. restarts' \in 0..MaxRestarts
      BY <2>2, <2>8 DEF BridgeRestart
    <3> QED
      BY <3>1, <3>2
  <2> QED
    BY <2>4, <2>5, <2>6, <2>7, <2>8 DEF BridgeStep
<1>2. UNCHANGED clientVars
  BY DEF BridgeStep
<1>3. TypeOK'
  BY <1>1, <1>2 DEF IInv, TypeOK, BridgeTypeOK
<1>4. NoPanic' /\ WatcherOwned' /\ PendingHasLogin' /\ MonitorHasUser' /\ LoginFresh'
  BY <1>2 DEF IInv, NoPanic, WatcherOwned, PendingHasLogin, MonitorHasUser, LoginFresh
<1>5. SessionLive' /\ LoginEquipped' /\ LogoutOwns'
  BY <1>1, <1>2 DEF IInv, TypeOK, ClientStates, SessionLive, LoginEquipped, LogoutOwns, Kept
<1> QED
  BY <1>3, <1>4, <1>5 DEF IInv

\* The steps of a doLogin, and those TryAutoLogin shares with it.
LEMMA LoginStepInv ==
    ASSUME IInv, NEW a \in Logins, LoginStep(a)
    PROVE  IInv'
<1> USE BridgeInState DEF handlerVars
<1>1. /\ bc \in ClientStates
      /\ luser \in [Logins -> Users \cup {None}]
      /\ lpc[a] \notin {"idle", "start", "connect"} => bridge.conn[a] # "none"
      /\ lpc[a] \in {"wait", "check", "stop", "finish", "publish"} => luser[a] \in Users
  BY DEF IInv, TypeOK, LoginEquipped
<1>2. Verdict(a) \in {"idle", "error"}
  BY DEF Verdict
<1>3. CASE Connect(a)
  <2>1. CASE bridge' = Dial(bridge, a) /\ Goto(a, "open") /\ UNCHANGED <<bc, luser>>
    <3>1. Dial(bridge, a) \in BridgeStates /\ Kept(Dial(bridge, a))
      BY CallsTyped, CallsKeepConnections DEF Kept
    <3>2. Dial(bridge, a).conn[a] # "none"
      BY DEF Dial, BridgeStates
    <3> QED
      BY <1>1, <1>3, <2>1, <3>1, <3>2, LoginMoves DEF Connect, LoginPcs
  <2>2. CASE Abandon(a, Verdict(a))
    BY <1>2, <1>3, <2>2, LoginFails DEF Connect
  <2> QED
    BY <1>3, <2>1, <2>2 DEF Connect
<1>4. CASE LoginOpen(a)
  <2> DEFINE pc == IF a = AutoLogin THEN "list" ELSE "login"
  <2>1. CASE /\ bridge' = RunEventStream(bridge, a)
             /\ Goto(a, pc)
             /\ UNCHANGED <<bc, luser>>
    <3>1. RunEventStream(bridge, a) \in BridgeStates /\ Kept(RunEventStream(bridge, a))
      BY CallsTyped, CallsKeepConnections DEF Kept
    <3>2. RunEventStream(bridge, a).conn[a] # "none"
      BY <1>1, <1>4, CallsKeepConnections DEF LoginOpen
    <3> QED
      BY <1>1, <1>4, <2>1, <3>1, <3>2, LoginMoves DEF LoginOpen, LoginPcs
  <2>2. CASE Abandon(a, Verdict(a))
    BY <1>2, <1>4, <2>2, LoginFails DEF LoginOpen
  <2> QED
    BY <1>4, <2>1, <2>2 DEF LoginOpen
<1>5. CASE LoginCall(a)
  <2>1. CASE Goto(a, "event") /\ UNCHANGED <<bridge, bc, luser>>
    BY <1>1, <1>5, <2>1, LoginMoves DEF LoginCall, LoginPcs
  <2>2. CASE Abandon(a, "error")
    BY <1>5, <2>2, LoginFails DEF LoginCall
  <2> QED
    BY <1>5, <2>1, <2>2 DEF LoginCall
<1>6. CASE LoginEvent(a)
  <2>1. ASSUME NEW u \in Users, bridge' = LoggedIn(bridge, u),
               luser' = [luser EXCEPT ![a] = u], Goto(a, "stop")
        PROVE  IInv'
    <3>1. bridge' \in BridgeStates /\ bridge'.conn = bridge.conn
      BY <2>1, UsersTyped, UsersKeepConnections
    <3> QED
      BY <1>1, <1>6, <2>1, <3>1, LoginMoves DEF LoginEvent, LoginPcs, Kept
  <2>2. CASE Goto(a, "stopfail") /\ UNCHANGED <<bridge, luser>>
    BY <1>1, <1>6, <2>2, LoginMoves DEF LoginEvent, LoginPcs
  <2> QED
    BY <1>6, <2>1, <2>2 DEF LoginEvent
<1>7. CASE LoginStop(a)
  <2>1. bridge' \in BridgeStates /\ Kept(bridge')
    BY <1>7, StopTyped DEF LoginStop
  <2>2. bridge'.conn[a] # "none"
    BY <1>1, <1>7, <2>1 DEF LoginStop, Kept
  <2> QED
    BY <1>1, <1>7, <2>1, <2>2, LoginMoves DEF LoginStop, LoginPcs
<1>8. CASE GiveUp(a)
  BY <1>2, <1>8, LoginFails DEF GiveUp
<1>9. CASE FinishList(a)
  <2>1. CASE Goto(a, "publish") /\ UNCHANGED <<bridge, bc, luser>>
    BY <1>1, <1>9, <2>1, LoginMoves DEF FinishList, LoginPcs
  <2>2. CASE Abandon(a, "error")
    BY <1>9, <2>2, LoginFails DEF FinishList
  <2> QED
    BY <1>9, <2>1, <2>2 DEF FinishList
<1>10. CASE Publish(a)
  <2> USE DEF Publish, Goto
  <2>1. /\ mon[a] = NoMonitor
        /\ bc.session # a
        /\ \A h \in Handlers : hloc[h].session # a
    BY <1>10 DEF IInv, LoginFresh
  <2>2. bridge' \in BridgeStates /\ Kept(bridge')
    BY <1>10, CallsTyped, CallsKeepConnections DEF Kept
  <2>3. /\ NewMonitor \in MonitorStates
        /\ NewMonitor.pc = "start" /\ NewMonitor.stop = "open" /\ NewMonitor.ch = "none"
        /\ NewMonitor.imap = FALSE /\ NewMonitor.live = 0
    BY DEF NewMonitor, NoMonitor, MonitorStates, ChanStates, UserStates
  <2>4. mon' \in [Logins -> MonitorStates] /\ mon'[a] = NewMonitor
    BY <1>10, <2>3 DEF IInv, TypeOK
  <2>5. TypeOK'
    BY <1>10, <2>2, <2>4
    DEF IInv, TypeOK, BridgeTypeOK, ClientStates, States, LoginPcs
  <2>6. NoPanic' /\ WatcherOwned'
    BY <1>10, <2>3, <2>4 DEF IInv, TypeOK, NoPanic, WatcherOwned
  <2>7. PendingHasLogin'
    BY <1>10 DEF PendingHasLogin
  <2>8. LoginFresh'
    BY <1>10 DEF IInv, TypeOK, LoginFresh
  <2>9. SessionLive'
    <3>1. bridge'.conn[a] # "none"
      BY <1>1, <1>10, <2>2 DEF Kept
    <3>2. luser'[a] \in Users
      BY <1>1, <1>10
    <3> QED
      BY <1>10, <2>3, <2>4, <3>1, <3>2, BridgeAssumption DEF SessionLive
  <2>10. MonitorHasUser'
    BY <1>1, <1>10 DEF IInv, TypeOK, MonitorHasUser
  <2>11. LoginEquipped'
    BY <1>10, <2>2 DEF IInv, TypeOK, LoginEquipped, Kept
  <2>12. LogoutOwns'
    BY <1>10, <2>1 DEF IInv, TypeOK, LogoutOwns
  <2> QED
    BY <2>5, <2>6, <2>7, <2>8, <2>9, <2>10, <2>11, <2>12 DEF IInv
<1> QED
  BY <1>3, <1>4, <1>5, <1>6, <1>7, <1>8, <1>9, <1>10 DEF LoginStep

\* The steps of TryAutoLogin alone.
LEMMA AutoStepInv ==
    ASSUME IInv, AutoStep
    PROVE  IInv'
<1> USE BridgeInState, ClientAssumption DEF handlerVars
<1>1. /\ bc \in ClientStates
      /\ luser \in [Logins -> Users \cup {None}]
      /\ lpc[AutoLogin] \notin {"idle", "start", "connect"} =>
            bridge.conn[AutoLogin] # "none"
      /\ lpc[AutoLogin] \in {"wait", "check"} => luser[AutoLogin] \in Users
  BY DEF IInv, TypeOK, LoginEquipped
<1>2. CASE AutoStart
  <2>1. bc' \in ClientStates /\ bc'.session = bc.session
    BY <1>1, <1>2 DEF AutoStart, SetState, ClientStates, States
  <2> QED
    BY <1>1, <1>2, <2>1, LoginMoves DEF AutoStart, LoginPcs
<1>3. CASE AutoList
  <2>1. ASSUME NEW u \in Users, luser' = [luser EXCEPT ![AutoLogin] = u],
               NEW pc \in {"stop", "wait"}, Goto(AutoLogin, pc)
        PROVE  IInv'
    BY <1>1, <1>3, <2>1, LoginMoves DEF AutoList, LoginPcs
  <2>2. CASE Goto(AutoLogin, NobodyToRestore) /\ UNCHANGED luser
    BY <1>1, <1>3, <2>2, LoginMoves DEF AutoList, NobodyToRestore, LoginPcs
  <2> QED
    BY <1>3, <2>1, <2>2 DEF AutoList, Vault
<1>4. CASE AutoEvent
  <2>1. PICK e \in bridge.queue :
          /\ bridge' = [bridge EXCEPT !.queue = @ \ {e}]
          /\ Goto(AutoLogin, IF e \in Relevant(luser[AutoLogin]) THEN "check" ELSE "wait")
    BY <1>4 DEF AutoEvent
  <2>2. bridge' \in BridgeStates /\ bridge'.conn = bridge.conn
    BY <2>1 DEF BridgeStates
  <2> QED
    BY <1>1, <1>4, <2>1, <2>2, LoginMoves DEF AutoEvent, LoginPcs, Kept
<1>5. CASE AutoTimeout
  BY <1>1, <1>5, LoginMoves DEF AutoTimeout, LoginPcs
<1>6. CASE AutoCheck
  <2>1. ASSUME NEW pc \in {"stop", "wait", "stopfail"}, Goto(AutoLogin, pc)
        PROVE  IInv'
    BY <1>1, <1>6, <2>1, LoginMoves DEF AutoCheck, LoginPcs
  <2> QED
    BY <1>6, <2>1 DEF AutoCheck
<1> QED
  BY <1>2, <1>3, <1>4, <1>5, <1>6 DEF AutoStep

\* The steps of a monitor.
LEMMA MonitorStepInv ==
    ASSUME IInv, NEW a \in Logins, MonitorStep(a)
    PROVE  IInv'
<1> USE BridgeInState DEF loginVars, handlerVars, MonitorIs, MonitorGoto
<1>1. /\ bc \in ClientStates
      /\ MonitorOK(mon[a])
      /\ mon[a] \in MonitorStates
      /\ mon[a].pc # "none" => luser[a] \in Users
  BY MonitorsOK DEF IInv, TypeOK, MonitorHasUser
\* A monitor that only changes its place.
<1>2. ASSUME NEW pc \in {"loop", "open", "backoff", "sync", "select", "stop"},
             mon[a].pc \notin {"none", "start"}
      PROVE  /\ MonitorOK([mon[a] EXCEPT !.pc = pc])
             /\ [mon[a] EXCEPT !.pc = pc].pc = pc
             /\ [mon[a] EXCEPT !.pc = pc].stop = mon[a].stop
  BY <1>1, <1>2 DEF MonitorOK, MonitorStates
<1>3. CASE MonitorStart(a)
  <2> DEFINE m == [StartWatcher(mon[a]) EXCEPT !.pc = "loop"]
  <2>1. ~mon[a].imap
    BY <1>1, <1>3 DEF MonitorStart, MonitorOK
  <2>2. MonitorOK(m) /\ m.stop = mon[a].stop
    BY <1>1, <2>1, WatchersOK
  <2>3. m.pc = "loop"
    BY <1>1 DEF MonitorStates, StartWatcher
  <2> HIDE DEF m
  <2>4. mon' = [mon EXCEPT ![a] = m]
    BY <1>3 DEF MonitorStart, m
  <2> QED
    BY <1>1, <1>3, <2>2, <2>3, <2>4, MonitorMoves DEF MonitorStart
<1>4. CASE MonitorExit(a)
  <2> DEFINE m == Exited(mon[a])
  <2>1. MonitorOK(m) /\ m.pc = "none"
    <3> DEFINE w == StopWatcher(mon[a])
    <3>1. MonitorOK(w) /\ ~w.imap
      BY <1>1, WatchersOK
    <3>2. m = [w EXCEPT !.pc = "none", !.stop = "none", !.ch = "none"]
      BY DEF Exited
    <3> HIDE DEF w, m
    <3>3. w \in MonitorStates /\ w.live = 0 /\ w.imap = FALSE
      BY <3>1 DEF MonitorOK, MonitorStates
    <3>4. /\ m.pc = "none" /\ m.stop = "none" /\ m.ch = "none"
          /\ m.imap = FALSE /\ m.live = 0 /\ m \in MonitorStates
      BY <3>2, <3>3 DEF MonitorStates, ChanStates
    <3> QED
      BY <3>4 DEF MonitorOK
  <2> HIDE DEF m
  <2>2. mon' = [mon EXCEPT ![a] = m]
    BY <1>4 DEF MonitorExit, m
  <2>3. bc.session # a
    BY <1>4, BridgeAssumption DEF MonitorExit, IInv, SessionLive
  <2>4. \A h \in Handlers : hpc[h] = "close" => hloc[h].session # a
    BY <1>4 DEF MonitorExit, IInv, LogoutOwns
  <2>5. lpc[a] = "idle"
    BY <1>4 DEF MonitorExit, IInv, LoginFresh, NoMonitor
  <2> USE DEF MonitorExit
  <2>6. TypeOK'
    BY <1>4, <2>1, <2>2 DEF IInv, TypeOK, BridgeTypeOK, MonitorOK
  <2>7. NoPanic' /\ WatcherOwned'
    BY <2>1, <2>2 DEF IInv, TypeOK, NoPanic, WatcherOwned, MonitorOK
  <2>8. PendingHasLogin'
    BY <1>4 DEF IInv, PendingHasLogin
  <2>9. LoginFresh'
    BY <1>4, <2>2, <2>5 DEF IInv, TypeOK, LoginFresh
  <2>10. SessionLive'
    BY <1>4, <2>2, <2>3 DEF IInv, TypeOK, ClientStates, SessionLive
  <2>11. MonitorHasUser'
    BY <1>4, <2>1, <2>2 DEF IInv, TypeOK, MonitorHasUser
  <2>12. LoginEquipped'
    BY <1>4, <2>5 DEF IInv, TypeOK, LoginEquipped
  <2>13. LogoutOwns'
    BY <1>4, <2>2, <2>4 DEF IInv, TypeOK, LogoutOwns
  <2> QED
    BY <2>6, <2>7, <2>8, <2>9, <2>10, <2>11, <2>12, <2>13 DEF IInv
<1>5. CASE MonitorLoop(a)
  BY <1>1, <1>2, <1>5, MonitorMoves DEF MonitorLoop
<1>6. CASE MonitorOpen(a)
  <2>1. RunEventStream(bridge, a) \in BridgeStates /\ Kept(RunEventStream(bridge, a))
    BY CallsTyped, CallsKeepConnections DEF Kept
  <2> QED
    BY <1>1, <1>2, <1>6, <2>1, MonitorMoves DEF MonitorOpen, NotOpened
<1>7. CASE MonitorSync(a)
  <2>1. CASE MonitorGoto(a, [mon[a] EXCEPT !.snap = bridge.ustate[luser[a]]], "apply")
    <3> DEFINE m == [[mon[a] EXCEPT !.snap = bridge.ustate[luser[a]]] EXCEPT !.pc = "apply"]
    <3>1. bridge.ustate[luser[a]] \in UserStates
      BY <1>1, <1>7 DEF MonitorSync, BridgeStates
    <3>2. m.pc = "apply" /\ m.stop = mon[a].stop /\ MonitorOK(m)
      BY <1>1, <1>7, <3>1 DEF MonitorSync, MonitorOK, MonitorStates
    <3>3. mon' = [mon EXCEPT ![a] = m]
      BY <2>1
    <3> HIDE DEF m
    <3> QED
      BY <1>1, <1>7, <3>2, <3>3, MonitorMoves DEF MonitorSync
  <2>2. CASE mon' = [mon EXCEPT ![a] = [mon[a] EXCEPT !.pc = "select"]]
    BY <1>1, <1>2, <1>7, <2>2, MonitorMoves DEF MonitorSync
  <2> QED
    BY <1>7, <2>1, <2>2 DEF MonitorSync
<1>8. CASE MonitorApply(a)
  <2> DEFINE w == Applied(mon[a])
             m == [[w EXCEPT !.snap = "none"] EXCEPT !.pc = "select"]
  <2>1. \/ w = mon[a]
        \/ w = StopWatcher(mon[a])
        \/ w = StartWatcher(mon[a]) /\ ~mon[a].imap
    BY DEF Applied
  <2>2. m.pc = "select" /\ m.stop = mon[a].stop /\ MonitorOK(m)
    <3>1. CASE w = mon[a] \/ w = StopWatcher(mon[a])
      <4>1. MonitorOK(w) /\ w.stop = mon[a].stop
        BY <1>1, <3>1, WatchersOK
      <4> HIDE DEF w
      <4> QED
        BY <4>1 DEF MonitorOK, MonitorStates, UserStates
    <3>2. CASE w = StartWatcher(mon[a]) /\ ~mon[a].imap
      <4> DEFINE s == [w EXCEPT !.pc = "select"]
      <4>1. MonitorOK(s) /\ s.stop = mon[a].stop
        BY <1>1, <3>2, WatchersOK
      <4>2. m = [s EXCEPT !.snap = "none"] /\ s.pc = "select"
        BY <1>1, <3>2 DEF StartWatcher, MonitorStates
      <4> HIDE DEF s, m
      <4> QED
        BY <4>1, <4>2 DEF MonitorOK, MonitorStates, UserStates
    <3> QED
      BY <2>1, <3>1, <3>2
  <2>3. mon' = [mon EXCEPT ![a] = m]
    BY <1>8 DEF MonitorApply
  <2> HIDE DEF m, w
  <2>4. /\ bc' \in ClientStates
        /\ bc'.session = bc.session
        /\ bc'.state = "pending" => bc.state = "pending"
    BY <1>1, <1>8 DEF MonitorApply, SetState, AppliedState, ClientStates, States
  <2> QED
    BY <1>8, <2>2, <2>3, <2>4, MonitorMoves DEF MonitorApply
<1>9. CASE SeesStop(a) \/ PollTick(a) \/ StreamEnded(a)
  BY <1>1, <1>2, <1>9, MonitorMoves DEF SeesStop, PollTick, StreamEnded
<1>10. CASE Receives(a)
  <2>1. PICK e \in bridge.queue :
          /\ bridge' = [bridge EXCEPT !.queue = @ \ {e}]
          /\ \/ /\ mon' = [mon EXCEPT ![a] = [StopWatcher(mon[a]) EXCEPT !.pc = "select"]]
                /\ SetState("error")
             \/ /\ mon' = [mon EXCEPT ![a] = [mon[a] EXCEPT !.pc = "sync"]]
                /\ UNCHANGED bc
             \/ UNCHANGED <<bc, mon>>
    BY <1>10 DEF Receives
  <2>2. bridge' \in BridgeStates /\ Kept(bridge')
    BY <2>1 DEF BridgeStates, Kept
  <2>3. CASE /\ mon' = [mon EXCEPT ![a] = [StopWatcher(mon[a]) EXCEPT !.pc = "select"]]
             /\ SetState("error")
    <3> DEFINE w == StopWatcher(mon[a])
               m == [w EXCEPT !.pc = "select"]
    <3>1. MonitorOK(w) /\ w.stop = mon[a].stop
      BY <1>1, WatchersOK
    <3> HIDE DEF w
    <3>2. m.pc = "select" /\ m.stop = mon[a].stop /\ MonitorOK(m)
      BY <3>1 DEF MonitorOK, MonitorStates
    <3>3. mon' = [mon EXCEPT ![a] = m]
      BY <2>3 DEF w
    <3> HIDE DEF m
    <3>4. bc' \in ClientStates /\ bc'.session = bc.session /\ bc'.state = "error"
      BY <1>1, <2>3 DEF SetState, ClientStates, States
    <3> QED
      BY <1>10, <2>2, <3>2, <3>3, <3>4, MonitorMoves DEF Receives
  <2>4. CASE /\ mon' = [mon EXCEPT ![a] = [mon[a] EXCEPT !.pc = "sync"]]
             /\ UNCHANGED bc
    BY <1>1, <1>2, <1>10, <2>2, <2>4, MonitorMoves DEF Receives
  <2>5. CASE UNCHANGED <<bc, mon>>
    <3>1. mon' = [mon EXCEPT ![a] = mon[a]]
      BY <2>5 DEF IInv, TypeOK
    <3> QED
      BY <1>1, <1>10, <2>2, <2>5, <3>1, MonitorMoves DEF Receives
  <2> QED
    BY <2>1, <2>3, <2>4, <2>5
<1>11. CASE MonitorStopStream(a)
  <2>1. PICK b \in StopEventStream(bridge, a) : bridge' = CancelStream(b, a)
    BY <1>11 DEF MonitorStopStream
  <2>2. bridge' \in BridgeStates /\ Kept(bridge')
    BY <2>1, StopTyped, CallsTyped, CallsKeepConnections DEF Kept
  <2> QED
    BY <1>1, <1>2, <1>11, <2>2, MonitorMoves DEF MonitorStopStream
<1> QED
  BY <1>3, <1>4, <1>5, <1>6, <1>7, <1>8, <1>9, <1>10, <1>11 DEF MonitorStep

\* StartLogin takes a name nothing is left of.
LEMMA StartLoginInv ==
    ASSUME IInv, NEW a \in Logins, StartLogin(a),
           UNCHANGED <<bridge, restarts, luser, mon, hloc>>,
           hpc' \in [Handlers -> HandlerPcs],
           \A h \in Handlers : hpc'[h] \in {"close", "user"} => hpc[h] = hpc'[h]
    PROVE  IInv'
<1> USE DEF StartLogin, SetState, Goto
<1>1. TypeOK'
  BY DEF IInv, TypeOK, BridgeTypeOK, ClientStates, States, LoginPcs
<1>2. NoPanic' /\ WatcherOwned' /\ MonitorHasUser'
  BY DEF IInv, NoPanic, WatcherOwned, MonitorHasUser
<1>3. PendingHasLogin'
  BY DEF IInv, TypeOK, PendingHasLogin
<1>4. LoginFresh'
  BY DEF IInv, TypeOK, ClientStates, LoginFresh, Free
<1>5. SessionLive'
  BY DEF IInv, TypeOK, ClientStates, SessionLive
<1>6. LoginEquipped'
  BY DEF IInv, TypeOK, LoginEquipped
<1>7. LogoutOwns'
  BY DEF IInv, TypeOK, ClientStates, LogoutOwns
<1> QED
  BY <1>1, <1>2, <1>3, <1>4, <1>5, <1>6, <1>7 DEF IInv

\* Logout takes the session out of bc...
LEMMA LogoutTakeInv ==
    ASSUME IInv, NEW h \in Handlers, LogoutTake(h)
    PROVE  IInv'
<1> USE DEF LogoutTake, loginVars, Cleared
<1> DEFINE l == [session |-> bc.session,
                 user |-> IF bc.session = None THEN None ELSE luser[bc.session]]
<1>1. hloc' = [hloc EXCEPT ![h] = l] /\ l \in [session : Logins \cup {None}, user : Users \cup {None}]
  BY DEF IInv, TypeOK, ClientStates
<1>2. hloc'[h].session = bc.session /\ \A g \in Handlers \ {h} : hloc'[g] = hloc[g]
  BY <1>1 DEF IInv, TypeOK
<1>3. TypeOK'
  BY <1>1 DEF IInv, TypeOK, BridgeTypeOK, ClientStates, States, HandlerPcs
<1>4. NoPanic' /\ WatcherOwned' /\ MonitorHasUser'
  BY DEF IInv, NoPanic, WatcherOwned, MonitorHasUser
<1>5. PendingHasLogin' /\ SessionLive'
  BY DEF PendingHasLogin, SessionLive
<1>6. LoginFresh'
  <2>1. \A a \in Logins : lpc[a] # "idle" => hloc'[h].session # a
    BY <1>2 DEF IInv, LoginFresh
  <2> QED
    BY <1>2, <2>1, BridgeAssumption DEF IInv, LoginFresh
<1>7. LoginEquipped'
  BY DEF IInv, LoginEquipped
<1>8. LogoutOwns'
  <2>1. /\ hpc' \in [Handlers -> HandlerPcs]
        /\ hpc'[h] \in {"close", "conn"} /\ (hpc'[h] = "close" => bc.session # None)
        /\ \A g \in Handlers \ {h} : hpc'[g] = hpc[g]
    BY <1>3 DEF IInv, TypeOK
  <2>2. hpc'[h] = "close" =>
          /\ hloc'[h].session \in Logins /\ hloc'[h].user \in Users
          /\ mon'[hloc'[h].session].stop = "open"
    BY <1>1, <1>2, <2>1 DEF IInv, TypeOK, ClientStates, SessionLive
  <2>3. bc'.session = None
    OBVIOUS
  <2>4. \A g \in Handlers \ {h} :
          hloc'[g].session # None => hloc'[g].session # hloc'[h].session
    BY <1>2 DEF IInv, LogoutOwns
  <2>5. ASSUME NEW g \in Handlers \ {h}
        PROVE  /\ hpc'[g] \in {"close", "user"} =>
                     hloc'[g].session \in Logins /\ hloc'[g].user \in Users
               /\ hpc'[g] = "close" => mon'[hloc'[g].session].stop = "open"
               /\ \A f \in Handlers \ {g, h} :
                     hloc'[g].session # None => hloc'[f].session # hloc'[g].session
    BY <1>2, <2>1 DEF IInv, LogoutOwns
  <2> QED
    BY <2>1, <2>2, <2>3, <2>4, <2>5 DEF LogoutOwns
<1> QED
  BY <1>3, <1>4, <1>5, <1>6, <1>7, <1>8 DEF IInv

\* ... and then does away with it.
LEMMA HandlerStepInv ==
    ASSUME IInv, NEW h \in Handlers, HandlerStep(h)
    PROVE  IInv'
<1> USE BridgeInState DEF loginVars, handlerVars
<1>1. CASE LogoutClose(h)
  <2> USE <1>1 DEF LogoutClose
  <2> DEFINE a == hloc[h].session
  <2>1. /\ a \in Logins
        /\ mon[a].stop = "open" /\ bc.session # a
        /\ \A g \in Handlers \ {h} : hloc[g].session # a
    BY BridgeAssumption DEF IInv, LogoutOwns
  <2>2. /\ mon'[a] = [mon[a] EXCEPT !.stop = "closed"]
        /\ \A c \in Logins \ {a} : mon'[c] = mon[c]
        /\ mon' \in [Logins -> MonitorStates]
    BY <2>1 DEF IInv, TypeOK, MonitorStates, ChanStates, CloseChan
  <2>3. /\ mon'[a].stop = "closed" /\ mon'[a].pc = mon[a].pc /\ mon'[a].ch = mon[a].ch
        /\ mon'[a].imap = mon[a].imap /\ mon'[a].live = mon[a].live
    BY <2>1, <2>2 DEF IInv, TypeOK, MonitorStates
  <2> HIDE DEF a
  <2>4. TypeOK'
    BY <2>2 DEF IInv, TypeOK, BridgeTypeOK, HandlerPcs
  <2>5. ASSUME NEW c \in Logins
        PROVE  /\ mon'[c].stop # "panic"
               /\ mon'[c].pc = mon[c].pc /\ mon'[c].ch = mon[c].ch
               /\ mon'[c].imap = mon[c].imap /\ mon'[c].live = mon[c].live
    BY <2>2, <2>3 DEF IInv, NoPanic
  <2>10. NoPanic' /\ MonitorHasUser'
    BY <2>5 DEF IInv, NoPanic, MonitorHasUser
  <2>11. WatcherOwned'
    BY <2>5, Zenon DEF IInv, WatcherOwned
  <2>6. PendingHasLogin' /\ LoginEquipped'
    BY DEF IInv, PendingHasLogin, LoginEquipped
  <2>7. LoginFresh'
    BY <2>1, <2>2 DEF IInv, LoginFresh, a
  <2>8. SessionLive'
    BY <2>1, <2>2 DEF IInv, TypeOK, ClientStates, SessionLive
  <2>9. LogoutOwns'
    BY <2>1, <2>2 DEF IInv, TypeOK, LogoutOwns, a
  <2> QED
    BY <2>4, <2>6, <2>7, <2>8, <2>9, <2>10, <2>11 DEF IInv
<1>2. ASSUME UNCHANGED <<restarts, bc, loginVars, mon>>,
             hpc' \in [Handlers -> HandlerPcs],
             \A g \in Handlers : hpc'[g] \in {"close", "user"} => hpc[g] = hpc'[g],
             hloc' = hloc \/ hloc' = [hloc EXCEPT ![h] = Nothing],
             hpc'[h] \notin {"close", "user"},
             bridge' \in BridgeStates,
             \A c \in Logins : bridge.conn[c] # "none" /\ c # hloc[h].session
                              => bridge'.conn[c] # "none"
      PROVE  IInv'
  <2> USE <1>2 DEF Nothing
  <2>1. TypeOK'
    BY DEF IInv, TypeOK, BridgeTypeOK
  <2>2. NoPanic' /\ WatcherOwned' /\ MonitorHasUser' /\ PendingHasLogin'
    BY DEF IInv, NoPanic, WatcherOwned, MonitorHasUser, PendingHasLogin
  <2>3. LoginFresh'
    BY BridgeAssumption DEF IInv, TypeOK, LoginFresh
  <2>4. SessionLive'
    BY DEF IInv, TypeOK, ClientStates, SessionLive, LogoutOwns
  <2>5. LoginEquipped'
    BY DEF IInv, TypeOK, LoginEquipped, LoginFresh
  <2>6. LogoutOwns'
    BY DEF IInv, TypeOK, LogoutOwns
  <2> QED
    BY <2>1, <2>2, <2>3, <2>4, <2>5, <2>6 DEF IInv
<1>3. CASE LogoutUser(h)
  <2>1. hloc[h].session \in Logins /\ hloc[h].user \in Users
    BY <1>3 DEF LogoutUser, IInv, LogoutOwns
  <2>2. bridge' \in BridgeStates /\ Kept(bridge')
    BY <1>3, <2>1, UsersTyped, UsersKeepConnections DEF LogoutUser, Kept
  <2>3. /\ hpc' \in [Handlers -> HandlerPcs] /\ hpc'[h] = "conn"
        /\ \A g \in Handlers : hpc'[g] \in {"close", "user"} => hpc[g] = hpc'[g]
    BY <1>3 DEF LogoutUser, IInv, TypeOK, HandlerPcs
  <2> QED
    BY <1>2, <1>3, <2>2, <2>3 DEF LogoutUser, Kept
<1>4. CASE LogoutConn(h)
  <2>1. bridge' \in BridgeStates
    BY <1>4, CallsTyped DEF LogoutConn, IInv, TypeOK
  <2>2. \A c \in Logins : bridge.conn[c] # "none" /\ c # hloc[h].session
                         => bridge'.conn[c] # "none"
    BY <1>4, CallsKeepConnections DEF LogoutConn, IInv, TypeOK
  <2>3. /\ hpc' \in [Handlers -> HandlerPcs] /\ hpc'[h] \in {"relogin", "idle"}
        /\ \A g \in Handlers : hpc'[g] \in {"close", "user"} => hpc[g] = hpc'[g]
    BY <1>4 DEF LogoutConn, IInv, TypeOK, HandlerPcs
  <2> QED
    BY <1>2, <1>4, <2>1, <2>2, <2>3 DEF LogoutConn
<1>5. CASE Relogin(h)
  <2>1. /\ hpc' \in [Handlers -> HandlerPcs] /\ hpc'[h] = "idle"
        /\ \A g \in Handlers : hpc'[g] \in {"close", "user"} => hpc[g] = hpc'[g]
    BY <1>5 DEF Relogin, IInv, TypeOK, HandlerPcs
  <2>2. CASE \E a \in Logins : StartLogin(a)
    BY <1>5, <2>1, <2>2, StartLoginInv DEF Relogin
  <2>3. CASE UNCHANGED <<bc, lpc>>
    BY <1>2, <1>5, <2>1, <2>3 DEF Relogin
  <2> QED
    BY <1>5, <2>2, <2>3 DEF Relogin
<1> QED
  BY <1>1, <1>3, <1>4, <1>5 DEF HandlerStep

\* POST.
LEMMA PostInv ==
    ASSUME IInv, NEW a \in Logins, PostCredentials(a)
    PROVE  IInv'
<1>1. hpc' = hpc /\ hpc \in [Handlers -> HandlerPcs]
  BY DEF PostCredentials, handlerVars, IInv, TypeOK
<1> QED
  BY <1>1, StartLoginInv DEF PostCredentials, handlerVars

-----------------------------------------------------------------------------
(* The theorems.                                                           *)

\* It holds at the start: there is only the TryAutoLogin goroutine, about to run.
LEMMA InitInv == Init => IInv
<1> SUFFICES ASSUME Init PROVE IInv
  OBVIOUS
<1> USE BridgeAssumption, ClientAssumption DEF Init, BridgeInit
<1>1. NoMonitor \in MonitorStates
  BY DEF NoMonitor, MonitorStates, ChanStates, UserStates
<1>2. bridge \in BridgeStates
  BY DEF BridgeStates, ConnStates
<1>3. TypeOK
  BY <1>1, <1>2 DEF TypeOK, BridgeTypeOK, ClientStates, States, LoginPcs, HandlerPcs, Nothing
<1>4. NoPanic /\ WatcherOwned /\ MonitorHasUser
  BY DEF NoPanic, WatcherOwned, MonitorHasUser, NoMonitor
<1>5. PendingHasLogin /\ SessionLive /\ LoginFresh /\ LoginEquipped
  BY DEF PendingHasLogin, SessionLive, LoginFresh, LoginEquipped, Nothing
<1>6. LogoutOwns
  BY DEF LogoutOwns, Nothing
<1> QED
  BY <1>3, <1>4, <1>5, <1>6 DEF IInv

\* Every step of the bridge, of a login, of a monitor or of a handler preserves it.
LEMMA NextInv == IInv /\ [Next]_vars => IInv'
<1> SUFFICES ASSUME IInv, [Next]_vars PROVE IInv'
  OBVIOUS
<1>1. CASE UNCHANGED vars
  BY <1>1 DEF vars, IInv, TypeOK, BridgeTypeOK, NoPanic, PendingHasLogin, WatcherOwned,
              SessionLive, MonitorHasUser, LoginFresh, LoginEquipped, LogoutOwns
<1>2. CASE Next
  BY <1>2, BridgeStepInv, AutoStepInv, LoginStepInv, MonitorStepInv, PostInv,
     LogoutTakeInv, HandlerStepInv DEF Next
<1> QED
  BY <1>1, <1>2

\* The inductive invariant holds in every state the sidecar reaches.
THEOREM Invariance == Spec => []IInv
BY InitInv, NextInv, PTL DEF Spec

\* Every variable keeps to its type, for every number of attempts and requests.
THEOREM TypeCorrect == Spec => []TypeOK
<1>1. IInv => TypeOK
  BY DEF IInv
<1> QED
  BY <1>1, Invariance, PTL

\* No interleaving of logins, logouts and monitors closes a channel twice.
THEOREM NeverPanics == Spec => []NoPanic
<1>1. IInv => NoPanic
  BY DEF IInv
<1> QED
  BY <1>1, Invariance, PTL

\* A status of pending always has a running login behind it.
THEOREM PendingIsLive == Spec => []PendingHasLogin
<1>1. IInv => PendingHasLogin
  BY DEF IInv
<1> QED
  BY <1>1, Invariance, PTL

\* A monitor never has two watchers it did not stop, nor one it lost.
THEOREM OneWatcherEach == Spec => []WatcherOwned
<1>1. IInv => WatcherOwned
  BY DEF IInv
<1> QED
  BY <1>1, Invariance, PTL

\* The session in bc always has its monitor, its connection and its user.
THEOREM SessionIsLive == Spec => []SessionLive
<1>1. IInv => SessionLive
  BY DEF IInv
<1> QED
  BY <1>1, Invariance, PTL

-----------------------------------------------------------------------------
(* No lost wake-up.                                                        *)

\* In the bridge state b, a stream of TryAutoLogin that waits for u is about to be
\* told that u is connected, if u is.
WillWake(b, u) ==
    b.stream = AutoLogin /\ b.ustate[u] = "CONNECTED"
        => b.queue \cap {Changed(u), Loaded} # {}

\* No call of another attempt undoes that: each ends the stream, or adds an event
\* for the user it changes.
LEMMA CallsWake ==
    ASSUME NEW b \in BridgeStates, NEW u \in Users, WillWake(b, u)
    PROVE  /\ \A a \in Logins : WillWake(Dial(b, a), u)
           /\ \A a \in Logins \ {AutoLogin} : WillWake(RunEventStream(b, a), u)
           /\ WillWake(EndStream(b), u)
           /\ WillWake(Restarted(b), u)
           /\ \A a \in Logins : WillWake(CancelStream(b, a), u) /\ WillWake(Close(b, a), u)
           /\ \A v \in Users : WillWake(LoggedIn(b, v), u) /\ WillWake(LoggedOut(b, v), u)
<1> USE BridgeAssumption, ClientAssumption
<1>1. ASSUME NEW a \in Logins
      PROVE  WillWake(Dial(b, a), u)
  BY DEF WillWake, Dial, BridgeStates
<1>2. ASSUME NEW a \in Logins \ {AutoLogin}
      PROVE  WillWake(RunEventStream(b, a), u)
  BY DEF WillWake, RunEventStream, BridgeStates
<1>3. EndStream(b).stream = None /\ Restarted(b).stream = None
  BY DEF EndStream, Restarted, BridgeStates
<1>4. WillWake(EndStream(b), u) /\ WillWake(Restarted(b), u)
  BY <1>3 DEF WillWake
<1>5. ASSUME NEW a \in Logins
      PROVE  WillWake(CancelStream(b, a), u) /\ WillWake(Close(b, a), u)
  <2>1. WillWake(CancelStream(b, a), u)
    BY <1>4 DEF CancelStream
  <2>2. /\ Close(b, a).stream = CancelStream(b, a).stream
        /\ Close(b, a).ustate = CancelStream(b, a).ustate
        /\ Close(b, a).queue = CancelStream(b, a).queue
    BY CallsTyped DEF Close, BridgeStates
  <2> QED
    BY <2>1, <2>2 DEF WillWake
<1>6. ASSUME NEW v \in Users
      PROVE  WillWake(LoggedIn(b, v), u) /\ WillWake(LoggedOut(b, v), u)
  BY DEF WillWake, LoggedIn, LoggedOut, Emit, BridgeStates, Changed
<1> QED
  BY <1>1, <1>2, <1>4, <1>5, <1>6

\* Nor does an event: the bridge announces the user it connects.
LEMMA EventsWake ==
    ASSUME NEW u \in Users, bridge \in BridgeStates, WillWake(bridge, u), BridgeStep
    PROVE  WillWake(bridge', u)
<1> USE BridgeAssumption, ClientAssumption
<1>1. ASSUME NEW v \in Users, NEW from, NEW to \in UserStates, NEW e \in Events,
             UserMoves(v, from, to, e),
             to = "CONNECTED" => e \in {Changed(v), Loaded}
      PROVE  WillWake(bridge', u)
  BY <1>1 DEF UserMoves, WillWake, Emit, BridgeStates
<1>2. ASSUME NEW v \in Users
      PROVE  Changed(v) \in Events /\ Disconnected(v) \in Events /\ Loaded \in Events
  BY DEF Changed, Disconnected, Loaded, Events
<1>3. CASE \E v \in Users : TokenExpires(v) \/ TokenRefreshed(v) \/ Deauth(v)
  BY <1>1, <1>2, <1>3 DEF TokenExpires, TokenRefreshed, Deauth, UserStates
<1>4. CASE StreamBreaks \/ BridgeRestart
  BY <1>4, CallsWake DEF StreamBreaks, BridgeRestart
<1> QED
  BY <1>3, <1>4 DEF BridgeStep

\* So no step leaves TryAutoLogin waiting for a user whose event it has missed.
LEMMA NextWakes == IInv /\ NoLostWakeup /\ [Next]_vars => NoLostWakeup'
<1> SUFFICES ASSUME IInv, NoLostWakeup, [Next]_vars, lpc'[AutoLogin] = "wait"
             PROVE  WillWake(bridge', luser'[AutoLogin])
  BY DEF NoLostWakeup, WillWake
<1> USE BridgeAssumption, ClientAssumption DEF handlerVars, loginVars, clientVars
<1> DEFINE u == luser[AutoLogin]
<1>1. /\ bridge \in BridgeStates
      /\ lpc \in [Logins -> LoginPcs] /\ luser \in [Logins -> Users \cup {None}]
  BY BridgeInState DEF IInv, TypeOK
<1>2. ASSUME lpc[AutoLogin] = "wait"
      PROVE  WillWake(bridge, u) /\ u \in Users
  BY <1>2 DEF IInv, NoLostWakeup, WillWake, LoginEquipped
<1>3. ASSUME lpc[AutoLogin] = "wait", luser'[AutoLogin] = u,
             \/ bridge' = bridge
             \/ BridgeStep
             \/ \E a \in Logins : bridge' = Dial(bridge, a)
             \/ \E a \in Logins \ {AutoLogin} : bridge' = RunEventStream(bridge, a)
             \/ bridge' = EndStream(bridge)
             \/ \E a \in Logins : bridge' = CancelStream(bridge, a)
             \/ \E a \in Logins : bridge' = CancelStream(EndStream(bridge), a)
             \/ \E a \in Logins : bridge' = Close(bridge, a)
             \/ \E v \in Users : bridge' = LoggedIn(bridge, v) \/ bridge' = LoggedOut(bridge, v)
      PROVE  WillWake(bridge', luser'[AutoLogin])
  BY <1>1, <1>2, <1>3, CallsWake, EventsWake, CallsTyped
<1>4. CASE UNCHANGED vars
  BY <1>3, <1>4 DEF vars
<1>5. CASE BridgeStep
  BY <1>3, <1>5 DEF BridgeStep
<1>6. CASE AutoStep
  <2>1. CASE AutoList
    <3>1. ASSUME NEW v \in Vault(bridge), luser' = [luser EXCEPT ![AutoLogin] = v],
                 Goto(AutoLogin, IF bridge.ustate[v] = "CONNECTED" THEN "stop" ELSE "wait")
          PROVE  WillWake(bridge', luser'[AutoLogin])
      BY <1>1, <2>1, <3>1 DEF AutoList, Goto, WillWake
    <3>2. CASE Goto(AutoLogin, NobodyToRestore)
      BY <1>1, <3>2 DEF Goto, NobodyToRestore
    <3> QED
      BY <2>1, <3>1, <3>2 DEF AutoList
  <2>2. CASE AutoEvent
    BY <1>1, <1>2, <2>2 DEF AutoEvent, Goto, WillWake, Relevant, BridgeStates
  <2>3. CASE AutoCheck
    BY <1>1, <2>3 DEF AutoCheck, Goto, WillWake
  <2>4. CASE AutoStart \/ AutoTimeout
    BY <1>1, <2>4 DEF AutoStart, AutoTimeout, Goto
  <2> QED
    BY <1>6, <2>1, <2>2, <2>3, <2>4 DEF AutoStep
<1>7. ASSUME NEW a \in Logins, LoginStep(a)
      PROVE  WillWake(bridge', luser'[AutoLogin])
  <2>1. CASE a = AutoLogin
    BY <1>1, <1>7, <2>1
    DEF LoginStep, Connect, LoginOpen, LoginCall, LoginEvent, LoginStop, GiveUp, FinishList,
        Publish, Abandon, Goto
  <2>2. CASE a # AutoLogin
    <3>1. lpc[AutoLogin] = "wait" /\ luser'[AutoLogin] = u
      BY <1>1, <1>7, <2>2
      DEF LoginStep, Connect, LoginOpen, LoginCall, LoginEvent, LoginStop, GiveUp, FinishList,
          Publish, Abandon, Goto
    <3> QED
      BY <1>3, <1>7, <2>2, <3>1
      DEF LoginStep, Connect, LoginOpen, LoginCall, LoginEvent, LoginStop, GiveUp, FinishList,
          Publish, Abandon, StopEventStream
  <2> QED
    BY <2>1, <2>2
<1>8. ASSUME NEW a \in Logins, MonitorStep(a)
      PROVE  WillWake(bridge', luser'[AutoLogin])
  <2>1. lpc[AutoLogin] = "wait"
    BY <1>8
    DEF MonitorStep, MonitorStart, MonitorExit, MonitorLoop, MonitorOpen, MonitorSync,
        MonitorApply, SeesStop, PollTick, StreamEnded, Receives, MonitorStopStream
  <2>2. mon[a].pc # "none"
    BY <1>8
    DEF MonitorStep, MonitorStart, MonitorExit, MonitorLoop, MonitorOpen, MonitorSync,
        MonitorApply, SeesStop, PollTick, StreamEnded, Receives, MonitorStopStream, MonitorIs
  <2>3. a # AutoLogin
    BY <2>1, <2>2 DEF IInv, LoginFresh, NoMonitor
  <2>4. luser'[AutoLogin] = u
    BY <1>1, <1>8, <2>3
    DEF MonitorStep, MonitorStart, MonitorExit, MonitorLoop, MonitorOpen, MonitorSync,
        MonitorApply, SeesStop, PollTick, StreamEnded, Receives, MonitorStopStream
  <2>5. CASE Receives(a)
    BY <1>1, <2>3, <2>5 DEF Receives, WillWake, BridgeStates
  <2>6. CASE MonitorStopStream(a)
    BY <1>3, <2>1, <2>4, <2>6 DEF MonitorStopStream, StopEventStream
  <2>7. CASE MonitorOpen(a)
    BY <1>3, <2>1, <2>3, <2>4, <2>7 DEF MonitorOpen
  <2>8. bridge' = bridge \/ Receives(a) \/ MonitorStopStream(a) \/ MonitorOpen(a)
    BY <1>8
    DEF MonitorStep, MonitorStart, MonitorExit, MonitorLoop, MonitorSync, MonitorApply,
        SeesStop, PollTick, StreamEnded
  <2> QED
    BY <1>3, <2>1, <2>4, <2>5, <2>6, <2>7, <2>8
<1>9. ASSUME NEW a \in Logins, PostCredentials(a)
      PROVE  WillWake(bridge', luser'[AutoLogin])
  BY <1>1, <1>3, <1>9 DEF PostCredentials, StartLogin, Goto
<1>10. ASSUME NEW h \in Handlers, LogoutTake(h) \/ HandlerStep(h)
       PROVE  WillWake(bridge', luser'[AutoLogin])
  <2>1. lpc[AutoLogin] = "wait" /\ luser' = luser
    BY <1>1, <1>10
    DEF LogoutTake, HandlerStep, LogoutClose, LogoutUser, LogoutConn, Relogin, StartLogin, Goto
  <2>2. hpc[h] = "user" => hloc[h].user \in Users
    BY DEF IInv, LogoutOwns
  <2>3. hloc[h].session \in Logins \cup {None}
    BY DEF IInv, TypeOK
  <2> QED
    BY <1>3, <1>10, <2>1, <2>2, <2>3
    DEF LogoutTake, HandlerStep, LogoutClose, LogoutUser, LogoutConn, Relogin
<1> QED
  BY <1>4, <1>5, <1>6, <1>7, <1>8, <1>9, <1>10 DEF Next

\* TryAutoLogin never sleeps through the event it waits for.
THEOREM WakeupIsKept == Spec => []NoLostWakeup
<1>1. Init => NoLostWakeup
  BY ClientAssumption DEF Init, NoLostWakeup
<1> QED
  BY <1>1, NextWakes, Invariance, PTL DEF Spec

-----------------------------------------------------------------------------
(* What careful callers get.                                               *)

\* One login or one request at a time, and no session in bc while it runs.
OneAtATime ==
    /\ \A a \in Logins : lpc[a] # "idle" =>
          /\ bc.session = None
          /\ \A b \in Logins \ {a} : lpc[b] = "idle"
          /\ \A h \in Handlers : hpc[h] = "idle"
    /\ \A h \in Handlers : hpc[h] # "idle" =>
          /\ bc.session = None
          /\ \A g \in Handlers \ {h} : hpc[g] = "idle"

\* With careful callers a login and a session never overlap, and a step that ends
\* one or starts the other keeps it so.
LEMMA CarefulNext ==
    ASSUME Client = "careful", IInv, OneAtATime, MonitorReachable, [Next]_vars
    PROVE  OneAtATime' /\ MonitorReachable'
<1> USE DEF loginVars, handlerVars, clientVars, MayPost, MayLogout, NoLogin, HandlersIdle
<1>1. /\ lpc \in [Logins -> LoginPcs]
      /\ hpc \in [Handlers -> HandlerPcs]
      /\ mon \in [Logins -> MonitorStates]
      /\ bc \in ClientStates
      /\ hloc \in [Handlers -> [session : Logins \cup {None}, user : Users \cup {None}]]
  BY DEF IInv, TypeOK
<1>2. CASE UNCHANGED vars \/ BridgeStep
  BY <1>2 DEF vars, BridgeStep, OneAtATime, MonitorReachable
<1>3. ASSUME NEW a \in Logins, lpc[a] # "idle", NEW pc, Goto(a, pc),
             bc'.session = bc.session, UNCHANGED <<mon, handlerVars>>
      PROVE  OneAtATime' /\ MonitorReachable'
  BY <1>1, <1>3 DEF Goto, OneAtATime, MonitorReachable
<1>4. CASE AutoStep
  <2>1. AutoLogin \in Logins /\ lpc[AutoLogin] # "idle" /\ UNCHANGED <<mon, handlerVars>>
    BY <1>4, ClientAssumption
    DEF AutoStep, AutoStart, AutoList, AutoEvent, AutoTimeout, AutoCheck
  <2>2. bc'.session = bc.session /\ \E pc : Goto(AutoLogin, pc)
    BY <1>1, <1>4
    DEF AutoStep, AutoStart, AutoList, AutoEvent, AutoTimeout, AutoCheck, SetState, ClientStates
  <2> QED
    BY <1>3, <2>1, <2>2
<1>5. ASSUME NEW a \in Logins, LoginStep(a)
      PROVE  OneAtATime' /\ MonitorReachable'
  <2>1. CASE Publish(a)
    <3> USE DEF Publish, Goto
    <3>1. /\ lpc[a] # "idle" /\ bc.session = None
          /\ \A b \in Logins \ {a} : lpc[b] = "idle"
          /\ \A h \in Handlers : hpc[h] = "idle"
      BY <2>1 DEF OneAtATime
    <3>2. \A b \in Logins : mon[b].stop # "open"
      BY <3>1, BridgeAssumption DEF MonitorReachable
    <3> QED
      BY <1>1, <2>1, <3>1, <3>2 DEF OneAtATime, MonitorReachable
  <2>2. CASE ~Publish(a)
    <3>1. lpc[a] # "idle" /\ UNCHANGED <<mon, handlerVars>>
      BY <1>5, <2>2
      DEF LoginStep, Connect, LoginOpen, LoginCall, LoginEvent, LoginStop, GiveUp, FinishList
    <3>2. bc'.session = bc.session /\ \E pc : Goto(a, pc)
      BY <1>1, <1>5, <2>2
      DEF LoginStep, Connect, LoginOpen, LoginCall, LoginEvent, LoginStop, GiveUp, FinishList,
          Abandon, SetState, ClientStates
    <3> QED
      BY <1>3, <3>1, <3>2
  <2> QED
    BY <2>1, <2>2
<1>6. ASSUME NEW a \in Logins, MonitorStep(a)
      PROVE  OneAtATime' /\ MonitorReachable'
  <2>1. lpc' = lpc /\ UNCHANGED handlerVars
    BY <1>6
    DEF MonitorStep, MonitorStart, MonitorExit, MonitorLoop, MonitorOpen, MonitorSync,
        MonitorApply, SeesStop, PollTick, StreamEnded, Receives, MonitorStopStream
  <2>2. bc'.session = bc.session
    BY <1>1, <1>6
    DEF MonitorStep, MonitorStart, MonitorExit, MonitorLoop, MonitorOpen, MonitorSync,
        MonitorApply, SeesStop, PollTick, StreamEnded, Receives, MonitorStopStream,
        SetState, ClientStates
  <2>3. ASSUME NEW m, mon' = [mon EXCEPT ![a] = m], m.stop = "open" => mon[a].stop = "open"
        PROVE  \A c \in Logins : mon'[c].stop = "open" => mon[c].stop = "open"
    BY <1>1, <2>3
  <2>4. \A c \in Logins : mon'[c].stop = "open" => mon[c].stop = "open"
    <3>1. ASSUME NEW pc PROVE [mon[a] EXCEPT !.pc = pc].stop = mon[a].stop
      BY <1>1 DEF MonitorStates
    <3>3. CASE MonitorStart(a)
      BY <1>1, <2>3, <3>3 DEF MonitorStart, MonitorGoto, StartWatcher, MonitorStates
    <3>4. CASE MonitorExit(a)
      <4>1. Exited(mon[a]).stop = "none"
        BY <1>1 DEF Exited, StopWatcher, MonitorStates
      <4> QED
        BY <2>3, <3>4, <4>1 DEF MonitorExit
    <3>5. CASE MonitorSync(a)
      <4>1. ASSUME NEW s
            PROVE  [[mon[a] EXCEPT !.snap = s] EXCEPT !.pc = "apply"].stop = mon[a].stop
        BY <1>1 DEF MonitorStates
      <4> QED
        BY <2>3, <3>1, <3>5, <4>1 DEF MonitorSync, MonitorGoto
    <3>6. CASE MonitorApply(a)
      <4> DEFINE m == [[Applied(mon[a]) EXCEPT !.snap = "none"] EXCEPT !.pc = "select"]
      <4>1. m.stop = mon[a].stop
        BY <1>1 DEF Applied, StartWatcher, StopWatcher, MonitorStates
      <4>2. mon' = [mon EXCEPT ![a] = m]
        BY <3>6 DEF MonitorApply, MonitorGoto
      <4> HIDE DEF m
      <4> QED
        BY <2>3, <4>1, <4>2
    <3>7. CASE Receives(a)
      <4>1. [StopWatcher(mon[a]) EXCEPT !.pc = "select"].stop = mon[a].stop
        BY <1>1 DEF StopWatcher, MonitorStates
      <4> QED
        BY <2>3, <3>1, <3>7, <4>1 DEF Receives, MonitorGoto
    <3>8. CASE \/ MonitorLoop(a) \/ MonitorOpen(a) \/ SeesStop(a) \/ PollTick(a)
               \/ StreamEnded(a) \/ MonitorStopStream(a)
      BY <2>3, <3>1, <3>8
      DEF MonitorLoop, MonitorOpen, SeesStop, PollTick, StreamEnded, MonitorStopStream,
          MonitorGoto, NotOpened
    <3> QED
      BY <1>6, <3>3, <3>4, <3>5, <3>6, <3>7, <3>8 DEF MonitorStep
  <2> QED
    BY <2>1, <2>2, <2>4 DEF OneAtATime, MonitorReachable
<1>7. ASSUME NEW a \in Logins, PostCredentials(a)
      PROVE  OneAtATime' /\ MonitorReachable'
  BY <1>1, <1>7
  DEF PostCredentials, StartLogin, Goto, SetState, ClientStates, OneAtATime, MonitorReachable
<1>8. ASSUME NEW h \in Handlers, LogoutTake(h)
      PROVE  OneAtATime' /\ MonitorReachable'
  <2> USE <1>8 DEF LogoutTake, Cleared
  <2>1. bc'.session = None /\ OneAtATime'
    BY <1>1 DEF OneAtATime
  <2>2. ASSUME NEW a \in Logins, mon[a].stop = "open"
        PROVE  hpc'[h] = "close" /\ hloc'[h].session = a
    BY <1>1, <2>2, BridgeAssumption DEF MonitorReachable
  <2> QED
    BY <2>1, <2>2 DEF MonitorReachable
<1>9. ASSUME NEW h \in Handlers, HandlerStep(h)
      PROVE  OneAtATime' /\ MonitorReachable'
  <2>1. CASE LogoutClose(h)
    <3> USE <2>1 DEF LogoutClose
    <3>1. OneAtATime'
      BY <1>1 DEF OneAtATime
    <3>2. hloc[h].session \in Logins /\ mon[hloc[h].session].stop = "open"
      BY DEF IInv, LogoutOwns
    <3>3. mon'[hloc[h].session].stop = "closed"
      BY <1>1, <3>2 DEF CloseChan, MonitorStates
    <3>4. \A c \in Logins \ {hloc[h].session} : mon'[c] = mon[c]
      BY <1>1, <3>2
    <3>5. \A g \in Handlers \ {h} : hpc'[g] = hpc[g]
      BY <1>1
    <3>6. MonitorReachable'
      BY <3>3, <3>4, <3>5 DEF MonitorReachable
    <3> QED
      BY <3>1, <3>6
  <2>2. CASE LogoutUser(h) \/ LogoutConn(h)
    BY <1>1, <2>2 DEF LogoutUser, LogoutConn, OneAtATime, MonitorReachable
  <2>3. CASE Relogin(h)
    BY <1>1, <2>3
    DEF Relogin, StartLogin, Goto, SetState, ClientStates, OneAtATime, MonitorReachable
  <2> QED
    BY <1>9, <2>1, <2>2, <2>3 DEF HandlerStep
<1> QED
  BY <1>2, <1>4, <1>5, <1>6, <1>7, <1>8, <1>9 DEF Next

\* If nobody posts while a session is held or a login runs, no monitor is ever out
\* of Logout's reach.
THEOREM CarefulReach ==
    ASSUME Client = "careful"
    PROVE  Spec => []MonitorReachable
<1>1. Init => OneAtATime /\ MonitorReachable
  BY DEF Init, OneAtATime, MonitorReachable, NoMonitor
<1>2. IInv /\ OneAtATime /\ MonitorReachable /\ [Next]_vars => OneAtATime' /\ MonitorReachable'
  BY CarefulNext
<1> QED
  BY <1>1, <1>2, Invariance, PTL DEF Spec

-----------------------------------------------------------------------------
(* When stopEventStream is always first.                                   *)

\* The bridge serves a stream only over a connection that is up, and only for a
\* login or a monitor that is at work on it.
StreamInUse ==
    /\ bridge.stream # None => bridge.conn[bridge.stream] = "open"
    /\ \A a \in Logins :
          /\ lpc[a] \in {"idle", "start", "connect", "open", "giveup", "finish", "publish"}
          /\ mon[a].pc \in {"none", "start", "loop", "open", "backoff"}
          => bridge.stream # a

StopFirst ==
    \A a \in Logins :
        /\ bridge.stream = a
        /\ bridge.conn[a] = "open"
        /\ restarts' = restarts
        => bridge'.conn[a] = "open"

\* With nobody to log out, and Login and StopEventStream failing only when the
\* connection is gone, every step keeps the rule.
LEMMA StopFirstNext ==
    ASSUME Handlers = {}, "login" \notin FailingRpcs, "stop" \notin FailingRpcs,
           IInv, StreamInUse, [Next]_vars
    PROVE  StreamInUse' /\ StopFirst
<1> USE BridgeAssumption, ClientAssumption
    DEF loginVars, handlerVars, clientVars, StreamInUse, StopFirst
<1>1. /\ bridge \in BridgeStates
      /\ lpc \in [Logins -> LoginPcs]
      /\ mon \in [Logins -> MonitorStates]
      /\ restarts \in Nat
  BY DEF IInv, TypeOK, BridgeTypeOK
<1>2. ASSUME NEW a \in Logins, lpc[a] # "idle"
      PROVE  mon[a] = NoMonitor /\ mon[a].pc = "none"
  BY <1>2 DEF IInv, LoginFresh, NoMonitor
<1>3. ASSUME NEW a \in Logins, bridge.stream # a
      PROVE  /\ CancelStream(bridge, a) = bridge
             /\ Close(bridge, a) = [bridge EXCEPT !.conn[a] = "none"]
  BY <1>3 DEF CancelStream, Close
<1>4. CASE UNCHANGED vars
  BY <1>4 DEF vars
<1>5. CASE BridgeStep
  <2>1. CASE \E u \in Users : TokenExpires(u) \/ TokenRefreshed(u) \/ Deauth(u)
    <3>1. bridge'.conn = bridge.conn /\ bridge'.stream = bridge.stream
      BY <1>1, <2>1
      DEF TokenExpires, TokenRefreshed, Deauth, UserMoves, Emit, BridgeStates
    <3> QED
      BY <1>5, <3>1 DEF BridgeStep
  <2>2. CASE StreamBreaks
    BY <1>1, <1>5, <2>2 DEF BridgeStep, StreamBreaks, EndStream, BridgeStates
  <2>3. CASE BridgeRestart
    <3>1. restarts' # restarts
      BY <1>1, <2>3 DEF BridgeRestart
    <3>2. bridge'.stream = None
      BY <1>1, <2>3 DEF BridgeRestart, Restarted, EndStream, BridgeStates
    <3> QED
      BY <3>1, <3>2
  <2> QED
    BY <1>5, <2>1, <2>2, <2>3 DEF BridgeStep
\* A login that fails with its stream over, or never opened.
<1>6. ASSUME NEW a \in Logins, NEW s, Abandon(a, s), lpc[a] # "idle",
             bridge.stream # a, mon' = mon
      PROVE  StreamInUse' /\ StopFirst
  <2>1. bridge' = [bridge EXCEPT !.conn[a] = "none"]
    BY <1>3, <1>6 DEF Abandon
  <2>2. /\ bridge'.stream = bridge.stream
        /\ \A c \in Logins \ {a} : bridge'.conn[c] = bridge.conn[c]
    BY <1>1, <2>1 DEF BridgeStates
  <2> QED
    BY <1>1, <1>6, <2>2 DEF Abandon, Goto, BridgeStates
\* A login that goes on and leaves the bridge alone.
<1>7. ASSUME NEW a \in Logins, lpc[a] # "idle", NEW pc, Goto(a, pc),
             UNCHANGED <<bridge, mon>>,
             bridge.stream = a => pc \in {"login", "event", "stop", "stopfail", "list", "wait", "check"}
      PROVE  StreamInUse' /\ StopFirst
  BY <1>1, <1>7 DEF Goto
<1>8. CASE AutoStep
  <2>1. ASSUME AutoEvent PROVE StreamInUse' /\ StopFirst
    <3>1. bridge'.conn = bridge.conn /\ bridge'.stream = bridge.stream
      BY <1>1, <2>1 DEF AutoEvent, BridgeStates
    <3> QED
      BY <1>1, <2>1, <3>1 DEF AutoEvent, Goto
  <2>2. CASE AutoStart
    BY <1>1, <1>2, <1>7, <2>2 DEF AutoStart
  <2>3. CASE AutoList \/ AutoTimeout \/ AutoCheck
    BY <1>7, <2>3 DEF AutoList, AutoTimeout, AutoCheck, NobodyToRestore
  <2> QED
    BY <1>8, <2>1, <2>2, <2>3 DEF AutoStep
<1>9. ASSUME NEW a \in Logins, LoginStep(a)
      PROVE  StreamInUse' /\ StopFirst
  <2>1. CASE Connect(a)
    <3>1. bridge.stream # a
      BY <1>2, <2>1 DEF Connect
    <3>2. CASE bridge' = Dial(bridge, a) /\ Goto(a, "open")
      <4>1. /\ bridge'.stream = bridge.stream
            /\ \A c \in Logins : bridge.conn[c] = "open" => bridge'.conn[c] = "open"
        BY <1>1, <3>2 DEF Dial, BridgeStates
      <4> QED
        BY <1>1, <2>1, <3>1, <3>2, <4>1 DEF Connect, Goto, BridgeStates
    <3> QED
      BY <1>6, <2>1, <3>1, <3>2 DEF Connect
  <2>2. CASE LoginOpen(a)
    <3>1. bridge.stream # a
      BY <1>2, <2>2 DEF LoginOpen
    <3> DEFINE pc == IF a = AutoLogin THEN "list" ELSE "login"
    <3>2. CASE /\ CanSucceed(bridge, a)
               /\ bridge' = RunEventStream(bridge, a)
               /\ Goto(a, pc)
      <4>1. /\ bridge'.conn = bridge.conn /\ bridge.conn[a] = "open"
            /\ bridge'.stream = bridge.stream \/ bridge'.stream = a
        BY <1>1, <3>2 DEF RunEventStream, CanSucceed, BridgeStates
      <4> QED
        BY <1>1, <2>2, <3>2, <4>1 DEF LoginOpen, Goto
    <3> QED
      BY <1>6, <2>2, <3>1, <3>2 DEF LoginOpen
  <2>3. CASE LoginCall(a)
    <3>1. CASE Goto(a, "event") /\ UNCHANGED bridge
      BY <1>7, <2>3, <3>1 DEF LoginCall
    <3>2. CASE CanFail(bridge, a, "login") /\ Abandon(a, "error")
      <4>1. bridge.stream # a
        BY <3>2 DEF CanFail
      <4> QED
        BY <1>6, <2>3, <3>2, <4>1 DEF LoginCall
    <3> QED
      BY <2>3, <3>1, <3>2 DEF LoginCall
  <2>4. CASE LoginEvent(a)
    <3>1. ASSUME NEW u \in Users, bridge' = LoggedIn(bridge, u), Goto(a, "stop")
          PROVE  StreamInUse' /\ StopFirst
      <4>1. bridge'.conn = bridge.conn /\ bridge'.stream = bridge.stream
        BY <1>1, <3>1 DEF LoggedIn, Emit, BridgeStates
      <4> QED
        BY <1>1, <2>4, <3>1, <4>1 DEF LoginEvent, Goto
    <3>2. CASE Goto(a, "stopfail") /\ UNCHANGED bridge
      BY <1>7, <2>4, <3>2 DEF LoginEvent
    <3> QED
      BY <2>4, <3>1, <3>2 DEF LoginEvent
  <2>5. CASE LoginStop(a)
    <3>0. \/ bridge' = EndStream(bridge)
          \/ bridge' = bridge /\ bridge.conn[a] # "open"
      BY <2>5 DEF LoginStop, StopEventStream, CanFail
    <3>1. bridge'.conn = bridge.conn
      BY <1>1, <3>0 DEF EndStream, BridgeStates
    <3>2. bridge'.stream # a /\ bridge'.stream \in {None, bridge.stream}
      BY <1>1, <3>0 DEF EndStream, BridgeStates
    <3> QED
      BY <1>1, <2>5, <3>1, <3>2 DEF LoginStop, Goto
  <2>6. CASE GiveUp(a)
    BY <1>2, <1>6, <2>6 DEF GiveUp
  <2>7. CASE FinishList(a)
    BY <1>2, <1>6, <1>7, <2>7 DEF FinishList
  <2>8. CASE Publish(a)
    <3>1. bridge.stream # a
      BY <1>2, <2>8 DEF Publish
    <3>2. bridge' = bridge
      BY <1>3, <2>8, <3>1 DEF Publish
    <3> QED
      BY <1>1, <2>8, <3>1, <3>2 DEF Publish, Goto
  <2> QED
    BY <1>9, <2>1, <2>2, <2>3, <2>4, <2>5, <2>6, <2>7, <2>8 DEF LoginStep
\* A monitor that goes on over the same connections.
<1>10. ASSUME NEW a \in Logins, mon[a].pc # "none", NEW m, mon' = [mon EXCEPT ![a] = m],
              lpc' = lpc, bridge'.conn = bridge.conn,
              bridge'.stream \in {None, bridge.stream, a},
              bridge'.stream = a => bridge.conn[a] = "open",
              bridge'.stream = a => m.pc \in {"sync", "apply", "select", "stop"}
       PROVE  StreamInUse' /\ StopFirst
  BY <1>1, <1>10
<1>11. ASSUME NEW a \in Logins, MonitorStep(a)
       PROVE  StreamInUse' /\ StopFirst
  <2>0. lpc[a] = "idle" /\ mon[a] \in MonitorStates
    <3>1. mon[a].pc # "none"
      BY <1>11
      DEF MonitorStep, MonitorStart, MonitorExit, MonitorLoop, MonitorOpen, MonitorSync,
          MonitorApply, SeesStop, PollTick, StreamEnded, Receives, MonitorStopStream, MonitorIs
    <3> QED
      BY <1>1, <1>2, <3>1
  <2>1. ASSUME NEW m \in MonitorStates, NEW pc
        PROVE  [m EXCEPT !.pc = pc].pc = pc
    BY <2>1 DEF MonitorStates
  <2>2. CASE MonitorStart(a)
    <3>1. bridge.stream # a
      BY <2>0, <2>2 DEF MonitorStart, MonitorIs
    <3> QED
      BY <1>10, <2>2, <3>1 DEF MonitorStart, MonitorGoto, MonitorIs
  <2>3. CASE MonitorExit(a)
    <3>1. bridge.stream # a
      BY <2>0, <2>3 DEF MonitorExit
    <3> QED
      BY <1>10, <2>3, <3>1 DEF MonitorExit
  <2>4. CASE MonitorLoop(a)
    <3>1. bridge.stream # a
      BY <2>0, <2>4 DEF MonitorLoop, MonitorIs
    <3> QED
      BY <1>10, <2>4, <3>1 DEF MonitorLoop, MonitorGoto, MonitorIs
  <2>5. CASE MonitorOpen(a)
    <3>1. bridge.stream # a
      BY <2>0, <2>5 DEF MonitorOpen, MonitorIs
    <3>2. CASE /\ CanSucceed(bridge, a)
               /\ bridge' = RunEventStream(bridge, a)
               /\ MonitorGoto(a, mon[a], "sync")
      <4>1. /\ bridge'.conn = bridge.conn /\ bridge.conn[a] = "open"
            /\ bridge'.stream = bridge.stream \/ bridge'.stream = a
        BY <1>1, <3>2 DEF RunEventStream, CanSucceed, BridgeStates
      <4> QED
        BY <1>10, <2>0, <2>1, <2>5, <3>2, <4>1 DEF MonitorOpen, MonitorGoto, MonitorIs
    <3>3. CASE mon' = [mon EXCEPT ![a] = NotOpened(@)] /\ UNCHANGED bridge
      BY <1>10, <2>5, <3>1, <3>3 DEF MonitorOpen, MonitorIs
    <3> QED
      BY <2>5, <3>2, <3>3 DEF MonitorOpen
  <2>6. ASSUME mon[a].pc \in {"sync", "apply", "select"}, UNCHANGED lpc,
               NEW m \in MonitorStates, NEW pc \in {"apply", "select", "sync", "stop"},
               MonitorGoto(a, m, pc),
               bridge'.conn = bridge.conn, bridge'.stream = bridge.stream
        PROVE  StreamInUse' /\ StopFirst
    <3>1. mon' = [mon EXCEPT ![a] = [m EXCEPT !.pc = pc]] /\ [m EXCEPT !.pc = pc].pc = pc
      BY <2>1, <2>6 DEF MonitorGoto
    <3>2. bridge.stream = a => bridge.conn[a] = "open"
      OBVIOUS
    <3> QED
      BY <1>10, <2>6, <3>1, <3>2
  <2>7. CASE MonitorSync(a)
    <3>1. luser[a] \in Users /\ bridge.ustate[luser[a]] \in UserStates
      BY <1>1, <2>7 DEF MonitorSync, MonitorIs, IInv, MonitorHasUser, BridgeStates
    <3>2. [mon[a] EXCEPT !.snap = bridge.ustate[luser[a]]] \in MonitorStates
      BY <2>0, <3>1 DEF MonitorStates
    <3> QED
      BY <2>0, <2>6, <2>7, <3>2 DEF MonitorSync, MonitorIs
  <2>8. CASE MonitorApply(a)
    <3>1. MonitorOK(mon[a])
      BY MonitorsOK
    <3>2. [Applied(mon[a]) EXCEPT !.snap = "none"] \in MonitorStates
      <4>1. StopWatcher(mon[a]) \in MonitorStates
        BY <3>1, WatchersOK DEF MonitorOK
      <4>2. StartWatcher(mon[a]) \in MonitorStates
        <5> DEFINE n == mon[a].live + 1
        <5>1. n \in Nat
          BY <2>0 DEF MonitorStates
        <5> HIDE DEF n
        <5>2. [mon[a] EXCEPT !.imap = TRUE, !.ch = "open", !.live = n] \in MonitorStates
          BY <2>0, <5>1 DEF MonitorStates, ChanStates
        <5>3. StartWatcher(mon[a]) = [mon[a] EXCEPT !.imap = TRUE, !.ch = "open", !.live = n]
          BY DEF StartWatcher, n
        <5> QED
          BY <5>2, <5>3
      <4>3. Applied(mon[a]) \in MonitorStates
        BY <2>0, <4>1, <4>2 DEF Applied
      <4> QED
        BY <4>3 DEF MonitorStates, UserStates
    <3> QED
      BY <2>6, <2>8, <3>2 DEF MonitorApply, MonitorIs
  <2>9. CASE SeesStop(a) \/ PollTick(a) \/ StreamEnded(a)
    BY <2>0, <2>6, <2>9 DEF SeesStop, PollTick, StreamEnded, MonitorIs
  <2>10. CASE Receives(a)
    <3>1. bridge'.conn = bridge.conn /\ bridge'.stream = bridge.stream
      BY <1>1, <2>10 DEF Receives, BridgeStates
    <3>2. StopWatcher(mon[a]) \in MonitorStates
      BY MonitorsOK, WatchersOK DEF MonitorOK
    <3>3. CASE mon' = mon
      BY <2>10, <3>1, <3>3 DEF Receives
    <3> QED
      BY <2>0, <2>6, <2>10, <3>1, <3>2, <3>3 DEF Receives, MonitorIs
  <2>11. CASE MonitorStopStream(a)
    <3>1. PICK b \in StopEventStream(bridge, a) : bridge' = CancelStream(b, a)
      BY <2>11 DEF MonitorStopStream
    <3>2. b.conn = bridge.conn /\ b.stream \in {None, bridge.stream} /\ b.stream # a
      BY <1>1, <3>1 DEF StopEventStream, CanSucceed, CanFail, EndStream, BridgeStates
    <3>3. bridge' = b
      BY <3>1, <3>2 DEF CancelStream
    <3> QED
      BY <1>10, <2>11, <3>2, <3>3 DEF MonitorStopStream, MonitorGoto, MonitorIs
  <2> QED
    BY <1>11, <2>2, <2>3, <2>4, <2>5, <2>7, <2>8, <2>9, <2>10, <2>11 DEF MonitorStep
<1>12. ASSUME NEW a \in Logins, PostCredentials(a)
       PROVE  StreamInUse' /\ StopFirst
  <2>1. mon[a].pc = "none" /\ lpc[a] = "idle"
    BY <1>12 DEF PostCredentials, StartLogin, Free, NoMonitor
  <2> QED
    BY <1>1, <1>12, <2>1 DEF PostCredentials, StartLogin, Goto
<1> QED
  BY <1>4, <1>5, <1>8, <1>9, <1>11, <1>12 DEF Next

\* The sidecar makes the bridge call s.quit() only by a logout, or by a Login or
\* StopEventStream call that fails on a connection that is up: without these, no
\* login, restore, failure, restart or reconnection does.
THEOREM NeverQuits ==
    ASSUME Handlers = {}, "login" \notin FailingRpcs, "stop" \notin FailingRpcs
    PROVE  Spec => StopBeforeCancel
<1>1. Init => StreamInUse
  BY BridgeAssumption DEF Init, BridgeInit, StreamInUse
<1>2. IInv /\ StreamInUse /\ [Next]_vars => StreamInUse' /\ StopFirst
  BY StopFirstNext
<1>3. StopFirst <=> (\A a \in Logins :
                       /\ bridge.stream = a
                       /\ bridge.conn[a] = "open"
                       /\ restarts' = restarts
                       => bridge'.conn[a] = "open")
  BY DEF StopFirst
<1> QED
  BY <1>1, <1>2, <1>3, Invariance, PTL DEF Spec, StopBeforeCancel
=============================================================================
