------------------------ MODULE BridgeClientPromise ------------------------
(* BridgeClient, called with care, implements Session; and without calls   *)
(* its status is true.                                                     *)
EXTENDS BridgeClientProofs

\* A monitor that has returned has no channel left.
NoneLeft == \A a \in Logins : mon[a].pc = "none" => mon[a].stop = "none"

\* The types the steps are about.
LEMMA Typed ==
    ASSUME IInv
    PROVE  /\ lpc \in [Logins -> LoginPcs]
           /\ mon \in [Logins -> MonitorStates]
           /\ \A a \in Logins : mon[a].live \in Nat
           /\ bc \in ClientStates
BY DEF IInv, TypeOK, MonitorStates

\* What the stage of an attempt is, by what there is of it.
LEMMA StageIs ==
    ASSUME IInv, NoneLeft, NEW a \in Logins
    PROVE  /\ lpc[a] \notin {"idle", "start"} => Stage[a] = "login"
           /\ lpc[a] = "start" => Stage[a] = "none"
           /\ lpc[a] = "idle" /\ mon[a].pc = "none" => Stage[a] = "none"
           /\ mon[a].pc # "none" /\ mon[a].stop = "open" => Stage[a] = "held"
           /\ mon[a].pc # "none" /\ mon[a].stop # "open" => Stage[a] = "left"
           /\ mon[a].stop # "open" => Stage[a] # "held"
           /\ a \in Watched => mon[a].pc # "none"
<1>1. lpc[a] # "idle" => mon[a].pc = "none" /\ mon[a].stop = "none" /\ mon[a].live = 0
  BY DEF IInv, LoginFresh, NoMonitor
<1>2. mon[a].pc = "none" => mon[a].live = 0 /\ mon[a].stop = "none"
  BY DEF IInv, WatcherOwned, NoneLeft
<1> QED
  BY <1>1, <1>2 DEF Stage, StageOf, Watched

\* A step that touches one attempt leaves the stages of the others.
LEMMA OthersStay ==
    ASSUME NEW a \in Logins,
           \A c \in Logins \ {a} : lpc'[c] = lpc[c] /\ mon'[c] = mon[c]
    PROVE  /\ Stage' = [Stage EXCEPT ![a] = Stage'[a]]
           /\ Watched' = (Watched \ {a}) \cup (IF mon'[a].live > 0 THEN {a} ELSE {})
<1>1. \A c \in Logins \ {a} : StageOf(c)' = StageOf(c)
  BY DEF StageOf
<1>2. Stage' = [c \in Logins |-> StageOf(c)']
  BY DEF Stage
<1>3. \A c \in Logins : Stage[c] = StageOf(c) /\ Stage'[c] = StageOf(c)'
  BY <1>2 DEF Stage
<1>4. Stage' = [Stage EXCEPT ![a] = Stage'[a]]
  BY <1>1, <1>2, <1>3 DEF Stage
<1> QED
  BY <1>4 DEF Watched

\* A step that changes neither what a login has come to nor any monitor does
\* nothing that Session can see.
LEMMA Unseen ==
    ASSUME \A c \in Logins : mon'[c] = mon[c],
           \A c \in Logins : lpc'[c] = lpc[c] \/ {lpc[c], lpc'[c]} \cap {"idle", "start"} = {}
    PROVE  UNCHANGED <<Stage, Watched>>
<1>1. \A c \in Logins : StageOf(c)' = StageOf(c)
  BY DEF StageOf
<1>2. Stage' = [c \in Logins |-> StageOf(c)']
  BY DEF Stage
<1> QED
  BY <1>1, <1>2 DEF Stage, Watched

\* A monitor that starts a watcher is one.
LEMMA StartedTyped ==
    ASSUME NEW m, MonitorOK(m)
    PROVE  StartWatcher(m) \in MonitorStates
<1> DEFINE n == m.live + 1
<1>1. n \in Nat /\ m \in MonitorStates
  BY DEF MonitorOK, MonitorStates
<1>2. StartWatcher(m) = [m EXCEPT !.imap = TRUE, !.ch = "open", !.live = n]
  BY <1>1 DEF StartWatcher, MonitorStates
<1> HIDE DEF n
<1> QED
  BY <1>1, <1>2 DEF MonitorStates, ChanStates

\* A channel goes with its monitor, so that one that has returned has none.
LEMMA NoneLeftNext ==
    ASSUME IInv, NoneLeft, [Next]_vars
    PROVE  NoneLeft'
<1> USE DEF loginVars, handlerVars, clientVars
<1>1. CASE UNCHANGED mon
  BY <1>1 DEF NoneLeft
<1>2. ASSUME NEW a \in Logins, NEW m, mon' = [mon EXCEPT ![a] = m],
             m.pc = "none" => m.stop = "none"
      PROVE  NoneLeft'
  BY <1>2, Typed DEF NoneLeft
<1>3. ASSUME NEW a \in Logins, MonitorStep(a)
      PROVE  NoneLeft'
  <2>1. CASE MonitorExit(a)
    <3>1. Exited(mon[a]).stop = "none"
      BY Typed DEF Exited, StopWatcher, MonitorStates
    <3> QED
      BY <1>2, <2>1, <3>1 DEF MonitorExit
  <2>2. ASSUME NEW m \in MonitorStates, NEW pc \in {"loop", "open", "sync", "apply", "select", "stop"},
               MonitorGoto(a, m, pc)
        PROVE  NoneLeft'
    <3>1. [m EXCEPT !.pc = pc].pc # "none"
      BY DEF MonitorStates
    <3> QED
      BY <1>2, <2>2, <3>1 DEF MonitorGoto
  <2>3. mon[a] \in MonitorStates /\ MonitorOK(mon[a])
    BY Typed, MonitorsOK
  <2>4. CASE MonitorStart(a)
    <3>1. StartWatcher(mon[a]) \in MonitorStates
      BY <2>3, StartedTyped
    <3> QED
      BY <2>2, <2>4, <3>1 DEF MonitorStart
  <2>5. CASE MonitorOpen(a)
    <3>1. NotOpened(mon[a]).pc = "backoff"
      BY <2>3 DEF NotOpened, MonitorStates
    <3> QED
      BY <1>2, <2>2, <2>3, <2>5, <3>1 DEF MonitorOpen
  <2>6. CASE MonitorSync(a)
    <3>1. \A s \in UserStates : [mon[a] EXCEPT !.snap = s] \in MonitorStates
      BY <2>3 DEF MonitorStates
    <3>2. luser[a] \in Users /\ bridge.ustate[luser[a]] \in UserStates
      BY <2>6 DEF MonitorSync, MonitorIs, IInv, MonitorHasUser, TypeOK, BridgeTypeOK, BridgeStates
    <3> QED
      BY <2>2, <2>3, <2>6, <3>1, <3>2 DEF MonitorSync
  <2>7. CASE MonitorApply(a)
    <3>1. Applied(mon[a]) \in MonitorStates
      BY <2>3, StartedTyped, WatchersOK DEF Applied, MonitorOK
    <3>2. [Applied(mon[a]) EXCEPT !.snap = "none"] \in MonitorStates
      BY <3>1 DEF MonitorStates, UserStates
    <3> QED
      BY <2>2, <2>7, <3>2 DEF MonitorApply
  <2>8. CASE Receives(a)
    <3>1. StopWatcher(mon[a]) \in MonitorStates
      BY <2>3, WatchersOK DEF MonitorOK
    <3> QED
      BY <1>1, <2>2, <2>3, <2>8, <3>1 DEF Receives
  <2>9. CASE \/ MonitorLoop(a) \/ SeesStop(a) \/ PollTick(a) \/ StreamEnded(a)
             \/ MonitorStopStream(a)
    BY <2>2, <2>3, <2>9
    DEF MonitorLoop, SeesStop, PollTick, StreamEnded, MonitorStopStream
  <2> QED
    BY <1>3, <2>1, <2>4, <2>5, <2>6, <2>7, <2>8, <2>9 DEF MonitorStep
<1>4. ASSUME NEW a \in Logins, Publish(a)
      PROVE  NoneLeft'
  BY <1>2, <1>4 DEF Publish, NewMonitor, NoMonitor
<1>5. ASSUME NEW h \in Handlers, LogoutClose(h)
      PROVE  NoneLeft'
  <2>1. hloc[h].session \in Logins /\ mon[hloc[h].session].stop = "open"
    BY <1>5 DEF LogoutClose, IInv, LogoutOwns
  <2>2. mon[hloc[h].session].pc # "none"
    BY <2>1 DEF NoneLeft
  <2>3. [mon[hloc[h].session] EXCEPT !.stop = CloseChan(@)].pc # "none"
    BY <2>1, <2>2, Typed DEF MonitorStates
  <2> QED
    BY <1>2, <1>5, <2>1, <2>3 DEF LogoutClose
<1>6. CASE UNCHANGED vars \/ BridgeStep \/ AutoStep
  BY <1>1, <1>6
  DEF vars, BridgeStep, AutoStep, AutoStart, AutoList, AutoEvent, AutoTimeout, AutoCheck
<1>7. ASSUME NEW a \in Logins, LoginStep(a) \/ PostCredentials(a)
      PROVE  NoneLeft'
  BY <1>1, <1>4, <1>7
  DEF LoginStep, Connect, LoginOpen, LoginCall, LoginEvent, LoginStop, GiveUp, FinishList,
      PostCredentials
<1>8. ASSUME NEW h \in Handlers, LogoutTake(h) \/ HandlerStep(h)
      PROVE  NoneLeft'
  BY <1>1, <1>5, <1>8 DEF LogoutTake, HandlerStep, LogoutUser, LogoutConn, Relogin
<1> QED
  BY <1>3, <1>6, <1>7, <1>8 DEF Next

-----------------------------------------------------------------------------
(* Every step is one of Session, or none that it can see.                  *)

\* The watchers a monitor starts and stops as it goes on.
LEMMA MonitorSeen ==
    ASSUME IInv, NoneLeft, NoneLeft', NEW a \in Logins, lpc' = lpc,
           \A c \in Logins \ {a} : mon'[c] = mon[c],
           mon[a].pc # "none", mon'[a].pc # "none",
           mon'[a].stop = "open" <=> mon[a].stop = "open"
    PROVE  [Promise!Next]_(Promise!sessionVars)
<1>1. lpc[a] = "idle"
  BY DEF IInv, LoginFresh, NoMonitor
<1>2. StageOf(a)' = StageOf(a)
  BY DEF StageOf
<1>3. Stage' = Stage
  <2>1. \A c \in Logins : StageOf(c)' = StageOf(c)
    BY <1>2 DEF StageOf
  <2>2. Stage' = [c \in Logins |-> StageOf(c)']
    BY DEF Stage
  <2> QED
    BY <2>1, <2>2 DEF Stage
<1>4. Stage[a] \in {"held", "left"}
  BY StageIs
<1>5. \/ Watched' = Watched
      \/ a \notin Watched /\ Watched' = Watched \cup {a}
      \/ a \in Watched /\ Watched' = Watched \ {a}
  <2>1. Watched' = (Watched \ {a}) \cup (IF mon'[a].live > 0 THEN {a} ELSE {})
    BY OthersStay
  <2> QED
    BY <2>1
<1>6. UNCHANGED <<Stage, Watched>> \/ Promise!Watch(a) \/ Promise!Unwatch(a)
  BY <1>3, <1>4, <1>5 DEF Promise!Watch, Promise!Unwatch
<1> QED
  BY <1>6 DEF Promise!Next, Promise!Step, Promise!sessionVars

\* An attempt moves from one stage to another, without a change of its watchers.
LEMMA StageSeen ==
    ASSUME NEW a \in Logins, NEW from, NEW to,
           \A c \in Logins \ {a} : lpc'[c] = lpc[c] /\ mon'[c] = mon[c],
           mon'[a].live = mon[a].live, Stage[a] = from, Stage'[a] = to
    PROVE  Promise!Moves(a, from, to) /\ Watched' = Watched
<1>1. /\ Stage' = [Stage EXCEPT ![a] = Stage'[a]]
      /\ Watched' = (Watched \ {a}) \cup (IF mon'[a].live > 0 THEN {a} ELSE {})
  BY OthersStay
<1>2. Watched' = Watched
  BY <1>1 DEF Watched
<1> QED
  BY <1>1, <1>2 DEF Promise!Moves

\* A login ends without a session.
LEMMA FailSeen ==
    ASSUME IInv, NoneLeft, IInv', NoneLeft', NEW a \in Logins,
           lpc[a] \notin {"idle", "start"}, Goto(a, "idle"), mon' = mon
    PROVE  Promise!Fail(a)
<1>1. mon[a].pc = "none"
  BY DEF IInv, LoginFresh, NoMonitor
<1>2. /\ lpc'[a] = "idle"
      /\ \A c \in Logins \ {a} : lpc'[c] = lpc[c]
  BY Typed DEF Goto
<1>3. Stage[a] = "login"
  BY StageIs
<1>4. Stage'[a] = "none"
  <2>1. StageOf(a)' = "none"
    BY <1>1, <1>2 DEF StageOf, NoneLeft
  <2> QED
    BY <2>1 DEF Stage
<1> QED
  BY <1>2, <1>3, <1>4, StageSeen DEF Promise!Fail

\* A login begins.
LEMMA BeginSeen ==
    ASSUME IInv, NoneLeft, IInv', NoneLeft', NEW a \in Logins,
           lpc[a] \in {"idle", "start"}, mon[a].pc = "none", Goto(a, "connect"), mon' = mon
    PROVE  Promise!Begin(a)
<1>1. /\ lpc'[a] = "connect"
      /\ \A c \in Logins \ {a} : lpc'[c] = lpc[c]
  BY Typed DEF Goto
<1>2. Stage[a] = "none"
  BY StageIs
<1>3. Stage'[a] = "login"
  <2>1. StageOf(a)' = "login"
    BY <1>1 DEF StageOf, NoneLeft
  <2> QED
    BY <2>1 DEF Stage
<1> QED
  BY <1>1, <1>2, <1>3, StageSeen DEF Promise!Begin

\* One account is held at a time: nobody is when a login publishes its session.
LEMMA PublishSeen ==
    ASSUME IInv, NoneLeft, IInv', NoneLeft', OneAtATime, MonitorReachable,
           NEW a \in Logins, Publish(a)
    PROVE  Promise!Hold(a)
<1> USE DEF Publish, Goto
<1>1. lpc[a] = "publish" /\ bc.session = None /\ \A h \in Handlers : hpc[h] = "idle"
  BY DEF OneAtATime
<1>2. \A b \in Logins : mon[b].stop # "open"
  BY <1>1, BridgeAssumption DEF MonitorReachable
<1>3. \A b \in Logins : Stage[b] # "held"
  BY <1>2, StageIs
<1>4. Stage[a] = "login"
  BY <1>1, StageIs
<1>5. /\ lpc'[a] = "idle" /\ mon'[a].pc = "start" /\ mon'[a].stop = "open"
      /\ mon'[a].live = 0 /\ mon[a].live = 0
      /\ \A c \in Logins \ {a} : lpc'[c] = lpc[c] /\ mon'[c] = mon[c]
  BY <1>1, Typed DEF NewMonitor, NoMonitor, IInv, LoginFresh
<1>6. Stage'[a] = "held"
  <2>1. StageOf(a)' = "held"
    BY <1>5 DEF StageOf
  <2> QED
    BY <2>1 DEF Stage
<1> QED
  BY <1>3, <1>4, <1>5, <1>6, StageSeen DEF Promise!Hold

\* What the monitor does until it returns.
LEMMA MonitorStepSeen ==
    ASSUME IInv, NoneLeft, IInv', NoneLeft', NEW a \in Logins, MonitorStep(a)
    PROVE  [Promise!Next]_(Promise!sessionVars)
<1> USE DEF loginVars
<1>1. mon[a] \in MonitorStates /\ MonitorOK(mon[a]) /\ mon[a].pc # "none"
  BY Typed, MonitorsOK
  DEF MonitorStep, MonitorStart, MonitorExit, MonitorLoop, MonitorOpen, MonitorSync,
      MonitorApply, SeesStop, PollTick, StreamEnded, Receives, MonitorStopStream, MonitorIs
<1>2. lpc' = lpc
  BY DEF MonitorStep, MonitorStart, MonitorExit, MonitorLoop, MonitorOpen, MonitorSync,
         MonitorApply, SeesStop, PollTick, StreamEnded, Receives, MonitorStopStream
<1>3. CASE MonitorExit(a)
  <2>1. /\ Exited(mon[a]).stop = "none" /\ Exited(mon[a]).pc = "none"
        /\ Exited(mon[a]).live = 0
    <3>1. StopWatcher(mon[a]) \in MonitorStates /\ StopWatcher(mon[a]).live = 0
      BY <1>1, WatchersOK DEF MonitorOK
    <3> QED
      BY <3>1 DEF Exited, MonitorStates
  <2>2. /\ mon'[a].stop = "none" /\ mon'[a].pc = "none" /\ mon'[a].live = 0
        /\ \A c \in Logins \ {a} : mon'[c] = mon[c]
    BY <1>3, <2>1, Typed DEF MonitorExit
  <2>3. mon[a].stop # "open" /\ lpc[a] = "idle"
    BY <1>1, <1>3 DEF MonitorExit, IInv, LoginFresh, NoMonitor
  <2>4. Stage[a] = "left"
    BY <1>1, <2>3, StageIs
  <2>5. Stage'[a] = "none"
    <3>1. StageOf(a)' = "none"
      BY <1>2, <2>2, <2>3 DEF StageOf
    <3> QED
      BY <3>1 DEF Stage
  <2>6. Stage' = [Stage EXCEPT ![a] = "none"] /\ Watched' = Watched \ {a}
    BY <1>2, <2>2, <2>5, OthersStay
  <2>7. Promise!End(a)
    BY <2>4, <2>6 DEF Promise!End, Promise!Moves
  <2> QED
    BY <2>7 DEF Promise!Next, Promise!Step
<1>4. ASSUME NEW m, mon' = [mon EXCEPT ![a] = m], m.pc # "none", m.stop = mon[a].stop
      PROVE  [Promise!Next]_(Promise!sessionVars)
  BY <1>1, <1>2, <1>4, Typed, MonitorSeen
<1>5. ASSUME NEW m, m \in MonitorStates, m.stop = mon[a].stop,
             NEW pc \in {"loop", "open", "sync", "apply", "select", "stop"},
             MonitorGoto(a, m, pc)
      PROVE  [Promise!Next]_(Promise!sessionVars)
  <2>1. [m EXCEPT !.pc = pc].pc # "none" /\ [m EXCEPT !.pc = pc].stop = m.stop
    BY <1>5 DEF MonitorStates
  <2> QED
    BY <1>4, <1>5, <2>1 DEF MonitorGoto
<1>6. CASE MonitorStart(a)
  <2>1. StartWatcher(mon[a]) \in MonitorStates /\ StartWatcher(mon[a]).stop = mon[a].stop
    BY <1>1, StartedTyped DEF StartWatcher, MonitorStates
  <2> QED
    BY <1>5, <1>6, <2>1 DEF MonitorStart
<1>7. CASE MonitorOpen(a)
  <2>1. NotOpened(mon[a]).pc = "backoff" /\ NotOpened(mon[a]).stop = mon[a].stop
    BY <1>1 DEF NotOpened, MonitorStates
  <2> QED
    BY <1>1, <1>4, <1>5, <1>7, <2>1 DEF MonitorOpen
<1>8. CASE MonitorSync(a)
  <2>1. \A s \in UserStates : /\ [mon[a] EXCEPT !.snap = s] \in MonitorStates
                             /\ [mon[a] EXCEPT !.snap = s].stop = mon[a].stop
    BY <1>1 DEF MonitorStates
  <2>2. luser[a] \in Users /\ bridge.ustate[luser[a]] \in UserStates
    BY <1>1 DEF IInv, MonitorHasUser, TypeOK, BridgeTypeOK, BridgeStates
  <2> QED
    BY <1>1, <1>5, <1>8, <2>1, <2>2 DEF MonitorSync
<1>9. CASE MonitorApply(a)
  <2>1. Applied(mon[a]) \in MonitorStates /\ Applied(mon[a]).stop = mon[a].stop
    <3>1. StartWatcher(mon[a]).stop = mon[a].stop
      BY <1>1 DEF StartWatcher, MonitorStates
    <3> QED
      BY <1>1, <3>1, StartedTyped, WatchersOK DEF Applied, MonitorOK
  <2>2. /\ [Applied(mon[a]) EXCEPT !.snap = "none"] \in MonitorStates
        /\ [Applied(mon[a]) EXCEPT !.snap = "none"].stop = mon[a].stop
    BY <2>1 DEF MonitorStates, UserStates
  <2> QED
    BY <1>5, <1>9, <2>2 DEF MonitorApply
<1>10. CASE Receives(a)
  <2>1. StopWatcher(mon[a]) \in MonitorStates /\ StopWatcher(mon[a]).stop = mon[a].stop
    BY <1>1, WatchersOK DEF MonitorOK
  <2>2. mon' = mon => [Promise!Next]_(Promise!sessionVars)
    BY <1>2, Unseen DEF Promise!sessionVars
  <2> QED
    BY <1>1, <1>5, <1>10, <2>1, <2>2 DEF Receives
<1>11. CASE \/ MonitorLoop(a) \/ SeesStop(a) \/ PollTick(a) \/ StreamEnded(a)
            \/ MonitorStopStream(a)
  BY <1>1, <1>5, <1>11
  DEF MonitorLoop, SeesStop, PollTick, StreamEnded, MonitorStopStream
<1> QED
  BY <1>3, <1>6, <1>7, <1>8, <1>9, <1>10, <1>11 DEF MonitorStep

\* What a login does until it publishes, ending without a session or going on.
LEMMA LoginStepSeen ==
    ASSUME IInv, NoneLeft, IInv', NoneLeft', OneAtATime, MonitorReachable,
           NEW a \in Logins, LoginStep(a) \/ (a = AutoLogin /\ AutoStep)
    PROVE  [Promise!Next]_(Promise!sessionVars)
<1>1. CASE Publish(a)
  BY <1>1, PublishSeen DEF Promise!Next, Promise!Step
<1>2. ASSUME lpc[a] \notin {"idle", "start"}, Goto(a, "idle"), mon' = mon
      PROVE  [Promise!Next]_(Promise!sessionVars)
  BY <1>2, FailSeen DEF Promise!Next, Promise!Step
<1>3. ASSUME lpc[a] \notin {"idle", "start"}, NEW pc \in LoginPcs \ {"idle", "start"},
             Goto(a, pc), mon' = mon
      PROVE  [Promise!Next]_(Promise!sessionVars)
  BY <1>3, Typed, Unseen DEF Goto, Promise!sessionVars
<1>4. CASE a = AutoLogin /\ AutoStart
  <2>1. mon[a].pc = "none"
    BY <1>4 DEF AutoStart, IInv, LoginFresh, NoMonitor
  <2> QED
    BY <1>4, <2>1, BeginSeen DEF AutoStart, Promise!Next, Promise!Step
<1>5. CASE a = AutoLogin /\ (AutoList \/ AutoEvent \/ AutoTimeout \/ AutoCheck)
  BY <1>3, <1>5
  DEF AutoList, AutoEvent, AutoTimeout, AutoCheck, LoginPcs, NobodyToRestore
<1>6. CASE Connect(a) \/ LoginOpen(a) \/ LoginCall(a) \/ LoginEvent(a) \/ LoginStop(a)
           \/ GiveUp(a) \/ FinishList(a)
  <2>1. lpc[a] \notin {"idle", "start"} /\ mon' = mon
    BY <1>6
    DEF Connect, LoginOpen, LoginCall, LoginEvent, LoginStop, GiveUp, FinishList
  <2>2. \E pc \in LoginPcs \ {"start"} : Goto(a, pc)
    BY <1>6
    DEF Connect, LoginOpen, LoginCall, LoginEvent, LoginStop, GiveUp, FinishList, Abandon,
        LoginPcs
  <2> QED
    BY <1>2, <1>3, <2>1, <2>2
<1> QED
  BY <1>1, <1>4, <1>5, <1>6 DEF LoginStep, AutoStep

\* The requests: a POST or PUT begins a login, and a Logout leaves what was held.
LEMMA HandlerSeen ==
    ASSUME IInv, NoneLeft, IInv', NoneLeft',
           \/ \E a \in Logins : PostCredentials(a)
           \/ \E h \in Handlers : LogoutTake(h) \/ HandlerStep(h)
    PROVE  [Promise!Next]_(Promise!sessionVars)
<1> USE DEF loginVars
<1>1. ASSUME NEW a \in Logins, StartLogin(a), mon' = mon
      PROVE  [Promise!Next]_(Promise!sessionVars)
  BY <1>1, BeginSeen DEF StartLogin, Free, NoMonitor, Promise!Next, Promise!Step
<1>2. ASSUME UNCHANGED <<lpc, mon>>
      PROVE  [Promise!Next]_(Promise!sessionVars)
  BY <1>2, Unseen DEF Promise!sessionVars
<1>3. ASSUME NEW h \in Handlers, LogoutClose(h)
      PROVE  [Promise!Next]_(Promise!sessionVars)
  <2>1. PICK a \in Logins : a = hloc[h].session /\ mon[a].stop = "open"
    BY <1>3 DEF LogoutClose, IInv, LogoutOwns
  <2>2. mon[a].pc # "none" /\ lpc[a] = "idle"
    BY <2>1 DEF NoneLeft, IInv, LoginFresh, NoMonitor
  <2>3. /\ mon'[a].pc = mon[a].pc /\ mon'[a].stop = "closed" /\ mon'[a].live = mon[a].live
        /\ lpc' = lpc /\ \A c \in Logins \ {a} : mon'[c] = mon[c]
    BY <1>3, <2>1, Typed DEF LogoutClose, CloseChan, MonitorStates
  <2>4. Stage[a] = "held"
    BY <2>1, <2>2, StageIs
  <2>5. Stage'[a] = "left"
    <3>1. StageOf(a)' = "left"
      BY <2>2, <2>3 DEF StageOf
    <3> QED
      BY <2>1, <3>1 DEF Stage
  <2>6. Promise!Leave(a)
    BY <2>1, <2>3, <2>4, <2>5, StageSeen DEF Promise!Leave
  <2> QED
    BY <2>1, <2>6 DEF Promise!Next, Promise!Step
<1>4. ASSUME NEW h \in Handlers, LogoutTake(h) \/ LogoutUser(h) \/ LogoutConn(h)
      PROVE  [Promise!Next]_(Promise!sessionVars)
  BY <1>2, <1>4 DEF LogoutTake, LogoutUser, LogoutConn
<1>5. ASSUME NEW h \in Handlers, Relogin(h)
      PROVE  [Promise!Next]_(Promise!sessionVars)
  BY <1>1, <1>2, <1>5 DEF Relogin
<1> QED
  BY <1>1, <1>3, <1>4, <1>5 DEF PostCredentials, HandlerStep

\* Of careful callers, whatever the numbers of users, logins and handlers and
\* whichever calls fail, the client does what Session says.
THEOREM PromiseIsKept ==
    ASSUME Client = "careful"
    PROVE  Spec => KeepsSession
<1>1. Init => NoneLeft /\ OneAtATime /\ MonitorReachable
  BY DEF Init, NoneLeft, OneAtATime, MonitorReachable, NoMonitor
<1>2. Init => Promise!Init
  <2>1. Init => \A a \in Logins : StageOf(a) = "none"
    BY DEF Init, StageOf, NoMonitor
  <2> QED
    BY <2>1 DEF Init, NoMonitor, Promise!Init, Stage, Watched
<1>3. IInv /\ NoneLeft /\ OneAtATime /\ MonitorReachable /\ [Next]_vars
        => NoneLeft' /\ OneAtATime' /\ MonitorReachable'
  BY NoneLeftNext, CarefulNext
<1>4. IInv /\ IInv' /\ NoneLeft /\ NoneLeft' /\ OneAtATime /\ MonitorReachable /\ [Next]_vars
        => [Promise!Next]_(Promise!sessionVars)
  <2> SUFFICES ASSUME IInv, IInv', NoneLeft, NoneLeft', OneAtATime, MonitorReachable,
                      [Next]_vars
               PROVE  [Promise!Next]_(Promise!sessionVars)
    OBVIOUS
  <2>1. CASE UNCHANGED vars \/ BridgeStep
    BY <2>1, Unseen DEF vars, BridgeStep, clientVars, Promise!sessionVars
  <2>2. CASE AutoStep \/ \E a \in Logins : LoginStep(a)
    BY <2>2, LoginStepSeen, ClientAssumption
  <2>3. CASE \E a \in Logins : MonitorStep(a)
    BY <2>3, MonitorStepSeen
  <2>4. CASE \/ \E a \in Logins : PostCredentials(a)
             \/ \E h \in Handlers : LogoutTake(h) \/ HandlerStep(h)
    BY <2>4, HandlerSeen
  <2> QED
    BY <2>1, <2>2, <2>3, <2>4 DEF Next
<1> QED
  BY <1>1, <1>2, <1>3, <1>4, Invariance, PTL DEF Spec, KeepsSession, Promise!Spec

-----------------------------------------------------------------------------
(* The status without requests.                                            *)

\* The monitor finds the status that finishLogin wrote.
StatusAtStart ==
    \A a \in Logins : mon[a].pc = "start" => bc.state = "connected"

\* A verdict of the monitor sets the status and the watcher together.
LEMMA StatusNext ==
    ASSUME Logins = {AutoLogin}, Handlers = {},
           IInv, IInv', StatusMatchesWatcher, StatusAtStart, [Next]_vars
    PROVE  StatusMatchesWatcher' /\ StatusAtStart'
<1> DEFINE a == AutoLogin
<1> USE DEF loginVars, handlerVars, clientVars
<1>1. /\ mon \in [Logins -> MonitorStates] /\ a \in Logins
      /\ mon[a] \in MonitorStates /\ MonitorOK(mon[a]) /\ bc \in ClientStates
  BY Typed, MonitorsOK
<1>2. CASE UNCHANGED <<mon, bc>>
  BY <1>2 DEF StatusMatchesWatcher, StatusAtStart
<1>3. CASE lpc[a] # "idle" /\ mon' = mon
  BY <1>3 DEF StatusMatchesWatcher, StatusAtStart, IInv, LoginFresh, NoMonitor
<1>4. CASE Publish(a)
  BY <1>1, <1>4 DEF Publish, NewMonitor, NoMonitor, StatusMatchesWatcher, StatusAtStart
<1>5. CASE AutoStep \/ (LoginStep(a) /\ ~Publish(a))
  BY <1>3, <1>5
  DEF AutoStep, AutoStart, AutoList, AutoEvent, AutoTimeout, AutoCheck,
      LoginStep, Connect, LoginOpen, LoginCall, LoginEvent, LoginStop, GiveUp, FinishList
<1>6. ASSUME NEW m, mon' = [mon EXCEPT ![a] = m], m.pc # "start",
             m.pc # "none" => (m.imap <=> bc'.state = "connected")
      PROVE  StatusMatchesWatcher' /\ StatusAtStart'
  BY <1>1, <1>6 DEF StatusMatchesWatcher, StatusAtStart
<1>7. ASSUME NEW m, m \in MonitorStates, m.imap <=> bc'.state = "connected",
             NEW pc \in {"loop", "open", "sync", "apply", "select", "stop"},
             MonitorGoto(a, m, pc)
      PROVE  StatusMatchesWatcher' /\ StatusAtStart'
  <2>1. [m EXCEPT !.pc = pc].pc = pc /\ [m EXCEPT !.pc = pc].imap = m.imap
    BY <1>7 DEF MonitorStates
  <2> QED
    BY <1>6, <1>7, <2>1 DEF MonitorGoto
<1>8. CASE MonitorStep(a)
  <2>1. mon[a].pc \notin {"none", "start"} => (mon[a].imap <=> bc.state = "connected")
    BY <1>1 DEF StatusMatchesWatcher
  <2>2. CASE MonitorStart(a)
    <3>1. StartWatcher(mon[a]) \in MonitorStates /\ StartWatcher(mon[a]).imap
      BY <1>1, StartedTyped DEF StartWatcher, MonitorStates
    <3>2. bc'.state = "connected"
      BY <1>1, <2>2 DEF MonitorStart, MonitorIs, StatusAtStart
    <3> QED
      BY <1>7, <2>2, <3>1, <3>2 DEF MonitorStart
  <2>3. CASE MonitorExit(a)
    <3>1. Exited(mon[a]).pc = "none"
      BY <1>1 DEF Exited, StopWatcher, MonitorStates
    <3> QED
      BY <1>6, <2>3, <3>1 DEF MonitorExit
  <2>4. CASE MonitorOpen(a)
    <3>1. NotOpened(mon[a]).pc = "backoff" /\ NotOpened(mon[a]).imap = mon[a].imap
      BY <1>1 DEF NotOpened, MonitorStates
    <3> QED
      BY <1>1, <1>6, <1>7, <2>1, <2>4, <3>1 DEF MonitorOpen, MonitorIs
  <2>5. CASE MonitorSync(a)
    <3>1. \A s \in UserStates : /\ [mon[a] EXCEPT !.snap = s] \in MonitorStates
                               /\ [mon[a] EXCEPT !.snap = s].imap = mon[a].imap
      BY <1>1 DEF MonitorStates
    <3>2. luser[a] \in Users /\ bridge.ustate[luser[a]] \in UserStates
      BY <1>1, <2>5
      DEF MonitorSync, MonitorIs, IInv, MonitorHasUser, TypeOK, BridgeTypeOK, BridgeStates
    <3> QED
      BY <1>1, <1>7, <2>1, <2>5, <3>1, <3>2 DEF MonitorSync, MonitorIs
  <2>6. CASE MonitorApply(a)
    <3>1. mon[a].imap <=> bc.state = "connected"
      BY <2>1, <2>6 DEF MonitorApply, MonitorIs
    <3>2. Applied(mon[a]) \in MonitorStates
      BY <1>1, StartedTyped, WatchersOK DEF Applied, MonitorOK
    <3>3. Applied(mon[a]).imap <=> AppliedState(mon[a]) = "connected"
      <4>1. StartWatcher(mon[a]).imap
        BY <1>1 DEF StartWatcher, MonitorStates
      <4>2. ~StopWatcher(mon[a]).imap
        BY <1>1, WatchersOK
      <4> QED
        BY <3>1, <4>1, <4>2 DEF Applied, AppliedState
    <3>4. /\ [Applied(mon[a]) EXCEPT !.snap = "none"] \in MonitorStates
          /\ [Applied(mon[a]) EXCEPT !.snap = "none"].imap = Applied(mon[a]).imap
      BY <3>2 DEF MonitorStates, UserStates
    <3>5. bc'.state = AppliedState(mon[a])
      BY <1>1, <2>6 DEF MonitorApply, SetState, ClientStates
    <3> QED
      BY <1>7, <2>6, <3>3, <3>4, <3>5 DEF MonitorApply
  <2>7. CASE Receives(a)
    <3>1. StopWatcher(mon[a]) \in MonitorStates /\ ~StopWatcher(mon[a]).imap
      BY <1>1, WatchersOK DEF MonitorOK
    <3>2. \A s : SetState(s) => bc'.state = s
      BY <1>1 DEF SetState, ClientStates
    <3> QED
      BY <1>1, <1>2, <1>7, <2>1, <2>7, <3>1, <3>2 DEF Receives, MonitorIs
  <2>8. CASE \/ MonitorLoop(a) \/ SeesStop(a) \/ PollTick(a) \/ StreamEnded(a)
             \/ MonitorStopStream(a)
    BY <1>1, <1>7, <2>1, <2>8
    DEF MonitorLoop, SeesStop, PollTick, StreamEnded, MonitorStopStream, MonitorIs
  <2> QED
    BY <1>8, <2>2, <2>3, <2>4, <2>5, <2>6, <2>7, <2>8 DEF MonitorStep
<1>9. CASE UNCHANGED vars \/ BridgeStep
  BY <1>2, <1>9 DEF vars, BridgeStep
<1>10. ~PostCredentials(a)
  BY DEF PostCredentials, StartLogin
<1> HIDE DEF a
<1> QED
  BY <1>4, <1>5, <1>8, <1>9, <1>10 DEF Next, a

\* Without requests, connected means watching and nothing else does, for any users
\* and any number of restarts of the bridge, whichever calls fail.
THEOREM StatusIsTrue ==
    ASSUME Logins = {AutoLogin}, Handlers = {}
    PROVE  Spec => []StatusMatchesWatcher
<1>1. Init => StatusMatchesWatcher /\ StatusAtStart
  BY DEF Init, StatusMatchesWatcher, StatusAtStart, NoMonitor
<1>2. IInv /\ IInv' /\ StatusMatchesWatcher /\ StatusAtStart /\ [Next]_vars
        => StatusMatchesWatcher' /\ StatusAtStart'
  BY StatusNext
<1> QED
  BY <1>1, <1>2, Invariance, PTL DEF Spec

=============================================================================
