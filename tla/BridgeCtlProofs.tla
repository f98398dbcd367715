-------------------------- MODULE BridgeCtlProofs --------------------------
(***************************************************************************)
(* When bridge-ctl can be believed.  The run ctl shows that a monitor that *)
(* a Logout told to stop may write over the status of the next login.  For *)
(* a careful operator that is all that can go wrong: if every login begins *)
(* when the monitors are gone, what the tool tells of it is its result.    *)
(***************************************************************************)
EXTENDS BridgeCtl, BridgeClientProofs

MonitorsGone == \A a \in Logins : mon[a].pc = "none"

\* No login begins beside a monitor.
BeginsClean == \A a \in Logins : lpc[a] = "idle" /\ lpc'[a] # "idle" => MonitorsGone

-----------------------------------------------------------------------------
(* The invariant.                                                          *)

\* The status of a login that runs is its own: nobody else writes it.
LoginAlone ==
    \A a \in Logins :
        /\ lpc[a] # "idle" => MonitorsGone
        /\ lpc[a] \notin {"idle", "start"} => bc.state = "pending"
        /\ lpc[a] = "start" => a = AutoLogin

\* While the tool cares for a login, no request of its is under way, and it has told
\* nothing before the login has ended.
ToolWaits ==
    /\ ctl \in CtlStates
    /\ ctl.mine # None =>
         /\ ctl.mine # AutoLogin
         /\ \A h \in Handlers : hpc[h] = "idle"
         /\ ctl.told # "nothing" => lpc[ctl.mine] = "idle"
    /\ ctl.pc = "poll" => ctl.told = "nothing"

ToolInv == IInv /\ OneAtATime /\ MonitorReachable /\ LoginAlone /\ ToolWaits

\* Every step of the tool is one of the client, or leaves it alone.
LEMMA ToolStep == [CtlNext]_ctlVars => [Next]_vars
BY DEF CtlNext, ctlVars, SidecarAlone, SendPutOrDelete, Serve, Login, Poll, Verdicts, Leave, Next

-----------------------------------------------------------------------------
(* Its preservation.                                                       *)

\* What the steps of the sidecar by itself do to a login: none begins.
LEMMA NoneBegins ==
    ASSUME IInv, NEW a \in Logins, AutoStep \/ LoginStep(a)
    PROVE  \E b \in Logins :
             /\ lpc[b] # "idle" /\ \E pc \in LoginPcs \ {"start"} : Goto(b, pc)
             /\ hpc' = hpc
             /\ ~Publish(b) => mon' = mon
             /\ lpc'[b] # "idle" => bc' = bc \/ bc'.state = "pending"
<1>1. lpc \in [Logins -> LoginPcs] /\ bc \in ClientStates
  BY DEF IInv, TypeOK
<1>2. CASE AutoStep
  <2>1. AutoLogin \in Logins /\ lpc[AutoLogin] # "idle" /\ UNCHANGED <<mon, handlerVars>>
    BY <1>2, ClientAssumption
    DEF AutoStep, AutoStart, AutoList, AutoEvent, AutoTimeout, AutoCheck
  <2>2. \E pc \in LoginPcs \ {"start"} : Goto(AutoLogin, pc)
    BY <1>2
    DEF AutoStep, AutoStart, AutoList, AutoEvent, AutoTimeout, AutoCheck, LoginPcs,
        NobodyToRestore
  <2>3. bc' = bc \/ bc'.state = "pending"
    BY <1>1, <1>2
    DEF AutoStep, AutoStart, AutoList, AutoEvent, AutoTimeout, AutoCheck, SetState,
        ClientStates
  <2> QED
    BY <2>1, <2>2, <2>3 DEF handlerVars
<1>3. CASE LoginStep(a)
  <2>1. lpc[a] # "idle" /\ hpc' = hpc /\ (~Publish(a) => mon' = mon)
    BY <1>3
    DEF LoginStep, Connect, LoginOpen, LoginCall, LoginEvent, LoginStop, GiveUp, FinishList,
        Publish, handlerVars
  <2>2. \E pc \in LoginPcs \ {"start"} : Goto(a, pc) /\ (pc # "idle" => bc' = bc)
    BY <1>3
    DEF LoginStep, Connect, LoginOpen, LoginCall, LoginEvent, LoginStop, GiveUp, FinishList,
        Publish, Abandon, LoginPcs
  <2>3. lpc'[a] # "idle" => bc' = bc
    BY <1>1, <2>2 DEF Goto
  <2> QED
    BY <2>1, <2>2, <2>3
<1> QED
  BY <1>2, <1>3

\* A login only begins by StartLogin.
LEMMA Begins ==
    ASSUME IInv, NEW a \in Logins, StartLogin(a)
    PROVE  /\ a # AutoLogin /\ lpc[a] = "idle" /\ lpc'[a] = "connect"
           /\ bc'.state = "pending"
           /\ \A b \in Logins \ {a} : lpc'[b] = lpc[b]
BY DEF IInv, TypeOK, StartLogin, Free, Goto, SetState, ClientStates

\* A login that runs keeps the status to itself, until it ends.
LEMMA AloneNext ==
    ASSUME Client = "careful", IInv, OneAtATime, LoginAlone, [Next]_vars, BeginsClean
    PROVE  LoginAlone'
<1> USE DEF loginVars, handlerVars, clientVars
<1>1. lpc \in [Logins -> LoginPcs]
  BY DEF IInv, TypeOK
<1>2. CASE UNCHANGED vars \/ BridgeStep
  BY <1>2 DEF vars, BridgeStep, LoginAlone, MonitorsGone
<1>3. ASSUME NEW a \in Logins, AutoStep \/ LoginStep(a)
      PROVE  LoginAlone'
  <2>1. PICK b \in Logins :
             /\ lpc[b] # "idle" /\ \E pc \in LoginPcs \ {"start"} : Goto(b, pc)
             /\ ~Publish(b) => mon' = mon
             /\ lpc'[b] # "idle" => bc' = bc \/ bc'.state = "pending"
    BY <1>3, NoneBegins
  <2>2. /\ \A c \in Logins \ {b} : lpc[c] = "idle" /\ lpc'[c] = "idle"
        /\ lpc'[b] # "start"
    BY <1>1, <2>1 DEF OneAtATime, Goto
  <2>3. CASE lpc'[b] = "idle"
    BY <2>2, <2>3 DEF LoginAlone
  <2>4. CASE lpc'[b] # "idle"
    <3>1. mon' = mon /\ MonitorsGone
      BY <1>1, <2>1, <2>4 DEF Publish, Goto, LoginAlone
    <3>2. bc'.state = "pending"
      <4>1. CASE lpc[b] = "start"
        <5>1. b = AutoLogin
          BY <4>1 DEF LoginAlone
        <5>2. AutoStart
          BY <1>1, <1>3, <2>1, <2>2, <4>1, <5>1, ClientAssumption
          DEF AutoStep, AutoList, AutoEvent, AutoTimeout, AutoCheck, LoginStep, Connect,
              LoginOpen, LoginCall, LoginEvent, LoginStop, GiveUp, FinishList, Publish
        <5> QED
          BY <5>2 DEF AutoStart, SetState, IInv, TypeOK, ClientStates
      <4>2. CASE lpc[b] # "start"
        BY <2>1, <2>4, <4>2 DEF LoginAlone
      <4> QED
        BY <4>1, <4>2
    <3>3. MonitorsGone'
      BY <3>1 DEF MonitorsGone
    <3> QED
      BY <2>2, <3>2, <3>3 DEF LoginAlone
  <2> QED
    BY <2>3, <2>4
<1>4. ASSUME NEW a \in Logins, MonitorStep(a)
      PROVE  LoginAlone'
  <2>1. lpc' = lpc /\ mon[a].pc # "none"
    BY <1>4
    DEF MonitorStep, MonitorStart, MonitorExit, MonitorLoop, MonitorOpen, MonitorSync,
        MonitorApply, SeesStop, PollTick, StreamEnded, Receives, MonitorStopStream, MonitorIs
  <2>2. \A b \in Logins : lpc[b] = "idle"
    BY <2>1 DEF LoginAlone, MonitorsGone
  <2> QED
    BY <2>1, <2>2 DEF LoginAlone
<1>5. ASSUME NEW a \in Logins, StartLogin(a), mon' = mon,
             \A b \in Logins : lpc[b] = "idle"
      PROVE  LoginAlone'
  <2>1. MonitorsGone'
    BY <1>5, Begins DEF BeginsClean, MonitorsGone
  <2> QED
    BY <1>5, <2>1, Begins DEF LoginAlone
<1>6. ASSUME NEW a \in Logins, PostCredentials(a)
      PROVE  LoginAlone'
  BY <1>5, <1>6 DEF PostCredentials, MayPost, NoLogin
<1>7. ASSUME \A b \in Logins : lpc[b] = "idle", lpc' = lpc
      PROVE  LoginAlone'
  BY <1>7 DEF LoginAlone
<1>8. ASSUME NEW h \in Handlers, LogoutTake(h)
      PROVE  LoginAlone'
  BY <1>7, <1>8 DEF LogoutTake, MayLogout, NoLogin
<1>9. ASSUME NEW h \in Handlers, HandlerStep(h)
      PROVE  LoginAlone'
  <2>1. \A b \in Logins : lpc[b] = "idle"
    BY <1>9 DEF HandlerStep, LogoutClose, LogoutUser, LogoutConn, Relogin, OneAtATime
  <2>2. CASE LogoutClose(h) \/ LogoutUser(h) \/ LogoutConn(h)
    BY <1>7, <2>1, <2>2 DEF LogoutClose, LogoutUser, LogoutConn
  <2>3. CASE Relogin(h)
    BY <1>5, <1>7, <2>1, <2>3 DEF Relogin
  <2> QED
    BY <1>9, <2>2, <2>3 DEF HandlerStep
<1> QED
  BY <1>2, <1>3, <1>4, <1>6, <1>8, <1>9, ClientAssumption DEF Next

\* The tool has told nothing of a login that still runs.
LEMMA WaitsNext ==
    ASSUME Client = "careful", ToolInv, [CtlNext]_ctlVars
    PROVE  ToolWaits'
<1> USE DEF ToolInv
<1>1. /\ lpc \in [Logins -> LoginPcs] /\ hpc \in [Handlers -> HandlerPcs]
      /\ ctl \in CtlStates
  BY DEF IInv, TypeOK, ToolWaits
<1>2. \A a \in Logins \cup {None} : Polling(a) \in CtlStates
  BY DEF Polling, CtlStates
<1>3. AtMenu \in CtlStates /\ AtMenu.mine = None /\ AtMenu.pc = "menu"
  BY DEF AtMenu, CtlStates
<1>4. ASSUME ctl' = AtMenu PROVE ToolWaits'
  BY <1>3, <1>4 DEF ToolWaits
<1>5. CASE UNCHANGED ctlVars
  BY <1>5 DEF ctlVars, vars, ToolWaits
<1>6. CASE SidecarAlone
  <2>1. ctl' = ctl /\ hpc' = hpc /\ \A a \in Logins : lpc[a] = "idle" => lpc'[a] = "idle"
    <3>1. CASE BridgeStep
      BY <1>6, <3>1 DEF SidecarAlone, BridgeStep, clientVars
    <3>2. ASSUME NEW a \in Logins, AutoStep \/ LoginStep(a)
          PROVE  hpc' = hpc /\ \A c \in Logins : lpc[c] = "idle" => lpc'[c] = "idle"
      BY <1>1, <3>2, NoneBegins DEF Goto
    <3>3. ASSUME NEW a \in Logins, MonitorStep(a)
          PROVE  hpc' = hpc /\ lpc' = lpc
      BY <3>3
      DEF MonitorStep, MonitorStart, MonitorExit, MonitorLoop, MonitorOpen, MonitorSync,
          MonitorApply, SeesStop, PollTick, StreamEnded, Receives, MonitorStopStream,
          loginVars, handlerVars
    <3> QED
      BY <1>6, <3>1, <3>2, <3>3, ClientAssumption DEF SidecarAlone
  <2>2. ctl.mine \in Logins \cup {None}
    BY <1>1 DEF CtlStates
  <2> QED
    BY <2>1, <2>2 DEF ToolWaits
<1>7. ASSUME NEW h \in Handlers, SendPutOrDelete(h)
      PROVE  ToolWaits'
  <2>1. ctl' = [AtMenu EXCEPT !.pc = "answer"]
    BY <1>7 DEF SendPutOrDelete
  <2>2. ctl' \in CtlStates /\ ctl'.mine = None /\ ctl'.pc = "answer"
    BY <2>1 DEF AtMenu, CtlStates
  <2> QED
    BY <2>2 DEF ToolWaits
<1>8. ASSUME NEW h \in Handlers, Serve(h)
      PROVE  ToolWaits'
  <2>1. hpc[h] # "idle" /\ ctl.mine = None
    BY <1>8
    DEF Serve, HandlerStep, LogoutClose, LogoutUser, LogoutConn, Relogin, ToolWaits
  <2>2. CASE ctl' = ctl
    BY <2>1, <2>2 DEF ToolWaits
  <2>3. ASSUME NEW a \in Logins, hpc'[h] = "idle", lpc'[a] # lpc[a], ctl' = Polling(a)
        PROVE  ToolWaits'
    <3>1. a # AutoLogin
      <4>1. PICK b \in Logins : StartLogin(b)
        BY <1>8, <2>3 DEF Serve, HandlerStep, LogoutClose, LogoutUser, LogoutConn, Relogin,
                          loginVars
      <4> QED
        BY <2>3, <4>1, Begins
    <3>2. \A g \in Handlers : hpc'[g] = "idle"
      <4>1. \E pc : hpc' = [hpc EXCEPT ![h] = pc]
        BY <1>8 DEF Serve, HandlerStep, LogoutClose, LogoutUser, LogoutConn, Relogin
      <4> QED
        BY <1>1, <2>1, <2>3, <4>1 DEF OneAtATime
    <3>3. ctl'.mine = a /\ ctl'.told = "nothing" /\ ctl' \in CtlStates
      BY <1>2, <2>3 DEF Polling
    <3> QED
      BY <3>1, <3>2, <3>3 DEF ToolWaits
  <2> QED
    BY <1>4, <1>8, <2>2, <2>3 DEF Serve
<1>9. ASSUME NEW a \in Logins, Login(a)
      PROVE  ToolWaits'
  <2>1. a # AutoLogin
    BY <1>9, Begins DEF Login, PostCredentials
  <2>2. \A h \in Handlers : hpc'[h] = "idle"
    BY <1>9 DEF Login, PostCredentials, MayPost, HandlersIdle, handlerVars
  <2>3. ctl'.mine = a /\ ctl'.told = "nothing" /\ ctl' \in CtlStates
    BY <1>2, <1>9 DEF Login, Polling
  <2> QED
    BY <2>1, <2>2, <2>3 DEF ToolWaits
<1>10. CASE Poll
  <2>1. ctl'.mine = None /\ ctl'.told = "nothing" /\ ctl' \in CtlStates
    BY <1>2, <1>10 DEF Poll, Polling
  <2> QED
    BY <2>1 DEF ToolWaits
<1>11. CASE Verdicts
  <2>1. bc.state # "pending" /\ lpc' = lpc /\ hpc' = hpc
    BY <1>11 DEF Verdicts, GetCredentialsStatus, vars
  <2>2. ctl' \in CtlStates /\ ctl'.mine = ctl.mine /\ ctl'.pc # "poll"
    BY <1>1, <1>11 DEF Verdicts, CtlStates
  <2>3. ctl.mine # None => lpc[ctl.mine] = "idle"
    <3>1. ctl.mine # None => ctl.mine \in Logins \ {AutoLogin}
      BY <1>1 DEF CtlStates, ToolWaits
    <3> QED
      BY <2>1, <3>1 DEF LoginAlone
  <2> QED
    BY <2>1, <2>2, <2>3 DEF ToolWaits
<1>12. CASE Leave
  BY <1>4, <1>12 DEF Leave
<1> QED
  BY <1>5, <1>6, <1>7, <1>8, <1>9, <1>10, <1>11, <1>12 DEF CtlNext

-----------------------------------------------------------------------------
\* Of a careful operator whose logins begin when the monitors are gone: a verdict on a
\* login is told when that login has ended, whichever calls fail, whatever the tool
\* gives up waiting for, and over any number of logins and logouts.
THEOREM BelievedIfClean ==
    ASSUME Client = "careful"
    PROVE  CtlSpec /\ [][BeginsClean]_ctlVars => ReportsOwnLogin
<1> DEFINE Own == ctl.mine # None /\ ctl'.told # ctl.told => lpc[ctl.mine] = "idle"
<1>1. CtlInit => ToolInv
  <2> SUFFICES ASSUME CtlInit
               PROVE  ToolInv
    OBVIOUS
  <2>1. Init /\ ctl = AtMenu
    BY DEF CtlInit
  <2>2. OneAtATime /\ MonitorReachable /\ LoginAlone
    BY <2>1, ClientAssumption
    DEF Init, OneAtATime, MonitorReachable, LoginAlone, MonitorsGone, NoMonitor
  <2>3. ToolWaits
    BY <2>1 DEF ToolWaits, AtMenu, CtlStates
  <2> QED
    BY <2>1, <2>2, <2>3, InitInv DEF ToolInv
<1>2. ToolInv /\ [CtlNext]_ctlVars /\ [BeginsClean]_ctlVars => ToolInv'
  <2> SUFFICES ASSUME ToolInv, [CtlNext]_ctlVars, [BeginsClean]_ctlVars
               PROVE  ToolInv'
    OBVIOUS
  <2>1. BeginsClean
    BY DEF BeginsClean, ctlVars, vars
  <2>2. [Next]_vars
    BY ToolStep
  <2> QED
    BY <2>1, <2>2, NextInv, CarefulNext, AloneNext, WaitsNext DEF ToolInv
<1>3. ToolInv /\ [CtlNext]_ctlVars => [Own]_ctlVars
  <2> SUFFICES ASSUME ToolInv, CtlNext, ctl.mine # None, ctl'.told # ctl.told
               PROVE  lpc[ctl.mine] = "idle"
    OBVIOUS
  <2>1. CASE ctl.told # "nothing"
    BY <2>1 DEF ToolInv, ToolWaits
  <2>2. CASE ctl.told = "nothing"
    <3>1. Verdicts
      <4>1. AtMenu.told = "nothing" /\ [AtMenu EXCEPT !.pc = "answer"].told = "nothing"
        BY DEF AtMenu
      <4>2. \A a : Polling(a).told = "nothing"
        BY DEF Polling
      <4> QED
        BY <2>2, <4>1, <4>2
        DEF CtlNext, SidecarAlone, SendPutOrDelete, Serve, Login, Poll, Leave
    <3>2. bc.state # "pending"
      BY <3>1 DEF Verdicts, GetCredentialsStatus
    <3>3. ctl.mine \in Logins \ {AutoLogin}
      BY DEF ToolInv, ToolWaits, CtlStates
    <3> QED
      BY <3>2, <3>3 DEF ToolInv, LoginAlone
  <2> QED
    BY <2>1, <2>2
<1> HIDE DEF Own
<1>4. CtlSpec /\ [][BeginsClean]_ctlVars => [][Own]_ctlVars
  BY <1>1, <1>2, <1>3, PTL DEF CtlSpec
<1> QED
  BY <1>4 DEF Own, ReportsOwnLogin
=============================================================================
