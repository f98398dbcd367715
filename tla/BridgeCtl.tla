------------------------------ MODULE BridgeCtl ------------------------------
(***************************************************************************)
(* sidecar/bridge_ctl.py, the tool an operator logs in with: it calls the  *)
(* REST API and, once a login is accepted, asks for the status until it    *)
(* says how the login went.  Nobody else uses the API.  How careful the    *)
(* operator is who picks from its menu is said by Client of BridgeClient.  *)
(*                                                                         *)
(* The entries that only print an answer change nothing and have no        *)
(* action, nor has a request that is refused at once (409).                *)
(***************************************************************************)
EXTENDS BridgeClient

VARIABLE
    ctl  \* the tool, a record

ctlVars == <<ctl, vars>>

\* mine is the attempt that was accepted, None when it polls for whatever is there;
\* told is the verdict it printed last.
CtlStates ==
    [pc   : {"menu", "answer", "poll", "print"},
     mine : Logins \cup {None},
     told : {"nothing", "connected", "error"}]

AtMenu == [pc |-> "menu", mine |-> None, told |-> "nothing"]

\* _poll_until_done begins.
Polling(a) == [pc |-> "poll", mine |-> a, told |-> "nothing"]

CtlInit == Init /\ ctl = AtMenu

-----------------------------------------------------------------------------
\* action_login: 202 is the answer.
Login(a) ==
    /\ ctl.pc = "menu"
    /\ PostCredentials(a)
    /\ ctl' = Polling(a)

\* action_relogin and action_logout: the request is sent, and Logout begins.
SendPutOrDelete(h) ==
    /\ ctl.pc = "menu"
    /\ LogoutTake(h)
    /\ ctl' = [AtMenu EXCEPT !.pc = "answer"]

\* A step of the handler, whether or not the tool still waits for its answer.
Serve(h) ==
    /\ HandlerStep(h)
    /\ \/ (hpc'[h] # "idle" \/ ctl.pc # "answer") /\ UNCHANGED ctl
       \/ /\ hpc'[h] = "idle" /\ ctl.pc = "answer"
          /\ \/ lpc' = lpc /\ ctl' = AtMenu
             \/ \E a \in Logins : lpc'[a] # lpc[a] /\ ctl' = Polling(a)

\* action_poll.
Poll ==
    /\ ctl.pc = "menu"
    /\ ctl' = Polling(None)
    /\ UNCHANGED vars

\* GET of the status.
GetCredentialsStatus == bc.state

\* One round of _poll_until_done that has a verdict; the others go on.
Verdicts ==
    /\ ctl.pc = "poll"
    /\ \/ GetCredentialsStatus = "connected" /\ ctl' = [ctl EXCEPT !.pc = "print", !.told = "connected"]
       \/ GetCredentialsStatus = "error" /\ ctl' = [ctl EXCEPT !.pc = "menu", !.told = "error"]
    /\ UNCHANGED vars

\* Back to the menu: the credentials are printed, or POLL_TIMEOUT is over, or the
\* operator interrupts.  A request without an answer for 10 seconds ends the tool
\* with a TimeoutError, since only ConnectionError is caught, and it is run again:
\* a Logout whose LogoutUser hangs takes longer.
Leave ==
    /\ ctl.pc # "menu"
    /\ ctl' = AtMenu
    /\ UNCHANGED vars

-----------------------------------------------------------------------------
SidecarAlone ==
    /\ \/ BridgeStep
       \/ AutoStep
       \/ \E a \in Logins : LoginStep(a) \/ MonitorStep(a)
    /\ UNCHANGED ctl

CtlNext ==
    \/ SidecarAlone
    \/ \E h \in Handlers : SendPutOrDelete(h) \/ Serve(h)
    \/ \E a \in Logins : Login(a)
    \/ Poll \/ Verdicts \/ Leave

CtlSpec == CtlInit /\ [][CtlNext]_ctlVars

-----------------------------------------------------------------------------
\* api.go:17: polling the status gives the result of the login.  What the tool
\* tells of a login that was accepted is told when that login has ended.
ReportsOwnLogin ==
    [][ctl.mine # None /\ ctl'.told # ctl.told => lpc[ctl.mine] = "idle"]_ctlVars
=============================================================================
