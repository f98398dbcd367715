----------------------------- MODULE GrpcBridge -----------------------------
(***************************************************************************)
(* The Proton Bridge as the sidecar sees it: the process at the other end  *)
(* of the gRPC socket.  Its code is not in this repository.  What it does  *)
(* here is what sidecar/bridge.go says of it and relies on:                *)
(*                                                                         *)
(*  - every user of its vault is LOCKED, CONNECTED or SIGNED_OUT, and it   *)
(*    moves between the three by itself (bridge.go:541-549);               *)
(*  - it forwards events to one event stream, the one RunEventStream       *)
(*    handler that its eventStreamDoneCh belongs to (bridge.go:347-356); a *)
(*    stream opened while another is served ends at its first Recv;        *)
(*  - a served stream ends safely through StopEventStream only: when its   *)
(*    context or connection goes away instead, the handler calls s.quit(), *)
(*    which kills the gRPC server (bridge.go:350-352);                     *)
(*  - a connection carries the token and the certificate of the server it  *)
(*    was dialled to (bridge.go:107-134), so it is of no use after a       *)
(*    restart.                                                             *)
(*                                                                         *)
(* The operators below are functions of the bridge's state, so that a step *)
(* of the sidecar composes the calls it makes; the actions are what the    *)
(* bridge does by itself.                                                  *)
(***************************************************************************)
EXTENDS Naturals

CONSTANTS
    Users,        \* Proton accounts
    Logins,       \* login attempts; each dials one connection
    None,         \* no stream, no session, no user
    FailingRpcs,  \* the calls that may fail although the connection is up
    MaxRestarts   \* bound: crashes of the bridge

Rpcs == {"connect", "open", "login", "stop", "list", "get", "logout"}

ASSUME BridgeAssumption ==
    /\ None \notin Users
    /\ None \notin Logins
    /\ FailingRpcs \subseteq Rpcs
    /\ MaxRestarts \in Nat

VARIABLES
    bridge,       \* the bridge and the connections to it, a record
    restarts      \* crashes so far

bridgeVars == <<bridge, restarts>>

UserStates == {"none", "LOCKED", "CONNECTED", "SIGNED_OUT"}

\* A connection is "dead" when the server it was dialled to is gone, and "none"
\* before Dial and after Close.
ConnStates == {"none", "open", "dead"}

Changed(u) == <<"changed", u>>        \* UserChangedEvent
Disconnected(u) == <<"disc", u>>      \* UserDisconnectedEvent
Loaded == <<"loaded", None>>          \* AllUsersLoadedEvent
Events == ({"changed", "disc"} \X Users) \cup {Loaded}

\* queue holds the events the served stream has not delivered yet, as a set:
\* equal events are merged and any of them may be delivered next.
BridgeStates ==
    [ustate : [Users -> UserStates],
     conn   : [Logins -> ConnStates],
     stream : Logins \cup {None},
     queue  : SUBSET Events]

BridgeTypeOK == bridge \in BridgeStates /\ restarts \in 0..MaxRestarts

-----------------------------------------------------------------------------
(* The calls of the sidecar.                                               *)

Vault(b) == {u \in Users : b.ustate[u] # "none"}

CanSucceed(b, a) == b.conn[a] = "open"
CanFail(b, a, rpc) == b.conn[a] # "open" \/ rpc \in FailingRpcs

Dial(b, a) == [b EXCEPT !.conn[a] = "open"]

RunEventStream(b, a) ==
    IF b.stream = None THEN [b EXCEPT !.stream = a, !.queue = {}] ELSE b

EndStream(b) == [b EXCEPT !.stream = None, !.queue = {}]

\* A new server process: the open connections are dead, the event stream is
\* over, and the users start again from LOCKED (bridge.go:140).
Restarted(b) ==
    [EndStream(b) EXCEPT
        !.conn = [c \in Logins |->
                    IF b.conn[c] = "open" THEN "dead" ELSE b.conn[c]],
        !.ustate = [u \in Users |->
                      IF b.ustate[u] = "CONNECTED" THEN "LOCKED" ELSE b.ustate[u]]]

\* The context of a's stream is cancelled: if it was being served, s.quit() and,
\* with the server gone, all that a restart brings.
CancelStream(b, a) ==
    IF b.stream = a THEN Restarted(b) ELSE b

\* conn.Close() cancels what the connection still carries.
Close(b, a) == [CancelStream(b, a) EXCEPT !.conn[a] = "none"]

Emit(b, e) == IF b.stream = None THEN b ELSE [b EXCEPT !.queue = @ \cup {e}]

\* A login that succeeds, or finds u already logged in.
LoggedIn(b, u) ==
    IF b.ustate[u] \in {"none", "SIGNED_OUT"}
    THEN Emit([b EXCEPT !.ustate[u] = "CONNECTED"], Changed(u))
    ELSE b

LoggedOut(b, u) == Emit([b EXCEPT !.ustate[u] = "SIGNED_OUT"], Changed(u))

-----------------------------------------------------------------------------
(* What the bridge does by itself.                                         *)

BridgeInit ==
    /\ bridge \in [ustate : [Users -> UserStates],
                   conn   : [Logins -> {"none"}],
                   stream : {None},
                   queue  : {{}}]
    /\ restarts = 0

UserMoves(u, from, to, e) ==
    /\ bridge.ustate[u] \in from
    /\ bridge' = Emit([bridge EXCEPT !.ustate[u] = to], e)
    /\ UNCHANGED restarts

TokenExpires(u) == UserMoves(u, {"CONNECTED"}, "LOCKED", Changed(u))

\* At startup AllUsersLoaded may be all that announces it (bridge.go:142).
TokenRefreshed(u) ==
    \E e \in {Changed(u), Loaded} : UserMoves(u, {"LOCKED"}, "CONNECTED", e)

Deauth(u) == UserMoves(u, {"LOCKED", "CONNECTED"}, "SIGNED_OUT", Disconnected(u))

\* The stream ends on the bridge's side: the sidecar's Recv returns an error.
StreamBreaks ==
    /\ bridge.stream # None
    /\ bridge' = EndStream(bridge)
    /\ UNCHANGED restarts

BridgeRestart ==
    /\ restarts < MaxRestarts
    /\ bridge' = Restarted(bridge)
    /\ restarts' = restarts + 1
=============================================================================
