----------------------------- MODULE PodStartup -----------------------------
(***************************************************************************)
(* The start of a pod: its init container makes the keychain               *)
(* (build/init.sh), then the bridge and the sidecar start side by side,    *)
(* and connectAndReady of sidecar/bridge.go waits for the bridge.          *)
(*                                                                         *)
(* A pod may be killed at any time.  The volume at /root outlives it: the  *)
(* keys of gpg, the store of pass, the sentinel, and the file in which the *)
(* bridge writes its token and socket.  The sockets do not.                *)
(***************************************************************************)
EXTENDS Naturals

CONSTANTS
    grpcConnectRetries,  \* rounds of connectAndReady
    Undialable,          \* the bridge processes of whose socket path grpc.Dial makes no
                         \* target
    MaxKills,            \* bounds the pods that are killed
    MaxDeaths,           \* bounds the deaths of the bridge in a pod that goes on
    MaxRefusals          \* bounds the calls of GuiReady that fail on a bridge that is up

ASSUME PodAssumption ==
    /\ grpcConnectRetries \in Nat \ {0}
    /\ Undialable \subseteq Nat
    /\ MaxKills \in Nat
    /\ MaxDeaths \in Nat
    /\ MaxRefusals \in Nat

VARIABLES
    keys,      \* how many keys gpg has made; their numbers are their order
    store,     \* the key pass encrypts with, 0 before pass init
    smoke,     \* the key of the entry smoke-test, 0 without one
    sentinel,  \* whether SENTINEL exists
    script,    \* where init.sh is; "done" when it has ended well
    keyID,     \* its KEY_ID
    server,    \* the number of the bridge's latest process
    bridge,    \* what that process has done so far
    file,      \* the process that wrote grpcConfigPath, 0 without the file
    torn,      \* whether that file is only half written
    client,    \* where connectAndReady is
    cfg,       \* the process whose file it read
    round,     \* its i
    conns,     \* its connections that are not closed
    before,    \* history: the last process of the pods before
    kills, deaths, refusals

keychainVars == <<keys, store, smoke, sentinel, script, keyID>>
bridgeVars == <<server, bridge, file, torn>>
clientVars == <<client, cfg, round, conns>>
faultVars == <<before, kills, deaths, refusals>>
vars == <<keychainVars, bridgeVars, clientVars, faultVars>>

Scripts == {"check", "generate", "list", "init", "insert", "read", "remove", "touch", "done"}

\* Every variable has values of its type; keys and processes are as many as there
\* were starts.
TypeOK ==
    /\ keys \in 0..(MaxKills + 1)
    /\ {store, smoke, keyID} \subseteq 0..keys
    /\ sentinel \in BOOLEAN
    /\ script \in Scripts
    /\ server \in 0..(MaxKills + MaxDeaths + 1)
    /\ bridge \in {"off", "booting", "writing", "written", "up"}
    /\ torn \in BOOLEAN
    /\ {file, cfg, before} \subseteq 0..server
    /\ client \in {"off", "read", "dial", "ready", "connected", "gaveup"}
    /\ round \in 0..grpcConnectRetries
    /\ conns \in Nat
    /\ kills \in 0..MaxKills
    /\ deaths \in 0..MaxDeaths
    /\ refusals \in 0..MaxRefusals

Init ==
    /\ keys = 0 /\ store = 0 /\ smoke = 0 /\ sentinel = FALSE
    /\ script = "check" /\ keyID = 0
    /\ server = 0 /\ bridge = "off" /\ file = 0 /\ torn = FALSE
    /\ client = "off" /\ cfg = 0 /\ round = 0 /\ conns = 0
    /\ before = 0 /\ kills = 0 /\ deaths = 0 /\ refusals = 0

-----------------------------------------------------------------------------
(* init.sh, a command a step.  With set -e a command that fails ends the   *)
(* script, and Kubernetes runs it again: as if it had been killed there.   *)
(* gpg, killed before its end, has made no key that it lists.               *)

Command(from, to) ==
    /\ script = from
    /\ script' = to
    /\ UNCHANGED <<bridgeVars, clientVars, faultVars>>

CheckSentinel ==
    /\ Command("check", IF sentinel THEN "done" ELSE "generate")
    /\ UNCHANGED <<keys, store, smoke, sentinel, keyID>>

\* gpg adds a key to those of runs that did not get to the end.
GenKey ==
    /\ Command("generate", "list")
    /\ keys' = keys + 1
    /\ UNCHANGED <<store, smoke, sentinel, keyID>>

\* Mutant: the newest key (tail -1).
LastListed == keys

\* head -1
FirstListed == 1

ListKeys ==
    /\ Command("list", "init")
    /\ keyID' = FirstListed
    /\ UNCHANGED <<keys, store, smoke, sentinel>>

\* pass init encrypts anew what the store holds.
PassInit ==
    /\ Command("init", "insert")
    /\ store' = keyID
    /\ smoke' = IF smoke = 0 THEN 0 ELSE keyID
    /\ UNCHANGED <<keys, sentinel, keyID>>

\* An entry left by an earlier run is overwritten: without a terminal, pass does
\* not ask.
PassInsert ==
    /\ Command("insert", "read")
    /\ smoke' = store
    /\ UNCHANGED <<keys, store, sentinel, keyID>>

PassShow ==
    /\ smoke \in 1..keys
    /\ Command("read", "remove")
    /\ UNCHANGED <<keys, store, smoke, sentinel, keyID>>

\* Mutant: the sentinel is touched before the entry is removed.
TouchFirst ==
    /\ Command("remove", "touch")
    /\ sentinel' = TRUE
    /\ UNCHANGED <<keys, store, smoke, keyID>>

PassRm ==
    /\ Command("remove", "touch")
    /\ smoke' = 0
    /\ UNCHANGED <<keys, store, sentinel, keyID>>

Touch ==
    /\ Command("touch", "done")
    /\ sentinel' = TRUE
    /\ UNCHANGED <<keys, store, smoke, keyID>>

InitStep ==
    \/ CheckSentinel \/ GenKey \/ ListKeys \/ PassInit \/ PassInsert
    \/ PassShow \/ PassRm \/ Touch

-----------------------------------------------------------------------------
(* The bridge, started by entrypoint.sh once the init container is done,   *)
(* and again whenever it dies.  It writes its file slightly before its     *)
(* socket can be connected to, and nothing here relies on the file being   *)
(* written in one step: it may be read before it parses.                   *)

Boots ==
    /\ script = "done"
    /\ bridge = "off"
    /\ bridge' = "booting"
    /\ server' = server + 1
    /\ UNCHANGED <<file, torn, keychainVars, clientVars, faultVars>>

CreatesConfig ==
    /\ bridge = "booting"
    /\ bridge' = "writing"
    /\ file' = server
    /\ torn' = TRUE
    /\ UNCHANGED <<server, keychainVars, clientVars, faultVars>>

WritesConfig ==
    /\ bridge = "writing"
    /\ bridge' = "written"
    /\ torn' = FALSE
    /\ UNCHANGED <<server, file, keychainVars, clientVars, faultVars>>

Listens ==
    /\ bridge = "written"
    /\ bridge' = "up"
    /\ UNCHANGED <<server, file, torn, keychainVars, clientVars, faultVars>>

Dies ==
    /\ bridge # "off"
    /\ deaths < MaxDeaths
    /\ deaths' = deaths + 1
    /\ bridge' = "off"
    /\ UNCHANGED <<server, file, torn, keychainVars, clientVars, before, kills, refusals>>

BridgeStep == Boots \/ CreatesConfig \/ WritesConfig \/ Listens

-----------------------------------------------------------------------------
(* connectAndReady, called by TryAutoLogin and by every login.             *)

RestOfPod == UNCHANGED <<keychainVars, bridgeVars, before, kills, deaths>>
Others == RestOfPod /\ UNCHANGED refusals

Call ==
    /\ script = "done"
    /\ client \in {"off", "gaveup"}
    /\ client' = "read"
    /\ round' = 1
    /\ UNCHANGED <<cfg, conns>>
    /\ Others

\* Mutant: one round too many.
NextRoundLate ==
    IF round <= grpcConnectRetries
    THEN client' = "read" /\ round' = round + 1
    ELSE client' = "gaveup" /\ round' = 0

NextRound ==
    IF round < grpcConnectRetries
    THEN client' = "read" /\ round' = round + 1
    ELSE client' = "gaveup" /\ round' = 0

\* There is a file.  One that does not parse ends the call at once.
Parsed ==
    \/ ~torn /\ cfg' = file /\ client' = "dial" /\ UNCHANGED round
    \/ torn /\ client' = "gaveup" /\ round' = 0 /\ UNCHANGED cfg

\* Mutant: the file is read again only if it was not there.
ReadConfigOnce ==
    /\ client = "read"
    /\ \/ cfg # 0 /\ client' = "dial" /\ UNCHANGED <<cfg, round>>
       \/ cfg = 0 /\ file = 0 /\ NextRound /\ UNCHANGED cfg
       \/ cfg = 0 /\ file # 0 /\ Parsed
    /\ UNCHANGED conns
    /\ Others

\* The file may be that of a bridge that is gone.
ReadConfig ==
    /\ client = "read"
    /\ \/ file = 0 /\ NextRound /\ UNCHANGED cfg
       \/ file # 0 /\ Parsed
    /\ UNCHANGED conns
    /\ Others

\* grpc.Dial does not wait for the connection.  An error of it, that is, of the target,
\* ends the call at once.
BuildConn ==
    /\ client = "dial"
    /\ \/ /\ cfg \notin Undialable
          /\ client' = "ready"
          /\ conns' = conns + 1
          /\ UNCHANGED round
       \/ /\ cfg \in Undialable
          /\ client' = "gaveup"
          /\ round' = 0
          /\ UNCHANGED conns
    /\ UNCHANGED cfg
    /\ Others

\* Mutant: an error of GuiReady is not looked at.
AnswersAnyway == TRUE

\* The process of the file is there: its socket, its certificate and its token.
Answers == bridge = "up" /\ cfg = server

\* Mutant: the connection is not closed.
FailedLeaves == NextRound /\ UNCHANGED conns

Failed == NextRound /\ conns' = conns - 1

\* A bridge that is there may still refuse, or not answer in time.
GuiReady ==
    /\ client = "ready"
    /\ \/ Answers /\ client' = "connected" /\ UNCHANGED <<round, conns, refusals>>
       \/ ~Answers /\ Failed /\ UNCHANGED refusals
       \/ Answers /\ refusals < MaxRefusals /\ Failed /\ refusals' = refusals + 1
    /\ UNCHANGED cfg
    /\ RestOfPod

ClientStep == ReadConfig \/ BuildConn \/ GuiReady

-----------------------------------------------------------------------------
\* The pod is killed, wherever its containers are, and a new one starts.
PodKilled ==
    /\ kills < MaxKills
    /\ kills' = kills + 1
    /\ script' = "check" /\ keyID' = 0
    /\ bridge' = "off"
    /\ before' = server
    /\ client' = "off" /\ cfg' = 0 /\ round' = 0 /\ conns' = 0
    /\ UNCHANGED <<keys, store, smoke, sentinel, server, file, torn, deaths, refusals>>

Next == InitStep \/ BridgeStep \/ Dies \/ Call \/ ClientStep \/ PodKilled

Spec == Init /\ [][Next]_vars

\* Containers run.  Nothing is assumed of callers, kills and deaths.
FairSpec == Spec /\ WF_vars(InitStep) /\ WF_vars(BridgeStep) /\ WF_vars(ClientStep)

-----------------------------------------------------------------------------
(* Properties.                                                             *)

\* The bridge never runs on a keychain that is not ready: whatever runs of the
\* script were cut short before, pass has a key that exists, and nothing of the
\* smoke test is left in the store.
KeychainReady ==
    bridge # "off" => store \in 1..keys /\ smoke = 0

\* docs/gpg-howto.md:17: what pass has encrypted stays readable as long as the volume
\* is intact.  A run after one that was cut short makes another key, and yet pass
\* keeps the one it has.
KeyKept == [][store # 0 => store' = store]_vars

\* The only connection left open is the one that is in use or that was returned: none
\* of the rounds that failed leaves one.
OneConnection == conns = IF client \in {"ready", "connected"} THEN 1 ELSE 0

\* The connection returned is to a bridge of this pod, though the file may be of one
\* that went with an earlier pod.
ConnectedHere == client = "connected" => cfg > before

\* A round that begins with the bridge up gets through, whatever file the rounds before
\* it have read, unless the bridge or the pod goes away again, or it refuses, or it has
\* no socket to dial.
NextRoundConnects ==
    \A p \in 1..(MaxKills + MaxDeaths + 1) \ Undialable, n \in 0..MaxRefusals :
        LET Steady == bridge = "up" /\ server = p /\ refusals = n
        IN  client = "read" /\ Steady ~> client = "connected" \/ ~Steady
=============================================================================
