-------------------------- MODULE PodStartupProofs --------------------------
(* Theorems about PodStartup, for any number of rounds, kills and deaths.   *)
EXTENDS PodStartup, TLAPS

\* At most one key for each run of the script, one process for each start.
Counted ==
    /\ keys <= kills + (IF script \in {"check", "generate"} THEN 0 ELSE 1)
    /\ server <= kills + deaths + (IF bridge = "off" THEN 0 ELSE 1)

\* The script works on the first key, whichever of its runs this is, and the sentinel
\* is only there when its work is done.
ScriptInv ==
    /\ script \notin {"check", "generate"} => keys >= 1
    /\ script = "init" => keyID = 1
    /\ store \in {0, 1}
    /\ store = 1 => keys >= 1
    /\ script \in {"insert", "read", "remove", "touch", "done"} => store = 1
    /\ script = "touch" => smoke = 0
    /\ script = "done" => sentinel
    /\ sentinel => store = 1 /\ smoke = 0 /\ script \in {"check", "done"}

\* The bridge and the sidecar start when the script is done, and a process of this pod
\* has a number of its own.
StartInv ==
    /\ bridge # "off" => script = "done" /\ server > before
    /\ client # "off" => script = "done"

IInv == TypeOK /\ Counted /\ ScriptInv /\ StartInv

LEMMA InitInv == Init => IInv
<1> SUFFICES ASSUME Init PROVE IInv
  OBVIOUS
<1>1. TypeOK
  <2>1. {store, smoke, keyID} \subseteq 0..keys /\ {file, cfg, before} \subseteq 0..server
    BY DEF Init
  <2>2. keys \in 0..(MaxKills + 1) /\ server \in 0..(MaxKills + MaxDeaths + 1)
    BY PodAssumption DEF Init
  <2>3. round \in 0..grpcConnectRetries /\ conns \in Nat /\ kills \in 0..MaxKills /\ deaths \in 0..MaxDeaths
       /\ refusals \in 0..MaxRefusals
    BY PodAssumption DEF Init
  <2>4. QED
    BY <2>1, <2>2, <2>3 DEF Init, TypeOK, Scripts
<1>2. Counted /\ ScriptInv /\ StartInv
  BY PodAssumption DEF Init, Counted, ScriptInv, StartInv
<1>3. QED
  BY <1>1, <1>2 DEF IInv

\* A command of the script keeps the invariant.
LEMMA InitStepInv == IInv /\ InitStep => IInv'
<1> SUFFICES ASSUME IInv, InitStep PROVE IInv'
  OBVIOUS
<1> USE PodAssumption
<1>1. CASE CheckSentinel
  BY <1>1 DEF CheckSentinel, Command, IInv, TypeOK, Scripts, Counted, ScriptInv, StartInv, bridgeVars, clientVars, faultVars
<1>2. CASE GenKey
  BY <1>2 DEF GenKey, Command, IInv, TypeOK, Scripts, Counted, ScriptInv, StartInv, bridgeVars, clientVars, faultVars
<1>3. CASE ListKeys
  BY <1>3 DEF ListKeys, FirstListed, Command, IInv, TypeOK, Scripts, Counted, ScriptInv, StartInv, bridgeVars, clientVars, faultVars
<1>4. CASE PassInit
  BY <1>4 DEF PassInit, Command, IInv, TypeOK, Scripts, Counted, ScriptInv, StartInv, bridgeVars, clientVars, faultVars
<1>5. CASE PassInsert
  BY <1>5 DEF PassInsert, Command, IInv, TypeOK, Scripts, Counted, ScriptInv, StartInv, bridgeVars, clientVars, faultVars
<1>6. CASE PassShow
  BY <1>6 DEF PassShow, Command, IInv, TypeOK, Scripts, Counted, ScriptInv, StartInv, bridgeVars, clientVars, faultVars
<1>7. CASE PassRm
  BY <1>7 DEF PassRm, Command, IInv, TypeOK, Scripts, Counted, ScriptInv, StartInv, bridgeVars, clientVars, faultVars
<1>8. CASE Touch
  BY <1>8 DEF Touch, Command, IInv, TypeOK, Scripts, Counted, ScriptInv, StartInv, bridgeVars, clientVars, faultVars
<1>9. QED
  BY <1>1, <1>2, <1>3, <1>4, <1>5, <1>6, <1>7, <1>8 DEF InitStep

\* So does a step of the bridge.
LEMMA BridgeStepInv == IInv /\ (BridgeStep \/ Dies) => IInv'
<1> SUFFICES ASSUME IInv, BridgeStep \/ Dies PROVE IInv'
  OBVIOUS
<1> USE PodAssumption
<1>1. CASE Boots
  BY <1>1 DEF Boots, IInv, TypeOK, Scripts, Counted, ScriptInv, StartInv, keychainVars, clientVars, faultVars
<1>2. CASE WritesConfig
  BY <1>2 DEF WritesConfig, IInv, TypeOK, Scripts, Counted, ScriptInv, StartInv, keychainVars, clientVars, faultVars
<1>3. CASE Listens
  BY <1>3 DEF Listens, IInv, TypeOK, Scripts, Counted, ScriptInv, StartInv, keychainVars, clientVars, faultVars
<1>4. CASE Dies
  BY <1>4 DEF Dies, IInv, TypeOK, Scripts, Counted, ScriptInv, StartInv, keychainVars, clientVars, faultVars
<1>5. CASE CreatesConfig
  BY <1>5 DEF CreatesConfig, IInv, TypeOK, Scripts, Counted, ScriptInv, StartInv, keychainVars, clientVars, faultVars
<1>6. QED
  BY <1>1, <1>2, <1>3, <1>4, <1>5 DEF BridgeStep

\* And a step of the sidecar, if its count of connections is one of open ones.
LEMMA ClientStepInv == IInv /\ OneConnection /\ (Call \/ ClientStep) => IInv'
<1> SUFFICES ASSUME IInv, OneConnection, Call \/ ClientStep PROVE IInv'
  OBVIOUS
<1> USE PodAssumption
<1> RestOfPod
  BY DEF Call, ClientStep, ReadConfig, BuildConn, GuiReady, Others
<1>1. CASE Call
  BY <1>1 DEF Call, IInv, TypeOK, Scripts, Counted, ScriptInv, StartInv, RestOfPod, Others, keychainVars, bridgeVars
<1>2. CASE ReadConfig
  BY <1>2 DEF ReadConfig, Parsed, NextRound, IInv, TypeOK, Scripts, Counted, ScriptInv, StartInv, RestOfPod, Others, keychainVars, bridgeVars
<1>3. CASE BuildConn
  BY <1>3 DEF BuildConn, IInv, TypeOK, Scripts, Counted, ScriptInv, StartInv, RestOfPod, Others, keychainVars, bridgeVars
<1>4. CASE GuiReady
  BY <1>4 DEF GuiReady, Failed, NextRound, OneConnection, IInv, TypeOK, Scripts, Counted, ScriptInv, StartInv, RestOfPod, Others, keychainVars, bridgeVars
<1>5. QED
  BY <1>1, <1>2, <1>3, <1>4 DEF ClientStep

\* And the end of a pod.
LEMMA PodKilledInv == IInv /\ PodKilled => IInv'
BY PodAssumption DEF PodKilled, IInv, TypeOK, Scripts, Counted, ScriptInv, StartInv

LEMMA StutterInv == IInv /\ UNCHANGED vars => IInv'
BY DEF vars, keychainVars, bridgeVars, clientVars, faultVars, IInv, TypeOK, Counted, ScriptInv, StartInv

\* The count of connections is right after every step.
LEMMA ConnectionStep == TypeOK /\ OneConnection /\ [Next]_vars => OneConnection'
<1> SUFFICES ASSUME TypeOK, OneConnection, [Next]_vars PROVE OneConnection'
  OBVIOUS
<1>1. CASE InitStep
  BY <1>1 DEF InitStep, CheckSentinel, GenKey, ListKeys, PassInit, PassInsert, PassShow,
     PassRm, Touch, Command, clientVars, OneConnection
<1>2. CASE BridgeStep \/ Dies
  BY <1>2 DEF BridgeStep, Boots, CreatesConfig, WritesConfig, Listens, Dies, clientVars, OneConnection
<1>3. CASE Call
  BY <1>3 DEF Call, OneConnection
<1>4. CASE ClientStep
  BY <1>4 DEF ClientStep, ReadConfig, Parsed, BuildConn, GuiReady, NextRound, Failed, OneConnection
<1>5. CASE PodKilled
  BY <1>5 DEF PodKilled, OneConnection
<1>6. CASE UNCHANGED vars
  BY <1>6 DEF vars, clientVars, OneConnection
<1>7. QED
  BY <1>1, <1>2, <1>3, <1>4, <1>5, <1>6 DEF Next

LEMMA NextInv == IInv /\ OneConnection /\ [Next]_vars => IInv'
BY InitStepInv, BridgeStepInv, ClientStepInv, PodKilledInv, StutterInv DEF Next

LEMMA Inductive == Spec => [](IInv /\ OneConnection)
<1>1. Init => IInv /\ OneConnection
  BY InitInv DEF Init, OneConnection
<1>2. IInv /\ OneConnection /\ [Next]_vars => (IInv /\ OneConnection)'
  BY NextInv, ConnectionStep DEF IInv
<1>3. QED
  BY <1>1, <1>2, PTL DEF Spec

\* Every variable keeps to its type: there are at most as many keys as runs of the
\* script, and as many processes as starts of the bridge.
THEOREM TypeCorrect == Spec => []TypeOK
<1>1. IInv /\ OneConnection => TypeOK
  BY DEF IInv
<1>2. QED
  BY <1>1, Inductive, PTL

\* Of init.sh behind its sentinel: the bridge never runs on a keychain that is not
\* ready, however often the script was cut short.
THEOREM ReadyWhenStarted == Spec => []KeychainReady
<1>1. IInv /\ OneConnection => KeychainReady
  BY DEF IInv, ScriptInv, StartInv, KeychainReady, TypeOK
<1>2. QED
  BY <1>1, Inductive, PTL

\* Of head -1: pass keeps the key of its first run, so that what it encrypted stays
\* readable.
THEOREM KeyStays == Spec => KeyKept
<1>1. IInv /\ OneConnection /\ [Next]_vars => [store # 0 => store' = store]_vars
  <2> SUFFICES ASSUME IInv, Next PROVE store # 0 => store' = store
    BY DEF vars
  <2>1. CASE PassInit
    BY <2>1 DEF PassInit, Command, IInv, ScriptInv
  <2>2. CASE Next /\ ~PassInit
    BY <2>2 DEF Next, InitStep, CheckSentinel, GenKey, ListKeys, PassInsert, PassShow, PassRm, Touch,
       BridgeStep, Boots, CreatesConfig, WritesConfig, Listens, Dies, Call, ClientStep, ReadConfig, BuildConn,
       GuiReady, Others, RestOfPod, PodKilled, keychainVars
  <2>3. QED
    BY <2>1, <2>2
<1>2. QED
  BY <1>1, Inductive, PTL DEF Spec, KeyKept

\* Of connectAndReady: no round that fails leaves a connection open.
THEOREM NoneLeaks == Spec => []OneConnection
BY Inductive, PTL

\* The connection it returns is to a bridge of this pod, whatever the volume held.
THEOREM NotOfAnEarlierPod == Spec => []ConnectedHere
<1>1. Init => ConnectedHere
  BY DEF Init, ConnectedHere
<1>2. IInv /\ ConnectedHere /\ [Next]_vars => ConnectedHere'
  <2> SUFFICES ASSUME IInv, ConnectedHere, [Next]_vars PROVE ConnectedHere'
    OBVIOUS
  <2>1. CASE InitStep \/ UNCHANGED vars
    BY <2>1 DEF InitStep, CheckSentinel, GenKey, ListKeys, PassInit, PassInsert, PassShow,
       PassRm, Touch, Command, vars, clientVars, faultVars, ConnectedHere
  <2>2. CASE BridgeStep \/ Dies
    BY <2>2 DEF BridgeStep, Boots, CreatesConfig, WritesConfig, Listens, Dies, clientVars, faultVars, ConnectedHere
  <2>3. CASE Call \/ ReadConfig \/ BuildConn
    BY <2>3 DEF Call, ReadConfig, Parsed, NextRound, BuildConn, ConnectedHere
  <2>4. CASE GuiReady
    BY <2>4 DEF GuiReady, Answers, Failed, NextRound, RestOfPod, bridgeVars, ConnectedHere,
       IInv, StartInv
  <2>5. CASE PodKilled
    BY <2>5 DEF PodKilled, ConnectedHere
  <2>6. QED
    BY <2>1, <2>2, <2>3, <2>4, <2>5 DEF Next, ClientStep
<1>3. QED
  BY <1>1, <1>2, Inductive, PTL DEF Spec
=============================================================================
