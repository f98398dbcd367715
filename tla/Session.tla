------------------------------ MODULE Session ------------------------------
(***************************************************************************)
(* What the bridge client promises to the parts of the sidecar that depend *)
(* on it, of callers who make one request at a time: an attempt to log in  *)
(* fails or is held; no two are held at a time; a mailbox is watched only  *)
(* for an attempt that is held, or was and is being left; it is never      *)
(* watched twice; and an attempt that is over leaves no watcher.           *)
(***************************************************************************)
CONSTANT Logins

VARIABLES
    stage,   \* what each attempt has come to
    watched  \* the attempts with a watcher nobody told to stop

sessionVars == <<stage, watched>>

Stages == {"none", "login", "held", "left"}

Init ==
    /\ stage = [a \in Logins |-> "none"]
    /\ watched = {}

Moves(a, from, to) ==
    /\ stage[a] = from
    /\ stage' = [stage EXCEPT ![a] = to]

Begin(a) == Moves(a, "none", "login") /\ UNCHANGED watched
Fail(a) == Moves(a, "login", "none") /\ UNCHANGED watched

Hold(a) ==
    /\ \A b \in Logins : stage[b] # "held"
    /\ Moves(a, "login", "held")
    /\ UNCHANGED watched

Leave(a) == Moves(a, "held", "left") /\ UNCHANGED watched
End(a) == Moves(a, "left", "none") /\ watched' = watched \ {a}

Watch(a) ==
    /\ stage[a] \in {"held", "left"}
    /\ a \notin watched
    /\ watched' = watched \cup {a}
    /\ UNCHANGED stage

Unwatch(a) ==
    /\ a \in watched
    /\ watched' = watched \ {a}
    /\ UNCHANGED stage

Step(a) ==
    Begin(a) \/ Fail(a) \/ Hold(a) \/ Leave(a) \/ End(a) \/ Watch(a) \/ Unwatch(a)

Next == \E a \in Logins : Step(a)

Spec == Init /\ [][Next]_sessionVars
=============================================================================
