------------------------------ MODULE Sidecar ------------------------------
(***************************************************************************)
(* The sidecar from end to end: the monitors of the bridge client start    *)
(* and stop IMAP watchers, the watchers hand the mail they find to the     *)
(* notifier, and the notifier posts it.  main.go makes the three parts and *)
(* config.go says whether there is a notifier at all.                      *)
(*                                                                         *)
(* The client takes part as the Session it implements (see                 *)
(* BridgeClientPromise).  All sessions are of one account: there is one    *)
(* mailbox.  Nothing is expunged from it, which MailWatcher looks at.      *)
(***************************************************************************)
EXTENDS Integers, Sequences, FiniteSets, Functions

CONSTANTS
    Logins,                                             \* of Session
    Messages, Backlog, MessageID, Headless, Folder,     \* of MailWatcher
    Watchers, FailingImap, maxSeenIDs,
    DefaultWindow,  \* the 5 seconds of loadDiscordConfig, in ticks
    ConfigFiles,    \* what discordConfigPath may hold
    MaxNotices,     \* bounds the lookups whose outcome is notified
    MaxCrashes,     \* bounds the crashes of the sidecar
    None

\* A file that is parsed has a token and a channel, empty or not, and a window.
\* The windows given are not positive or the default, since Window is a constant of
\* DiscordNotifier.
ASSUME SidecarAssumption ==
    /\ DefaultWindow \in Nat \ {0}
    /\ ConfigFiles \subseteq [read      : {"absent", "unreadable", "malformed", "parsed"},
                              botToken  : BOOLEAN,
                              channelID : BOOLEAN,
                              window    : {n \in Int : n <= 0} \cup {DefaultWindow}]
    /\ MaxNotices \in Nat
    /\ MaxCrashes \in Nat
    /\ None \notin Logins

VARIABLES
    stage, watched,                                \* of Session
    box, gone, watcher, handled,                   \* of MailWatcher
    pending, timer, left, since, posts, answer,    \* of DiscordNotifier
    owner,    \* the attempt whose monitor started each watcher
    window,   \* the window of the notifier; 0 when it is nil
    dropped,  \* the lookups Discord will not hear of: there was no notifier, or it
              \* died with them pending
    crashes   \* how often the sidecar has died

clientVars == <<stage, watched>>
watcherVars == <<watcher, handled, owner>>
serverVars == <<box, gone>>
notifierVars == <<pending, timer, left, since, posts, answer>>
mainVars == <<window, dropped, crashes>>
vars == <<clientVars, watcherVars, serverVars, notifierVars, mainVars>>

\* A mail is its place in handled, and a message always fits.
Notices == 1..MaxNotices

Client == INSTANCE Session
Mail == INSTANCE MailWatcher WITH Expunging <- FALSE
Discord == INSTANCE DiscordNotifier WITH
    Mails <- Notices, Window <- DefaultWindow,
    Size <- [i \in Notices |-> 1], Limit <- MaxNotices, Suffix <- 1

\* What the watchers assume of their constants; the notifier's assumption follows.
ASSUME MailAssumption == Mail!WatcherAssumption

-----------------------------------------------------------------------------
(* main, loadDiscordConfig and newDiscordNotifier.                         *)

\* Whether loadDiscordConfig returns a configuration.
Configured(file) == file.read = "parsed" /\ file.botToken /\ file.channelID

BatchWindow(file) == IF file.window <= 0 THEN DefaultWindow ELSE file.window

\* The window of the notifier that main makes; an error is only logged.
newDiscordNotifier(file) == IF Configured(file) THEN BatchWindow(file) ELSE 0

Init ==
    /\ Client!Init
    /\ Mail!Init
    /\ Discord!Init
    /\ owner = [w \in Watchers |-> None]
    /\ window \in {newDiscordNotifier(file) : file \in ConfigFiles}
    /\ dropped = {}
    /\ crashes = 0

-----------------------------------------------------------------------------
(* The client and the watchers it starts and stops.                        *)

\* What only the client sees of a login.
ClientAlone(a) ==
    /\ Client!Begin(a) \/ Client!Fail(a) \/ Client!Hold(a) \/ Client!Leave(a)
    /\ UNCHANGED <<watcherVars, serverVars, notifierVars, mainVars>>

\* The monitor of a starts a watcher, as soon as there is a name for it.
Watch(a) ==
    /\ Client!Watch(a)
    /\ \E w \in Watchers :
         /\ Mail!StartWatcher(w)
         /\ owner' = [owner EXCEPT ![w] = a]
    /\ UNCHANGED <<notifierVars, mainVars>>

\* Its watcher, if nobody told it to stop.
WatchersOf(a) == {w \in Watchers : owner[w] = a /\ watcher[w].pc # "none" /\ ~watcher[w].stop}

\* Mutant: the channel is not closed.
StopNone(a) == UNCHANGED <<watcher, handled, box, gone>>

StopOwn(a) ==
    IF WatchersOf(a) = {} THEN UNCHANGED <<watcher, handled, box, gone>>
    ELSE \E w \in WatchersOf(a) : Mail!StopWatcher(w)

Unwatch(a) ==
    /\ Client!Unwatch(a) \/ Client!End(a)
    /\ StopOwn(a)
    /\ UNCHANGED <<owner, notifierVars, mainVars>>

-----------------------------------------------------------------------------
(* The watchers and the notifier.                                          *)

ToNotify(entry) == Mail!Sent(entry)

\* A lookup and, unless the folder is to be skipped, the call of Notify.
Lookup(w) ==
    /\ Len(handled) < MaxNotices
    /\ Mail!Lookup(w)
    /\ LET i == Len(handled')
       IN  CASE ~ToNotify(handled'[i]) -> UNCHANGED <<notifierVars, dropped>>
             [] ToNotify(handled'[i]) /\ window = 0 ->
                  dropped' = dropped \cup {i} /\ UNCHANGED notifierVars
             [] ToNotify(handled'[i]) /\ window # 0 ->
                  Discord!Notify(i) /\ UNCHANGED dropped
    /\ UNCHANGED <<clientVars, owner, window, crashes>>

WatcherAlone(w) ==
    /\ \/ Mail!Returns(w) \/ Mail!ConnectAndWatch(w) \/ Mail!SeesStop(w)
       \/ Mail!Poll(w) \/ Mail!Search(w) \/ Mail!Fetch(w)
    /\ owner' = [owner EXCEPT ![w] = IF watcher'[w].pc = "none" THEN None ELSE @]
    /\ UNCHANGED <<clientVars, notifierVars, mainVars>>

MailArrives ==
    /\ \E m \in Messages : Mail!Arrives(m)
    /\ UNCHANGED <<clientVars, owner, notifierVars, mainVars>>

NotifierAlone(step) == step /\ UNCHANGED <<clientVars, watcherVars, serverVars, mainVars>>

\* The clock only matters to a notifier that is there.
Tick == NotifierAlone(window # 0 /\ Discord!Tick)
TimerFires == NotifierAlone(Discord!TimerFires)
Flush == NotifierAlone(Discord!Flush)
PostEnds == NotifierAlone(\E i \in DOMAIN posts : Discord!PostEnds(i))

\* The sidecar dies, of an error of its server or with its container, and starts
\* again; the file may have been edited.  All it knew is gone.  A post under way
\* counts as failed, whatever Discord made of it.
Crash ==
    /\ crashes < MaxCrashes
    /\ crashes' = crashes + 1
    /\ stage' = [a \in Logins |-> "none"]
    /\ watched' = {}
    /\ watcher' = [w \in Watchers |-> Mail!NoWatcher]
    /\ owner' = [w \in Watchers |-> None]
    /\ window' \in {newDiscordNotifier(file) : file \in ConfigFiles}
    /\ dropped' = dropped \cup Range(pending)
    /\ pending' = <<>>
    /\ timer' = "none"
    /\ left' = 0
    /\ since' = DefaultWindow
    /\ answer' = [i \in DOMAIN answer |-> IF answer[i] = "sending" THEN "failed" ELSE answer[i]]
    /\ UNCHANGED <<handled, serverVars, posts>>

-----------------------------------------------------------------------------
WatcherStep(w) == WatcherAlone(w) \/ Lookup(w)

Next ==
    \/ \E a \in Logins : ClientAlone(a) \/ Watch(a) \/ Unwatch(a)
    \/ \E w \in Watchers : WatcherStep(w)
    \/ MailArrives
    \/ Tick \/ TimerFires \/ Flush \/ PostEnds
    \/ Crash

Spec == Init /\ [][Next]_vars

-----------------------------------------------------------------------------
(* Properties.                                                             *)

\* The three parts agree: their own types, and one watcher nobody told to stop for
\* each attempt the client believes watched, none for the others.
TypeOK ==
    /\ Mail!TypeOK
    /\ Discord!TypeOK
    /\ stage \in [Logins -> Client!Stages]
    /\ window \in {0, DefaultWindow}
    /\ dropped \subseteq DOMAIN handled
    /\ \A a \in Logins : Cardinality(WatchersOf(a)) = IF a \in watched THEN 1 ELSE 0

\* What Discord was handed, and what it will be next.
Batches == Append(posts, pending)

\* What is to be notified is put into a batch for Discord once and in the order in which it was
\* found, though several watchers call Notify while timers flush: only what had no
\* notifier, or died with it in the queue, is missing.
EachPostedOnce ==
    /\ \A k, l \in DOMAIN Batches :
         \A i \in DOMAIN Batches[k], j \in DOMAIN Batches[l] :
             k < l \/ (k = l /\ i < j) => Batches[k][i] < Batches[l][j]
    /\ \A i \in Notices :
         Discord!Notified(i) <=>
             i \in DOMAIN handled /\ ToNotify(handled[i]) /\ i \notin dropped

\* imap.go:108: no duplicates.  One goroutine never looks a message up twice, over all
\* its connections, and over a crash nobody does: twice the same message takes two
\* watchers that were alive together, an old one still polling beside its successor.
OncePerWatcher ==
    \A i, j \in DOMAIN handled :
        i # j /\ handled[i].uid = handled[j].uid => handled[i].by # handled[j].by
=============================================================================
