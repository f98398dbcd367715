--------------------------- MODULE SidecarProofs ---------------------------
(***************************************************************************)
(* The sidecar from end to end keeps its invariants.  Each of its steps is *)
(* one of the client, of the watchers, of the notifier or of several of    *)
(* them together, or a crash, so that the parts keep the invariants that   *)
(* their own modules prove, and what is left is how the parts agree.       *)
(***************************************************************************)
EXTENDS Sidecar, FiniteSetTheorems, TLAPS

\* The parts again, with what is proved about them.
MP == INSTANCE MailboxKeptProofs WITH Expunging <- FALSE
DP == INSTANCE DiscordNotifierProofs WITH
    Mails <- Notices, Window <- DefaultWindow,
    Size <- [i \in Notices |-> 1], Limit <- MaxNotices, Suffix <- 1

LEMMA MailAssumed == MP!WatcherAssumption
BY MailAssumption DEF Mail!WatcherAssumption, MP!WatcherAssumption, Mail!Commands, MP!Commands

LEMMA DiscordAssumed == DP!NotifierAssumption
BY SidecarAssumption DEF DP!NotifierAssumption, Notices

-----------------------------------------------------------------------------
(* Mail and MP, Discord and DP say the same.                               *)

LEMMA SameMailTypes == Mail!TypeOK <=> MP!TypeOK
BY DEF Mail!TypeOK, Mail!UIDs, Mail!uidNext, Mail!WatcherStates, Mail!WatcherPcs,
       Mail!FolderNames, MP!TypeOK, MP!UIDs, MP!uidNext, MP!WatcherStates, MP!WatcherPcs,
       MP!FolderNames

\* Steps of the mailbox and of the life of a watcher.
LEMMA SameMailLife ==
    ASSUME NEW w
    PROVE  /\ Mail!NoWatcher = MP!NoWatcher
           /\ Mail!Arrives(w) => MP!Arrives(w)
           /\ Mail!StartWatcher(w) => MP!StartWatcher(w)
           /\ Mail!StopWatcher(w) => MP!StopWatcher(w)
           /\ Mail!Returns(w) => MP!Returns(w)
           /\ Mail!ConnectAndWatch(w) => MP!ConnectAndWatch(w)
           /\ Mail!SeesStop(w) => MP!SeesStop(w)
           /\ Mail!Poll(w) => MP!Poll(w)
BY Zenon DEF
    Mail!NoWatcher, Mail!Arrives, Mail!UIDs, Mail!StartWatcher, Mail!StopWatcher,
    Mail!Returns, Mail!ConnectAndWatch, Mail!SeesStop, Mail!Poll, Mail!IsAt, Mail!Update,
    Mail!serverVars, Mail!Disconnected, Mail!Connected, Mail!uidNext, Mail!Fails,
    MP!NoWatcher, MP!Arrives, MP!UIDs, MP!StartWatcher, MP!StopWatcher,
    MP!Returns, MP!ConnectAndWatch, MP!SeesStop, MP!Poll, MP!IsAt, MP!Update,
    MP!serverVars, MP!Disconnected, MP!Connected, MP!uidNext, MP!Fails

\* The other steps of a poll.
LEMMA SameMailPoll ==
    ASSUME NEW w
    PROVE  /\ Mail!Search(w) => MP!Search(w)
           /\ Mail!Fetch(w) => MP!Fetch(w)
           /\ Mail!Lookup(w) => MP!Lookup(w)
<1>1. Mail!Search(w) => MP!Search(w)
  BY Zenon DEF
    Mail!Search, Mail!IsAt, Mail!Update, Mail!serverVars, Mail!Disconnected, Mail!NoWatcher,
    Mail!Fails, Mail!EndPoll, Mail!UidSearch, Mail!Present, Mail!UIDs, Mail!Max,
    Mail!Cardinality,
    MP!Search, MP!IsAt, MP!Update, MP!serverVars, MP!Disconnected, MP!NoWatcher,
    MP!Fails, MP!EndPoll, MP!UidSearch, MP!Present, MP!UIDs, MP!Max, MP!Cardinality
<1>2. Mail!Fetch(w) => MP!Fetch(w)
  BY Zenon DEF
    Mail!Fetch, Mail!IsAt, Mail!Update, Mail!serverVars, Mail!Fails, Mail!EndPoll,
    Mail!Present, Mail!UIDs, Mail!Fresh, Mail!IdOf, Mail!OpenFolders, Mail!Max,
    Mail!Cardinality,
    MP!Fetch, MP!IsAt, MP!Update, MP!serverVars, MP!Fails, MP!EndPoll,
    MP!Present, MP!UIDs, MP!Fresh, MP!IdOf, MP!OpenFolders, MP!Max, MP!Cardinality
<1>3. Mail!Lookup(w) => MP!Lookup(w)
  BY Zenon DEF
    Mail!Lookup, Mail!IsAt, Mail!Update, Mail!serverVars, Mail!Fails, Mail!EndPoll,
    Mail!Present, Mail!UIDs, Mail!IdOf, Mail!FolderAnswers, Mail!FoldersOf, Mail!Max,
    Mail!Min, Mail!Cardinality,
    MP!Lookup, MP!IsAt, MP!Update, MP!serverVars, MP!Fails, MP!EndPoll,
    MP!Present, MP!UIDs, MP!IdOf, MP!FolderAnswers, MP!FoldersOf, MP!Max,
    MP!Min, MP!Cardinality
<1> QED
  BY <1>1, <1>2, <1>3

\* No step of a mailbox from which nothing is expunged is a purge.
LEMMA SameMailNext == [Mail!Next]_(Mail!vars) => [MP!Next]_(MP!vars)
<1>1. \A uid : ~Mail!Expunge(uid)
  BY DEF Mail!Expunge
<1>2. \A w \in Watchers : Mail!WatcherStep(w) => MP!WatcherStep(w)
  BY SameMailLife, SameMailPoll DEF Mail!WatcherStep, MP!WatcherStep
<1>3. Mail!Next => MP!Next
  BY <1>1, <1>2, SameMailLife DEF Mail!Next, MP!Next
<1> QED
  BY <1>3 DEF Mail!vars, MP!vars

LEMMA SameDiscord ==
    /\ Discord!TypeOK <=> DP!TypeOK
    /\ Discord!Init <=> DP!Init
    /\ [Discord!Next]_(Discord!vars) => [DP!Next]_(DP!vars)
<1>1. Discord!TypeOK <=> DP!TypeOK
  BY DEF Discord!TypeOK, Discord!PostStates, DP!TypeOK, DP!PostStates
<1>2. Discord!Init <=> DP!Init
  BY DEF Discord!Init, DP!Init
<1>3. Discord!Next => DP!Next
  BY Zenon DEF
    Discord!Next, Discord!Notified, Discord!InSeq, Discord!Notify, Discord!Delay,
    Discord!TimerFires, Discord!Flush, Discord!Tick, Discord!PostEnds,
    Discord!formatBatch, Discord!Fits,
    DP!Next, DP!Notified, DP!InSeq, DP!Notify, DP!Delay, DP!TimerFires,
    DP!Flush, DP!Tick, DP!PostEnds, DP!formatBatch, DP!Fits
<1> QED
  BY <1>1, <1>2, <1>3 DEF Discord!vars, DP!vars

-----------------------------------------------------------------------------
(* What a step of the sidecar is to its parts.                             *)

\* To the client: one of its steps, or none.
LEMMA ClientStep ==
    ASSUME [Next]_vars
    PROVE  [Client!Next]_(Client!sessionVars) \/ Crash
<1>1. ASSUME NEW a \in Logins, ClientAlone(a) \/ Watch(a) \/ Unwatch(a)
      PROVE  Client!Next
  BY <1>1 DEF ClientAlone, Watch, Unwatch, Client!Next, Client!Step
<1>2. ASSUME NEW w \in Watchers, WatcherStep(w)
      PROVE  UNCHANGED Client!sessionVars
  BY <1>2 DEF WatcherStep, WatcherAlone, Lookup, clientVars, Client!sessionVars
<1>3. CASE MailArrives \/ Tick \/ TimerFires \/ Flush \/ PostEnds
  BY <1>3 DEF MailArrives, Tick, TimerFires, Flush, PostEnds, NotifierAlone, clientVars,
              Client!sessionVars
<1>4. CASE UNCHANGED vars
  BY <1>4 DEF vars, clientVars, Client!sessionVars
<1> QED
  BY <1>1, <1>2, <1>3, <1>4 DEF Next

\* To the watchers: one of their steps, none, or the end of them all.
LEMMA MailStep ==
    ASSUME [Next]_vars
    PROVE  [Mail!Next]_(Mail!vars) \/ Crash
<1>1. ASSUME NEW a \in Logins, ClientAlone(a)
      PROVE  UNCHANGED Mail!vars
  BY <1>1 DEF ClientAlone, watcherVars, serverVars, Mail!vars
<1>2. ASSUME NEW a \in Logins, Watch(a)
      PROVE  Mail!Next
  BY <1>2 DEF Watch, Mail!Next
<1>3. ASSUME NEW a \in Logins, Unwatch(a)
      PROVE  [Mail!Next]_(Mail!vars)
  <2>1. CASE UNCHANGED <<watcher, handled, box, gone>>
    BY <2>1 DEF Mail!vars
  <2>2. CASE \E w \in WatchersOf(a) : Mail!StopWatcher(w)
    BY <2>2 DEF WatchersOf, Mail!Next
  <2> QED
    BY <1>3, <2>1, <2>2 DEF Unwatch, StopOwn
<1>4. ASSUME NEW w \in Watchers, WatcherStep(w)
      PROVE  Mail!Next
  BY <1>4 DEF WatcherStep, WatcherAlone, Lookup, Mail!Next, Mail!WatcherStep
<1>5. CASE MailArrives
  BY <1>5 DEF MailArrives, Mail!Next
<1>6. CASE Tick \/ TimerFires \/ Flush \/ PostEnds
  BY <1>6 DEF Tick, TimerFires, Flush, PostEnds, NotifierAlone, watcherVars, serverVars, Mail!vars
<1>7. CASE UNCHANGED vars
  BY <1>7 DEF vars, watcherVars, serverVars, Mail!vars
<1> QED
  BY <1>1, <1>2, <1>3, <1>4, <1>5, <1>6, <1>7 DEF Next

\* To the notifier: one of its steps, none, or its end.
LEMMA DiscordStep ==
    ASSUME MP!IInv, [Next]_vars
    PROVE  [Discord!Next]_(Discord!vars) \/ Crash
<1>1. ASSUME NEW a \in Logins, ClientAlone(a) \/ Watch(a) \/ Unwatch(a)
      PROVE  UNCHANGED Discord!vars
  BY <1>1 DEF ClientAlone, Watch, Unwatch, notifierVars, Discord!vars
<1>2. ASSUME NEW w \in Watchers, WatcherAlone(w)
      PROVE  UNCHANGED Discord!vars
  BY <1>2 DEF WatcherAlone, notifierVars, Discord!vars
<1>3. ASSUME NEW w \in Watchers, Lookup(w)
      PROVE  [Discord!Next]_(Discord!vars)
  <2> DEFINE i == Len(handled')
  <2>1. i \in Notices
    <3>1. handled \in Seq(MP!Entries) /\ Len(handled) < MaxNotices
      BY <1>3, MailAssumed, MP!TypeByWatcher DEF MP!IInv, Lookup
    <3>2. PICK entry : handled' = Append(handled, entry)
      BY <1>3 DEF Lookup, Mail!Lookup
    <3>3. i = Len(handled) + 1
      BY <3>1, <3>2
    <3> QED
      BY <3>1, <3>3, SidecarAssumption DEF Notices
  <2>2. UNCHANGED notifierVars \/ Discord!Notify(i)
    BY <1>3 DEF Lookup
  <2> HIDE DEF i
  <2>3. CASE UNCHANGED notifierVars
    BY <2>3 DEF notifierVars, Discord!vars
  <2>4. CASE Discord!Notify(i)
    BY <2>1, <2>4 DEF Discord!Next
  <2> QED
    BY <2>2, <2>3, <2>4
<1>4. CASE MailArrives
  BY <1>4 DEF MailArrives, notifierVars, Discord!vars
<1>5. CASE Tick \/ TimerFires \/ Flush \/ PostEnds
  BY <1>5 DEF Tick, TimerFires, Flush, PostEnds, NotifierAlone, Discord!Next
<1>6. CASE UNCHANGED vars
  BY <1>6 DEF vars, notifierVars, Discord!vars
<1> QED
  BY <1>1, <1>2, <1>3, <1>4, <1>5, <1>6 DEF Next, WatcherStep

\* What the watchers know after a crash is nothing.
LEMMA CrashMail ==
    ASSUME MP!IInv, MP!KeptInv, Crash
    PROVE  MP!IInv' /\ MP!KeptInv'
<1>1. MP!NoWatcher \in MP!WatcherStates /\ MP!AtRest(MP!NoWatcher)
  <2>1. MP!AtRest(MP!NoWatcher)
    BY DEF MP!AtRest, MP!NoWatcher
  <2>2. MP!NoWatcher \in MP!WatcherStates
    BY DEF MP!NoWatcher, MP!WatcherStates, MP!WatcherPcs
  <2> QED
    BY <2>1, <2>2
<1>2. watcher' = [w \in Watchers |-> MP!NoWatcher]
  BY SameMailLife DEF Crash
<1>3. watcher' \in [Watchers -> MP!WatcherStates] /\ \A w \in Watchers : MP!AtRest(watcher'[w])
  BY <1>1, <1>2
<1>4. UNCHANGED <<MP!serverVars, handled>>
  BY DEF Crash, serverVars, MP!serverVars
<1> QED
  BY <1>3, <1>4, MailAssumed, MP!AllAtRest

\* The notifier begins anew after a crash, except for what it has posted.
LEMMA CrashDiscord ==
    ASSUME DP!IInv, Crash
    PROVE  DP!IInv'
<1>1. DefaultWindow \in Nat \ {0}
  BY SidecarAssumption
<1>2. /\ answer \in Seq(DP!PostStates) /\ Len(answer) = Len(posts) /\ posts' = posts
      /\ posts \in Seq(Seq(Notices))
  BY DEF DP!IInv, DP!TypeOK, Crash
<1>3. answer' \in Seq(DP!PostStates) /\ Len(answer') = Len(answer)
  <2>1. answer' = [i \in DOMAIN answer |-> IF answer[i] = "sending" THEN "failed" ELSE answer[i]]
    BY DEF Crash
  <2>2. \A i \in DOMAIN answer : answer'[i] \in DP!PostStates
    BY <1>2, <2>1 DEF DP!PostStates
  <2>3. DOMAIN answer' = 1..Len(answer) /\ Len(answer) \in Nat
    BY <1>2, <2>1
  <2> QED
    BY <2>1, <2>2, <2>3
<1>4. DP!TypeOK'
  BY <1>1, <1>2, <1>3 DEF Crash, DP!TypeOK
<1>5. DP!NothingStranded' /\ DP!EndsWithWindow'
  BY DEF Crash, DP!NothingStranded, DP!EndsWithWindow
<1> QED
  BY <1>4, <1>5 DEF DP!IInv

\* The parts keep their invariants.
LEMMA PartsNext ==
    ASSUME MP!IInv, MP!KeptInv, DP!IInv, [Next]_vars
    PROVE  MP!IInv' /\ MP!KeptInv' /\ DP!IInv'
<1>1. MP!IInv' /\ MP!KeptInv'
  BY MailStep, SameMailNext, CrashMail, MailAssumed, MP!NextInv, MP!KeptNext
<1>2. DP!IInv'
  BY DiscordStep, SameDiscord, CrashDiscord, DiscordAssumed, DP!NextInv
<1> QED
  BY <1>1, <1>2

-----------------------------------------------------------------------------
(* The client and the watchers agree.                                      *)

\* For each attempt that is watched there is one watcher nobody told to stop, and no
\* such watcher for another.
Agree ==
    /\ owner \in [Watchers -> Logins \cup {None}]
    /\ \A a \in watched \cap Logins : \E w \in Watchers : WatchersOf(a) = {w}
    /\ \A a \in Logins \ watched : WatchersOf(a) = {}

\* A step of one watcher, which ends only when told to stop.
LEMMA WatcherGoesOn ==
    ASSUME MP!IInv, NEW w \in Watchers,
           \/ Mail!Returns(w) \/ Mail!ConnectAndWatch(w) \/ Mail!SeesStop(w)
           \/ Mail!Poll(w) \/ Mail!Search(w) \/ Mail!Fetch(w) \/ Mail!Lookup(w)
    PROVE  /\ \A v \in Watchers \ {w} : watcher'[v] = watcher[v]
           /\ watcher'[w].pc # "none" => watcher[w].pc # "none"
           /\ IF watcher'[w].pc = "none" THEN watcher[w].stop
              ELSE watcher'[w].stop = watcher[w].stop
<1> DEFINE s == watcher[w]
<1> SUFFICES \E t : /\ MP!Update(w, t)
                    /\ s.pc # "none"
                    /\ IF t.pc = "none" THEN s.stop ELSE t.stop = s.stop
  BY MailAssumed, MP!TypeByWatcher DEF MP!IInv, MP!Update
<1>1. s \in MP!WatcherStates
  BY MailAssumed, MP!OfOne
<1>2. CASE MP!Disconnected(w) /\ s.pc # "none"
  <2> DEFINE t == [MP!NoWatcher EXCEPT !.pc = "retry", !.stop = s.stop]
  <2>1. t.pc = "retry" /\ t.stop = s.stop
    BY DEF MP!NoWatcher
  <2>2. MP!Update(w, t)
    BY <1>2 DEF MP!Disconnected
  <2> HIDE DEF t
  <2> QED
    BY <1>2, <2>1, <2>2
<1>3. ASSUME NEW r \in MP!WatcherStates, r.stop = s.stop
      PROVE  MP!EndPoll(r).pc = "poll" /\ MP!EndPoll(r).stop = s.stop
  BY <1>3 DEF MP!EndPoll, MP!WatcherStates
<1>4. CASE Mail!Returns(w)
  <2>1. MP!Returns(w)
    BY <1>4, SameMailLife
  <2>2. MP!Update(w, MP!NoWatcher) /\ s.pc = "retry" /\ s.stop
    BY <2>1 DEF MP!Returns, MP!IsAt
  <2>3. MP!NoWatcher.pc = "none"
    BY DEF MP!NoWatcher
  <2> QED
    BY <2>2, <2>3
<1>5. CASE Mail!ConnectAndWatch(w)
  <2>1. MP!ConnectAndWatch(w)
    BY <1>5, SameMailLife
  <2>2. MP!Connected(w).pc = "poll" /\ MP!Connected(w).stop = s.stop
    BY <1>1 DEF MP!Connected, MP!WatcherStates
  <2> QED
    BY <2>1, <2>2 DEF MP!ConnectAndWatch, MP!IsAt
<1>6. CASE Mail!SeesStop(w)
  BY <1>2, <1>6, SameMailLife DEF MP!SeesStop, MP!IsAt
<1>7. CASE Mail!Poll(w)
  <2>1. MP!Poll(w)
    BY <1>7, SameMailLife
  <2> DEFINE t == [s EXCEPT !.pc = "search", !.lastUIDNext = MP!uidNext]
  <2>2. t.pc = "search" /\ t.stop = s.stop
    BY <1>1 DEF MP!WatcherStates
  <2>3. MP!Update(w, t) \/ MP!Disconnected(w)
    BY <2>1 DEF MP!Poll
  <2>4. s.pc # "none"
    BY <2>1 DEF MP!Poll, MP!IsAt
  <2> QED
    BY <1>2, <2>2, <2>3, <2>4
<1>8. CASE Mail!Search(w)
  <2>1. MP!Search(w)
    BY <1>8, SameMailPoll
  <2> DEFINE found == MP!UidSearch(s.highUID + 1)
             t == [s EXCEPT !.pc = "fetch", !.found = found,
                            !.highUID = MP!Max(found \cup {@})]
  <2>2. t.pc = "fetch" /\ t.stop = s.stop
    BY <1>1 DEF MP!WatcherStates
  <2>3. MP!Update(w, t) \/ MP!Update(w, MP!EndPoll(s)) \/ MP!Disconnected(w)
    BY <2>1 DEF MP!Search
  <2>4. s.pc # "none"
    BY <2>1 DEF MP!Search, MP!IsAt
  <2> QED
    BY <1>1, <1>2, <1>3, <2>2, <2>3, <2>4
<1>9. CASE Mail!Fetch(w)
  <2>1. MP!Fetch(w)
    BY <1>9, SameMailPoll
  <2> DEFINE uids == s.found \cap MP!Present
             Seen(read) == [s EXCEPT !.seen = @ \cup {MP!IdOf(u) : u \in read}]
             fresh == MP!Fresh(uids, s.seen)
  <2>2. s.pc # "none"
    BY <2>1 DEF MP!Fetch, MP!IsAt
  <2>3. CASE MP!Update(w, MP!EndPoll(s))
    BY <1>1, <1>3, <2>2, <2>3
  <2>4. ASSUME NEW read
        PROVE  DOMAIN Seen(read) = DOMAIN s /\ Seen(read).stop = s.stop
    BY <1>1 DEF MP!WatcherStates
  <2>5. DOMAIN s = {"pc", "stop", "seed", "highUID", "lastUIDNext", "found", "seen",
                    "pending", "conn", "missed"}
    BY <1>1 DEF MP!WatcherStates
  <2>6. ASSUME NEW conn,
               MP!Update(w, [Seen(uids) EXCEPT !.pc = "lookup", !.found = {},
                                               !.pending = fresh, !.conn = conn])
        PROVE  \E t : /\ MP!Update(w, t)
                      /\ s.pc # "none"
                      /\ IF t.pc = "none" THEN s.stop ELSE t.stop = s.stop
    <3> DEFINE r == Seen(uids)
               t == [r EXCEPT !.pc = "lookup", !.found = {}, !.pending = fresh, !.conn = conn]
    <3>1. DOMAIN r = DOMAIN s /\ r.stop = s.stop
      BY <2>4
    <3>2. MP!Update(w, t)
      BY <2>6
    <3> HIDE DEF r
    <3>3. t.pc = "lookup" /\ t.stop = s.stop
      BY <2>5, <3>1
    <3> QED
      BY <2>2, <3>2, <3>3
  <2>7. ASSUME NEW n,
               MP!Update(w, [MP!EndPoll(Seen({u \in uids : u <= n}))
                               EXCEPT !.missed = @ \cup uids])
        PROVE  \E t : /\ MP!Update(w, t)
                      /\ s.pc # "none"
                      /\ IF t.pc = "none" THEN s.stop ELSE t.stop = s.stop
    <3> DEFINE r == Seen({u \in uids : u <= n})
               t == [MP!EndPoll(r) EXCEPT !.missed = @ \cup uids]
    <3>1. DOMAIN r = DOMAIN s /\ r.stop = s.stop
      BY <2>4
    <3>2. MP!Update(w, t)
      BY <2>7
    <3> HIDE DEF r
    <3>3. t.pc = "poll" /\ t.stop = s.stop
      BY <2>5, <3>1 DEF MP!EndPoll
    <3> QED
      BY <2>2, <3>2, <3>3
  <2> QED
    BY <2>1, <2>3, <2>6, <2>7 DEF MP!Fetch
<1>10. CASE Mail!Lookup(w)
  <2>1. MP!Lookup(w)
    BY <1>10, SameMailPoll
  <2> DEFINE rest == [s EXCEPT !.pending = @ \ {MP!Min(s.pending)}]
  <2>2. /\ MP!Update(w, IF rest.pending = {} THEN MP!EndPoll(rest) ELSE rest)
        /\ s.pc = "lookup"
    BY <2>1 DEF MP!Lookup, MP!IsAt
  <2>3. rest.pc = s.pc /\ rest.stop = s.stop /\ rest \in MP!WatcherStates
    BY <1>1 DEF MP!WatcherStates
  <2> HIDE DEF rest
  <2>4. CASE rest.pending = {}
    BY <1>3, <2>2, <2>3, <2>4
  <2>5. CASE rest.pending # {}
    BY <2>2, <2>3, <2>5
  <2> QED
    BY <2>4, <2>5
<1> QED
  BY <1>4, <1>5, <1>6, <1>7, <1>8, <1>9, <1>10

\* The monitor that starts a watcher had none.
LEMMA WatchAgrees ==
    ASSUME MP!IInv, Agree, NEW a \in Logins, Watch(a)
    PROVE  Agree'
<1>1. a \notin watched /\ watched' = watched \cup {a}
  BY DEF Watch, Client!Watch
<1>2. PICK w \in Watchers : Mail!StartWatcher(w) /\ owner' = [owner EXCEPT ![w] = a]
  BY DEF Watch
<1>3. owner \in [Watchers -> Logins \cup {None}] /\ watcher \in [Watchers -> MP!WatcherStates]
  BY MailAssumed, MP!TypeByWatcher DEF Agree, MP!IInv
<1>4. /\ owner' \in [Watchers -> Logins \cup {None}] /\ owner'[w] = a
      /\ \A v \in Watchers \ {w} : owner'[v] = owner[v]
  BY <1>2, <1>3
<1>5. /\ \A v \in Watchers \ {w} : watcher'[v] = watcher[v]
      /\ watcher[w].pc = "none" /\ watcher'[w].pc # "none" /\ ~watcher'[w].stop
  <2>1. MP!Update(w, [MP!NoWatcher EXCEPT !.pc = "retry"]) /\ watcher[w].pc = "none"
    BY <1>2, SameMailLife DEF MP!StartWatcher, MP!IsAt
  <2>2. watcher'[w] = [MP!NoWatcher EXCEPT !.pc = "retry"]
        /\ \A v \in Watchers \ {w} : watcher'[v] = watcher[v]
    BY <1>3, <2>1 DEF MP!Update
  <2>3. watcher'[w].pc = "retry" /\ watcher'[w].stop = FALSE
    BY <2>2 DEF MP!NoWatcher
  <2> QED
    BY <2>1, <2>2, <2>3
<1>6. WatchersOf(a)' = {w}
  <2>1. WatchersOf(a) = {}
    BY <1>1 DEF Agree
  <2> QED
    BY <1>4, <1>5, <2>1 DEF WatchersOf
<1>7. \A b \in Logins \ {a} : WatchersOf(b)' = WatchersOf(b)
  BY <1>4, <1>5 DEF WatchersOf
<1> QED
  BY <1>1, <1>4, <1>6, <1>7 DEF Agree

\* The watcher of an attempt that is no longer watched is told to stop, and no other.
LEMMA UnwatchAgrees ==
    ASSUME MP!IInv, Agree, NEW a \in Logins, Unwatch(a)
    PROVE  Agree'
<1>1. watched' = watched \ {a} /\ owner' = owner
  BY DEF Unwatch, Client!Unwatch, Client!End
<1>2. CASE WatchersOf(a) = {}
  <2>1. watcher' = watcher
    BY <1>2 DEF Unwatch, StopOwn
  <2>2. \A b : WatchersOf(b)' = WatchersOf(b)
    BY <1>1, <2>1 DEF WatchersOf
  <2> QED
    BY <1>1, <1>2, <2>2 DEF Agree
<1>3. CASE WatchersOf(a) # {}
  <2>1. PICK w \in WatchersOf(a) : Mail!StopWatcher(w)
    BY <1>3 DEF Unwatch, StopOwn
  <2>2. WatchersOf(a) = {w} /\ w \in Watchers /\ owner[w] = a
    BY <1>3, <2>1 DEF Agree, WatchersOf
  <2>3. watcher \in [Watchers -> MP!WatcherStates]
    BY MailAssumed, MP!TypeByWatcher DEF MP!IInv
  <2>4. MP!Update(w, [watcher[w] EXCEPT !.stop = TRUE])
    BY <2>1, SameMailLife DEF MP!StopWatcher
  <2>5. watcher'[w].stop /\ \A v \in Watchers \ {w} : watcher'[v] = watcher[v]
    BY <2>2, <2>3, <2>4 DEF MP!Update, MP!WatcherStates
  <2>6. WatchersOf(a)' = {}
    BY <1>1, <2>2, <2>5 DEF WatchersOf
  <2>7. \A b \in Logins \ {a} : WatchersOf(b)' = WatchersOf(b)
    BY <1>1, <2>2, <2>5 DEF WatchersOf
  <2> QED
    BY <1>1, <2>6, <2>7 DEF Agree
<1> QED
  BY <1>2, <1>3

\* A watcher that works or ends is none that its monitor counts on, or goes on being it.
LEMMA WatcherAgrees ==
    ASSUME MP!IInv, Agree, NEW w \in Watchers, WatcherAlone(w) \/ Lookup(w)
    PROVE  Agree'
<1>1. /\ \A v \in Watchers \ {w} : watcher'[v] = watcher[v]
      /\ watcher'[w].pc # "none" => watcher[w].pc # "none"
      /\ IF watcher'[w].pc = "none" THEN watcher[w].stop
         ELSE watcher'[w].stop = watcher[w].stop
  BY WatcherGoesOn DEF WatcherAlone, Lookup
<1>2. watched' = watched /\ owner \in [Watchers -> Logins \cup {None}]
  BY DEF WatcherAlone, Lookup, clientVars, Agree
<1>3. /\ owner' \in [Watchers -> Logins \cup {None}]
      /\ \A v \in Watchers \ {w} : owner'[v] = owner[v]
      /\ watcher'[w].pc # "none" => owner'[w] = owner[w]
  BY <1>2 DEF WatcherAlone, Lookup
<1>4. CASE watcher'[w].pc = "none"
  <2>1. \A a : WatchersOf(a)' = WatchersOf(a)
    BY <1>1, <1>3, <1>4 DEF WatchersOf
  <2> QED
    BY <1>2, <1>3, <2>1 DEF Agree
<1>5. CASE watcher'[w].pc # "none"
  <2>1. \A a : WatchersOf(a)' = WatchersOf(a)
    BY <1>1, <1>3, <1>5 DEF WatchersOf
  <2> QED
    BY <1>2, <1>3, <2>1 DEF Agree
<1> QED
  BY <1>4, <1>5

\* Every step keeps them agreeing.
LEMMA AgreeNext ==
    ASSUME MP!IInv, Agree, [Next]_vars
    PROVE  Agree'
<1>1. ASSUME NEW a \in Logins, ClientAlone(a)
      PROVE  Agree'
  BY <1>1 DEF ClientAlone, Client!Begin, Client!Fail, Client!Hold, Client!Leave,
              watcherVars, Agree, WatchersOf
<1>2. ASSUME NEW a \in Logins, Watch(a) \/ Unwatch(a)
      PROVE  Agree'
  BY <1>2, WatchAgrees, UnwatchAgrees
<1>3. ASSUME NEW w \in Watchers, WatcherStep(w)
      PROVE  Agree'
  BY <1>3, WatcherAgrees DEF WatcherStep
<1>4. CASE MailArrives
  <2>1. watcher' = watcher /\ owner' = owner /\ watched' = watched
    BY <1>4 DEF MailArrives, Mail!Arrives, clientVars
  <2> QED
    BY <2>1 DEF Agree, WatchersOf
<1>5. CASE Tick \/ TimerFires \/ Flush \/ PostEnds
  <2>1. watcher' = watcher /\ owner' = owner /\ watched' = watched
    BY <1>5 DEF Tick, TimerFires, Flush, PostEnds, NotifierAlone, clientVars, watcherVars
  <2> QED
    BY <2>1 DEF Agree, WatchersOf
<1>6. CASE Crash
  <2>1. watched' = {} /\ owner' = [w \in Watchers |-> None]
    BY <1>6 DEF Crash
  <2>2. \A w \in Watchers : watcher'[w].pc = "none"
    BY <1>6 DEF Crash, Mail!NoWatcher
  <2> QED
    BY <2>1, <2>2 DEF Agree, WatchersOf
<1>7. CASE UNCHANGED vars
  BY <1>7 DEF vars, clientVars, watcherVars, Agree, WatchersOf
<1> QED
  BY <1>1, <1>2, <1>3, <1>4, <1>5, <1>6, <1>7 DEF Next

-----------------------------------------------------------------------------
(* What Discord is handed.                                                 *)

Rising(b) == \A i, j \in DOMAIN b : i < j => b[i] < b[j]
Before(b, c) == \A i \in DOMAIN b, j \in DOMAIN c : b[i] < c[j]

\* The first part of EachPostedOnce, of posts and pending apart.
InOrder ==
    /\ \A k \in DOMAIN posts : Rising(posts[k]) /\ Before(posts[k], pending)
    /\ \A k, l \in DOMAIN posts : k < l => Before(posts[k], posts[l])
    /\ Rising(pending)

\* The second part.
NoneLost ==
    \A i \in Notices :
        Discord!Notified(i) <=>
            i \in DOMAIN handled /\ ToNotify(handled[i]) /\ i \notin dropped

Posted == InOrder /\ NoneLost /\ dropped \subseteq DOMAIN handled

LEMMA PostedIsPostedOnce ==
    ASSUME DP!TypeOK, Posted
    PROVE  EachPostedOnce
<1>1. posts \in Seq(Seq(Notices)) /\ pending \in Seq(Notices) /\ Len(posts) \in Nat
  BY DEF DP!TypeOK
<1>2. /\ DOMAIN Batches = DOMAIN posts \cup {Len(posts) + 1}
      /\ \A k \in DOMAIN posts : Batches[k] = posts[k] /\ k < Len(posts) + 1
      /\ Batches[Len(posts) + 1] = pending
  BY <1>1 DEF Batches
<1>3. ASSUME NEW k \in DOMAIN Batches, NEW l \in DOMAIN Batches,
             NEW i \in DOMAIN Batches[k], NEW j \in DOMAIN Batches[l],
             k < l \/ (k = l /\ i < j)
      PROVE  Batches[k][i] < Batches[l][j]
  <2>1. \A x \in DOMAIN posts : x \in Nat /\ x <= Len(posts)
    BY <1>1
  <2>2. CASE k \in DOMAIN posts /\ l \in DOMAIN posts
    BY <1>2, <1>3, <2>2 DEF Posted, InOrder, Rising, Before
  <2>3. CASE k \in DOMAIN posts /\ l = Len(posts) + 1
    BY <1>1, <1>2, <1>3, <2>1, <2>3 DEF Posted, InOrder, Before
  <2>4. CASE k = Len(posts) + 1 /\ l \in DOMAIN posts
    BY <1>1, <1>3, <2>1, <2>4
  <2>5. CASE k = Len(posts) + 1 /\ l = Len(posts) + 1
    BY <1>1, <1>2, <1>3, <2>5 DEF Posted, InOrder, Rising
  <2> QED
    BY <1>2, <2>2, <2>3, <2>4, <2>5
<1> QED
  BY <1>3 DEF Posted, NoneLost, EachPostedOnce

\* Steps that neither look anything up nor flush.
LEMMA PostedSame ==
    ASSUME Posted, UNCHANGED <<posts, pending, handled, dropped>>
    PROVE  Posted'
BY DEF Posted, InOrder, NoneLost, Rising, Before, Discord!Notified, Discord!InSeq,
       ToNotify, Mail!Sent

\* The place of what is looked up is beyond all that was handed to Discord, and nobody
\* has been told of it.
LEMMA LookupPosted ==
    ASSUME MP!IInv, DP!IInv, Posted, NEW w \in Watchers, Lookup(w)
    PROVE  Posted'
<1> DEFINE n == Len(handled')
<1>1. handled \in Seq(MP!Entries) /\ Len(handled) \in Nat
  BY MailAssumed, MP!TypeByWatcher DEF MP!IInv
<1>2. posts \in Seq(Seq(Notices)) /\ pending \in Seq(Notices) /\ Len(pending) \in Nat
  BY DEF DP!IInv, DP!TypeOK
<1>3. PICK entry : handled' = Append(handled, entry)
  BY DEF Lookup, Mail!Lookup
<1>4. /\ n = Len(handled) + 1 /\ n \in Notices /\ n \notin DOMAIN handled
      /\ DOMAIN handled' = DOMAIN handled \cup {n}
      /\ \A i \in DOMAIN handled : handled'[i] = handled[i] /\ i < n
  <2>1. Len(handled) < MaxNotices
    BY DEF Lookup
  <2> QED
    BY <1>1, <1>3, <2>1, SidecarAssumption DEF Notices
<1>5. /\ posts' = posts
      /\ \/ ~ToNotify(handled'[n]) /\ pending' = pending /\ dropped' = dropped
         \/ ToNotify(handled'[n]) /\ pending' = pending /\ dropped' = dropped \cup {n}
         \/ ToNotify(handled'[n]) /\ pending' = Append(pending, n) /\ dropped' = dropped
  BY DEF Lookup, notifierVars, Discord!Notify
<1> HIDE DEF n
<1>6. \A i : ToNotify(handled[i])' <=> ToNotify(handled'[i])
  BY DEF ToNotify, Mail!Sent
<1>7. dropped' \subseteq DOMAIN handled'
  BY <1>4, <1>5 DEF Posted
<1>8. ~Discord!Notified(n) /\ n \notin dropped
  BY <1>4 DEF Posted, NoneLost
<1>9. CASE pending' = pending
  <2>1. InOrder'
    BY <1>5, <1>9 DEF Posted, InOrder, Rising, Before
  <2>2. \A i : Discord!Notified(i)' <=> Discord!Notified(i)
    BY <1>5, <1>9 DEF Discord!Notified, Discord!InSeq
  <2>3. pending' # Append(pending, n)
    BY <1>2, <1>4, <1>9
  <2>4. NoneLost'
    BY <1>4, <1>5, <1>6, <1>8, <2>2, <2>3 DEF Posted, NoneLost
  <2> QED
    BY <1>7, <2>1, <2>4 DEF Posted
<1>10. CASE ToNotify(handled'[n]) /\ pending' = Append(pending, n) /\ dropped' = dropped
  <2>1. /\ DOMAIN pending' = DOMAIN pending \cup {Len(pending) + 1}
        /\ \A i \in DOMAIN pending : pending'[i] = pending[i] /\ i \in Nat /\ i <= Len(pending)
        /\ pending'[Len(pending) + 1] = n
    BY <1>2, <1>4, <1>10
  <2>2. \A i \in Notices : Discord!Notified(i) => i < n
    BY <1>4 DEF Posted, NoneLost
  <2>3. \A i \in DOMAIN pending : pending[i] < n
    BY <1>2, <2>2 DEF Discord!Notified, Discord!InSeq
  <2>4. \A k \in DOMAIN posts : \A i \in DOMAIN posts[k] : posts[k][i] < n
    <3>1. SUFFICES ASSUME NEW k \in DOMAIN posts, NEW i \in DOMAIN posts[k]
                   PROVE  posts[k][i] < n
      OBVIOUS
    <3>2. posts[k] \in Seq(Notices)
      BY <1>2
    <3>3. posts[k][i] \in Notices
      BY <3>1, <3>2
    <3>4. Discord!Notified(posts[k][i])
      BY <3>1 DEF Discord!Notified, Discord!InSeq
    <3> QED
      BY <2>2, <3>3, <3>4
  <2>5. InOrder'
    <3>1. Rising(pending')
      BY <1>2, <2>1, <2>3 DEF Posted, InOrder, Rising
    <3>2. \A k \in DOMAIN posts : Before(posts[k], pending')
      BY <2>1, <2>3, <2>4 DEF Posted, InOrder, Before
    <3> QED
      BY <1>5, <3>1, <3>2 DEF Posted, InOrder, Rising, Before
  <2>6. \A i : Discord!Notified(i)' <=> Discord!Notified(i) \/ i = n
    <3>1. \A i : Discord!InSeq(i, pending') <=> Discord!InSeq(i, pending) \/ i = n
      BY <2>1 DEF Discord!InSeq
    <3> QED
      BY <1>5, <3>1 DEF Discord!Notified, Discord!InSeq
  <2>7. NoneLost'
    BY <1>4, <1>6, <1>8, <1>10, <2>6 DEF Posted, NoneLost
  <2> QED
    BY <1>7, <2>5, <2>7 DEF Posted
<1> QED
  BY <1>5, <1>9, <1>10

\* A flush moves the queue, as it is, behind what was posted before.
LEMMA FlushPosted ==
    ASSUME DP!IInv, Posted, Flush
    PROVE  Posted'
<1>1. /\ handled' = handled /\ dropped' = dropped /\ pending' = <<>>
      /\ posts' = IF pending = <<>> THEN posts ELSE Append(posts, pending)
  BY DEF Flush, NotifierAlone, Discord!Flush, watcherVars, mainVars
<1>2. posts \in Seq(Seq(Notices)) /\ pending \in Seq(Notices) /\ Len(posts) \in Nat
  BY DEF DP!IInv, DP!TypeOK
<1>3. CASE pending = <<>>
  BY <1>1, <1>3, PostedSame
<1>4. CASE pending # <<>>
  <2>1. /\ DOMAIN posts' = DOMAIN posts \cup {Len(posts) + 1}
        /\ \A k \in DOMAIN posts : posts'[k] = posts[k] /\ k \in Nat /\ k <= Len(posts)
        /\ posts'[Len(posts) + 1] = pending
    BY <1>1, <1>2, <1>4
  <2>2. DOMAIN pending' = {}
    BY <1>1
  <2>3. InOrder'
    <3>1. \A k \in DOMAIN posts' : Rising(posts'[k]) /\ Before(posts'[k], pending')
      BY <2>1, <2>2 DEF Posted, InOrder, Before
    <3>2. \A k, l \in DOMAIN posts' : k < l => Before(posts'[k], posts'[l])
      BY <1>2, <2>1 DEF Posted, InOrder
    <3>3. Rising(pending')
      BY <2>2 DEF Rising
    <3> QED
      BY <3>1, <3>2, <3>3 DEF InOrder, Rising, Before
  <2>4. \A i : Discord!Notified(i)' <=> Discord!Notified(i)
    <3>1. \A i : ~Discord!InSeq(i, pending')
      BY <2>2 DEF Discord!InSeq
    <3>2. \A i : (\E k \in DOMAIN posts' : Discord!InSeq(i, posts'[k]))
                   <=> (\E k \in DOMAIN posts : Discord!InSeq(i, posts[k]))
                         \/ Discord!InSeq(i, pending)
      BY <2>1
    <3> QED
      BY <3>1, <3>2 DEF Discord!Notified, Discord!InSeq
  <2>5. NoneLost'
    BY <1>1, <2>4 DEF Posted, NoneLost, ToNotify, Mail!Sent
  <2> QED
    BY <1>1, <2>3, <2>5 DEF Posted
<1> QED
  BY <1>3, <1>4

\* What dies in the queue was not posted, and is counted as dropped.
LEMMA CrashPosted ==
    ASSUME DP!IInv, Posted, Crash
    PROVE  Posted'
<1>1. /\ handled' = handled /\ posts' = posts /\ pending' = <<>>
      /\ dropped' = dropped \cup {pending[i] : i \in DOMAIN pending}
  BY DEF Crash, Range
<1>2. posts \in Seq(Seq(Notices)) /\ pending \in Seq(Notices)
  BY DEF DP!IInv, DP!TypeOK
<1>3. DOMAIN pending' = {}
  BY <1>1
<1>4. InOrder'
  BY <1>1, <1>3 DEF Posted, InOrder, Rising, Before
<1>5. \A i \in DOMAIN pending : pending[i] \in Notices /\ pending[i] \in DOMAIN handled
  BY <1>2 DEF Posted, NoneLost, Discord!Notified, Discord!InSeq
<1>6. \A i \in Notices : Discord!InSeq(i, pending) =>
        \A k \in DOMAIN posts : ~Discord!InSeq(i, posts[k])
  <2>1. SUFFICES ASSUME NEW k \in DOMAIN posts, NEW i \in DOMAIN posts[k],
                        NEW j \in DOMAIN pending, posts[k][i] = pending[j]
                 PROVE  FALSE
    BY DEF Discord!InSeq
  <2>2. posts[k][i] < pending[j]
    BY <2>1 DEF Posted, InOrder, Before
  <2>3. pending[j] \in Nat
    BY <1>5, <2>1, SidecarAssumption DEF Notices
  <2> QED
    BY <2>1, <2>2, <2>3
<1>7. NoneLost'
  <2>1. \A i : Discord!Notified(i)' <=> \E k \in DOMAIN posts : Discord!InSeq(i, posts[k])
    BY <1>1, <1>3 DEF Discord!Notified, Discord!InSeq
  <2>2. \A i : i \in dropped' <=> i \in dropped \/ Discord!InSeq(i, pending)
    BY <1>1 DEF Discord!InSeq
  <2>3. \A i : ToNotify(handled[i])' <=> ToNotify(handled[i])
    BY <1>1 DEF ToNotify, Mail!Sent
  <2> QED
    BY <1>1, <1>6, <2>1, <2>2, <2>3 DEF Posted, NoneLost, Discord!Notified
<1> QED
  BY <1>1, <1>4, <1>5, <1>7 DEF Posted

\* Every step keeps the count.
LEMMA PostedNext ==
    ASSUME MP!IInv, DP!IInv, Posted, [Next]_vars
    PROVE  Posted'
<1>1. ASSUME NEW a \in Logins, ClientAlone(a) \/ Watch(a) \/ Unwatch(a)
      PROVE  Posted'
  <2>1. UNCHANGED handled
    BY <1>1 DEF ClientAlone, Watch, Unwatch, StopOwn, watcherVars, Mail!StartWatcher,
                Mail!StopWatcher
  <2> QED
    BY <1>1, <2>1, PostedSame DEF ClientAlone, Watch, Unwatch, notifierVars, mainVars
<1>2. ASSUME NEW w \in Watchers, WatcherAlone(w)
      PROVE  Posted'
  <2>1. UNCHANGED handled
    BY <1>2 DEF WatcherAlone, Mail!Returns, Mail!ConnectAndWatch, Mail!SeesStop, Mail!Poll,
                Mail!Search, Mail!Fetch
  <2> QED
    BY <1>2, <2>1, PostedSame DEF WatcherAlone, notifierVars, mainVars
<1>3. ASSUME NEW w \in Watchers, Lookup(w)
      PROVE  Posted'
  BY <1>3, LookupPosted
<1>4. CASE MailArrives
  BY <1>4, PostedSame DEF MailArrives, Mail!Arrives, notifierVars, mainVars
<1>5. CASE Tick \/ TimerFires \/ PostEnds
  <2>1. UNCHANGED <<posts, pending>>
    BY <1>5 DEF Tick, TimerFires, PostEnds, NotifierAlone, Discord!Tick, Discord!TimerFires,
                Discord!PostEnds
  <2>2. UNCHANGED <<handled, dropped>>
    BY <1>5 DEF Tick, TimerFires, PostEnds, NotifierAlone, watcherVars, mainVars
  <2> QED
    BY <2>1, <2>2, PostedSame
<1>6. CASE Flush
  BY <1>6, FlushPosted
<1>7. CASE Crash
  BY <1>7, CrashPosted
<1>8. CASE UNCHANGED vars
  BY <1>8, PostedSame DEF vars, notifierVars, watcherVars, mainVars
<1> QED
  BY <1>1, <1>2, <1>3, <1>4, <1>5, <1>6, <1>7, <1>8 DEF Next, WatcherStep

-----------------------------------------------------------------------------
(* The inductive invariant and what it implies.                            *)

IInv ==
    /\ MP!IInv
    /\ MP!KeptInv
    /\ DP!IInv
    /\ stage \in [Logins -> Client!Stages]
    /\ window \in {0, DefaultWindow}
    /\ Agree
    /\ Posted

\* It holds at the start.
LEMMA InitInv == Init => IInv
<1> SUFFICES ASSUME Init
             PROVE  IInv
  OBVIOUS
<1>1. MP!IInv /\ MP!KeptInv
  <2>1. MP!Init
    BY SameMailLife DEF Init, Mail!Init, MP!Init
  <2> QED
    BY <2>1, MailAssumed, MP!InitInv, MP!KeptInit
<1>2. DP!IInv
  <2>1. DP!Init
    BY SameDiscord DEF Init
  <2> QED
    BY <2>1, DiscordAssumed, DP!InitInv
<1>3. stage \in [Logins -> Client!Stages] /\ watched = {}
  BY DEF Init, Client!Init, Client!Stages
<1>4. window \in {0, DefaultWindow}
  <2>1. \A file \in ConfigFiles : newDiscordNotifier(file) \in {0, DefaultWindow}
    BY SidecarAssumption DEF newDiscordNotifier, BatchWindow
  <2> QED
    BY <2>1 DEF Init
<1>5. Agree
  <2>1. \A w \in Watchers : watcher[w].pc = "none" /\ owner[w] = None
    BY DEF Init, Mail!Init, Mail!NoWatcher
  <2>2. owner \in [Watchers -> Logins \cup {None}]
    BY DEF Init
  <2> QED
    BY <1>3, <2>1, <2>2 DEF Agree, WatchersOf
<1>6. Posted
  BY DEF Init, Mail!Init, Discord!Init, Posted, InOrder, NoneLost, Rising, Discord!Notified,
         Discord!InSeq
<1> QED
  BY <1>1, <1>2, <1>3, <1>4, <1>5, <1>6 DEF IInv

\* Every step preserves it.
LEMMA NextInv == IInv /\ [Next]_vars => IInv'
<1> SUFFICES ASSUME IInv, [Next]_vars
             PROVE  IInv'
  OBVIOUS
<1>1. MP!IInv' /\ MP!KeptInv' /\ DP!IInv' /\ Agree' /\ Posted'
  BY PartsNext, AgreeNext, PostedNext DEF IInv
<1>2. stage' \in [Logins -> Client!Stages]
  <2>1. stage \in [Logins -> Client!Stages]
    BY DEF IInv
  <2>2. ASSUME NEW a \in Logins, ClientAlone(a) \/ Watch(a) \/ Unwatch(a)
        PROVE  stage' \in [Logins -> Client!Stages]
    BY <2>1, <2>2 DEF ClientAlone, Watch, Unwatch, Client!Begin, Client!Fail, Client!Hold,
                      Client!Leave, Client!Watch, Client!Unwatch, Client!End, Client!Moves,
                      Client!Stages
  <2>3. ASSUME NEW w \in Watchers, WatcherStep(w)
        PROVE  stage' = stage
    BY <2>3 DEF WatcherStep, WatcherAlone, Lookup, clientVars
  <2>4. CASE MailArrives \/ Tick \/ TimerFires \/ Flush \/ PostEnds
    BY <2>1, <2>4 DEF MailArrives, Tick, TimerFires, Flush, PostEnds, NotifierAlone, clientVars
  <2>5. CASE Crash
    BY <2>5 DEF Crash, Client!Stages
  <2>6. CASE UNCHANGED vars
    BY <2>1, <2>6 DEF vars, clientVars
  <2> QED
    BY <2>1, <2>2, <2>3, <2>4, <2>5, <2>6 DEF Next
<1>3. window' \in {0, DefaultWindow}
  <2>1. CASE Crash
    <3>1. \A file \in ConfigFiles : newDiscordNotifier(file) \in {0, DefaultWindow}
      BY SidecarAssumption DEF newDiscordNotifier, BatchWindow
    <3> QED
      BY <2>1, <3>1 DEF Crash
  <2>2. CASE ~Crash
    BY <2>2 DEF IInv, Next, ClientAlone, Watch, Unwatch, WatcherStep, WatcherAlone, Lookup,
                MailArrives, Tick, TimerFires, Flush, PostEnds, NotifierAlone, mainVars, vars
  <2> QED
    BY <2>1, <2>2
<1> QED
  BY <1>1, <1>2, <1>3 DEF IInv

\* The inductive invariant holds in every state of the sidecar.
THEOREM Invariance == Spec => []IInv
BY InitInv, NextInv, PTL DEF Spec

\* The parts keep to their types, and each attempt that the client believes watched has
\* one watcher that nobody told to stop, for any number of attempts and crashes.
THEOREM TypeCorrect == Spec => []TypeOK
<1>1. IInv => TypeOK
  <2> SUFFICES ASSUME IInv
               PROVE  TypeOK
    OBVIOUS
  <2>1. Mail!TypeOK /\ Discord!TypeOK
    BY SameMailTypes, SameDiscord DEF IInv, MP!IInv, DP!IInv
  <2>2. ASSUME NEW a \in Logins
        PROVE  Cardinality(WatchersOf(a)) = IF a \in watched THEN 1 ELSE 0
    <3>1. CASE a \in watched
      <4>1. PICK w \in Watchers : WatchersOf(a) = {w}
        BY <3>1 DEF IInv, Agree
      <4>2. Cardinality({w}) = 1
        BY FS_Singleton
      <4> QED
        BY <3>1, <4>1, <4>2
    <3>2. CASE a \notin watched
      <4>1. WatchersOf(a) = {} /\ Cardinality({}) = 0
        BY <3>2, FS_EmptySet DEF IInv, Agree
      <4> QED
        BY <3>2, <4>1
    <3> QED
      BY <3>1, <3>2
  <2> QED
    BY <2>1, <2>2 DEF IInv, Posted, TypeOK
<1> QED
  BY <1>1, Invariance, PTL

\* What the parts promise by themselves they keep together, over crashes too: nothing
\* slips below highUID, only new mail is looked at, and what waits for Discord has a timer
\* that ends with the window.
THEOREM PartsKeepTheirs ==
    Spec => [](/\ Mail!NoneBelowHighWater /\ Mail!OnlyNewMail
               /\ Discord!NothingStranded /\ DP!EndsWithWindow)
<1>1. IInv => Mail!NoneBelowHighWater
  <2>1. IInv => MP!NoneBelowHighWater
    BY MailAssumed, MP!HighWater DEF IInv
  <2> QED
    BY <2>1 DEF Mail!NoneBelowHighWater, Mail!IsAt, Mail!Present, Mail!UIDs, Mail!HandledBy,
                Mail!IdOf, MP!NoneBelowHighWater, MP!IsAt, MP!Present, MP!UIDs, MP!HandledBy,
                MP!IdOf
<1>2. IInv => Mail!OnlyNewMail
  BY DEF IInv, MP!KeptInv, MP!KeptWatcher, MP!SinceSeed, Mail!OnlyNewMail
<1>3. IInv => Discord!NothingStranded /\ DP!EndsWithWindow
  BY DEF IInv, DP!IInv, DP!NothingStranded, DP!EndsWithWindow, Discord!NothingStranded
<1> QED
  BY <1>1, <1>2, <1>3, Invariance, PTL

\* As long as the sidecar does not crash, each part, in the company of the others, takes
\* the steps that its own module gives it and no others.
THEOREM PartsAreThemselves ==
    ASSUME MaxCrashes = 0
    PROVE  Spec => Client!Spec /\ Mail!Spec /\ Discord!Spec
<1> DEFINE Alive == crashes = 0
<1>1. Init => Client!Init /\ Mail!Init /\ Discord!Init /\ Alive
  BY DEF Init
<1>2. Alive => ~Crash
  BY DEF Crash
<1>3. Alive /\ [Next]_vars => Alive'
  BY <1>2 DEF Next, ClientAlone, Watch, Unwatch, WatcherStep, WatcherAlone, Lookup,
              MailArrives, Tick, TimerFires, Flush, PostEnds, NotifierAlone, mainVars, vars
<1>4. IInv /\ Alive /\ [Next]_vars
        => /\ [Client!Next]_(Client!sessionVars)
           /\ [Mail!Next]_(Mail!vars)
           /\ [Discord!Next]_(Discord!vars)
  BY <1>2, ClientStep, MailStep, DiscordStep DEF IInv
<1> HIDE DEF Alive
<1> QED
  BY <1>1, <1>3, <1>4, Invariance, PTL DEF Spec, Client!Spec, Mail!Spec, Discord!Spec

\* What is to be notified is handed to a batch for Discord once, in the order in which it
\* was found, or is known to have had no notifier or to have died with it.
THEOREM PostedOnce == Spec => []EachPostedOnce
<1>1. IInv => EachPostedOnce
  BY PostedIsPostedOnce DEF IInv, DP!IInv
<1> QED
  BY <1>1, Invariance, PTL

\* No watcher looks a message up twice, over all its connections, as long as there are
\* not more Message-IDs than seen may hold: it is then never emptied.
THEOREM OnceEach ==
    ASSUME IsFiniteSet({MessageID[m] : m \in Messages}),
           Cardinality({MessageID[m] : m \in Messages}) <= maxSeenIDs
    PROVE  Spec => []OncePerWatcher
<1>1. MP!SeenSuffices
  BY Zenon DEF MP!SeenSuffices, MP!IsFiniteSet, MP!Cardinality, IsFiniteSet, Cardinality
<1>2. IInv => OncePerWatcher
  BY <1>1 DEF IInv, MP!KeptInv, MP!HandledOnce, OncePerWatcher
<1> QED
  BY <1>2, Invariance, PTL
=============================================================================
