------------------------- MODULE MailboxKeptProofs -------------------------
(***************************************************************************)
(* What MailWatcher does with a mailbox from which nothing is expunged: a  *)
(* watcher only looks at what came after its connection began, and looks   *)
(* no message up twice as long as seen is never emptied.  Sidecar, whose   *)
(* mailbox is of this kind, builds on that.                                *)
(***************************************************************************)
EXTENDS MailWatcherProofs, FiniteSetTheorems

-----------------------------------------------------------------------------
(* The invariant.                                                          *)

\* There are no more Message-IDs than seen may hold.
SeenSuffices ==
    LET ids == {MessageID[m] : m \in Messages}
    IN  IsFiniteSet(ids) /\ Cardinality(ids) <= maxSeenIDs

OnLine(s) == s.pc \in {"poll", "search", "fetch", "lookup"}

\* What a connection works on came after it began.
SinceSeed(s) ==
    /\ s.seed <= s.highUID
    /\ OnLine(s) => s.seed < s.lastUIDNext
    /\ s.pc = "search" => s.seed < Len(box)
    /\ \A uid \in s.found \cup s.pending : s.seed < uid

\* seen has every message that the watcher looked up since, and what it is about to
\* look up is not one of them.
SeenGuards(s, H) ==
    /\ OnLine(s) => \A uid \in H : uid <= s.seed \/ IdOf(uid) \in s.seen
    /\ \A uid \in s.pending : uid \notin H /\ IdOf(uid) \in s.seen

KeptWatcher(s, H) ==
    /\ SinceSeed(s)
    /\ SeenSuffices => SeenGuards(s, H)

\* No watcher has handled a message twice.
HandledOnce ==
    \A i, j \in DOMAIN handled :
        i # j /\ handled[i].uid = handled[j].uid => handled[i].by # handled[j].by

KeptInv ==
    /\ gone = {}
    /\ \A w \in Watchers : KeptWatcher(watcher[w], HandledBy(w))
    /\ SeenSuffices => HandledOnce

-----------------------------------------------------------------------------
(* Steps of one watcher.                                                   *)

\* HandledBy, when handled does not change or grows by one entry.
LEMMA HandledBySame ==
    ASSUME handled' = handled, NEW w
    PROVE  HandledBy(w)' = HandledBy(w)
BY DEF HandledBy

\* A step of one watcher that looks nothing up preserves the invariant when its new
\* state satisfies what it says of a watcher.
LEMMA QuietKept ==
    ASSUME IInv, KeptInv, NEW w \in Watchers, NEW s,
           KeptWatcher(s, HandledBy(w)), Update(w, s), UNCHANGED <<serverVars, handled>>
    PROVE  KeptInv'
<1>1. /\ box' = box /\ gone' = gone /\ handled' = handled /\ UIDs' = UIDs
      /\ \A v : HandledBy(v)' = HandledBy(v)
  BY HandledBySame DEF serverVars, UIDs
<1>2. watcher'[w] = s /\ \A v \in Watchers \ {w} : watcher'[v] = watcher[v]
  BY OfOne, TypeByWatcher DEF IInv, Update
<1>3. ASSUME NEW v \in Watchers
      PROVE  KeptWatcher(watcher[v], HandledBy(v))'
  <2>1. KeptWatcher(watcher'[v], HandledBy(v))
    BY <1>2 DEF KeptInv
  <2> QED
    BY <1>1, <2>1 DEF KeptWatcher, SinceSeed, SeenGuards, OnLine, IdOf
<1>4. (SeenSuffices => HandledOnce)'
  BY <1>1 DEF KeptInv, HandledOnce, SeenSuffices
<1> QED
  BY <1>1, <1>3, <1>4 DEF KeptInv

\* A watcher without a connection works on nothing.
LEMMA AtRestKept ==
    ASSUME NEW H, NEW s, AtRest(s)
    PROVE  KeptWatcher(s, H)
<1>1. s = [pc |-> s.pc, stop |-> s.stop, seed |-> 0, highUID |-> 0, lastUIDNext |-> 0,
           found |-> {}, seen |-> {}, pending |-> {}, conn |-> FALSE, missed |-> {}]
  BY Zenon DEF AtRest, NoWatcher
<1>2. s.pc \in {"none", "retry"}
  BY DEF AtRest
<1>3. s.seed = 0 /\ s.highUID = 0 /\ s.found = {} /\ s.pending = {}
  BY <1>1
<1> QED
  BY <1>2, <1>3 DEF KeptWatcher, SinceSeed, SeenGuards, OnLine

\* seen is only emptied when it is too large.
LEMMA SeenStays ==
    ASSUME SeenSuffices, NEW s \in WatcherStates
    PROVE  EndPoll(s).seen = s.seen
<1>1. s.seen \subseteq {MessageID[m] : m \in Messages}
  BY DEF WatcherStates
<1>2. Cardinality(s.seen) <= Cardinality({MessageID[m] : m \in Messages})
      /\ IsFiniteSet(s.seen)
  BY <1>1, FS_Subset DEF SeenSuffices
<1>3. Cardinality(s.seen) \in Nat /\ Cardinality({MessageID[m] : m \in Messages}) \in Nat
  BY <1>2, FS_CardinalityType DEF SeenSuffices
<1>4. ~(Cardinality(s.seen) > maxSeenIDs)
  BY <1>2, <1>3, WatcherAssumption DEF SeenSuffices
<1> QED
  BY <1>4 DEF EndPoll, WatcherStates

\* The end of a poll leaves a watcher that has looked up what it was to look up.
LEMMA EndPollKept ==
    ASSUME NEW s \in WatcherStates, NEW H, OnLine(s), s.pending = {}, KeptWatcher(s, H)
    PROVE  KeptWatcher(EndPoll(s), H)
<1> DEFINE e == EndPoll(s)
<1>1. s.seed \in Nat /\ s.highUID \in Nat /\ s.lastUIDNext \in Nat
  BY DEF WatcherStates
<1>2. /\ e.pc = "poll" /\ e.found = {} /\ e.pending = {} /\ e.seed = s.seed
      /\ e.lastUIDNext = s.lastUIDNext /\ e.highUID = Max({s.highUID, s.lastUIDNext - 1})
  BY DEF EndPoll, WatcherStates
<1>3. e.highUID >= s.highUID
  <2>1. s.highUID \in Int /\ s.lastUIDNext - 1 \in Int
    BY <1>1
  <2>2. e.highUID = IF s.highUID >= s.lastUIDNext - 1 THEN s.highUID ELSE s.lastUIDNext - 1
    BY <1>2, <2>1, MaxOfTwo
  <2> QED
    BY <1>1, <2>2
<1>4. SinceSeed(e)
  <2>1. e.highUID \in Int
    <3>1. e.highUID = IF s.highUID >= s.lastUIDNext - 1 THEN s.highUID ELSE s.lastUIDNext - 1
      BY <1>1, <1>2, MaxOfTwo
    <3> QED
      BY <1>1, <3>1
  <2> QED
    BY <1>1, <1>2, <1>3, <2>1 DEF KeptWatcher, SinceSeed
<1>5. SeenSuffices => SeenGuards(e, H)
  BY <1>2, SeenStays DEF KeptWatcher, SeenGuards
<1> QED
  BY <1>2, <1>4, <1>5 DEF KeptWatcher

-----------------------------------------------------------------------------
(* Each step preserves the invariant.                                      *)

\* It holds at the start.
LEMMA KeptInit == Init => KeptInv
<1> SUFFICES ASSUME Init
             PROVE  KeptInv
  OBVIOUS
<1>1. AtRest(NoWatcher)
  BY DEF AtRest, NoWatcher
<1>2. \A w \in Watchers : KeptWatcher(watcher[w], HandledBy(w))
  BY <1>1, AtRestKept DEF Init
<1> QED
  BY <1>2 DEF Init, KeptInv, HandledOnce

\* A watcher that starts, ends or loses its connection.
LEMMA RestKept ==
    ASSUME IInv, KeptInv, NEW w \in Watchers, StartWatcher(w) \/ Returns(w) \/
               (Disconnected(w) /\ UNCHANGED <<serverVars, handled>>)
    PROVE  KeptInv'
<1>1. watcher[w].stop \in BOOLEAN
  BY OfOne DEF WatcherStates
<1>2. PICK s : Update(w, s) /\ AtRest(s)
  <2>1. CASE StartWatcher(w)
    BY <2>1 DEF StartWatcher, AtRest, NoWatcher
  <2>2. CASE Returns(w)
    BY <2>2 DEF Returns, AtRest, NoWatcher
  <2>3. CASE Disconnected(w)
    BY <1>1, <2>3 DEF Disconnected, AtRest, NoWatcher
  <2> QED
    BY <2>1, <2>2, <2>3
<1>3. UNCHANGED <<serverVars, handled>>
  BY DEF StartWatcher, Returns
<1> QED
  BY <1>2, <1>3, AtRestKept, QuietKept

\* A new message is after every connection's beginning.
LEMMA ArrivesKept ==
    ASSUME IInv, KeptInv, NEW m \in Messages, Arrives(m)
    PROVE  KeptInv'
<1>1. /\ box \in Seq(Messages) /\ Len(box) \in Nat /\ UIDs = 1..Len(box) /\ TypeOK
      /\ handled \in Seq(Entries)
  BY TypeByWatcher DEF IInv, UIDs
<1>2. /\ box' = Append(box, m) /\ Len(box') = Len(box) + 1
      /\ gone' = gone /\ watcher' = watcher /\ handled' = handled
  BY <1>1 DEF Arrives
<1>3. \A uid \in UIDs : IdOf(uid)' = IdOf(uid) /\ box'[uid] = box[uid]
  BY <1>1, <1>2 DEF IdOf
<1>4. ASSUME NEW w \in Watchers
      PROVE  KeptWatcher(watcher[w], HandledBy(w))'
  <2> DEFINE s == watcher[w]
             H == HandledBy(w)
  <2>1. WatcherType(s) /\ H \subseteq UIDs /\ H' = H /\ s' = s /\ KeptWatcher(s, H)
    BY <1>1, <1>2, OfOne, HandledAreUIDs, HandledBySame DEF KeptInv
  <2>2. SinceSeed(s)'
    BY <1>1, <1>2, <2>1 DEF KeptWatcher, SinceSeed, OnLine, WatcherType, WatcherStates
  <2>3. SeenSuffices' => SeenGuards(s, H)'
    <3>1. SUFFICES ASSUME SeenSuffices
                   PROVE  SeenGuards(s, H)'
      BY DEF SeenSuffices
    <3>2. s.pending \subseteq UIDs /\ SeenGuards(s, H)
      BY <2>1, <3>1 DEF WatcherType, KeptWatcher
    <3>3. OnLine(s)' => \A uid \in H' : uid <= s'.seed \/ IdOf(uid)' \in s'.seen
      BY <1>3, <2>1, <3>2 DEF SeenGuards, OnLine
    <3>4. \A uid \in s'.pending : uid \notin H' /\ IdOf(uid)' \in s'.seen
      BY <1>3, <2>1, <3>2 DEF SeenGuards
    <3> QED
      BY <3>3, <3>4 DEF SeenGuards
  <2> QED
    BY <2>1, <2>2, <2>3 DEF KeptWatcher
<1>5. (SeenSuffices => HandledOnce)'
  BY <1>2 DEF KeptInv, HandledOnce, SeenSuffices
<1> QED
  BY <1>2, <1>4, <1>5 DEF KeptInv

\* To be told to stop changes nothing but that.
LEMMA StopKept ==
    ASSUME IInv, KeptInv, NEW w \in Watchers, StopWatcher(w)
    PROVE  KeptInv'
<1> DEFINE s == watcher[w]
           t == [s EXCEPT !.stop = TRUE]
<1>1. s \in WatcherStates /\ KeptWatcher(s, HandledBy(w))
  BY OfOne DEF KeptInv
<1>2. /\ t.pc = s.pc /\ t.seed = s.seed /\ t.highUID = s.highUID
      /\ t.lastUIDNext = s.lastUIDNext /\ t.found = s.found /\ t.seen = s.seen
      /\ t.pending = s.pending
  BY <1>1 DEF WatcherStates
<1>3. KeptWatcher(t, HandledBy(w))
  BY <1>1, <1>2 DEF KeptWatcher, SinceSeed, SeenGuards, OnLine
<1> QED
  BY <1>3, QuietKept DEF StopWatcher

\* A connection begins after everything that was ever looked up.
LEMMA ConnectKept ==
    ASSUME IInv, KeptInv, NEW w \in Watchers, ConnectAndWatch(w)
    PROVE  KeptInv'
<1> DEFINE s == watcher[w]
           t == Connected(w)
           H == HandledBy(w)
<1>1. /\ s \in WatcherStates /\ WatcherInv(s, H) /\ KeptWatcher(s, H)
      /\ Len(box) \in Nat /\ uidNext = Len(box) + 1 /\ H \subseteq 1..Len(box)
  BY OfOne, HandledAreUIDs DEF KeptInv, IInv, uidNext, UIDs
<1>2. /\ t.pc = "poll" /\ t.seed = Len(box) /\ t.highUID = Len(box)
      /\ t.lastUIDNext = Len(box) + 1 /\ t.found = s.found /\ t.pending = s.pending
  BY <1>1 DEF Connected, WatcherStates
<1>3. s.found = {} /\ s.pending = {}
  BY <1>1 DEF ConnectAndWatch, IsAt, WatcherInv
<1>4. SinceSeed(t)
  BY <1>1, <1>2, <1>3 DEF SinceSeed
<1>5. SeenGuards(t, H)
  BY <1>1, <1>2, <1>3 DEF SeenGuards
<1>6. KeptWatcher(t, H)
  BY <1>2, <1>4, <1>5 DEF KeptWatcher
<1> QED
  BY <1>6, QuietKept DEF ConnectAndWatch

\* A poll goes on to search only when something has arrived since the connection began.
LEMMA PollKept ==
    ASSUME IInv, KeptInv, NEW w \in Watchers, Poll(w)
    PROVE  KeptInv'
<1> DEFINE s == watcher[w]
           t == [s EXCEPT !.pc = "search", !.lastUIDNext = uidNext]
           H == HandledBy(w)
<1>1. /\ s \in WatcherStates /\ WatcherType(s) /\ WatcherInv(s, H) /\ KeptWatcher(s, H)
      /\ Len(box) \in Nat /\ uidNext = Len(box) + 1 /\ s.pc = "poll"
  BY OfOne DEF KeptInv, uidNext, Poll, IsAt
<1>2. CASE Disconnected(w)
  BY <1>2, RestKept DEF Poll
<1>3. CASE s.lastUIDNext # uidNext /\ Update(w, t)
  <2>1. /\ t.pc = "search" /\ t.seed = s.seed /\ t.highUID = s.highUID
        /\ t.lastUIDNext = uidNext /\ t.found = s.found /\ t.seen = s.seen
        /\ t.pending = s.pending
    BY <1>1 DEF WatcherStates
  <2>2. s.seed < s.lastUIDNext
    BY <1>1 DEF KeptWatcher, SinceSeed, OnLine
  <2>3. s.seed < Len(box)
    BY <1>1, <1>3, <2>2 DEF WatcherType
  <2>4. SinceSeed(t)
    BY <1>1, <2>1, <2>3 DEF KeptWatcher, SinceSeed, WatcherType
  <2>5. KeptWatcher(t, H)
    BY <1>1, <2>1, <2>4 DEF KeptWatcher, SeenGuards, OnLine
  <2> QED
    BY <1>3, <2>5, QuietKept DEF Poll
<1> QED
  BY <1>2, <1>3 DEF Poll

\* n:* finds the last message whatever n is; that one is new.
LEMMA SearchKept ==
    ASSUME IInv, KeptInv, NEW w \in Watchers, Search(w)
    PROVE  KeptInv'
<1> DEFINE s == watcher[w]
           H == HandledBy(w)
           found == UidSearch(s.highUID + 1)
           t == [s EXCEPT !.pc = "fetch", !.found = found, !.highUID = Max(found \cup {@})]
<1>1. /\ s \in WatcherStates /\ WatcherType(s) /\ WatcherInv(s, H) /\ KeptWatcher(s, H)
      /\ Len(box) \in Nat /\ s.pc = "search" /\ s.pending = {}
  BY OfOne DEF KeptInv, Search, IsAt, WatcherInv
<1>2. Present = 1..Len(box)
  BY DEF KeptInv, Present, UIDs
<1>3. /\ s.seed \in Nat /\ s.highUID \in 0..Len(box) /\ s.seed <= s.highUID
      /\ s.seed < Len(box)
  BY <1>1 DEF WatcherType, WatcherStates, KeptWatcher, SinceSeed
<1>4. found \subseteq Present /\ \A uid \in found : s.seed < uid
  <2>1. Present \in SUBSET (0..Len(box)) /\ Present # {} /\ Len(box) \in Present
    BY <1>1, <1>2, <1>3
  <2>2. Max(Present) \in Present /\ Max(Present) >= Len(box)
    BY <1>1, <2>1, MaxIsGreatest
  <2>3. s.seed < Max(Present)
    BY <1>2, <1>3, <2>2
  <2>4. \A uid \in Present : uid >= s.highUID + 1 => s.seed < uid
    BY <1>2, <1>3
  <2> QED
    BY <2>2, <2>3, <2>4 DEF UidSearch
<1>5. CASE Disconnected(w)
  BY <1>5, RestKept DEF Search
<1>6. CASE Update(w, EndPoll(s))
  BY <1>1, <1>6, EndPollKept, QuietKept DEF Search, OnLine
<1>7. CASE Update(w, t)
  <2>1. /\ t.pc = "fetch" /\ t.seed = s.seed /\ t.highUID = Max(found \cup {s.highUID})
        /\ t.lastUIDNext = s.lastUIDNext /\ t.found = found /\ t.seen = s.seen
        /\ t.pending = {}
    BY <1>1 DEF WatcherStates
  <2> HIDE DEF found
  <2>2. found \cup {s.highUID} \in SUBSET (0..Len(box)) /\ found \cup {s.highUID} # {}
    <3>1. Present \subseteq 0..Len(box)
      BY <1>1, <1>2
    <3> QED
      BY <1>3, <1>4, <3>1
  <2>3. Max(found \cup {s.highUID}) \in found \cup {s.highUID}
        /\ Max(found \cup {s.highUID}) >= s.highUID
    BY <1>1, <2>2, MaxIsGreatest
  <2>4. s.seed <= t.highUID
    BY <1>1, <1>3, <2>1, <2>2, <2>3
  <2>5. SinceSeed(t)
    BY <1>1, <1>4, <2>1, <2>4 DEF KeptWatcher, SinceSeed, OnLine
  <2>6. KeptWatcher(t, H)
    BY <1>1, <2>1, <2>5 DEF KeptWatcher, SeenGuards, OnLine
  <2> QED
    BY <1>7, <2>6, QuietKept DEF Search
<1> QED
  BY <1>5, <1>6, <1>7 DEF Search

\* What is about to be looked up was found by this connection, and is not in seen as it
\* was before: it is none that the watcher handled.
LEMMA FetchKept ==
    ASSUME IInv, KeptInv, NEW w \in Watchers, Fetch(w)
    PROVE  KeptInv'
<1> DEFINE s == watcher[w]
           H == HandledBy(w)
           uids == s.found \cap Present
           Seen(read) == [s EXCEPT !.seen = @ \cup {IdOf(u) : u \in read}]
           fresh == Fresh(uids, s.seen)
<1>1. /\ s \in WatcherStates /\ WatcherType(s) /\ WatcherInv(s, H) /\ KeptWatcher(s, H)
      /\ box \in Seq(Messages) /\ Len(box) \in Nat /\ s.pc = "fetch" /\ s.pending = {}
  BY OfOne DEF KeptInv, Fetch, IsAt, WatcherInv
<1>2. /\ fresh \subseteq uids /\ uids \subseteq s.found
      /\ \A u \in fresh : IdOf(u) \notin s.seen
  BY DEF Fresh
<1>3. SeenSuffices => \A u \in fresh : u \notin H
  <2>1. SUFFICES ASSUME SeenSuffices, NEW u \in fresh, u \in H
                 PROVE  FALSE
    OBVIOUS
  <2>2. s.seed < u /\ (u <= s.seed \/ IdOf(u) \in s.seen)
    BY <1>1, <1>2, <2>1 DEF KeptWatcher, SinceSeed, SeenGuards, OnLine
  <2>3. s.seed \in Nat /\ u \in Nat
    BY <1>1, <1>2 DEF WatcherStates
  <2> QED
    BY <1>2, <2>2, <2>3
<1>4. ASSUME NEW read \in SUBSET uids
      PROVE  /\ Seen(read) \in WatcherStates
             /\ Seen(read).seen = s.seen \cup {IdOf(u) : u \in read}
             /\ Seen(read).pc = s.pc /\ Seen(read).seed = s.seed
             /\ Seen(read).highUID = s.highUID /\ Seen(read).lastUIDNext = s.lastUIDNext
             /\ Seen(read).found = s.found /\ Seen(read).pending = {}
  <2>1. uids \subseteq UIDs
    BY DEF Present
  <2>2. s.seen \cup {IdOf(u) : u \in read} \in SUBSET {MessageID[m] : m \in Messages}
    BY <1>1, <2>1 DEF WatcherStates, IdOf, UIDs
  <2> QED
    BY <1>1, <2>2 DEF WatcherStates
<1>5. ASSUME NEW read \in SUBSET uids
      PROVE  KeptWatcher(Seen(read), H)
  <2> DEFINE r == Seen(read)
  <2>1. /\ r.seen = s.seen \cup {IdOf(u) : u \in read}
        /\ r.pc = s.pc /\ r.seed = s.seed /\ r.highUID = s.highUID
        /\ r.lastUIDNext = s.lastUIDNext /\ r.found = s.found /\ r.pending = {}
    BY <1>4
  <2> HIDE DEF r
  <2>2. KeptWatcher(r, H)
    BY <1>1, <2>1 DEF KeptWatcher, SinceSeed, SeenGuards, OnLine
  <2> QED
    BY <2>2 DEF r
<1>6. CASE Update(w, EndPoll(s))
  <2>1. KeptWatcher(EndPoll(s), H)
    BY <1>1, EndPollKept DEF OnLine
  <2>2. UNCHANGED <<serverVars, handled>>
    BY DEF Fetch
  <2> QED
    BY <1>6, <2>1, <2>2, QuietKept
<1>7. ASSUME NEW conn \in OpenFolders,
             Update(w, [Seen(uids) EXCEPT !.pc = "lookup", !.found = {},
                                          !.pending = fresh, !.conn = conn])
      PROVE  KeptInv'
  <2> DEFINE r == Seen(uids)
             t == [r EXCEPT !.pc = "lookup", !.found = {}, !.pending = fresh, !.conn = conn]
  <2>1. /\ r \in WatcherStates /\ r.seen = s.seen \cup {IdOf(u) : u \in uids}
        /\ r.seed = s.seed /\ r.highUID = s.highUID /\ r.lastUIDNext = s.lastUIDNext
    BY <1>4
  <2>2. Update(w, t)
    BY <1>7
  <2> HIDE DEF r
  <2>3. /\ t.pc = "lookup" /\ t.found = {} /\ t.pending = fresh
        /\ t.seen = r.seen /\ t.seed = r.seed /\ t.highUID = r.highUID
        /\ t.lastUIDNext = r.lastUIDNext
    BY <2>1 DEF WatcherStates
  <2> HIDE DEF t, fresh
  <2>4. SinceSeed(t)
    BY <1>1, <1>2, <2>1, <2>3 DEF KeptWatcher, SinceSeed, OnLine
  <2>5. SeenSuffices => SeenGuards(t, H)
    BY <1>1, <1>2, <1>3, <2>1, <2>3 DEF KeptWatcher, SeenGuards, OnLine
  <2>6. KeptWatcher(t, H)
    BY <2>4, <2>5 DEF KeptWatcher
  <2> QED
    BY <2>2, <2>6, QuietKept DEF Fetch
<1>8. ASSUME NEW n \in 0..Len(box),
             Update(w, [EndPoll(Seen({u \in uids : u <= n})) EXCEPT !.missed = @ \cup uids])
      PROVE  KeptInv'
  <2> DEFINE r == Seen({u \in uids : u <= n})
             e == EndPoll(r)
             t == [e EXCEPT !.missed = @ \cup uids]
  <2>1. r \in WatcherStates /\ r.pc = s.pc /\ r.pending = {} /\ KeptWatcher(r, H)
    BY <1>4, <1>5
  <2>2. Update(w, t)
    BY <1>8
  <2> HIDE DEF r
  <2>3. KeptWatcher(e, H) /\ e.pc = "poll"
    <3>1. KeptWatcher(e, H)
      BY <1>1, <2>1, EndPollKept DEF OnLine
    <3>2. e.pc = "poll"
      BY <2>1 DEF EndPoll, WatcherStates
    <3> QED
      BY <3>1, <3>2
  <2>4. /\ t.pc = e.pc /\ t.found = e.found /\ t.pending = e.pending
        /\ t.seen = e.seen /\ t.seed = e.seed /\ t.highUID = e.highUID
        /\ t.lastUIDNext = e.lastUIDNext
    BY <2>1 DEF EndPoll, WatcherStates
  <2> HIDE DEF e, t
  <2>5. KeptWatcher(t, H)
    BY <2>3, <2>4 DEF KeptWatcher, SinceSeed, SeenGuards, OnLine
  <2> QED
    BY <2>2, <2>5, QuietKept DEF Fetch
<1> QED
  BY <1>6, <1>7, <1>8 DEF Fetch

\* The message that is looked up leaves pending, and seen has it.
LEMMA LookupKept ==
    ASSUME IInv, KeptInv, NEW w \in Watchers, Lookup(w)
    PROVE  KeptInv'
<1> DEFINE s == watcher[w]
           H == HandledBy(w)
           uid == Min(s.pending)
           rest == [s EXCEPT !.pending = @ \ {uid}]
           n == Len(handled) + 1
<1>1. /\ s \in WatcherStates /\ WatcherType(s) /\ WatcherInv(s, H) /\ KeptWatcher(s, H)
      /\ s.pc = "lookup" /\ s.pending # {}
  BY OfOne DEF KeptInv, Lookup, IsAt, WatcherInv
<1>2. /\ UNCHANGED serverVars
      /\ box' = box /\ gone' = gone /\ UIDs' = UIDs /\ watcher \in [Watchers -> WatcherStates]
      /\ handled \in Seq(Entries)
  BY TypeByWatcher DEF Lookup, serverVars, UIDs, IInv
<1>3. uid \in s.pending /\ uid \in UIDs
  <2>1. s.pending \in SUBSET Nat
    BY <1>1 DEF WatcherStates
  <2>2. uid \in s.pending
    BY <1>1, <2>1, MinIsLeast
  <2> QED
    BY <1>1, <2>2 DEF WatcherType
<1>4. Update(w, IF rest.pending = {} THEN EndPoll(rest) ELSE rest)
  BY DEF Lookup
<1> HIDE DEF uid
<1>5. PICK folder \in FolderAnswers(w, uid) :
        handled' = Append(handled, [by |-> w, uid |-> uid, folder |-> folder])
  BY DEF Lookup, uid
<1>6. [by |-> w, uid |-> uid, folder |-> folder] \in Entries
  BY <1>3, AnswersAreFolders DEF IInv, Entries
<1>7. /\ handled' \in Seq(Entries) /\ DOMAIN handled' = DOMAIN handled \cup {n}
      /\ n \notin DOMAIN handled
      /\ \A i \in DOMAIN handled : handled'[i] = handled[i]
      /\ handled'[n] = [by |-> w, uid |-> uid, folder |-> folder]
  BY <1>2, <1>5, <1>6
<1> HIDE DEF n
<1>8. /\ HandledBy(w)' = H \cup {uid}
      /\ \A v \in Watchers \ {w} : HandledBy(v)' = HandledBy(v)
  BY <1>7 DEF HandledBy
<1>9. SeenSuffices => uid \notin H /\ IdOf(uid) \in s.seen
  BY <1>1, <1>3 DEF KeptWatcher, SeenGuards
<1>10. /\ rest.pending = s.pending \ {uid} /\ rest.pc = s.pc /\ rest.seed = s.seed
       /\ rest.highUID = s.highUID /\ rest.lastUIDNext = s.lastUIDNext
       /\ rest.found = s.found /\ rest.seen = s.seen
  BY <1>1 DEF WatcherStates
<1>11. rest \in WatcherStates
  <2>1. s.pending \ {uid} \in SUBSET Nat
    BY <1>1 DEF WatcherStates
  <2> QED
    BY <1>1, <2>1 DEF WatcherStates
<1> HIDE DEF rest
<1>12. KeptWatcher(rest, H \cup {uid})
  <2>1. SinceSeed(rest)
    BY <1>1, <1>10 DEF KeptWatcher, SinceSeed, OnLine
  <2>2. SeenSuffices => SeenGuards(rest, H \cup {uid})
    BY <1>1, <1>9, <1>10 DEF KeptWatcher, SeenGuards, OnLine
  <2> QED
    BY <1>1, <1>10, <2>1, <2>2 DEF KeptWatcher
<1>13. PICK t : Update(w, t) /\ KeptWatcher(t, H \cup {uid})
  <2>1. CASE rest.pending = {}
    <3>1. KeptWatcher(EndPoll(rest), H \cup {uid})
      BY <1>1, <1>10, <1>11, <1>12, <2>1, EndPollKept DEF OnLine
    <3> QED
      BY <1>4, <2>1, <3>1
  <2>2. CASE rest.pending # {}
    BY <1>4, <1>12, <2>2
  <2> QED
    BY <2>1, <2>2
<1>14. watcher'[w] = t /\ \A v \in Watchers \ {w} : watcher'[v] = watcher[v]
  BY <1>2, <1>13 DEF Update
<1>15. ASSUME NEW v \in Watchers
       PROVE  KeptWatcher(watcher[v], HandledBy(v))'
  <2>1. KeptWatcher(watcher'[v], HandledBy(v)')
    BY <1>8, <1>13, <1>14 DEF KeptInv
  <2> QED
    BY <1>2, <2>1 DEF KeptWatcher, SinceSeed, SeenGuards, OnLine, IdOf
<1>16. SeenSuffices => HandledOnce'
  <2>1. SUFFICES ASSUME SeenSuffices, NEW i \in DOMAIN handled',
                        NEW j \in DOMAIN handled', i # j,
                        handled'[i].uid = handled'[j].uid, handled'[i].by = handled'[j].by
                 PROVE  FALSE
    BY DEF HandledOnce
  <2>2. \A k \in DOMAIN handled : handled[k].by = w => handled[k].uid # uid
    BY <1>9, <2>1 DEF HandledBy
  <2>3. handled'[n].uid = uid /\ handled'[n].by = w
    BY <1>7
  <2>4. i # n /\ j # n
    BY <1>7, <2>1, <2>2, <2>3
  <2> QED
    BY <1>7, <2>1, <2>4 DEF KeptInv, HandledOnce
<1> QED
  BY <1>2, <1>15, <1>16 DEF KeptInv, SeenSuffices

\* Every step preserves it, when nothing is expunged.
LEMMA KeptNext ==
    ASSUME ~Expunging, IInv, KeptInv, [Next]_vars
    PROVE  KeptInv'
<1>1. ASSUME NEW m \in Messages, Arrives(m)
      PROVE  KeptInv'
  BY <1>1, ArrivesKept
<1>2. ASSUME NEW uid \in UIDs, Expunge(uid)
      PROVE  FALSE
  BY <1>2 DEF Expunge
<1>3. ASSUME NEW w \in Watchers, StartWatcher(w) \/ Returns(w) \/ SeesStop(w)
      PROVE  KeptInv'
  BY <1>3, RestKept DEF SeesStop
<1>4. ASSUME NEW w \in Watchers, StopWatcher(w)
      PROVE  KeptInv'
  BY <1>4, StopKept
<1>5. ASSUME NEW w \in Watchers, ConnectAndWatch(w) \/ Poll(w) \/ Search(w) \/ Fetch(w) \/ Lookup(w)
      PROVE  KeptInv'
  BY <1>5, ConnectKept, PollKept, SearchKept, FetchKept, LookupKept
<1>6. CASE UNCHANGED vars
  BY <1>6 DEF vars, KeptInv, KeptWatcher, SinceSeed, SeenGuards, OnLine, HandledOnce,
              HandledBy, IdOf, SeenSuffices, UIDs
<1> QED
  BY <1>1, <1>2, <1>3, <1>4, <1>5, <1>6 DEF Next, WatcherStep

\* When all watchers are gone at once, as in a crash, both invariants hold of what
\* is left: the mailbox and the record of what was looked up.
LEMMA AllAtRest ==
    ASSUME IInv, KeptInv, watcher' \in [Watchers -> WatcherStates],
           \A w \in Watchers : AtRest(watcher'[w]),
           UNCHANGED <<serverVars, handled>>
    PROVE  IInv' /\ KeptInv'
<1>1. /\ box' = box /\ gone' = gone /\ handled' = handled /\ UIDs' = UIDs
      /\ uidNext' = uidNext /\ Present' = Present /\ Entries' = Entries
      /\ \A v : HandledBy(v)' = HandledBy(v)
  BY HandledBySame DEF serverVars, UIDs, uidNext, Present, Entries
<1>2. ASSUME NEW w \in Watchers
      PROVE  /\ WatcherType(watcher[w])'
             /\ WatcherInv(watcher[w], HandledBy(w))'
             /\ KeptWatcher(watcher[w], HandledBy(w))'
  <2>1. PICK s : s = watcher'[w]
    OBVIOUS
  <2>2. WatcherType(s) /\ WatcherInv(s, HandledBy(w)) /\ KeptWatcher(s, HandledBy(w))
    BY <2>1, AtRestInv, AtRestKept DEF IInv
  <2>3. WatcherType(watcher[w])'
    BY <1>1, <2>1, <2>2 DEF WatcherType
  <2>4. WatcherInv(watcher[w], HandledBy(w))'
    BY <1>1, <2>1, <2>2 DEF WatcherInv, Accounted, Below, IdOf
  <2>5. KeptWatcher(watcher[w], HandledBy(w))'
    BY <1>1, <2>1, <2>2 DEF KeptWatcher, SinceSeed, SeenGuards, OnLine, IdOf
  <2> QED
    BY <2>3, <2>4, <2>5
<1>3. TypeOK'
  BY <1>1, <1>2, TypeByWatcher, TypeByWatcherNext DEF IInv
<1>4. (SeenSuffices => HandledOnce)'
  BY <1>1 DEF KeptInv, HandledOnce, SeenSuffices
<1> QED
  BY <1>1, <1>2, <1>3, <1>4 DEF IInv, KeptInv

-----------------------------------------------------------------------------
\* The invariant holds in every state, when nothing is expunged.
THEOREM KeptInvariance ==
    ASSUME ~Expunging
    PROVE  Spec => [](IInv /\ KeptInv)
<1>1. Init => IInv /\ KeptInv
  BY InitInv, KeptInit
<1>2. IInv /\ KeptInv /\ [Next]_vars => (IInv /\ KeptInv)'
  BY NextInv, KeptNext
<1> QED
  BY <1>1, <1>2, PTL DEF Spec

\* Of a mailbox from which nothing is expunged, a watcher only looks at what was
\* delivered after its connection began, though n:* may find an older message.
THEOREM OnlyNewIfKept ==
    ASSUME ~Expunging
    PROVE  Spec => []OnlyNewMail
<1>1. KeptInv => OnlyNewMail
  BY DEF KeptInv, KeptWatcher, SinceSeed, OnlyNewMail
<1> QED
  BY <1>1, KeptInvariance, PTL

\* It looks up no message twice, if seen has room for all Message-IDs.
THEOREM OnceIfKept ==
    ASSUME ~Expunging, SeenSuffices
    PROVE  Spec => []HandledOnce
<1>1. KeptInv => HandledOnce
  BY DEF KeptInv
<1> QED
  BY <1>1, KeptInvariance, PTL
=============================================================================
