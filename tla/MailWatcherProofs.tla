------------------------- MODULE MailWatcherProofs -------------------------
(* MailWatcher keeps to its types, and no message slips below highUID.     *)
EXTENDS MailWatcher, WellFoundedInduction, TLAPS

-----------------------------------------------------------------------------
(* Max and Min of what they are taken of.                                  *)

\* A set of natural numbers that is not empty has a least member.
LEMMA LeastExists ==
    ASSUME NEW S \in SUBSET Nat, S # {}
    PROVE  \E x \in S : \A y \in S : x <= y
<1>1. PICK x \in S : \A y \in S : ~(<<y, x>> \in OpToRel(<, Nat))
  BY NatLessThanWellFounded, WFMin
<1>2. \A y \in S : ~(y < x)
  BY <1>1 DEF OpToRel
<1> QED
  BY <1>2

\* One with a bound has a greatest.
LEMMA GreatestExists ==
    ASSUME NEW n \in Nat, NEW S \in SUBSET (0..n), S # {}
    PROVE  \E x \in S : \A y \in S : x >= y
<1> DEFINE T == {i \in Nat : \A y \in S : i >= y}
<1>1. T \subseteq Nat /\ T # {}
  <2>1. n \in T
    OBVIOUS
  <2> QED
    BY <2>1
<1>2. PICK x \in T : \A y \in T : x <= y
  BY <1>1, LeastExists
<1>3. x \in S
  <2>1. PICK z \in S : TRUE
    OBVIOUS
  <2>2. SUFFICES ASSUME x \notin S
                 PROVE  FALSE
    OBVIOUS
  <2>3. \A y \in S : x > y
    BY <2>2
  <2>4. x - 1 \in T
    BY <2>1, <2>3
  <2> QED
    BY <2>4, <1>2
<1> QED
  BY <1>2, <1>3

\* Min is the least member.
LEMMA MinIsLeast ==
    ASSUME NEW S \in SUBSET Nat, S # {}
    PROVE  Min(S) \in S /\ \A y \in S : Min(S) <= y
BY LeastExists DEF Min

\* Max is the greatest.
LEMMA MaxIsGreatest ==
    ASSUME NEW n \in Nat, NEW S \in SUBSET (0..n), S # {}
    PROVE  Max(S) \in S /\ \A y \in S : Max(S) >= y
BY GreatestExists DEF Max

\* What EndPoll raises highUID to.
LEMMA MaxOfTwo ==
    ASSUME NEW i \in Int, NEW j \in Int
    PROVE  Max({i, j}) = IF i >= j THEN i ELSE j
<1>1. CASE i >= j
  <2>1. \A x \in {i, j} : (\A y \in {i, j} : x >= y) <=> x = i
    BY <1>1
  <2> QED
    BY <1>1, <2>1 DEF Max
<1>2. CASE ~(i >= j)
  <2>1. \A x \in {i, j} : (\A y \in {i, j} : x >= y) <=> x = j
    BY <1>2
  <2> QED
    BY <1>2, <2>1 DEF Max
<1> QED
  BY <1>1, <1>2

-----------------------------------------------------------------------------
(* The inductive invariant.                                                *)

Entries == [by : Watchers, uid : UIDs, folder : FolderNames]

\* The conjuncts of TypeOK on the state s of one watcher.
WatcherType(s) ==
    /\ s \in WatcherStates
    /\ s.seed \in 0..Len(box)
    /\ s.highUID \in 0..Len(box)
    /\ s.lastUIDNext \in 0..uidNext
    /\ s.found \subseteq UIDs
    /\ s.pending \subseteq UIDs
    /\ s.missed \subseteq UIDs

\* A watcher that has handled H has looked up a message with this Message-ID, is
\* about to, or missed it.
Accounted(s, H, id) == \E k \in H \cup s.missed \cup s.pending : IdOf(k) = id

\* The UIDs at which a poll that has ended would put the high-water mark, or that
\* were below it before.
Below(s, uid) ==
    /\ s.seed < uid
    /\ uid <= s.highUID \/ (s.pc \in {"fetch", "lookup"} /\ uid < s.lastUIDNext)

WatcherInv(s, H) ==
    /\ s.pc # "fetch" => s.found = {}
    /\ s.pc = "lookup" <=> s.pending # {}
    /\ \A uid \in Present : Below(s, uid) => uid \in s.found \/ Accounted(s, H, IdOf(uid))
    /\ \A id \in s.seen : Accounted(s, H, id)

IInv == TypeOK /\ \A w \in Watchers : WatcherInv(watcher[w], HandledBy(w))

\* TypeOK, watcher by watcher.
LEMMA TypeByWatcher ==
    TypeOK <=> /\ box \in Seq(Messages)
               /\ gone \subseteq UIDs
               /\ watcher \in [Watchers -> WatcherStates]
               /\ \A w \in Watchers : WatcherType(watcher[w])
               /\ handled \in Seq(Entries)
BY DEF TypeOK, WatcherType, Entries

\* The same in the next state.
LEMMA TypeByWatcherNext ==
    TypeOK' <=> /\ box' \in Seq(Messages)
                /\ gone' \subseteq UIDs'
                /\ watcher' \in [Watchers -> WatcherStates]
                /\ \A w \in Watchers : WatcherType(watcher[w])'
                /\ handled' \in Seq(Entries')
BY DEF TypeOK, WatcherType, Entries

\* What was handled are UIDs.
LEMMA HandledAreUIDs ==
    ASSUME TypeOK, NEW w \in Watchers
    PROVE  HandledBy(w) \subseteq UIDs
<1>1. handled \in Seq(Entries)
  BY TypeByWatcher
<1>2. \A i \in DOMAIN handled : handled[i] \in Entries
  BY <1>1
<1>3. \A entry \in Entries : entry.uid \in UIDs
  BY DEF Entries
<1> QED
  BY <1>2, <1>3 DEF HandledBy

\* A step of one watcher, which may look a message up, preserves the invariant when
\* its new state satisfies what it says of a watcher.
LEMMA UpdateInv ==
    ASSUME IInv, NEW w \in Watchers, NEW s,
           WatcherType(s), WatcherInv(s, HandledBy(w)'),
           Update(w, s), UNCHANGED serverVars,
           handled' \in Seq(Entries),
           \A v \in Watchers : HandledBy(v) \subseteq HandledBy(v)'
    PROVE  IInv'
<1>1. box' = box /\ gone' = gone /\ UIDs' = UIDs /\ Present' = Present /\ uidNext' = uidNext
  BY DEF serverVars, UIDs, Present, uidNext
<1>2. watcher \in [Watchers -> WatcherStates] /\ s \in WatcherStates
  BY TypeByWatcher DEF IInv, WatcherType
<1>3. /\ watcher' \in [Watchers -> WatcherStates]
      /\ watcher'[w] = s
      /\ \A v \in Watchers \ {w} : watcher'[v] = watcher[v]
  BY <1>2 DEF Update
<1>4. \A v \in Watchers : WatcherType(watcher[v])'
  <2>1. \A v \in Watchers : WatcherType(watcher'[v])
    BY <1>3, TypeByWatcher DEF IInv
  <2> QED
    BY <2>1, <1>1 DEF WatcherType
<1>5. TypeOK'
  <2>1. Entries' = Entries
    BY <1>1 DEF Entries
  <2> QED
    BY <1>1, <1>3, <1>4, <2>1, TypeByWatcher, TypeByWatcherNext DEF IInv
<1>6. ASSUME NEW v \in Watchers
      PROVE  WatcherInv(watcher[v], HandledBy(v))'
  <2>1. WatcherInv(watcher'[v], HandledBy(v)')
    <3>1. CASE v = w
      BY <1>3, <3>1
    <3>2. CASE v # w
      <4>1. \A id : Accounted(watcher[v], HandledBy(v), id)
                      => Accounted(watcher[v], HandledBy(v)', id)
        BY DEF Accounted
      <4> QED
        BY <1>3, <3>2, <4>1 DEF IInv, WatcherInv
    <3> QED
      BY <3>1, <3>2
  <2>2. \A uid : IdOf(uid)' = MessageID[box[uid]]
    BY <1>1 DEF IdOf
  <2> QED
    BY <1>1, <2>1 DEF WatcherInv, Accounted, Below, IdOf
<1> QED
  BY <1>5, <1>6 DEF IInv

\* One that looks nothing up.
LEMMA QuietUpdateInv ==
    ASSUME IInv, NEW w \in Watchers, NEW s,
           WatcherType(s), WatcherInv(s, HandledBy(w)),
           Update(w, s), UNCHANGED <<serverVars, handled>>
    PROVE  IInv'
<1>1. handled' \in Seq(Entries) /\ \A v \in Watchers : HandledBy(v)' = HandledBy(v)
  BY TypeByWatcher DEF IInv, HandledBy
<1> QED
  BY <1>1, UpdateInv

\* What the invariant says of one watcher.
LEMMA OfOne ==
    ASSUME IInv, NEW w \in Watchers
    PROVE  /\ WatcherType(watcher[w]) /\ WatcherInv(watcher[w], HandledBy(w))
           /\ watcher[w] \in WatcherStates
           /\ box \in Seq(Messages) /\ Len(box) \in Nat
BY TypeByWatcher DEF IInv, WatcherType

\* The state in which a poll ends: nothing is left to look up, and everything that
\* highUID will be raised over is accounted for.
LEMMA EndPollInv ==
    ASSUME TypeOK, NEW s, NEW H, WatcherType(s), s.pending = {},
           \A uid \in Present :
               s.seed < uid /\ (uid <= s.highUID \/ uid < s.lastUIDNext)
                   => Accounted(s, H, IdOf(uid)),
           \A id \in s.seen : Accounted(s, H, id)
    PROVE  WatcherType(EndPoll(s)) /\ WatcherInv(EndPoll(s), H)
<1> DEFINE e == EndPoll(s)
<1>1. Len(box) \in Nat /\ Present \subseteq UIDs /\ UIDs \subseteq 1..Len(box)
  BY DEF TypeOK, UIDs, Present
<1>2. /\ s \in WatcherStates /\ s.highUID \in 0..Len(box)
      /\ s.lastUIDNext \in 0..Len(box) + 1
  BY DEF WatcherType, uidNext
<1>3. e.highUID = IF s.highUID >= s.lastUIDNext - 1 THEN s.highUID ELSE s.lastUIDNext - 1
  <2>1. e.highUID = Max({s.highUID, s.lastUIDNext - 1})
    BY <1>2 DEF EndPoll, WatcherStates
  <2>2. s.highUID \in Int /\ s.lastUIDNext - 1 \in Int
    BY <1>1, <1>2
  <2> QED
    BY <2>1, <2>2, MaxOfTwo
<1>4. e.highUID \in 0..Len(box)
  BY <1>1, <1>2, <1>3
<1>5. /\ e.pc = "poll" /\ e.found = {} /\ e.pending = {} /\ e.missed = s.missed
      /\ e.seed = s.seed /\ e.lastUIDNext = s.lastUIDNext
      /\ e.stop = s.stop /\ e.conn = FALSE /\ e.seen \subseteq s.seen
  BY <1>2 DEF EndPoll, WatcherStates
<1>6. e.highUID \in Nat
  BY <1>1, <1>4
<1>7. e \in WatcherStates
  BY <1>2, <1>5, <1>6 DEF EndPoll, WatcherStates, WatcherPcs
<1>8. WatcherType(e)
  BY <1>4, <1>5, <1>7 DEF WatcherType
<1>9. \A id : Accounted(e, H, id) <=> Accounted(s, H, id)
  BY <1>5 DEF Accounted
<1>10. \A uid \in Present : Below(e, uid) => Accounted(e, H, IdOf(uid))
  <2>1. SUFFICES ASSUME NEW uid \in Present, Below(e, uid)
                 PROVE  Accounted(s, H, IdOf(uid))
    BY <1>9
  <2>2. uid \in Nat
    BY <1>1
  <2>3. s.seed < uid /\ uid <= e.highUID
    BY <2>1, <1>5 DEF Below
  <2>4. uid <= s.highUID \/ uid < s.lastUIDNext
    BY <2>2, <2>3, <1>1, <1>2, <1>3
  <2> QED
    BY <2>3, <2>4
<1> QED
  BY <1>5, <1>8, <1>9, <1>10 DEF WatcherInv

\* Of what was fetched, each message that is not among the fresh ones has the
\* Message-ID of one that is, or of one seen before.
LEMMA FreshCovers ==
    ASSUME NEW uids \in SUBSET Nat, NEW seen, NEW u \in uids
    PROVE  IdOf(u) \in seen \/ \E v \in Fresh(uids, seen) : IdOf(v) = IdOf(u)
<1> DEFINE same == {v \in uids : IdOf(v) = IdOf(u)}
<1>1. same \in SUBSET Nat /\ same # {}
  OBVIOUS
<1>2. PICK v \in same : \A x \in same : v <= x
  BY <1>1, LeastExists
<1>3. \A x \in uids : x < v => IdOf(x) # IdOf(v)
  BY <1>1, <1>2
<1> QED
  BY <1>2, <1>3 DEF Fresh

-----------------------------------------------------------------------------
(* Each step preserves it.                                                 *)

\* It holds at the start.
LEMMA InitInv == Init => IInv
<1> SUFFICES ASSUME Init
             PROVE  IInv
  OBVIOUS
<1>1. box \in Seq(Messages) /\ gone \subseteq UIDs /\ handled \in Seq(Entries)
  BY WatcherAssumption DEF Init
<1>2. Len(box) \in Nat
  BY <1>1
<1>3. NoWatcher \in WatcherStates
  BY DEF NoWatcher, WatcherStates, WatcherPcs
<1>4. WatcherType(NoWatcher)
  BY <1>2, <1>3 DEF WatcherType, NoWatcher, uidNext
<1>5. \A H : WatcherInv(NoWatcher, H)
  BY <1>2 DEF WatcherInv, NoWatcher, Below, Present, UIDs
<1>6. TypeOK
  BY <1>1, <1>3, <1>4, TypeByWatcher DEF Init
<1> QED
  BY <1>5, <1>6 DEF Init, IInv

\* The state of a watcher that has no connection.
AtRest(s) ==
    /\ s.pc \in {"none", "retry"}
    /\ s.stop \in BOOLEAN
    /\ s = [NoWatcher EXCEPT !.pc = s.pc, !.stop = s.stop]

\* It knows nothing, and satisfies the invariant.
LEMMA AtRestInv ==
    ASSUME TypeOK, NEW H, NEW s, AtRest(s)
    PROVE  WatcherType(s) /\ WatcherInv(s, H)
<1>1. Len(box) \in Nat /\ Present \subseteq 1..Len(box)
  BY DEF TypeOK, Present, UIDs
<1>2. s = [pc |-> s.pc, stop |-> s.stop, seed |-> 0, highUID |-> 0, lastUIDNext |-> 0,
           found |-> {}, seen |-> {}, pending |-> {}, conn |-> FALSE, missed |-> {}]
  BY Zenon DEF AtRest, NoWatcher
<1>3. s \in WatcherStates
  <2>1. NoWatcher \in WatcherStates
    BY DEF NoWatcher, WatcherStates, WatcherPcs
  <2>2. s.pc \in WatcherPcs /\ s.stop \in BOOLEAN
    BY DEF AtRest, WatcherPcs
  <2>3. s = [NoWatcher EXCEPT !.pc = s.pc, !.stop = s.stop]
    BY DEF AtRest
  <2> QED
    BY <2>1, <2>2, <2>3 DEF WatcherStates
<1>4. WatcherType(s)
  BY <1>1, <1>2, <1>3 DEF WatcherType, uidNext
<1>5. s.pc \in {"none", "retry"}
  BY DEF AtRest
<1>6. WatcherInv(s, H)
  BY <1>1, <1>2, <1>5 DEF WatcherInv, Below
<1> QED
  BY <1>4, <1>6

\* A new message is beyond every high-water mark.
LEMMA ArrivesInv ==
    ASSUME IInv, NEW m \in Messages, Arrives(m)
    PROVE  IInv'
<1>1. /\ box \in Seq(Messages) /\ Len(box) \in Nat /\ gone \subseteq UIDs
      /\ watcher \in [Watchers -> WatcherStates] /\ handled \in Seq(Entries)
      /\ UIDs = 1..Len(box)
  BY TypeByWatcher DEF IInv, UIDs
<1>2. /\ box' = Append(box, m) /\ box' \in Seq(Messages) /\ Len(box') = Len(box) + 1
      /\ gone' = gone /\ watcher' = watcher /\ handled' = handled
  BY <1>1 DEF Arrives
<1>3. UIDs \subseteq UIDs' /\ UIDs' = UIDs \cup {Len(box) + 1}
  BY <1>1, <1>2 DEF UIDs
<1>4. Present' = Present \cup {Len(box) + 1} /\ Present \subseteq UIDs
  BY <1>1, <1>2, <1>3 DEF Present
<1>5. \A uid \in UIDs : IdOf(uid)' = IdOf(uid)
  BY <1>1, <1>2 DEF IdOf
<1>6. TypeOK'
  <2>1. handled' \in Seq(Entries')
    <3>1. Entries \subseteq Entries'
      BY <1>3 DEF Entries
    <3> QED
      BY <1>1, <1>2, <3>1
  <2>2. \A w \in Watchers : WatcherType(watcher[w])'
    <3>1. uidNext' = uidNext + 1 /\ uidNext \in Nat
      BY <1>1, <1>2 DEF uidNext
    <3>2. 0..Len(box) \subseteq 0..Len(box') /\ 0..uidNext \subseteq 0..uidNext'
      BY <1>1, <1>2, <3>1
    <3>3. SUFFICES ASSUME NEW w \in Watchers
                   PROVE  WatcherType(watcher[w])'
      OBVIOUS
    <3>4. WatcherType(watcher[w])
      BY OfOne
    <3> QED
      BY <3>2, <3>4, <1>2, <1>3 DEF WatcherType
  <2> QED
    BY <1>1, <1>2, <1>3, <2>1, <2>2, TypeByWatcherNext
<1>7. ASSUME NEW w \in Watchers
      PROVE  WatcherInv(watcher[w], HandledBy(w))'
  <2> DEFINE s == watcher[w]
             H == HandledBy(w)
  <2>1. WatcherType(s) /\ WatcherInv(s, H)
    BY OfOne
  <2>2. H \subseteq UIDs /\ H' = H /\ s' = s
    BY <1>2, HandledAreUIDs DEF IInv, HandledBy
  <2>3. \A id : Accounted(s, H, id) => Accounted(s, H, id)'
    BY <1>2, <1>5, <2>1, <2>2 DEF Accounted, WatcherType
  <2>4. \A uid \in Present : Below(s, uid)' <=> Below(s, uid)
    BY <2>2 DEF Below
  <2>5. ~Below(s, Len(box) + 1)
    BY <2>1, <1>1 DEF Below, WatcherType, uidNext
  <2>6. \A uid \in Present' : Below(s, uid)'
            => uid \in s'.found \/ Accounted(s, H, IdOf(uid))'
    <3>1. SUFFICES ASSUME NEW uid \in Present', Below(s, uid)'
                   PROVE  uid \in s'.found \/ Accounted(s, H, IdOf(uid))'
      OBVIOUS
    <3>2. uid \in Present /\ Below(s, uid)
      BY <1>4, <2>2, <2>5, <3>1 DEF Below
    <3>3. IdOf(uid)' = IdOf(uid)
      BY <1>4, <1>5, <3>2
    <3>4. uid \in s.found \/ Accounted(s, H, IdOf(uid))
      BY <2>1, <3>2 DEF WatcherInv
    <3>5. Accounted(s, H, IdOf(uid)) => Accounted(s, H, IdOf(uid))'
      <4>1. PICK id : id = IdOf(uid)
        OBVIOUS
      <4> QED
        BY <1>2, <1>4, <1>5, <2>1, <2>2, <3>2, <3>3 DEF Accounted, WatcherType
    <3> QED
      BY <2>2, <3>4, <3>5
  <2>7. \A id \in s'.seen : Accounted(s, H, id)'
    BY <2>1, <2>2, <2>3 DEF WatcherInv
  <2> QED
    BY <2>1, <2>2, <2>6, <2>7 DEF WatcherInv
<1> QED
  BY <1>6, <1>7 DEF IInv

\* A purge leaves less to be accounted for.
LEMMA ExpungeInv ==
    ASSUME IInv, NEW uid \in UIDs, Expunge(uid)
    PROVE  IInv'
<1>1. /\ box' = box /\ watcher' = watcher /\ handled' = handled
      /\ gone' = gone \cup {uid} /\ UIDs' = UIDs /\ uidNext' = uidNext
  BY DEF Expunge, UIDs, uidNext
<1>2. Present' \subseteq Present
  BY <1>1 DEF Present
<1>3. TypeOK'
  <2>1. gone' \subseteq UIDs'
    BY <1>1 DEF IInv, TypeOK
  <2> QED
    BY <1>1, <2>1 DEF IInv, TypeOK
<1>4. \A k : IdOf(k)' = IdOf(k)
  BY <1>1 DEF IdOf
<1>5. ASSUME NEW w \in Watchers
      PROVE  WatcherInv(watcher[w], HandledBy(w))'
  <2>1. WatcherInv(watcher[w], HandledBy(w))
    BY OfOne
  <2>2. watcher[w]' = watcher[w] /\ HandledBy(w)' = HandledBy(w)
    BY <1>1 DEF HandledBy
  <2> QED
    BY <1>1, <1>2, <1>4, <2>1, <2>2 DEF WatcherInv, Accounted, Below, IdOf
<1> QED
  BY <1>3, <1>5 DEF IInv

\* A watcher that starts, ends or loses its connection knows nothing.
LEMMA RestInv ==
    ASSUME IInv, NEW w \in Watchers, StartWatcher(w) \/ Returns(w) \/
               (Disconnected(w) /\ UNCHANGED <<serverVars, handled>>)
    PROVE  IInv'
<1>1. watcher[w] \in WatcherStates
  BY OfOne
<1>2. PICK s : Update(w, s) /\ AtRest(s)
  <2>1. CASE StartWatcher(w)
    BY <2>1 DEF StartWatcher, AtRest, NoWatcher
  <2>2. CASE Returns(w)
    BY <2>2 DEF Returns, AtRest, NoWatcher
  <2>3. CASE Disconnected(w)
    <3>1. watcher[w].stop \in BOOLEAN
      BY <1>1 DEF WatcherStates
    <3> QED
      BY <2>3, <3>1 DEF Disconnected, AtRest, NoWatcher
  <2> QED
    BY <2>1, <2>2, <2>3
<1>3. UNCHANGED <<serverVars, handled>>
  BY DEF StartWatcher, Returns
<1>4. WatcherType(s) /\ WatcherInv(s, HandledBy(w))
  BY <1>2, AtRestInv DEF IInv
<1> QED
  BY <1>2, <1>3, <1>4, QuietUpdateInv

\* To be told to stop changes nothing but that.
LEMMA StopWatcherInv ==
    ASSUME IInv, NEW w \in Watchers, StopWatcher(w)
    PROVE  IInv'
<1> DEFINE s == watcher[w]
           t == [s EXCEPT !.stop = TRUE]
<1>1. WatcherType(s) /\ WatcherInv(s, HandledBy(w)) /\ s \in WatcherStates
  BY OfOne
<1>2. t \in WatcherStates
  BY <1>1 DEF WatcherStates
<1>3. /\ t.pc = s.pc /\ t.seed = s.seed /\ t.highUID = s.highUID
      /\ t.lastUIDNext = s.lastUIDNext /\ t.found = s.found /\ t.seen = s.seen
      /\ t.pending = s.pending /\ t.missed = s.missed
  BY <1>1 DEF WatcherStates
<1>4. WatcherType(t)
  BY <1>1, <1>2, <1>3 DEF WatcherType
<1>5. WatcherInv(t, HandledBy(w))
  BY <1>1, <1>3 DEF WatcherInv, Accounted, Below
<1>6. Update(w, t) /\ UNCHANGED <<serverVars, handled>>
  BY DEF StopWatcher
<1> QED
  BY <1>4, <1>5, <1>6, QuietUpdateInv

\* A connection starts with nothing below its high-water mark.
LEMMA ConnectInv ==
    ASSUME IInv, NEW w \in Watchers, ConnectAndWatch(w)
    PROVE  IInv'
<1> DEFINE s == watcher[w]
           t == Connected(w)
<1>1. /\ WatcherType(s) /\ WatcherInv(s, HandledBy(w)) /\ s \in WatcherStates
      /\ Len(box) \in Nat /\ uidNext = Len(box) + 1
  BY OfOne DEF uidNext
<1>2. /\ t.pc = "poll" /\ t.seed = Len(box) /\ t.highUID = Len(box)
      /\ t.lastUIDNext = Len(box) + 1 /\ t.found = s.found /\ t.seen = s.seen
      /\ t.pending = s.pending /\ t.missed = s.missed
  BY <1>1 DEF Connected, WatcherStates
<1>3. t \in WatcherStates
  <2>1. uidNext \in Nat /\ uidNext - 1 \in Nat /\ "poll" \in WatcherPcs
    BY <1>1 DEF WatcherPcs
  <2> QED
    BY <1>1, <2>1 DEF Connected, WatcherStates
<1>4. s.pc = "retry" /\ Update(w, t) /\ UNCHANGED <<serverVars, handled>>
  BY DEF ConnectAndWatch, IsAt
<1>5. WatcherType(t)
  BY <1>1, <1>2, <1>3 DEF WatcherType
<1>6. WatcherInv(t, HandledBy(w))
  <2>1. s.found = {} /\ s.pending = {} /\ \A id \in s.seen : Accounted(s, HandledBy(w), id)
    BY <1>1, <1>4 DEF WatcherInv
  <2>2. \A uid \in Present : ~Below(t, uid)
    BY <1>1, <1>2 DEF Below, Present, UIDs
  <2>3. \A id : Accounted(t, HandledBy(w), id) <=> Accounted(s, HandledBy(w), id)
    BY <1>2 DEF Accounted
  <2> QED
    BY <1>2, <2>1, <2>2, <2>3 DEF WatcherInv
<1> QED
  BY <1>4, <1>5, <1>6, QuietUpdateInv

\* A poll that sees a new UIDNEXT has yet to search.
LEMMA PollInv ==
    ASSUME IInv, NEW w \in Watchers, Poll(w)
    PROVE  IInv'
<1> DEFINE s == watcher[w]
           t == [s EXCEPT !.pc = "search", !.lastUIDNext = uidNext]
<1>1. /\ WatcherType(s) /\ WatcherInv(s, HandledBy(w)) /\ s \in WatcherStates
      /\ Len(box) \in Nat /\ uidNext = Len(box) + 1
  BY OfOne DEF uidNext
<1>2. CASE Disconnected(w)
  BY <1>2, RestInv DEF Poll
<1>3. CASE Update(w, t)
  <2>1. /\ t.pc = "search" /\ t.seed = s.seed /\ t.highUID = s.highUID
        /\ t.lastUIDNext = uidNext /\ t.found = s.found /\ t.seen = s.seen
        /\ t.pending = s.pending /\ t.missed = s.missed /\ s.pc = "poll"
    BY <1>1 DEF WatcherStates, Poll, IsAt
  <2>2. t \in WatcherStates
    <3>1. uidNext \in Nat /\ "search" \in WatcherPcs
      BY <1>1 DEF WatcherPcs
    <3> QED
      BY <1>1, <3>1 DEF WatcherStates
  <2>3. WatcherType(t)
    BY <1>1, <2>1, <2>2 DEF WatcherType
  <2>4. WatcherInv(t, HandledBy(w))
    BY <1>1, <2>1 DEF WatcherInv, Accounted, Below
  <2> QED
    BY <1>3, <2>3, <2>4, QuietUpdateInv DEF Poll
<1> QED
  BY <1>2, <1>3 DEF Poll

\* What a search finds accounts for all that is there, and highUID with it.
LEMMA SearchInv ==
    ASSUME IInv, NEW w \in Watchers, Search(w)
    PROVE  IInv'
<1> DEFINE s == watcher[w]
           H == HandledBy(w)
           found == UidSearch(s.highUID + 1)
           t == [s EXCEPT !.pc = "fetch", !.found = found, !.highUID = Max(found \cup {@})]
<1>1. /\ WatcherType(s) /\ WatcherInv(s, H) /\ s \in WatcherStates
      /\ Len(box) \in Nat /\ Present \subseteq UIDs /\ UIDs = 1..Len(box)
  BY OfOne DEF Present, UIDs
<1>2. /\ s.pc = "search" /\ UNCHANGED <<serverVars, handled>> /\ s.found = {}
      /\ s.pending = {}
  BY <1>1 DEF Search, IsAt, WatcherInv
<1>3. found \subseteq Present /\ \A uid \in Present : s.highUID < uid => uid \in found
  <2>1. Present # {} => Max(Present) \in Present
    <3>1. Present \in SUBSET (0..Len(box))
      BY <1>1
    <3> QED
      BY <1>1, <3>1, MaxIsGreatest
  <2>2. s.highUID \in Nat /\ \A uid \in Present : uid \in Nat
    BY <1>1 DEF WatcherStates
  <2> QED
    BY <2>1, <2>2 DEF UidSearch
<1>4. CASE Disconnected(w)
  BY <1>2, <1>4, RestInv
<1>5. CASE found = {} /\ Update(w, EndPoll(s))
  <2>1. \A uid \in Present : uid <= s.highUID
    BY <1>1, <1>3, <1>5 DEF WatcherType
  <2>2. \A uid \in Present : s.seed < uid => Accounted(s, H, IdOf(uid))
    BY <1>1, <1>2, <2>1 DEF WatcherInv, Below
  <2>3. WatcherType(EndPoll(s)) /\ WatcherInv(EndPoll(s), H)
    BY <1>1, <1>2, <2>2, EndPollInv DEF IInv, WatcherInv
  <2> QED
    BY <1>2, <1>5, <2>3, QuietUpdateInv
<1>6. CASE found # {} /\ Update(w, t)
  <2>1. /\ t.pc = "fetch" /\ t.seed = s.seed /\ t.highUID = Max(found \cup {s.highUID})
        /\ t.lastUIDNext = s.lastUIDNext /\ t.found = found /\ t.seen = s.seen
        /\ t.pending = {} /\ t.missed = s.missed
    BY <1>1, <1>2 DEF WatcherStates
  <2>2. t.highUID \in 0..Len(box)
    <3>1. s.highUID \in 0..Len(box)
      BY <1>1 DEF WatcherType
    <3>2. found \subseteq 0..Len(box)
      <4>1. Present \subseteq 0..Len(box)
        BY <1>1
      <4> HIDE DEF found
      <4> QED
        BY <1>3, <4>1
    <3>3. found \cup {s.highUID} \in SUBSET (0..Len(box)) /\ found \cup {s.highUID} # {}
      BY <3>1, <3>2
    <3>4. Max(found \cup {s.highUID}) \in found \cup {s.highUID}
      BY <1>1, <3>3, MaxIsGreatest
    <3> QED
      BY <2>1, <3>3, <3>4
  <2>3. t \in WatcherStates
    <3>1. Max(found \cup {s.highUID}) \in Nat /\ "fetch" \in WatcherPcs /\ found \subseteq Nat
      BY <1>1, <1>3, <2>1, <2>2 DEF WatcherPcs
    <3> QED
      BY <1>1, <3>1 DEF WatcherStates
  <2>4. WatcherType(t)
    BY <1>1, <1>3, <2>1, <2>2, <2>3 DEF WatcherType
  <2>5. \A uid \in Present : Below(t, uid) => uid \in found \/ Accounted(t, H, IdOf(uid))
    <3>1. SUFFICES ASSUME NEW uid \in Present, s.seed < uid, uid \notin found
                   PROVE  Accounted(t, H, IdOf(uid))
      BY <2>1 DEF Below
    <3>2. uid <= s.highUID
      BY <1>1, <1>3, <3>1 DEF WatcherType
    <3> QED
      BY <1>1, <1>2, <2>1, <3>1, <3>2 DEF WatcherInv, Below, Accounted
  <2>6. WatcherInv(t, H)
    BY <1>1, <1>2, <2>1, <2>5 DEF WatcherInv, Accounted
  <2> QED
    BY <1>2, <1>6, <2>4, <2>6, QuietUpdateInv
<1> QED
  BY <1>4, <1>5, <1>6 DEF Search

\* Nor does a fetch lose any: a message is fresh, or one with its Message-ID is or
\* was, or it is written off as missed.
LEMMA FetchInv ==
    ASSUME IInv, NEW w \in Watchers, Fetch(w)
    PROVE  IInv'
<1> DEFINE s == watcher[w]
           H == HandledBy(w)
           uids == s.found \cap Present
           Seen(read) == [s EXCEPT !.seen = @ \cup {IdOf(u) : u \in read}]
           fresh == Fresh(uids, s.seen)
<1>1. /\ WatcherType(s) /\ WatcherInv(s, H) /\ s \in WatcherStates
      /\ box \in Seq(Messages) /\ Len(box) \in Nat /\ Present \subseteq UIDs /\ UIDs = 1..Len(box)
  BY OfOne DEF Present, UIDs
<1>2. s.pc = "fetch" /\ s.pending = {} /\ UNCHANGED <<serverVars, handled>>
  BY <1>1 DEF Fetch, IsAt, WatcherInv
<1>3. uids \subseteq UIDs /\ uids \in SUBSET Nat /\ fresh \subseteq uids
  <2>1. uids \subseteq UIDs
    BY <1>1
  <2>2. \A set, seen : Fresh(set, seen) \subseteq set
    BY DEF Fresh
  <2> QED
    BY <1>1, <2>1, <2>2
<1>4. \A u \in UIDs : IdOf(u) \in {MessageID[m] : m \in Messages}
  BY <1>1 DEF IdOf
<1>5. \A id \in s.seen : Accounted(s, H, id)
  BY <1>1 DEF WatcherInv
<1>6. \A uid \in Present :
        s.seed < uid /\ (uid <= s.highUID \/ uid < s.lastUIDNext)
            => uid \in uids \/ Accounted(s, H, IdOf(uid))
  BY <1>1, <1>2 DEF WatcherInv, Below
<1>7. ASSUME NEW read \in SUBSET uids
      PROVE  /\ Seen(read) \in WatcherStates /\ WatcherType(Seen(read))
             /\ Seen(read).seen = s.seen \cup {IdOf(u) : u \in read}
             /\ Seen(read).pc = s.pc /\ Seen(read).seed = s.seed
             /\ Seen(read).highUID = s.highUID /\ Seen(read).lastUIDNext = s.lastUIDNext
             /\ Seen(read).pending = s.pending /\ Seen(read).missed = s.missed
  <2>1. s.seen \cup {IdOf(u) : u \in read} \in SUBSET {MessageID[m] : m \in Messages}
    BY <1>1, <1>3, <1>4 DEF WatcherStates
  <2>2. Seen(read) \in WatcherStates
    BY <1>1, <2>1 DEF WatcherStates
  <2> QED
    BY <1>1, <2>2 DEF WatcherStates, WatcherType
<1>8. CASE fresh = {} /\ Update(w, EndPoll(s))
  <2>1. \A u \in uids : Accounted(s, H, IdOf(u))
    BY <1>3, <1>5, <1>8, FreshCovers
  <2>2. \A uid \in Present :
          s.seed < uid /\ (uid <= s.highUID \/ uid < s.lastUIDNext)
              => Accounted(s, H, IdOf(uid))
    BY <1>6, <2>1
  <2>3. WatcherType(EndPoll(s)) /\ WatcherInv(EndPoll(s), H)
    BY <1>1, <1>2, <1>5, <2>2, EndPollInv DEF IInv
  <2> QED
    BY <1>2, <1>8, <2>3, QuietUpdateInv
<1>9. ASSUME NEW conn \in BOOLEAN, fresh # {},
             Update(w, [Seen(uids) EXCEPT !.pc = "lookup", !.found = {},
                                          !.pending = fresh, !.conn = conn])
      PROVE  IInv'
  <2> DEFINE r == Seen(uids)
             t == [r EXCEPT !.pc = "lookup", !.found = {}, !.pending = fresh, !.conn = conn]
  <2>1. /\ r \in WatcherStates /\ WatcherType(r) /\ r.seen = s.seen \cup {IdOf(u) : u \in uids}
        /\ r.seed = s.seed /\ r.highUID = s.highUID /\ r.lastUIDNext = s.lastUIDNext
        /\ r.missed = s.missed
    BY <1>7
  <2> HIDE DEF r
  <2>2. /\ t.pc = "lookup" /\ t.found = {} /\ t.pending = fresh /\ t.seen = r.seen
        /\ t.seed = r.seed /\ t.highUID = r.highUID /\ t.lastUIDNext = r.lastUIDNext
        /\ t.missed = r.missed
    BY <2>1 DEF WatcherStates
  <2>3. t \in WatcherStates
    <3>1. "lookup" \in WatcherPcs /\ fresh \in SUBSET Nat
      BY <1>3 DEF WatcherPcs
    <3> QED
      BY <2>1, <3>1 DEF WatcherStates
  <2>4. WatcherType(t)
    BY <1>3, <2>1, <2>2, <2>3 DEF WatcherType
  <2>5. \A id : Accounted(s, H, id) => Accounted(t, H, id)
    BY <1>2, <2>1, <2>2 DEF Accounted
  <2>6. \A v \in fresh : Accounted(t, H, IdOf(v))
    BY <2>2 DEF Accounted
  <2>7. \A u \in uids : Accounted(t, H, IdOf(u))
    BY <1>3, <1>5, <2>5, <2>6, FreshCovers
  <2>8. \A id \in t.seen : Accounted(t, H, id)
    BY <1>5, <2>1, <2>2, <2>5, <2>7
  <2>9. \A uid \in Present : Below(t, uid) => Accounted(t, H, IdOf(uid))
    BY <1>6, <2>1, <2>2, <2>5, <2>7 DEF Below
  <2>10. WatcherInv(t, H)
    BY <1>9, <2>2, <2>8, <2>9 DEF WatcherInv
  <2>11. Update(w, t)
    BY <1>9 DEF r
  <2> QED
    BY <1>2, <2>4, <2>10, <2>11, QuietUpdateInv
<1>10. ASSUME NEW n \in 0..Len(box),
              Update(w, [EndPoll(Seen({u \in uids : u <= n})) EXCEPT !.missed = @ \cup uids])
       PROVE  IInv'
  <2> DEFINE r == Seen({u \in uids : u <= n})
             q == [r EXCEPT !.missed = @ \cup uids]
             t == [EndPoll(r) EXCEPT !.missed = @ \cup uids]
  <2>1. /\ r \in WatcherStates /\ WatcherType(r)
        /\ r.seen = s.seen \cup {IdOf(u) : u \in {v \in uids : v <= n}}
        /\ r.seed = s.seed /\ r.highUID = s.highUID /\ r.lastUIDNext = s.lastUIDNext
        /\ r.pending = {} /\ r.missed = s.missed
    BY <1>2, <1>7
  <2>2. Update(w, t)
    BY <1>10
  <2> HIDE DEF r
  <2>3. /\ q.seen = r.seen /\ q.seed = s.seed /\ q.highUID = s.highUID
        /\ q.lastUIDNext = s.lastUIDNext /\ q.pending = {} /\ q.missed = s.missed \cup uids
        /\ q.found = r.found
    BY <2>1 DEF WatcherStates
  <2>4. q \in WatcherStates
    <3>1. r.missed \cup uids \in SUBSET Nat
      BY <1>3, <2>1 DEF WatcherStates
    <3> QED
      BY <2>1, <3>1 DEF WatcherStates
  <2>5. WatcherType(q)
    BY <1>3, <2>1, <2>3, <2>4 DEF WatcherType
  <2>6. t = EndPoll(q)
    BY <2>1 DEF EndPoll, WatcherStates
  <2>7. \A id : Accounted(s, H, id) => Accounted(q, H, id)
    BY <1>2, <2>3 DEF Accounted
  <2>8. \A u \in uids : Accounted(q, H, IdOf(u))
    BY <2>3 DEF Accounted
  <2> HIDE DEF q
  <2>9. \A id \in q.seen : Accounted(q, H, id)
    <3>1. \A id \in q.seen : id \in s.seen \/ \E u \in uids : id = IdOf(u)
      BY <2>1, <2>3
    <3> QED
      BY <1>5, <2>7, <2>8, <3>1
  <2>10. \A uid \in Present :
           q.seed < uid /\ (uid <= q.highUID \/ uid < q.lastUIDNext)
               => Accounted(q, H, IdOf(uid))
    BY <1>6, <2>3, <2>7, <2>8
  <2>11. WatcherType(EndPoll(q)) /\ WatcherInv(EndPoll(q), H)
    BY <2>3, <2>5, <2>9, <2>10, EndPollInv DEF IInv
  <2> QED
    BY <1>2, <2>2, <2>6, <2>11, QuietUpdateInv
<1>11. OpenFolders \subseteq BOOLEAN
  BY DEF OpenFolders
<1> QED
  BY <1>8, <1>9, <1>10, <1>11 DEF Fetch

\* Every answer is the name of a folder, or that it is unknown.
LEMMA AnswersAreFolders ==
    ASSUME TypeOK, NEW w, NEW uid
    PROVE  FolderAnswers(w, uid) \subseteq FolderNames
<1>1. \A u \in Present : box[u] \in Messages
  BY DEF TypeOK, Present, UIDs
<1>2. FoldersOf(uid) \subseteq FolderNames
  BY <1>1 DEF FoldersOf, FolderNames
<1> QED
  BY <1>2 DEF FolderAnswers, FolderNames

\* A message that has been looked up is accounted for as it was while it waited.
LEMMA LookupInv ==
    ASSUME IInv, NEW w \in Watchers, Lookup(w)
    PROVE  IInv'
<1> DEFINE s == watcher[w]
           uid == Min(s.pending)
           rest == [s EXCEPT !.pending = @ \ {uid}]
           G == HandledBy(w)'
<1>1. /\ WatcherType(s) /\ WatcherInv(s, HandledBy(w)) /\ s \in WatcherStates /\ TypeOK
      /\ Len(box) \in Nat /\ Present \subseteq UIDs /\ UIDs = 1..Len(box)
  BY OfOne DEF IInv, Present, UIDs
<1>2. s.pc = "lookup" /\ s.pending # {} /\ s.found = {} /\ UNCHANGED serverVars
  BY <1>1 DEF Lookup, IsAt, WatcherInv
<1>3. uid \in s.pending /\ uid \in UIDs
  <2>1. s.pending \in SUBSET Nat
    BY <1>1 DEF WatcherStates
  <2>2. uid \in s.pending
    BY <1>2, <2>1, MinIsLeast
  <2> QED
    BY <1>1, <2>2 DEF WatcherType
<1> HIDE DEF uid
<1>4. PICK folder \in FolderAnswers(w, uid) :
        handled' = Append(handled, [by |-> w, uid |-> uid, folder |-> folder])
  BY DEF Lookup, uid
<1>5. handled \in Seq(Entries) /\ [by |-> w, uid |-> uid, folder |-> folder] \in Entries
  BY <1>1, <1>3, AnswersAreFolders, TypeByWatcher DEF Entries
<1>6. /\ handled' \in Seq(Entries)
      /\ DOMAIN handled' = DOMAIN handled \cup {Len(handled) + 1}
      /\ \A i \in DOMAIN handled : handled'[i] = handled[i]
      /\ handled'[Len(handled) + 1] = [by |-> w, uid |-> uid, folder |-> folder]
  BY <1>4, <1>5
<1>7. \A v \in Watchers : HandledBy(v) \subseteq HandledBy(v)'
  BY <1>6 DEF HandledBy
<1>8. uid \in G
  BY <1>6 DEF HandledBy
<1>9. /\ rest.pending = s.pending \ {uid} /\ rest.pc = s.pc /\ rest.seed = s.seed
      /\ rest.highUID = s.highUID /\ rest.lastUIDNext = s.lastUIDNext
      /\ rest.found = {} /\ rest.seen = s.seen /\ rest.missed = s.missed
  BY <1>1, <1>2 DEF WatcherStates
<1>10. rest \in WatcherStates
  <2>1. s.pending \ {uid} \in SUBSET Nat
    BY <1>1 DEF WatcherStates
  <2> QED
    BY <1>1, <2>1 DEF WatcherStates
<1>11. WatcherType(rest)
  BY <1>1, <1>9, <1>10 DEF WatcherType
<1>12. \A id : Accounted(s, HandledBy(w), id) => Accounted(rest, G, id)
  BY <1>7, <1>8, <1>9 DEF Accounted
<1>13. Update(w, IF rest.pending = {} THEN EndPoll(rest) ELSE rest)
  BY DEF Lookup, uid
<1> HIDE DEF rest, G
<1>14. \A id \in rest.seen : Accounted(rest, G, id)
  BY <1>1, <1>9, <1>12 DEF WatcherInv
<1>15. \A u \in Present :
         rest.seed < u /\ (u <= rest.highUID \/ u < rest.lastUIDNext)
             => Accounted(rest, G, IdOf(u))
  BY <1>1, <1>2, <1>9, <1>12 DEF WatcherInv, Below
<1>16. CASE rest.pending = {}
  <2>1. WatcherType(EndPoll(rest)) /\ WatcherInv(EndPoll(rest), G)
    BY <1>1, <1>11, <1>14, <1>15, <1>16, EndPollInv
  <2> QED
    BY <1>2, <1>6, <1>7, <1>13, <1>16, <2>1, UpdateInv DEF G
<1>17. CASE rest.pending # {}
  <2>1. WatcherInv(rest, G)
    BY <1>2, <1>9, <1>14, <1>15, <1>17 DEF WatcherInv, Below
  <2> QED
    BY <1>2, <1>6, <1>7, <1>11, <1>13, <1>17, <2>1, UpdateInv DEF G
<1> QED
  BY <1>16, <1>17

-----------------------------------------------------------------------------
\* Every step preserves the invariant.
LEMMA NextInv == IInv /\ [Next]_vars => IInv'
<1> SUFFICES ASSUME IInv, [Next]_vars
             PROVE  IInv'
  OBVIOUS
<1>1. ASSUME NEW m \in Messages, Arrives(m)
      PROVE  IInv'
  BY <1>1, ArrivesInv
<1>2. ASSUME NEW uid \in UIDs, Expunge(uid)
      PROVE  IInv'
  BY <1>2, ExpungeInv
<1>3. ASSUME NEW w \in Watchers, StartWatcher(w) \/ Returns(w) \/ SeesStop(w)
      PROVE  IInv'
  BY <1>3, RestInv DEF SeesStop
<1>4. ASSUME NEW w \in Watchers, StopWatcher(w)
      PROVE  IInv'
  BY <1>4, StopWatcherInv
<1>5. ASSUME NEW w \in Watchers, ConnectAndWatch(w) \/ Poll(w) \/ Search(w) \/ Fetch(w) \/ Lookup(w)
      PROVE  IInv'
  BY <1>5, ConnectInv, PollInv, SearchInv, FetchInv, LookupInv
<1>6. CASE UNCHANGED vars
  BY <1>6 DEF vars, serverVars, IInv, TypeOK, WatcherInv, WatcherStates, Accounted, Below,
              HandledBy, IdOf, Present, UIDs, uidNext
<1> QED
  BY <1>1, <1>2, <1>3, <1>4, <1>5, <1>6 DEF Next, WatcherStep

\* The inductive invariant holds in every state.
THEOREM Invariance == Spec => []IInv
BY InitInv, NextInv, PTL DEF Spec

\* Every variable keeps to its type, and no watcher gets ahead of the mailbox, for any
\* number of watchers and messages.
THEOREM TypeCorrect == Spec => []TypeOK
BY Invariance, PTL DEF IInv

\* The invariant implies that nothing is missing below highUID when a poll is over.
LEMMA HighWater == IInv => NoneBelowHighWater
<1>1. SUFFICES ASSUME IInv, NEW w \in Watchers, IsAt(w, "poll"),
                      NEW uid \in Present,
                      watcher[w].seed < uid, uid <= watcher[w].highUID
               PROVE  \E h \in HandledBy(w) \cup watcher[w].missed : IdOf(h) = IdOf(uid)
  BY DEF NoneBelowHighWater
<1>2. WatcherInv(watcher[w], HandledBy(w))
  BY <1>1, OfOne
<1>3. watcher[w].found = {} /\ watcher[w].pending = {}
  BY <1>1, <1>2 DEF WatcherInv, IsAt
<1>4. Accounted(watcher[w], HandledBy(w), IdOf(uid))
  BY <1>1, <1>2, <1>3 DEF WatcherInv, Below
<1> QED
  BY <1>3, <1>4 DEF Accounted

\* highUID is a high-water mark: between polls everything below it since the connection
\* began was looked up, or missed by a fetch that failed.
THEOREM NothingSlipsThrough == Spec => []NoneBelowHighWater
BY HighWater, Invariance, PTL
=============================================================================
