----------------------- MODULE DiscordNotifierProofs -----------------------
(* DiscordNotifier keeps its invariants and implements RateLimiter.        *)
EXTENDS DiscordNotifier, Integers, WellFoundedInduction, TLAPS

\* discord.go:60-63: the timer ends together with the window since the last flush, at
\* once if that is over.
EndsWithWindow ==
    /\ timer = "set" => left = Window - since
    /\ timer = "fired" => since = Window

\* The inductive invariant.  Its conjuncts are also what the proof of LimitsRate
\* rests on, at the step that flushes.
IInv == TypeOK /\ NothingStranded /\ EndsWithWindow

\* It holds at the start.
LEMMA InitInv == Init => IInv
BY NotifierAssumption
   DEF Init, IInv, TypeOK, NothingStranded, EndsWithWindow, PostStates

\* Every step preserves it.
LEMMA NextInv == IInv /\ [Next]_vars => IInv'
<1> USE NotifierAssumption DEF IInv, TypeOK, NothingStranded, EndsWithWindow
<1> SUFFICES ASSUME IInv, [Next]_vars
             PROVE  IInv'
  OBVIOUS
<1>1. ASSUME NEW m \in Mails, Notify(m)
      PROVE  IInv'
  <2>1. pending' \in Seq(Mails) /\ pending' # <<>>
    BY <1>1 DEF Notify
  <2>2. CASE timer = "none"
    BY <1>1, <2>1, <2>2 DEF Notify, Delay
  <2>3. CASE timer # "none"
    BY <1>1, <2>1, <2>3 DEF Notify
  <2> QED
    BY <2>2, <2>3
<1>2. CASE TimerFires
  BY <1>2 DEF TimerFires
<1>3. CASE Flush
  <2>1. posts' \in Seq(Seq(Mails)) /\ answer' \in Seq(PostStates)
    BY <1>3 DEF Flush, PostStates
  <2>2. Len(answer') = Len(posts')
    BY <1>3 DEF Flush
  <2> QED
    BY <1>3, <2>1, <2>2 DEF Flush
<1>4. CASE Tick
  BY <1>4 DEF Tick
<1>5. ASSUME NEW i \in DOMAIN posts, PostEnds(i)
      PROVE  IInv'
  <2>1. PICK s \in PostStates : answer' = [answer EXCEPT ![i] = s]
    BY <1>5 DEF PostEnds, PostStates
  <2>2. answer' \in Seq(PostStates) /\ Len(answer') = Len(answer)
    BY <2>1
  <2> QED
    BY <1>5, <2>2 DEF PostEnds
<1>6. CASE UNCHANGED vars
  BY <1>6 DEF vars
<1> QED
  BY <1>1, <1>2, <1>3, <1>4, <1>5, <1>6 DEF Next

\* The inductive invariant holds in every state of the notifier.
THEOREM Invariance == Spec => []IInv
BY InitInv, NextInv, PTL DEF Spec

\* Every variable keeps to its type.
THEOREM TypeCorrect == Spec => []TypeOK
BY Invariance, PTL DEF IInv

\* Mails that wait always have a timer that will flush them.
THEOREM NeverStranded == Spec => []NothingStranded
BY Invariance, PTL DEF IInv

\* The timer ends together with the window, for any window.  It is not what
\* config.go:25-28 says, which has each wait begin with the first new message.
THEOREM WaitsNoLonger == Spec => []EndsWithWindow
BY Invariance, PTL DEF IInv

\* The state an empty notifier maps to is that of an unused limiter.
LEMMA LimiterInit == Init => Limiter!Init
BY NotifierAssumption DEF Init, Limiter!Init

\* Notify puts, flush takes, the ticks of an open window cool the limiter, and
\* every other step is none of its business.
LEMMA LimiterNext ==
    IInv /\ [Next]_vars => [Limiter!Next]_<<pending, posts, Window - since>>
<1> USE NotifierAssumption DEF IInv, TypeOK
<1> SUFFICES ASSUME IInv, [Next]_vars
             PROVE  [Limiter!Next]_<<pending, posts, Window - since>>
  OBVIOUS
<1>1. ASSUME NEW m \in Mails, Notify(m)
      PROVE  Limiter!Put(m)
  BY <1>1 DEF Notify, Limiter!Put
<1>2. CASE TimerFires
  BY <1>2 DEF TimerFires
<1>3. CASE Flush
  <2>1. pending # <<>> /\ Window - since = 0
    BY <1>3 DEF Flush, NothingStranded, EndsWithWindow
  <2>2. Limiter!Take
    BY <1>3, <2>1 DEF Flush, Limiter!Take
  <2> QED
    BY <2>2 DEF Limiter!Next
<1>4. CASE Tick
  <2>1. CASE since < Window
    BY <1>4, <2>1 DEF Tick, Limiter!Next, Limiter!Cool
  <2>2. CASE since = Window
    BY <1>4, <2>2 DEF Tick
  <2> QED
    BY <2>1, <2>2
<1>5. ASSUME NEW i \in DOMAIN posts, PostEnds(i)
      PROVE  UNCHANGED <<pending, posts, Window - since>>
  BY <1>5 DEF PostEnds
<1>6. CASE UNCHANGED vars
  BY <1>6 DEF vars
<1> QED
  BY <1>1, <1>2, <1>3, <1>4, <1>5, <1>6 DEF Next, Limiter!Next

\* The notifier implements the rate limiter, for every window and every number of
\* mails: one batch in a window, all that waits, in order.
THEOREM RateIsLimited == Spec => LimitsRate
BY Invariance, LimiterInit, LimiterNext, PTL DEF Spec, LimitsRate, Limiter!Spec

-----------------------------------------------------------------------------
(* Recursive functions.  Induction is stated of a set, not of a predicate. *)

\* A set that has 0 and every successor has all natural numbers.
LEMMA SetInduction ==
    ASSUME NEW S, 0 \in S, \A k \in Nat : k \in S => k + 1 \in S
    PROVE  Nat \subseteq S
<1> DEFINE T == Nat \ S
<1>1. SUFFICES ASSUME T # {}
               PROVE  FALSE
  OBVIOUS
<1>2. PICK k \in T : \A j \in T : ~(<<j, k>> \in OpToRel(<, Nat))
  BY <1>1, NatLessThanWellFounded, WFMin
<1>3. \A j \in T : ~(j < k)
  BY <1>2 DEF OpToRel
<1>4. k \in Nat /\ k \notin S
  BY <1>2
<1>5. k # 0
  BY <1>4
<1>6. k - 1 \in Nat /\ k - 1 < k /\ (k - 1) + 1 = k
  BY <1>4, <1>5
<1>7. k - 1 \in S
  BY <1>3, <1>6
<1>8. (k - 1) + 1 \in S
  BY <1>6, <1>7
<1> QED
  BY <1>4, <1>6, <1>8

\* What takes a value of X to the next, one for each place up to n.
Steps(n, X) == [1..n -> [X -> X]]

\* The functions that start with x0 and make each value from the one before by the
\* step for its place.
Runs(n, X, x0, step) ==
    {g \in [0..n -> X] : g[0] = x0 /\ \A k \in 1..n : g[k] = step[k][g[k - 1]]}

\* There is such a function.
LEMMA RunExists ==
    \A X : \A n \in Nat :
        \A x0 \in X, step \in Steps(n, X) : \E g : g \in Runs(n, X, x0, step)
<1> TAKE X
<1> TAKE n \in Nat
<1> TAKE x0 \in X, step \in Steps(n, X)
<1> USE DEF Steps
<1> DEFINE Begins(g, m) ==
             g[0] = x0 /\ \A k \in 1..m : g[k] = step[k][g[k - 1]]
           S == {m \in Nat : m > n \/ \E g \in [0..m -> X] : Begins(g, m)}
<1>1. 0 \in S
  <2>1. [k \in 0..0 |-> x0] \in [0..0 -> X] /\ Begins([k \in 0..0 |-> x0], 0)
    OBVIOUS
  <2> QED
    BY <2>1
<1>2. ASSUME NEW m \in Nat, m \in S
      PROVE  m + 1 \in S
  <2>1. CASE m + 1 > n
    BY <2>1
  <2>2. CASE m + 1 <= n
    <3>1. PICK g \in [0..m -> X] : Begins(g, m)
      BY <1>2, <2>2
    <3>2. g[m] \in X /\ m + 1 \in 1..n /\ step[m + 1][g[m]] \in X
      BY <2>2, <3>1
    <3> DEFINE h == [k \in 0..(m + 1) |-> IF k = m + 1 THEN step[m + 1][g[m]] ELSE g[k]]
    <3>3. h \in [0..(m + 1) -> X]
      BY <3>1, <3>2
    <3>4. h[0] = x0
      BY <3>1
    <3>5. ASSUME NEW k \in 1..(m + 1)
          PROVE  h[k] = step[k][h[k - 1]]
      <4>1. CASE k = m + 1
        BY <4>1
      <4>2. CASE k \in 1..m
        BY <3>1, <4>2
      <4> QED
        BY <4>1, <4>2
    <3>6. Begins(h, m + 1)
      BY <3>4, <3>5
    <3> HIDE DEF h, Begins
    <3> QED
      BY <3>3, <3>6
  <2> QED
    BY <2>1, <2>2
<1> HIDE DEF S
<1>3. n \in S
  BY <1>1, <1>2, SetInduction
<1> QED
  BY <1>3 DEF S, Runs

-----------------------------------------------------------------------------
(* What formatBatch makes of a batch.                                      *)

\* Blocks adds up the lengths of the blocks, one after the other.
LEMMA BlocksAddUp ==
    ASSUME NEW items \in Seq(Mails)
    PROVE  /\ Blocks(items, 0) = 0
           /\ \A k \in 1..Len(items) :
                Blocks(items, k) = Blocks(items, k - 1) + Size[items[k]]
           /\ \A k \in 0..Len(items) : Blocks(items, k) \in Nat
<1> DEFINE n == Len(items)
           sum == CHOOSE f : f = [k \in 0..n |-> IF k = 0 THEN 0 ELSE f[k - 1] + Size[items[k]]]
           step == [k \in 1..n |-> [x \in Nat |-> x + Size[items[k]]]]
<1>1. n \in Nat /\ \A k \in 1..n : Size[items[k]] \in Nat
  BY NotifierAssumption
<1>2. \A k : Blocks(items, k) = sum[k]
  BY DEF Blocks
<1>3. step \in Steps(n, Nat)
  BY <1>1 DEF Steps
<1>4. PICK g \in [0..n -> Nat] : g[0] = 0 /\ \A k \in 1..n : g[k] = step[k][g[k - 1]]
  <2> HIDE DEF step, n, sum
  <2>1. PICK g : g \in Runs(n, Nat, 0, step)
    BY <1>1, <1>3, 0 \in Nat, RunExists
  <2> QED
    BY <2>1 DEF Runs
<1>5. ASSUME NEW k \in 1..n
      PROVE  g[k] = g[k - 1] + Size[items[k]]
  <2>1. k - 1 \in 0..n
    BY <1>1
  <2>2. g[k - 1] \in Nat
    BY <1>4, <2>1
  <2> QED
    BY <1>4, <2>2
<1>6. g = [k \in 0..n |-> IF k = 0 THEN 0 ELSE g[k - 1] + Size[items[k]]]
  BY <1>1, <1>4, <1>5
<1>7. sum = [k \in 0..n |-> IF k = 0 THEN 0 ELSE sum[k - 1] + Size[items[k]]]
  BY <1>6
<1> HIDE DEF sum
<1>8. sum[0] = 0 /\ \A k \in 1..n : sum[k] = sum[k - 1] + Size[items[k]]
  BY <1>1, <1>7
<1>9. \A k \in 0..n : sum[k] \in Nat
  <2> DEFINE S == {k \in Nat : k <= n => sum[k] \in Nat}
  <2>1. 0 \in S
    BY <1>8
  <2>2. ASSUME NEW k \in Nat, k \in S
        PROVE  k + 1 \in S
    <3>1. SUFFICES ASSUME k + 1 <= n
                   PROVE  sum[k + 1] \in Nat
      OBVIOUS
    <3>2. k + 1 \in 1..n /\ (k + 1) - 1 = k /\ sum[k] \in Nat
      BY <1>1, <2>2, <3>1
    <3> QED
      BY <1>1, <1>8, <3>2
  <2> HIDE DEF S
  <2>3. Nat \subseteq S
    BY <2>1, <2>2, SetInduction
  <2> QED
    BY <1>1, <2>3 DEF S
<1> QED
  BY <1>2, <1>8, <1>9

\* What formatBatch has written when it has gone through the first k items.
Written == [size : Nat, included : Nat, more : Int]

\* Before the break it has written all k and they fit; after it, the blocks that
\* fit, with one that does not fit right after them.
Listing(items, k, b) ==
    \/ /\ b.more = 0
       /\ b.included = k
       /\ b.size = Blocks(items, k)
       /\ k <= 1 \/ Blocks(items, k) <= Limit
    \/ /\ b.included \in 1..(k - 1)
       /\ b.more = Len(items) - b.included
       /\ b.size = Blocks(items, b.included) + Suffix
       /\ b.included = 1 \/ Blocks(items, b.included) <= Limit
       /\ Blocks(items, b.included + 1) > Limit

\* One block, after those in b.
Write(items, b, m) ==
    CASE b.more > 0 -> b
      [] b.more = 0 /\ Fits(b, m) ->
           [b EXCEPT !.size = @ + Size[m], !.included = @ + 1]
      [] OTHER ->
           [b EXCEPT !.size = @ + Suffix, !.more = Len(items) - b.included]

\* It keeps to the form of a message.
LEMMA WriteTyped ==
    ASSUME NEW items \in Seq(Mails), NEW b \in Written, NEW m \in Mails
    PROVE  Write(items, b, m) \in Written
<1>1. Size[m] \in Nat /\ Suffix \in Nat /\ Len(items) \in Nat
  BY NotifierAssumption
<1>2. b.size \in Nat /\ b.included \in Nat /\ b.more \in Int
  BY DEF Written
<1>3. \A s, i \in Nat : [b EXCEPT !.size = s, !.included = i] \in Written
  BY DEF Written
<1>4. \A s \in Nat, r \in Int : [b EXCEPT !.size = s, !.more = r] \in Written
  BY DEF Written
<1>5. [b EXCEPT !.size = @ + Size[m], !.included = @ + 1] \in Written
  <2>1. b.size + Size[m] \in Nat /\ b.included + 1 \in Nat
    BY <1>1, <1>2
  <2> QED
    BY <1>3, <2>1
<1>6. [b EXCEPT !.size = @ + Suffix, !.more = Len(items) - b.included] \in Written
  <2>1. b.size + Suffix \in Nat /\ Len(items) - b.included \in Int
    BY <1>1, <1>2
  <2> QED
    BY <1>4, <2>1
<1> QED
  BY <1>5, <1>6 DEF Write

\* The loop keeps what has been written as Listing says.
LEMMA WriteLists ==
    ASSUME NEW items \in Seq(Mails), NEW k \in Nat, k + 1 <= Len(items),
           NEW b \in Written, Listing(items, k, b)
    PROVE  Listing(items, k + 1, Write(items, b, items[k + 1]))
<1> DEFINE m == items[k + 1]
           c == Write(items, b, m)
<1>1. Size[m] \in Nat /\ Limit \in Nat /\ Suffix \in Nat /\ Len(items) \in Nat
  BY NotifierAssumption
<1>2. /\ Blocks(items, k + 1) = Blocks(items, k) + Size[m]
      /\ Blocks(items, k) \in Nat
  <2>1. k + 1 \in 1..Len(items) /\ (k + 1) - 1 = k /\ k \in 0..Len(items)
    BY <1>1
  <2> QED
    BY <2>1, BlocksAddUp
<1>3. CASE b.more > 0
  <2>1. c = b
    BY <1>3 DEF Write
  <2>2. b.included \in 1..((k + 1) - 1)
    BY <1>3 DEF Listing
  <2> QED
    BY <1>3, <2>1, <2>2 DEF Listing
<1>4. CASE b.more = 0
  <2>1. b.included = k /\ b.size = Blocks(items, k) /\ (k <= 1 \/ Blocks(items, k) <= Limit)
    BY <1>1, <1>4 DEF Listing
  <2>2. CASE Fits(b, m)
    <3>1. c = [b EXCEPT !.size = @ + Size[m], !.included = @ + 1]
      BY <1>4, <2>2 DEF Write
    <3>2. c.more = 0 /\ c.included = k + 1 /\ c.size = Blocks(items, k + 1)
      BY <1>2, <1>4, <2>1, <3>1 DEF Written
    <3>3. k + 1 <= 1 \/ Blocks(items, k + 1) <= Limit
      BY <1>2, <2>1, <2>2 DEF Fits
    <3> QED
      BY <3>2, <3>3 DEF Listing
  <2>3. CASE ~Fits(b, m)
    <3>1. c = [b EXCEPT !.size = @ + Suffix, !.more = Len(items) - b.included]
      BY <1>4, <2>3 DEF Write
    <3>2. /\ c.included = k
          /\ c.more = Len(items) - k
          /\ c.size = Blocks(items, k) + Suffix
      BY <2>1, <3>1 DEF Written
    <3>3. k # 0 /\ Blocks(items, k + 1) > Limit
      BY <1>1, <1>2, <2>1, <2>3 DEF Fits
    <3>4. c.included \in 1..((k + 1) - 1)
      BY <3>2, <3>3
    <3>5. c.included = 1 \/ Blocks(items, c.included) <= Limit
      BY <2>1, <3>2, <3>3
    <3>6. Listing(items, k + 1, c)
      <4> HIDE DEF c
      <4> QED
        BY <3>2, <3>3, <3>4, <3>5 DEF Listing
    <3> QED
      BY <3>6
  <2> QED
    BY <2>2, <2>3
<1>5. b.more >= 0
  <2>1. CASE b.more = 0
    BY <2>1
  <2>2. CASE b.included \in 1..(k - 1) /\ b.more = Len(items) - b.included
    BY <1>1, <2>2
  <2> QED
    BY <2>1, <2>2 DEF Listing
<1> QED
  BY <1>3, <1>4, <1>5 DEF Written

\* What formatBatch returns, for every batch, every limit and all lengths.
LEMMA BatchLists ==
    ASSUME NEW items \in Seq(Mails)
    PROVE  /\ formatBatch(items) \in Written
           /\ Listing(items, Len(items), formatBatch(items))
<1> DEFINE n == Len(items)
           none == [size |-> 0, included |-> 0, more |-> 0]
           body == CHOOSE f : f = [k \in 0..n |->
                     IF k = 0 THEN [size |-> 0, included |-> 0, more |-> 0]
                     ELSE LET b == f[k - 1]
                              m == items[k]
                          IN  CASE b.more > 0 -> b
                                [] b.more = 0 /\ Fits(b, m) ->
                                     [b EXCEPT !.size = @ + Size[m], !.included = @ + 1]
                                [] OTHER ->
                                     [b EXCEPT !.size = @ + Suffix,
                                               !.more = Len(items) - b.included]]
           step == [k \in 1..n |-> [b \in Written |-> Write(items, b, items[k])]]
<1>1. n \in Nat /\ (\A k \in 1..n : items[k] \in Mails) /\ none \in Written
  BY DEF Written
<1>2. formatBatch(items) = body[n]
  BY DEF formatBatch
<1>3. step \in Steps(n, Written)
  BY <1>1, WriteTyped DEF Steps
<1>4. PICK g \in [0..n -> Written] : g[0] = none /\ \A k \in 1..n : g[k] = step[k][g[k - 1]]
  <2> HIDE DEF step, n, none
  <2>1. PICK g : g \in Runs(n, Written, none, step)
    BY <1>1, <1>3, RunExists
  <2> QED
    BY <2>1 DEF Runs
<1>5. ASSUME NEW k \in 1..n
      PROVE  g[k] = Write(items, g[k - 1], items[k])
  <2>1. k - 1 \in 0..n
    BY <1>1
  <2>2. g[k - 1] \in Written
    BY <1>4, <2>1
  <2> QED
    BY <1>4, <2>2
<1>6. g = [k \in 0..n |-> IF k = 0 THEN none ELSE Write(items, g[k - 1], items[k])]
  BY <1>1, <1>4, <1>5
<1>7. body = [k \in 0..n |-> IF k = 0 THEN none ELSE Write(items, body[k - 1], items[k])]
  BY <1>6 DEF Write
<1> HIDE DEF body
<1>8. body[0] = none /\ \A k \in 1..n : body[k] = Write(items, body[k - 1], items[k])
  BY <1>1, <1>7
<1> DEFINE S == {k \in Nat : k <= n => body[k] \in Written /\ Listing(items, k, body[k])}
<1>9. 0 \in S
  <2>1. Blocks(items, 0) = 0
    BY BlocksAddUp
  <2>2. Listing(items, 0, none)
    BY <2>1 DEF Listing
  <2> QED
    BY <1>1, <1>8, <2>2
<1>10. ASSUME NEW k \in Nat, k \in S
       PROVE  k + 1 \in S
  <2>1. SUFFICES ASSUME k + 1 <= n
                 PROVE  body[k + 1] \in Written /\ Listing(items, k + 1, body[k + 1])
    OBVIOUS
  <2>2. k + 1 \in 1..n /\ (k + 1) - 1 = k /\ body[k] \in Written /\ Listing(items, k, body[k])
    BY <1>1, <1>10, <2>1
  <2>3. body[k + 1] = Write(items, body[k], items[k + 1])
    BY <1>8, <2>2
  <2>4. Write(items, body[k], items[k + 1]) \in Written
    BY <1>1, <2>2, WriteTyped
  <2>5. Listing(items, k + 1, Write(items, body[k], items[k + 1]))
    BY <2>1, <2>2, WriteLists
  <2> QED
    BY <2>3, <2>4, <2>5
<1> HIDE DEF S
<1>11. n \in S
  BY <1>1, <1>9, <1>10, SetInduction
<1> QED
  BY <1>1, <1>2, <1>11 DEF S

\* flush posts no empty batch.
NoEmptyPost == \A i \in DOMAIN posts : posts[i] # <<>>

LEMMA InitPosts == Init => NoEmptyPost
BY DEF Init, NoEmptyPost

LEMMA NextPosts == IInv /\ NoEmptyPost /\ [Next]_vars => NoEmptyPost'
<1> SUFFICES ASSUME IInv, NoEmptyPost, [Next]_vars
             PROVE  NoEmptyPost'
  OBVIOUS
<1>1. CASE Flush
  BY <1>1 DEF Flush, IInv, TypeOK, NoEmptyPost
<1>2. CASE UNCHANGED posts
  BY <1>2 DEF NoEmptyPost
<1> QED
  BY <1>1, <1>2 DEF Next, vars, Notify, TimerFires, Tick, PostEnds

\* What Listing says at the end of the loop is what ListsAllThatFit says of a post.
LEMMA PostsList == IInv /\ NoEmptyPost => ListsAllThatFit
<1> SUFFICES ASSUME IInv, NoEmptyPost, NEW i \in DOMAIN posts
             PROVE  LET items == posts[i]
                        n == formatBatch(items).included
                    IN  /\ n > 0
                        /\ n = 1 \/ Blocks(items, n) <= Limit
                        /\ n = Len(items) \/ Blocks(items, n + 1) > Limit
                        /\ formatBatch(items).more = Len(items) - n
  BY DEF ListsAllThatFit
<1> DEFINE items == posts[i]
           b == formatBatch(items)
<1>1. items \in Seq(Mails) /\ items # <<>>
  BY DEF IInv, TypeOK, NoEmptyPost
<1>2. Len(items) \in Nat \ {0}
  BY <1>1
<1>3. Listing(items, Len(items), b)
  BY <1>1, BatchLists
<1> HIDE DEF items, b
<1>4. /\ b.included > 0
      /\ b.included = 1 \/ Blocks(items, b.included) <= Limit
      /\ b.included = Len(items) \/ Blocks(items, b.included + 1) > Limit
      /\ b.more = Len(items) - b.included
  BY <1>2, <1>3 DEF Listing
<1> QED
  BY <1>4 DEF items, b

\* Each message lists as many mails as fit, at least one, and counts the others:
\* formatBatch, for batches of any length and blocks of any lengths.
THEOREM ListsWhatFits == Spec => []ListsAllThatFit
<1>1. Init => IInv /\ NoEmptyPost
  BY InitInv, InitPosts
<1>2. IInv /\ NoEmptyPost /\ [Next]_vars => (IInv /\ NoEmptyPost)'
  BY NextInv, NextPosts
<1> QED
  BY <1>1, <1>2, PostsList, PTL DEF Spec

\* How far past discordMaxMessageLen a message can go: when no mail is longer by
\* itself, by the length of "(+n more)", which the check leaves out.
OverBySuffix == \A i \in DOMAIN posts : formatBatch(posts[i]).size <= Limit + Suffix

THEOREM NearLimit ==
    ASSUME \A m \in Mails : Size[m] <= Limit
    PROVE  Spec => []OverBySuffix
<1>1. IInv => OverBySuffix
  <2> SUFFICES ASSUME IInv, NEW i \in DOMAIN posts
               PROVE  formatBatch(posts[i]).size <= Limit + Suffix
    BY DEF OverBySuffix
  <2> DEFINE items == posts[i]
             b == formatBatch(items)
  <2>1. items \in Seq(Mails)
    BY DEF IInv, TypeOK
  <2>2. Len(items) \in Nat /\ Limit \in Nat /\ Suffix \in Nat
    BY <2>1, NotifierAssumption
  <2>3. Listing(items, Len(items), b)
    BY <2>1, BatchLists
  <2>4. Blocks(items, 0) <= Limit
    BY <2>1, <2>2, BlocksAddUp
  <2>5. Len(items) >= 1 => Blocks(items, 1) <= Limit
    <3>1. SUFFICES ASSUME Len(items) >= 1
                   PROVE  Blocks(items, 1) <= Limit
      OBVIOUS
    <3>2. items[1] \in Mails /\ Size[items[1]] \in Nat /\ 1 \in 1..Len(items)
      BY <2>1, <3>1, NotifierAssumption
    <3>3. Blocks(items, 1) = Blocks(items, 1 - 1) + Size[items[1]] /\ Blocks(items, 0) = 0
      BY <2>1, <3>2, BlocksAddUp
    <3> QED
      BY <3>2, <3>3
  <2>6. ASSUME NEW k \in 0..Len(items), k <= 1 \/ Blocks(items, k) <= Limit
        PROVE  Blocks(items, k) <= Limit
    BY <2>2, <2>4, <2>5, <2>6
  <2>7. \A k \in 0..Len(items) : Blocks(items, k) \in Nat
    BY <2>1, BlocksAddUp
  <2> HIDE DEF items, b
  <2>8. CASE b.included = Len(items) /\ b.size = Blocks(items, Len(items))
             /\ (Len(items) <= 1 \/ Blocks(items, Len(items)) <= Limit)
    <3>1. Len(items) \in 0..Len(items)
      BY <2>2
    <3>2. Blocks(items, Len(items)) <= Limit /\ Blocks(items, Len(items)) \in Nat
      BY <2>6, <2>7, <2>8, <3>1
    <3> QED
      BY <2>2, <2>8, <3>2 DEF items, b
  <2>9. CASE /\ b.included \in 1..(Len(items) - 1)
             /\ b.size = Blocks(items, b.included) + Suffix
             /\ b.included = 1 \/ Blocks(items, b.included) <= Limit
    <3>1. b.included \in 0..Len(items)
      BY <2>2, <2>9
    <3>2. Blocks(items, b.included) <= Limit /\ Blocks(items, b.included) \in Nat
      BY <2>6, <2>7, <2>9, <3>1
    <3>3. b.size <= Limit + Suffix
      BY <2>2, <2>9, <3>2
    <3> QED
      BY <3>3 DEF items, b
  <2> QED
    BY <2>3, <2>8, <2>9 DEF Listing
<1> QED
  BY <1>1, Invariance, PTL
=============================================================================
