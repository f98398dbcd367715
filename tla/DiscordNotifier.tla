-------------------------- MODULE DiscordNotifier --------------------------
(***************************************************************************)
(* The DiscordNotifier of sidecar/discord.go: watchers call Notify, a      *)
(* timer calls flush on a goroutine of its own, and flush posts to Discord *)
(* after it has let go of the lock, so that several posts may be under way *)
(* at a time.                                                              *)
(*                                                                         *)
(* Time goes by in ticks.  A clock is kept as what it is compared with:    *)
(* the time since lastFlush, up to Window, and the time left to the timer. *)
(***************************************************************************)
EXTENDS Naturals, Sequences

CONSTANTS
    Mails,   \* the calls of Notify; each element is one of them
    Window,  \* BatchWindowSeconds, in ticks
    Size,    \* Size[m] is the length of m's block
    Limit,   \* discordMaxMessageLen
    Suffix   \* the length of "(+n more)"

\* loadDiscordConfig replaces a window that is not positive by the default.
ASSUME NotifierAssumption ==
    /\ Window \in Nat \ {0}
    /\ Size \in [Mails -> Nat \ {0}]
    /\ Limit \in Nat
    /\ Suffix \in Nat

VARIABLES
    pending,  \* d.pending
    timer,    \* d.timer: not set, set, or fired and its flush about to run
    left,     \* the time left to a timer that is set
    since,    \* the time since lastFlush, up to Window
    posts,    \* the batches handed to post
    answer    \* what became of each of them

vars == <<pending, timer, left, since, posts, answer>>

PostStates == {"sending", "delivered", "failed"}

\* Every variable has values of its type, and each post has its answer.
TypeOK ==
    /\ pending \in Seq(Mails)
    /\ timer \in {"none", "set", "fired"}
    /\ left \in 0..Window
    /\ since \in 0..Window
    /\ posts \in Seq(Seq(Mails))
    /\ answer \in Seq(PostStates)
    /\ Len(answer) = Len(posts)

\* lastFlush starts at the zero time, long ago.
Init ==
    /\ pending = <<>>
    /\ timer = "none"
    /\ left = 0
    /\ since = Window
    /\ posts = <<>>
    /\ answer = <<>>

InSeq(m, s) == \E i \in DOMAIN s : s[i] = m

\* m was given to Notify.
Notified(m) ==
    \/ InSeq(m, pending)
    \/ \E i \in DOMAIN posts : InSeq(m, posts[i])

-----------------------------------------------------------------------------
(* formatBatch.                                                            *)

\* Mutant: the first block may be left out too.
FitsStrictly(b, m) == b.size + Size[m] < Limit

\* Whether one more block is written after those in b.
Fits(b, m) == b.size + Size[m] <= Limit \/ b.included = 0

\* Its loop, one block a step; more is set by the break.
formatBatch(items) ==
    LET body[k \in 0..Len(items)] ==
          IF k = 0 THEN [size |-> 0, included |-> 0, more |-> 0]
          ELSE LET b == body[k - 1]
                   m == items[k]
               IN  CASE b.more > 0 -> b
                     [] b.more = 0 /\ Fits(b, m) ->
                          [b EXCEPT !.size = @ + Size[m], !.included = @ + 1]
                     [] OTHER ->
                          [b EXCEPT !.size = @ + Suffix,
                                    !.more = Len(items) - b.included]
    IN  body[Len(items)]

-----------------------------------------------------------------------------
(* Notify, the timer, flush and post.                                      *)

\* Mutant: posts are sent as they come.
DelayZero == 0

\* Mutant: the time since the last flush is added.
DelayAdded == Window + since

\* How long the timer is set for.
Delay == Window - since

Notify(m) ==
    /\ ~Notified(m)
    /\ pending' = Append(pending, m)
    /\ IF timer = "none"
       THEN timer' = "set" /\ left' = Delay
       ELSE UNCHANGED <<timer, left>>
    /\ UNCHANGED <<since, posts, answer>>

\* AfterFunc runs flush at the end of the delay, or later.
TimerFires ==
    /\ timer = "set"
    /\ left = 0
    /\ timer' = "fired"
    /\ UNCHANGED <<pending, left, since, posts, answer>>

\* Mutant: d.timer is not reset.
FlushKeepsTimer ==
    /\ timer = "fired"
    /\ pending' = <<>>
    /\ since' = 0
    /\ posts' = IF pending = <<>> THEN posts ELSE Append(posts, pending)
    /\ answer' = IF pending = <<>> THEN answer ELSE Append(answer, "sending")
    /\ UNCHANGED <<timer, left>>

\* Mutant: d.pending is not reset.
FlushKeepsPending ==
    /\ timer = "fired"
    /\ timer' = "none"
    /\ since' = 0
    /\ posts' = IF pending = <<>> THEN posts ELSE Append(posts, pending)
    /\ answer' = IF pending = <<>> THEN answer ELSE Append(answer, "sending")
    /\ UNCHANGED <<pending, left>>

\* Mutant: the lock is held during the post.
FlushOneByOne ==
    /\ timer = "fired"
    /\ ~InSeq("sending", answer)
    /\ pending' = <<>>
    /\ timer' = "none"
    /\ since' = 0
    /\ posts' = IF pending = <<>> THEN posts ELSE Append(posts, pending)
    /\ answer' = IF pending = <<>> THEN answer ELSE Append(answer, "sending")
    /\ UNCHANGED left

\* flush up to the call of post.
Flush ==
    /\ timer = "fired"
    /\ pending' = <<>>
    /\ timer' = "none"
    /\ since' = 0
    /\ posts' = IF pending = <<>> THEN posts ELSE Append(posts, pending)
    /\ answer' = IF pending = <<>> THEN answer ELSE Append(answer, "sending")
    /\ UNCHANGED left

\* post returns, in any order with the others, or never.  Discord refuses a
\* message over its limit; a batch whose post failed is logged and dropped.
PostEnds(i) ==
    /\ answer[i] = "sending"
    /\ \/ /\ formatBatch(posts[i]).size <= Limit
          /\ answer' = [answer EXCEPT ![i] = "delivered"]
       \/ answer' = [answer EXCEPT ![i] = "failed"]
    /\ UNCHANGED <<pending, timer, left, since, posts>>

Tick ==
    /\ since' = IF since < Window THEN since + 1 ELSE since
    /\ left' = IF left > 0 THEN left - 1 ELSE left
    /\ UNCHANGED <<pending, timer, posts, answer>>

-----------------------------------------------------------------------------
Next ==
    \/ \E m \in Mails : Notify(m)
    \/ TimerFires \/ Flush \/ Tick
    \/ \E i \in DOMAIN posts : PostEnds(i)

Spec == Init /\ [][Next]_vars

\* Timers fire and the flush they call runs.  No fairness for PostEnds: the HTTP
\* client has no timeout.
FairSpec == Spec /\ WF_vars(Tick) /\ WF_vars(TimerFires) /\ WF_vars(Flush)

-----------------------------------------------------------------------------
(* Properties.                                                             *)

\* The notifier keeps the promise of a rate limiter: no more than one flush in a
\* window, and each takes all that is pending in the order of Notify, whatever
\* Notify does between the firing of the timer and its flush.
Limiter == INSTANCE RateLimiter WITH
    Items <- Mails, waiting <- pending, taken <- posts, cool <- Window - since

LimitsRate == Limiter!Spec

\* What is pending has a timer that will flush it, and a timer that fires always
\* finds something: d.timer and d.pending are reset together.
NothingStranded == (pending # <<>>) <=> (timer # "none")

\* Whatever is notified leaves the queue, though posts may hang for ever.
EachFlushed == \A m \in Mails : InSeq(m, pending) ~> ~InSeq(m, pending)

\* The length of the first n blocks.
Blocks(items, n) ==
    LET sum[k \in 0..Len(items)] == IF k = 0 THEN 0 ELSE sum[k - 1] + Size[items[k]]
    IN  sum[n]

\* A message lists as many mails as fit, at least one, and counts the others.
ListsAllThatFit ==
    \A i \in DOMAIN posts :
        LET items == posts[i]
            n == formatBatch(items).included
        IN  /\ n > 0
            /\ n = 1 \/ Blocks(items, n) <= Limit
            /\ n = Len(items) \/ Blocks(items, n + 1) > Limit
            /\ formatBatch(items).more = Len(items) - n

\* discord.go:109 says the limit is checked: no message is longer than Discord
\* takes, so that it refuses none.
WithinLimit == \A i \in DOMAIN posts : formatBatch(posts[i]).size <= Limit
=============================================================================
