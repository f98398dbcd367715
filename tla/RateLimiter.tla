---------------------------- MODULE RateLimiter ----------------------------
(***************************************************************************)
(* What the batching of the Discord notifier promises to its callers: the  *)
(* items put into it leave in batches, at most one batch in any Window     *)
(* ticks; a batch takes everything that is waiting, in the order in which  *)
(* it was put; and whatever is put is taken at some time.                  *)
(***************************************************************************)
EXTENDS Naturals, Sequences

CONSTANTS Items, Window

VARIABLES
    waiting,  \* what was put and not taken
    taken,    \* the batches taken, oldest first
    cool      \* ticks left before another batch may be taken

Init ==
    /\ waiting = <<>>
    /\ taken = <<>>
    /\ cool = 0

Put(item) ==
    /\ waiting' = Append(waiting, item)
    /\ UNCHANGED <<taken, cool>>

Take ==
    /\ waiting # <<>>
    /\ cool = 0
    /\ taken' = Append(taken, waiting)
    /\ waiting' = <<>>
    /\ cool' = Window

Cool ==
    /\ cool > 0
    /\ cool' = cool - 1
    /\ UNCHANGED <<waiting, taken>>

Next == Take \/ Cool \/ \E item \in Items : Put(item)

Spec == Init /\ [][Next]_<<waiting, taken, cool>>
=============================================================================
