------------------------- MODULE MCDiscordNotifier -------------------------
(* Constants of the TLC runs of DiscordNotifier.                           *)
EXTENDS DiscordNotifier, TLC

CONSTANTS m1, m2, m3, m4

\* Two short blocks fit into a message, and the long one beside a short one does
\* not; with the suffix, the long one alone is over the limit.
BlockSize == (m1 :> 4) @@ (m2 :> 2) @@ (m3 :> 2) @@ (m4 :> 1)
=============================================================================
