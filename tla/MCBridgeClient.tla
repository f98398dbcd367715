--------------------------- MODULE MCBridgeClient ---------------------------
(* Constants of the TLC runs of BridgeClient.                              *)
EXTENDS BridgeClient, TLC

CONSTANTS auto, l1, h1, h2, u1, u2

AllRpcs == Rpcs

HandlerSymmetry == Permutations({h1, h2})
=============================================================================
