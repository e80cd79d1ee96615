--------------------------- MODULE MCBridgeThreads ---------------------------
(* BridgeThreads on a small instance.                                      *)
EXTENDS BridgeThreads

CONSTANTS c1, h1
=============================================================================
