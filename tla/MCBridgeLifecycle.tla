-------------------------- MODULE MCBridgeLifecycle --------------------------
(* BridgeLifecycle on small instances.                                     *)
EXTENDS BridgeLifecycle
=============================================================================
