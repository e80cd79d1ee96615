----------------------------- MODULE MCDapProxy -----------------------------
(* DapProxy on small instances.                                            *)
EXTENDS DapProxy

CONSTANTS s1, s2
=============================================================================
