-------------------------- MODULE MCExtensionInstall --------------------------
(* ExtensionInstall on small instances.                                    *)
EXTENDS ExtensionInstall, TLC

CONSTANTS w1, w2

WorktreeSymmetry == Permutations({w1, w2})
=============================================================================
