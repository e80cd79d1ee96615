---------------------------- MODULE MCLaunchConfig ----------------------------
(* LaunchConfig with two worktrees.                                        *)
EXTENDS LaunchConfig

CONSTANTS w1, w2
=============================================================================
