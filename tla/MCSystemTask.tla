---------------------------- MODULE MCSystemTask ----------------------------
(* Instances of SystemTask for TLC.                                        *)
EXTENDS SystemTask, TLC

Sym == Permutations(Runners)
=============================================================================
