------------------------- MODULE MCAccountLifecycle -------------------------
(* AccountLifecycle for TLC: the processes are interchangeable. *)
EXTENDS AccountLifecycle, TLC
RunnerSymmetry == Permutations(Runners)
=============================================================================
