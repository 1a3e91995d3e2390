------------------------- MODULE MCInteractiveShell -------------------------
(* InteractiveShell with small sets of tasks, for TLC.  Tasks of one kind   *)
(* run the same code, so their names may be permuted in safety runs.        *)
EXTENDS InteractiveShell, TLC

TaskSymmetry == Permutations(Runners) \cup Permutations(Openers)
                  \cup Permutations(Probers) \cup Permutations(Closers)
=============================================================================
