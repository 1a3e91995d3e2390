------------------------ MODULE MCConnectionService ------------------------
(* ConnectionService with small sets of calls, for TLC.  Calls of one kind  *)
(* run the same code, so their names may be permuted in safety runs.        *)
EXTENDS ConnectionService, TLC

CallSymmetry == Permutations(Wizards) \cup Permutations(Quicks)
                  \cup Permutations(Disconnectors)
=============================================================================
