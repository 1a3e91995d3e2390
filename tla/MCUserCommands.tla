--------------------------- MODULE MCUserCommands ---------------------------
(* UserCommands with small sets of calls, for TLC.  Session names and saved *)
(* servers may be permuted, and calls of one kind.                          *)
EXTENDS UserCommands, TLC

CommandSymmetry == Permutations(SessionNames) \cup Permutations(Servers)
                     \cup Permutations(Savers) \cup Permutations(Connections)
=============================================================================
