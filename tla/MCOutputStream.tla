--------------------------- MODULE MCOutputStream ---------------------------
(* OutputStream with small sets of messages, for TLC.  The names of the     *)
(* messages and of the delayed tasks may be permuted in safety runs.        *)
EXTENDS OutputStream, TLC

StreamSymmetry == Permutations(Messages) \cup Permutations(Timers)
=============================================================================
