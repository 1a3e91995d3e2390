-------------------------- MODULE MCShellLiveness --------------------------
(* InteractiveShell for TLC's liveness check, which takes no symmetry: of   *)
(* the commands, the /pwd calls and the /cancel any MaxCalls are made.  No  *)
(* fair action begins a call, so the bound takes nothing from those made.   *)
EXTENDS InteractiveShell

CONSTANT MaxCalls    \* bound: calls of any kind but open_shell and close_shell

Calls        == Cardinality({t \in Runners \cup Probers : pc[t] # "idle"}) + interrupts
LiveNext     == Next /\ (Calls <= MaxCalls)'
LiveFairSpec == Init /\ [][LiveNext]_vars /\ Fairness
=============================================================================
