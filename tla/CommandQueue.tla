---------------------------- MODULE CommandQueue ----------------------------
(***************************************************************************)
(* What run_shell_command promises to its callers, whatever happens to the *)
(* shell underneath: commands take turns.  The turn of a command begins    *)
(* when it is sent and ends when its caller is told the outcome; it is     *)
(* answered at most once, after that nothing changes what it was answered  *)
(* with, and a command that waits for its turn is overtaken by no newcomer.*)
(* InteractiveShell!QueueSpec says that the session implements this.       *)
(***************************************************************************)
CONSTANTS Commands, Answers

VARIABLES stage,    \* how far each command is
          answer    \* what an answered command's caller is told

Turn      == {"running", "answered", "broken"}
OnTurn(c) == stage[c] \in Turn
Move(c, from, to) == stage[c] \in from /\ stage' = [stage EXCEPT ![c] = to]

Init == stage = [c \in Commands |-> "new"] /\ answer \in [Commands -> Answers]

Wait(c)   == Move(c, {"new"}, "queued") /\ UNCHANGED answer
Refuse(c) == Move(c, {"new", "queued"}, "failed") /\ UNCHANGED answer

Start(c) ==
  /\ \A d \in Commands : ~OnTurn(d)
  /\ stage[c] = "new" => \A d \in Commands : stage[d] # "queued"
  /\ Move(c, {"new", "queued"}, "running")
  /\ UNCHANGED answer

Answer(c) ==
  /\ Move(c, {"running"}, "answered")
  /\ answer' \in [Commands -> Answers]
  /\ \A d \in Commands \ {c} : answer'[d] = answer[d]

(* /cancel or /exit fails the command.                                     *)
Break(c)  == Move(c, {"running"}, "broken") /\ UNCHANGED answer

Return(c) ==
  /\ Move(c, {"answered"}, "done") \/ Move(c, {"broken"}, "failed")
  /\ UNCHANGED answer

Next == \E c \in Commands : \/ Wait(c) \/ Refuse(c) \/ Start(c)
                            \/ Answer(c) \/ Break(c) \/ Return(c)
Spec == Init /\ [][Next]_<<stage, answer>>
=============================================================================
