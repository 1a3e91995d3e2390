---------------------------- MODULE OutputStream ----------------------------
(***************************************************************************)
(* What a user sees of the output of the commands typed into an            *)
(* interactive shell: the routing and the streaming of                     *)
(* app/interfaces/telegram/handlers/session.py, with the publisher of      *)
(* app/infrastructure/telegram/hybrid_stream.py.                           *)
(*                                                                         *)
(* A message of the user is a command of its own, or, while another one    *)
(* holds the user's shell lock, input of that one.  Every command m has a  *)
(* stream context with a lock; the workers that take it are                *)
(*   Out     on_stream, called by the shell's reader for each chunk        *)
(*   Flush   flush, called by m's handler when the command has ended       *)
(*   Timers  the delayed_publish tasks                                     *)
(* and the handlers of input, which rotate the stream.  A suspended publish*)
(* (sending[m]) is the only thing that keeps the lock across an await.  As *)
(* in InteractiveShell, actions are what runs between two awaits.  Chunks  *)
(* of output are numbered; a page holds PageSize of them.  A chunk stands  *)
(* for text that clean_terminal_output leaves as it is: the code cleans the*)
(* whole buffer anew for each publish, so that an escape sequence or prompt*)
(* line cut between chunks may be shown and taken back by the next edit.   *)
(* That is not modelled, and no property says that messages only grow.     *)
(***************************************************************************)
EXTENDS Naturals, Sequences, FiniteSets

CONSTANTS Messages,      \* text messages sent while the session is interactive
          Enters,        \* /enter commands
          Out, Flush, Timers,
          None,          \* Python's None
          PageSize,      \* chunks in one Telegram message
          MaxChunks,     \* bound: chunks one command prints
          MaxFailures    \* bound: Telegram requests that raise

Workers == {Out, Flush} \cup Timers
Inputs  == Messages \cup Enters

ASSUME SetsAssumption ==
  /\ Messages \cap Enters = {} /\ None \notin Messages \cup Workers
  /\ Out # Flush /\ Out \notin Timers /\ Flush \notin Timers
ASSUME BoundsAssumption ==
  PageSize \in Nat \ {0} /\ MaxChunks \in Nat /\ MaxFailures \in Nat

VARIABLES
  pc,          \* where each message's or /enter's handler is
  target,      \* the command whose stream a suspended input rotates
  shellLock,   \* the message that holds shell_state["lock"]
  interactive, \* session.is_interactive
  ended,       \* how a command ended
  printed,     \* chunks the reader has passed to on_stream
  buffer, lastPages, delayed,    \* stream_ctx; delayed is delayed_publish_task
  due,         \* has the update interval passed since last_publish?
  work,        \* what each worker of a stream is doing
  sending,     \* the suspended publish of a stream: by whom, its pages, the page
               \* under way, and the call of Telegram's it awaits
  post,        \* the StreamState of the current stream ids: message and last_text
  chat,        \* the messages the user sees
  failures     \* Telegram requests that raised, for the bound

outcome  == <<ended, interactive>>
handlers == <<pc, target, shellLock, outcome>>
context  == <<buffer, lastPages, delayed, due>>
telegram == <<post, chat, failures>>
vars     == <<handlers, printed, context, work, sending, telegram>>

Text  == Seq(1..MaxChunks)
Pages(b) ==                                        \* _format_stream_pages
  [i \in 1..((Len(b) + PageSize - 1) \div PageSize) |->
     SubSeq(b, (i - 1) * PageSize + 1, IF i * PageSize < Len(b) THEN i * PageSize ELSE Len(b))]
Sending  == [by : Workers, pages : Seq(Text), at : Nat \ {0}, call : {"send", "edit", "again"}]
ASSUME NoneAssumption == None \notin Sending
MaxPages == (MaxChunks + PageSize - 1) \div PageSize
Unposted == [i \in 1..MaxPages |-> [msg |-> 0, text |-> <<>>]]

Unlocked(m)  == sending[m] = None
Rotatable(m) ==                                    \* "rotate_stream" is set
  /\ m # None
  /\ \/ pc[m] = "running"
     \/ pc[m] = "answering" /\ ended[m] \in {"failed", "closed"}
Running(m)   == pc[m] = "running" /\ ended[m] = "no"

-----------------------------------------------------------------------------
(* publish, inside the lock.  A definition marked "fault" is a mistake the *)
(* properties are tested against; no specification uses it.                *)

(* Pages that differ from last_pages and from the publisher's last_text.   *)
Unsent(m, pages, from) ==
  {i \in from..Len(pages) : /\ i > Len(lastPages[m]) \/ lastPages[m][i] # pages[i]
                            /\ post[m][i].text # pages[i]}

TimerKept(m, w, ref)   == delayed' = [delayed EXCEPT ![m] = ref]   \* fault: no finally
ClearsTimer(m, w, ref) == delayed' = [delayed EXCEPT ![m] = IF w \in Timers THEN None ELSE ref]

(* The worker is done: the lock is free again.  After a flush the handler  *)
(* drops "rotate_stream" and answers if there was no output.               *)
Release(m, w, states, ref) ==
  /\ work' = [work EXCEPT ![m] = [states EXCEPT ![w] = "none"]]
  /\ ClearsTimer(m, w, ref)
  /\ sending' = [sending EXCEPT ![m] = None]
  /\ IF w # Flush THEN UNCHANGED <<pc, shellLock>>
     ELSE IF printed[m] = 0 THEN pc' = [pc EXCEPT ![m] = "answering"] /\ UNCHANGED shellLock
     ELSE pc' = [pc EXCEPT ![m] = "done"] /\ shellLock' = None

SendFrom(m, w, pages, i, states, ref) ==
  IF Unsent(m, pages, i) = {}
    THEN /\ lastPages' = [lastPages EXCEPT ![m] = pages]
         /\ Release(m, w, states, ref)
    ELSE LET at == CHOOSE j \in Unsent(m, pages, i) : \A k \in Unsent(m, pages, i) : j <= k IN
         /\ sending' = [sending EXCEPT ![m] =
              [by |-> w, pages |-> pages, at |-> at,
               call |-> IF post[m][at].msg = 0 THEN "send" ELSE "edit"]]
         /\ work' = [work EXCEPT ![m] = [states EXCEPT ![w] = "publishing"]]
         /\ delayed' = [delayed EXCEPT ![m] = ref]
         /\ UNCHANGED <<lastPages, pc, shellLock>>

(* publish(force=True), or with the interval passed, of the buffer b.      *)
Publish(m, w, b, states, ref) ==
  IF b = <<>> THEN Release(m, w, states, ref) /\ UNCHANGED <<lastPages, due>>
  ELSE SendFrom(m, w, Pages(b), 1, states, ref) /\ due' = [due EXCEPT ![m] = FALSE]

(* delayed_publish_task.cancel(): a task that has not started never will.  *)
TimerCancelled(m) ==
  IF delayed[m] = None THEN work[m]
  ELSE [work[m] EXCEPT ![delayed[m]] = IF @ = "new" THEN "none" ELSE "cancelled"]

-----------------------------------------------------------------------------
(* on_stream                                                               *)

Prints(m) == Running(m) /\ work[m][Out] = "none" /\ printed[m] < MaxChunks

StreamWaits(m) ==
  /\ Prints(m) /\ ~Unlocked(m)
  /\ printed' = [printed EXCEPT ![m] = @ + 1]
  /\ work' = [work EXCEPT ![m][Out] = "lock"]
  /\ UNCHANGED <<handlers, context, sending, telegram>>

StreamChunk(m, k) ==
  /\ Unlocked(m)
  /\ \/ Prints(m) /\ k = printed[m] + 1
     \/ work[m][Out] = "lock" /\ interactive /\ k = printed[m]
  /\ printed' = [printed EXCEPT ![m] = k]
  /\ buffer' = [buffer EXCEPT ![m] = Append(@, k)]
  /\ UNCHANGED <<target, outcome, telegram>>

StreamPublishes(m, k) ==
  /\ StreamChunk(m, k) /\ due[m]
  /\ Publish(m, Out, Append(buffer[m], k), TimerCancelled(m), None)

StreamDelays(m, k) ==
  /\ StreamChunk(m, k) /\ ~due[m]
  /\ IF delayed[m] # None
       THEN work' = [work EXCEPT ![m][Out] = "none"] /\ UNCHANGED delayed
       ELSE \E t \in {u \in Timers : work[m][u] = "none"} :
              /\ delayed' = [delayed EXCEPT ![m] = t]
              /\ work' = [work EXCEPT ![m][Out] = "none", ![m][t] = "new"]
  /\ UNCHANGED <<lastPages, due, sending, pc, shellLock>>

-----------------------------------------------------------------------------
(* delayed_publish                                                         *)

TimerGoes(m, t, from, to) ==
  /\ work[m][t] = from /\ work' = [work EXCEPT ![m][t] = to]
  /\ UNCHANGED <<handlers, printed, buffer, lastPages, due, sending, telegram>>

TimerStarts(m, t) == TimerGoes(m, t, "new", "sleep") /\ UNCHANGED delayed
TimerWaits(m, t)  == ~Unlocked(m) /\ TimerGoes(m, t, "sleep", "lock") /\ UNCHANGED delayed

TimerPublishes(m, t) ==
  /\ Unlocked(m) /\ work[m][t] \in {"sleep", "lock"}
  /\ Publish(m, t, buffer[m], work[m], delayed[m])
  /\ UNCHANGED <<target, outcome, printed, buffer, telegram>>

(* The finally clause clears the reference, to whatever task it is now.    *)
TimerEnds(m, t) == TimerGoes(m, t, "cancelled", "none") /\ ClearsTimer(m, t, None)

-----------------------------------------------------------------------------
(* Telegram's answer to the request a publish awaits (publish and          *)
(* _publish_classic; the bot's requests are external).                     *)

Request(m)   == sending[m].pages[sending[m].at]
Cut(m)       == sending[m].by = Out /\ ~interactive   \* the reader was cancelled
Delivered(m) ==
  IF sending[m].call = "edit" THEN [chat EXCEPT ![post[m][sending[m].at].msg].text = Request(m)]
  ELSE Append(chat, [of |-> m, text |-> Request(m)])

GoesOn(m) ==
  /\ SendFrom(m, sending[m].by, sending[m].pages, sending[m].at + 1, work[m], delayed[m])
  /\ UNCHANGED <<target, outcome, printed, buffer, due>>

Answered(m) ==
  /\ ~Unlocked(m) /\ ~Cut(m)
  /\ chat' = Delivered(m)
  /\ post' = [post EXCEPT ![m][sending[m].at] =
       [msg |-> IF sending[m].call = "edit" THEN @.msg ELSE Len(chat) + 1, text |-> Request(m)]]
  /\ GoesOn(m)
  /\ UNCHANGED failures

(* The request raised, whether Telegram carried it out or not.             *)
Raised(m) ==
  /\ ~Unlocked(m) /\ failures < MaxFailures
  /\ failures' = failures + 1
  /\ chat' \in {chat, Delivered(m)}
  /\ UNCHANGED post

SendsAgain(m) ==
  /\ Raised(m) /\ ~Cut(m) /\ sending[m].call # "again"
  /\ sending' = [sending EXCEPT ![m].call = "again"]
  /\ UNCHANGED <<handlers, printed, context, work>>

GivesUp(m) == Raised(m) /\ ~Cut(m) /\ sending[m].call = "again" /\ GoesOn(m)

(* /exit cancelled the reader inside on_stream.                            *)
StreamCut(m) ==
  /\ ~interactive /\ work[m][Out] \in {"lock", "publishing"}
  /\ work' = [work EXCEPT ![m][Out] = "none"]
  /\ IF work[m][Out] = "lock" THEN UNCHANGED <<sending, chat>>
     ELSE sending' = [sending EXCEPT ![m] = None] /\ chat' \in {chat, Delivered(m)}
  /\ UNCHANGED <<handlers, printed, context, post, failures>>

-----------------------------------------------------------------------------
(* handle_message and cmd_enter                                            *)

(* The shell lock is free: the message is a command, with a new stream.    *)
RunCommand(m) ==
  /\ pc[m] = "idle" /\ interactive /\ shellLock = None
  /\ pc' = [pc EXCEPT ![m] = "running"] /\ shellLock' = m
  /\ UNCHANGED <<target, outcome, printed, context, work, sending, telegram>>

(* A full-screen program is refused, holding the lock but with no stream.  *)
RefuseApp(m) ==
  /\ pc[m] = "idle" /\ interactive /\ shellLock = None
  /\ pc' = [pc EXCEPT ![m] = "answering"] /\ shellLock' = m
  /\ UNCHANGED <<target, outcome, printed, context, work, sending, telegram>>

(* The command has its result: everything it printed was passed on.        *)
Ends(m, how) == ended' = [ended EXCEPT ![m] = how] /\ UNCHANGED interactive
HasResult(m) == Running(m) /\ work[m][Out] = "none"

FlushWaits(m) ==
  /\ HasResult(m) /\ ~Unlocked(m)
  /\ Ends(m, "result")
  /\ work' = [work EXCEPT ![m][Flush] = "lock"]
  /\ UNCHANGED <<pc, target, shellLock, printed, context, sending, telegram>>

FlushUnforced(m) ==                                \* fault: force=False
  IF due[m] THEN Publish(m, Flush, buffer[m], TimerCancelled(m), None)
  ELSE Release(m, Flush, TimerCancelled(m), None) /\ UNCHANGED <<lastPages, due>>
FlushForced(m) == Publish(m, Flush, buffer[m], TimerCancelled(m), None)

FlushStarts(m) ==
  /\ HasResult(m) \/ work[m][Flush] = "lock"
  /\ Unlocked(m)
  /\ Ends(m, "result")
  /\ FlushForced(m)
  /\ UNCHANGED <<target, printed, buffer, telegram>>

(* /cancel: the handler returns and flushes nothing; on_stream and         *)
(* delayed_publish go on.                                                  *)
Interrupted(m) ==
  /\ Running(m) /\ Ends(m, "interrupted")
  /\ pc' = [pc EXCEPT ![m] = "done"] /\ shellLock' = None
  /\ UNCHANGED <<target, printed, context, work, sending, telegram>>

(* The command could not be written to the shell; its handler says so.     *)
RunFails(m) ==
  /\ Running(m) /\ printed[m] = 0 /\ Ends(m, "failed")
  /\ pc' = [pc EXCEPT ![m] = "answering"]
  /\ UNCHANGED <<target, shellLock, printed, context, work, sending, telegram>>

(* /exit: close_shell fails the command that runs and cancels the reader.  *)
Exit ==
  /\ interactive /\ interactive' = FALSE
  /\ IF shellLock # None /\ Running(shellLock)
       THEN /\ ended' = [ended EXCEPT ![shellLock] = "closed"]
            /\ pc' = [pc EXCEPT ![shellLock] = "answering"]
       ELSE UNCHANGED <<ended, pc>>
  /\ UNCHANGED <<target, shellLock, printed, context, work, sending, telegram>>

AnswerReturns(m) ==
  /\ pc[m] = "answering"
  /\ pc' = [pc EXCEPT ![m] = "done"] /\ shellLock' = None
  /\ UNCHANGED <<target, outcome, printed, context, work, sending, telegram>>

(* Input: it was written to the shell; rotate the stream if there is one.  *)
IsInput(t) == pc[t] = "idle" /\ interactive /\ (t \in Messages => shellLock # None)

InputOnly(t) ==
  /\ IsInput(t) /\ ~Rotatable(shellLock)
  /\ pc' = [pc EXCEPT ![t] = "done"]
  /\ UNCHANGED <<target, shellLock, outcome, printed, context, work, sending, telegram>>

RotateWaits(t) ==
  /\ IsInput(t) /\ Rotatable(shellLock) /\ ~Unlocked(shellLock)
  /\ pc' = [pc EXCEPT ![t] = "rotating"] /\ target' = [target EXCEPT ![t] = shellLock]
  /\ UNCHANGED <<shellLock, outcome, printed, context, work, sending, telegram>>

KeepsIds(m)  == UNCHANGED post                     \* fault: the old messages are edited
NewIds(m)    == post' = [post EXCEPT ![m] = Unposted]
KeepsText(m) == UNCHANGED buffer                   \* fault: the buffer is not cleared
TextNone(m)  == buffer' = [buffer EXCEPT ![m] = None]   \* fault: no longer a string
NewText(m)   == buffer' = [buffer EXCEPT ![m] = <<>>]

Rotate(t, m) ==
  /\ \/ IsInput(t) /\ Rotatable(shellLock) /\ m = shellLock
     \/ pc[t] = "rotating" /\ m = target[t]
  /\ Unlocked(m)
  /\ work' = [work EXCEPT ![m] = TimerCancelled(m)]
  /\ delayed' = [delayed EXCEPT ![m] = None]
  /\ NewText(m) /\ NewIds(m)
  /\ lastPages' = [lastPages EXCEPT ![m] = <<>>] /\ due' = [due EXCEPT ![m] = TRUE]
  /\ pc' = [pc EXCEPT ![t] = "done"]
  /\ UNCHANGED <<target, shellLock, outcome, printed, sending, chat, failures>>

IntervalPasses(m) ==
  /\ ~due[m] /\ due' = [due EXCEPT ![m] = TRUE]
  /\ UNCHANGED <<handlers, printed, buffer, lastPages, delayed, work, sending, telegram>>

-----------------------------------------------------------------------------
Init ==
  /\ pc = [t \in Inputs |-> "idle"] /\ target = [t \in Inputs |-> None]
  /\ shellLock = None /\ interactive = TRUE /\ ended = [m \in Messages |-> "no"]
  /\ printed = [m \in Messages |-> 0]
  /\ buffer = [m \in Messages |-> <<>>] /\ lastPages = [m \in Messages |-> <<>>]
  /\ delayed = [m \in Messages |-> None] /\ due = [m \in Messages |-> TRUE]
  /\ work = [m \in Messages |-> [w \in Workers |-> "none"]]
  /\ sending = [m \in Messages |-> None]
  /\ post = [m \in Messages |-> Unposted] /\ chat = <<>> /\ failures = 0

OnStream(m) == \/ StreamWaits(m)
               \/ \E k \in 1..MaxChunks : StreamPublishes(m, k) \/ StreamDelays(m, k)
               \/ StreamCut(m)

DelayedPublish(m, t) ==
  TimerStarts(m, t) \/ TimerWaits(m, t) \/ TimerPublishes(m, t) \/ TimerEnds(m, t)

PublishReturns(m) == Answered(m) \/ SendsAgain(m) \/ GivesUp(m)

Command(m) == \/ RunCommand(m) \/ RefuseApp(m) \/ FlushWaits(m) \/ FlushStarts(m)
              \/ Interrupted(m) \/ RunFails(m) \/ AnswerReturns(m)

Input(t) == InputOnly(t) \/ RotateWaits(t) \/ \E m \in Messages : Rotate(t, m)

Next == \/ \E m \in Messages : \/ OnStream(m) \/ PublishReturns(m) \/ Command(m)
                               \/ IntervalPasses(m)
                               \/ \E t \in Timers : DelayedPublish(m, t)
        \/ \E t \in Inputs : Input(t)
        \/ Exit

Spec == Init /\ [][Next]_vars

-----------------------------------------------------------------------------
(* Correctness.                                                            *)

(* Every variable of the handlers, the streams and the chat has its type.  *)
TypeOK ==
  /\ pc \in [Inputs -> {"idle", "running", "answering", "rotating", "done"}]
  /\ target \in [Inputs -> Messages \cup {None}] /\ shellLock \in Messages \cup {None}
  /\ ended \in [Messages -> {"no", "result", "interrupted", "failed", "closed"}]
  /\ interactive \in BOOLEAN
  /\ printed \in [Messages -> 0..MaxChunks]
  /\ buffer \in [Messages -> Text] /\ lastPages \in [Messages -> Seq(Text)]
  /\ delayed \in [Messages -> Timers \cup {None}] /\ due \in [Messages -> BOOLEAN]
  /\ work \in [Messages -> [Workers -> {"none", "new", "sleep", "lock", "publishing", "cancelled"}]]
  /\ sending \in [Messages -> Sending \cup {None}]
  /\ post \in [Messages -> [1..MaxPages -> [msg : Nat, text : Text]]]
  /\ chat \in Seq([of : Messages, text : Text]) /\ failures \in Nat

(* As long as Telegram refuses nothing and no /exit cuts the command off,  *)
(* the messages of a command, read from the top, show its output in order  *)
(* and nothing twice: over pages, rotations, delayed publishes and flush.  *)
Chunks(i) == {chat[i].text[j] : j \in 1..Len(chat[i].text)}
ShownOnceInOrder ==
  failures = 0 =>
    \A i, j \in 1..Len(chat) :
      i < j /\ chat[i].of = chat[j].of /\ (interactive \/ ended[chat[i].of] = "result") =>
        \A k \in Chunks(i), l \in Chunks(j) : k < l

(* Input freezes what was shown before it: a message with output that is no*)
(* longer in the buffer never changes again, whichever publish was under   *)
(* way, waiting or delayed when the stream was rotated, and although other *)
(* workers edit on (rotate_stream, session.py:216-225).                    *)
Buffered(m) == {buffer[m][j] : j \in 1..Len(buffer[m])}
EarlierStays ==
  [][\A i \in 1..Len(chat) :
       ~(Chunks(i) \subseteq Buffered(chat[i].of)) => chat'[i] = chat[i]]_vars

(* When the handler of a command is done with its result, all that it      *)
(* printed since the last input is in the chat, if Telegram refused nothing*)
(* (flush, session.py:205-211, 449).                                       *)
Shown(m, k) == \E i \in 1..Len(chat) : chat[i].of = m /\ k \in Chunks(i)
HasEnded(m) == pc[m] = "done" /\ ended[m] = "result"
FlushedIsShown ==
  \A m \in Messages : HasEnded(m) /\ failures = 0 =>
    \A i \in 1..Len(buffer[m]) : Shown(m, buffer[m][i])

(* After that nothing more of it appears, although delayed_publish tasks   *)
(* whose reference was overwritten (session.py:186) may still run.         *)
QuietAfterEnd ==
  [][\A m \in Messages : HasEnded(m) =>
       \A i \in 1..Len(chat') : chat'[i].of = m => i <= Len(chat) /\ chat'[i] = chat[i]]_vars

-----------------------------------------------------------------------------
(* Fairness: the event loop runs the tasks that are ready, timers expire   *)
(* and Telegram answers.  Commands need not print or end.                  *)
Fairness ==
  \A m \in Messages :
    /\ WF_vars(PublishReturns(m))
    /\ \A t \in Timers : WF_vars(DelayedPublish(m, t))
FairSpec == Spec /\ Fairness

(* Output that waits in the buffer is shown although the command prints no *)
(* more and does not end, and after a /cancel too, unless input clears the *)
(* buffer, Telegram refuses a request, or /exit cuts the publishing off.   *)
BufferIsShown ==
  \A m \in Messages : \A k \in 1..MaxChunks :
    (\E i \in 1..Len(buffer[m]) : buffer[m][i] = k)
      ~> \/ Shown(m, k) \/ \A i \in 1..Len(buffer[m]) : buffer[m][i] # k
         \/ failures > 0 \/ ~interactive

=============================================================================
