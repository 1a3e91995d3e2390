-------------------------- MODULE InteractiveShell --------------------------
(***************************************************************************)
(* The interactive shell of one AsyncSSHSession                            *)
(* (app/infrastructure/ssh/asyncssh_runtime.py, open_shell .. close_shell).*)
(*                                                                         *)
(* Every Telegram update is handled by an asyncio task of its own, so any  *)
(* number of handlers may be inside the methods of one session at a time.  *)
(* asyncio switches tasks only at an await that suspends: each action below*)
(* is one such uninterrupted segment of a method, and pc[t] names the await*)
(* at which task t is suspended.  A task performs one call:                *)
(*   Openers  open_shell         Closers  close_shell                      *)
(*   Runners  run_shell_command  Probers  get_shell_cwd                    *)
(* interrupt_shell_command and send_to_shell never suspend; each call of   *)
(* them is one action.  A command (a probe) is named by the task that runs *)
(* it, which stands for its uuid, its markers and its future.              *)
(*                                                                         *)
(* The remote shell is external: a process per opener, with the bytes on   *)
(* their way to it (stdin) and from it (stdout), as the code uses them.    *)
(***************************************************************************)
EXTENDS Naturals, Sequences, FiniteSets

CONSTANTS Openers, Closers, Runners, Probers,
          None,            \* Python's None
          Overlap,         \* may open_shell/close_shell calls overlap in time?
          ShellMayDie,     \* may the remote shell end by itself?
          MaxOut,          \* bound: pieces of output one command prints
          MaxInterrupts,   \* bound: /cancel calls
          MaxInputs        \* bound: lines forwarded with send_to_shell

Tasks == Openers \cup Closers \cup Runners \cup Probers

ASSUME TasksAssumption ==
  /\ None \notin Tasks
  /\ Openers \cap Closers = {} /\ Openers \cap Runners = {}
  /\ Openers \cap Probers = {} /\ Closers \cap Runners = {}
  /\ Closers \cap Probers = {} /\ Runners \cap Probers = {}

ASSUME BoundsAssumption ==
  /\ Overlap \in BOOLEAN /\ ShellMayDie \in BOOLEAN
  /\ MaxOut \in Nat /\ MaxInterrupts \in Nat /\ MaxInputs \in Nat

VARIABLES
  interactive, process, readerTask, callback,  \* is_interactive, _shell_process, ...
                 \* process and readerTask name the opener that made them, or None
  cmdFut,        \* _command_done_future and the two command markers
  cmdBuf, started, streamed,       \* _command_buffer, _started, _streamed_output
  probeFut,      \* _probe_future, the two probe markers and _probe_buffer
  cmdLock, probeLock,              \* holders of _command_lock and _probe_lock
  pc,            \* where each task is suspended
  fut, result,   \* the future each runner and prober made, what it was resolved with
  reader,        \* the _read_shell_loop task each open_shell started
  cancelled,     \* reader tasks whose cancel() was called
  joins,         \* the reader task each closer awaits
  alive,         \* can the client still write to the process?
  stdin, stdout, fg, printed,      \* the remote shells
  interrupts, inputs               \* calls made so far, for the bounds

session == <<interactive, process, readerTask, callback>>
command == <<cmdFut, cmdBuf, started, streamed>>
locks   == <<cmdLock, probeLock>>
tasks   == <<pc, fut, result>>
joining == <<cancelled, joins>>
remote  == <<alive, stdin, stdout, fg, printed>>
counts  == <<interrupts, inputs>>
vars == <<session, command, locks, probeFut, tasks, reader, joining, remote, counts>>

-----------------------------------------------------------------------------
(* What travels on the channel, by the task it belongs to.                 *)

Ref(S) == S \cup {None}

Cmd(t)    == [kind |-> "cmd",   of |-> t]       \* the wrapped command line
Probe(t)  == [kind |-> "probe", of |-> t]       \* echo BEGIN; pwd; echo END
CtrlC     == [kind |-> "intr",  of |-> None]
Text      == [kind |-> "text",  of |-> None]    \* a forwarded line
ExitLine  == [kind |-> "exit",  of |-> None]
Line == [kind : {"cmd"}, of : Runners] \cup [kind : {"probe"}, of : Probers]
          \cup {CtrlC, Text, ExitLine}

Begin(t)  == [kind |-> "begin", of |-> t, n |-> 0]
End(t)    == [kind |-> "end",   of |-> t, n |-> 0]   \* END|status|cwd
Out(t, k) == [kind |-> "out",   of |-> t, n |-> k]
Pwd(t)    == [kind |-> "pwd",   of |-> t, n |-> 0]   \* a probe's whole answer
Token == [kind : {"begin", "end", "out", "pwd"}, of : Ref(Tasks), n : Nat]

At(s, tok) == {i \in 1..Len(s) : s[i] = tok}
Outputs(s) == {s[i] : i \in {j \in 1..Len(s) : s[j].kind = "out"}}
From(s, i) == SubSeq(s, i, Len(s))

(* The states of a reader task: what the statement after its await needs.  *)
Idle(p)    == [pc |-> p, src |-> None, end |-> None, buf |-> <<>>, out |-> {}]
Reading(p) == [pc |-> "read", src |-> p, end |-> None, buf |-> <<>>, out |-> {}]
Emitting(end, buf, out) ==
  [pc |-> "emit", src |-> None, end |-> end, buf |-> buf, out |-> out]

-----------------------------------------------------------------------------
(* Shared by the methods.  A definition marked "fault" is a mistake the    *)
(* properties are tested against; no specification uses it.                *)

Done(f)       == fut[f] # "pending"
CommandActive == cmdFut # None                                \* _command_active
ProbePending  == probeFut # None /\ ~Done(probeFut)
BusyProbing   == ProbePending          \* fault: an active command is not looked for
Busy          == ProbePending \/ CommandActive

Unlooked == TRUE                       \* fault: is_interactive is not tested
MayOpen  == ~interactive
Usable   == process # None /\ interactive
Writable == process # None /\ alive[process]
Write(line) == stdin' = [stdin EXCEPT ![process] = Append(@, line)]

(* set_exception on those of these futures that are pending.               *)
FailNothing(futures, why) == fut' = fut                       \* fault
Fail(futures, why) ==
  fut' = [f \in DOMAIN fut |-> IF f \in futures /\ ~Done(f) THEN why ELSE fut[f]]

ResetWithoutBuffer == /\ cmdFut' = None /\ cmdBuf' = None     \* fault: None for ""
                      /\ started' = FALSE /\ streamed' = {}
ResetCommandState  == /\ cmdFut' = None /\ cmdBuf' = <<>>
                      /\ started' = FALSE /\ streamed' = {}

(* The timer of a wait_for may expire before what it waits for happens.    *)
NoTimer  == FALSE                                             \* fault
TimesOut == TRUE

Goto(t, where) == pc' = [pc EXCEPT ![t] = where]
OnlyGoto(t, where) ==
  /\ Goto(t, where)
  /\ UNCHANGED <<session, command, locks, probeFut, fut, result, reader, joining, remote, counts>>
SetReader(r, state) == reader' = [reader EXCEPT ![r] = state]
BackToLoop(r) == SetReader(r, Idle("loop"))
OnlyReader == UNCHANGED <<session, command, locks, probeFut, tasks, joining, remote, counts>>

(* No open_shell or close_shell call is suspended.                         *)
Quiet == \A t \in Openers \cup Closers : pc[t] \in {"idle", "done", "failed"}

-----------------------------------------------------------------------------
(* open_shell                                                              *)

(* A shell is open already, or disconnect() has set conn to None.  The     *)
(* connection is not part of this module, so it may be missing at any time.*)
OpenRefused(o) == pc[o] = "idle" /\ OnlyGoto(o, "failed")

OpenStart(o) ==
  /\ pc[o] = "idle" /\ MayOpen
  /\ Overlap \/ Quiet
  /\ callback' = TRUE
  /\ Goto(o, "creating")
  /\ UNCHANGED <<interactive, process, readerTask, command, locks, probeFut,
                 fut, result, reader, joining, remote, counts>>

Unstored(o) == UNCHANGED readerTask                           \* fault
Stored(o)   == readerTask' = o

OpenFinish(o) ==
  /\ pc[o] = "creating"
  /\ process' = o /\ interactive' = TRUE
  /\ alive' = [alive EXCEPT ![o] = TRUE]
  /\ SetReader(o, Idle("start")) /\ Stored(o)
  /\ Goto(o, "done")
  /\ UNCHANGED <<callback, command, locks, probeFut, fut, result, joining,
                 stdin, stdout, fg, printed, counts>>

(* The shell has ended by the time the task resumes, so that writing the   *)
(* setup lines raises: _shell_process is set, and is_interactive is not.   *)
OpenWriteRaises(o) ==
  /\ pc[o] = "creating" /\ ShellMayDie
  /\ process' = o
  /\ Goto(o, "failed")
  /\ UNCHANGED <<interactive, readerTask, callback, command, locks, probeFut,
                 fut, result, reader, joining, remote, counts>>

(* create_process raises: the callback stays set, nothing else changes.    *)
OpenFail(o) == pc[o] = "creating" /\ OnlyGoto(o, "failed")

-----------------------------------------------------------------------------
(* _read_shell_loop.  "start": the task is created and has not run yet;    *)
(* "loop": about to test is_interactive and call read() on the current     *)
(* process; "read": suspended in that read(); "emit": suspended in the     *)
(* command's output callback; "failed": ended by an exception, which       *)
(* whoever awaits the task gets.                                           *)

Runs(r, states) == reader[r].pc \in states /\ r \notin cancelled

ReaderTurn(r) ==
  /\ Runs(r, {"start", "loop"})
  /\ SetReader(r,
       CASE reader[r].pc = "start" /\ (process = None \/ ~callback) -> Idle("ended")
         [] ~interactive   -> Idle("ended")
         [] process = None -> Idle("failed")
         [] OTHER          -> Reading(process))
  /\ OnlyReader

(* read() timed out after 1 s, which matters only if something changed.    *)
ReadTimeout(r) ==
  /\ Runs(r, {"read"}) /\ stdout[reader[r].src] = <<>>
  /\ ~interactive \/ process # reader[r].src
  /\ BackToLoop(r) /\ OnlyReader

(* An empty chunk or a DisconnectError: the loop is left.                  *)
ReadEof(r) ==
  /\ Runs(r, {"read"}) /\ stdout[reader[r].src] = <<>> /\ ~alive[reader[r].src]
  /\ SetReader(r, Idle("ended")) /\ OnlyReader

(* The CancelledError is raised at the await the loop is suspended in.     *)
ReaderCancelled(r) ==
  /\ r \in cancelled /\ reader[r].pc \in {"start", "loop", "read", "emit"}
  /\ SetReader(r, Idle("ended")) /\ OnlyReader

(* read() returns a chunk, any non-empty prefix of what has arrived.       *)
Chunk(r, n) ==
  /\ Runs(r, {"read"})
  /\ stdout' = [stdout EXCEPT ![reader[r].src] = From(@, n + 1)]
  /\ UNCHANGED <<session, cmdFut, locks, probeFut, pc, joining, alive, stdin, fg, printed, counts>>

Received(r, n)     == SubSeq(stdout[reader[r].src], 1, n)
BufferedLast(r, n) == Received(r, n)                          \* fault: "=" for "+="
Buffered(r, n)     == cmdBuf \o Received(r, n)

(* A probe is in progress: the chunk goes to the probe's buffer, and       *)
(* _try_finish_probe resolves the probe once its answer is in it.          *)
ReadForProbe(r, n) ==
  /\ Chunk(r, n) /\ probeFut # None
  /\ fut' = IF ProbePending /\ At(Received(r, n), Pwd(probeFut)) # {}
              THEN [fut EXCEPT ![probeFut] = "result"] ELSE fut
  /\ BackToLoop(r)
  /\ UNCHANGED <<cmdBuf, started, streamed, result>>

(* Neither a probe nor a command: the shell callback suppresses the chunk. *)
ReadUnsolicited(r, n) ==
  /\ Chunk(r, n) /\ probeFut = None /\ ~CommandActive
  /\ SetReader(r, IF callback THEN Idle("loop") ELSE Idle("failed"))
  /\ UNCHANGED <<cmdBuf, started, streamed, fut, result>>

(* A command is active: _try_finish_command, with the text after the BEGIN *)
(* marker if that has arrived.                                             *)
NormalizedUncut(r, n) ==                                      \* fault: not cut
  {Buffered(r, n) : i \in IF started THEN {0} ELSE At(Buffered(r, n), Begin(cmdFut))}
Normalized(r, n) ==
  {From(Buffered(r, n), i + 1) : i \in IF started THEN {0} ELSE At(Buffered(r, n), Begin(cmdFut))}

ReadForCommand(r, n, starts) ==
  /\ Chunk(r, n) /\ probeFut = None /\ CommandActive
  /\ started' = starts

ReadBeforeBegin(r, n) ==
  /\ ReadForCommand(r, n, FALSE)
  /\ Normalized(r, n) = {}
  /\ cmdBuf' = Buffered(r, n)
  /\ BackToLoop(r)
  /\ UNCHANGED <<streamed, fut, result>>

(* _emit_command_stream_delta awaits the callback only for new output.     *)
NewOutput(out) == out # streamed /\ out # {}

(* No END marker yet: stream what is new; `_command_buffer = normalized`   *)
(* is assigned only after the callback has returned.                       *)
NotStarted == started                                         \* fault: flag not set
Started    == TRUE
ReadOutput(r, n) ==
  /\ ReadForCommand(r, n, Started)
  /\ \E norm \in Normalized(r, n) :
       /\ At(norm, End(cmdFut)) = {}
       /\ streamed' = Outputs(norm)
       /\ IF NewOutput(Outputs(norm))
            THEN cmdBuf' = Buffered(r, n) /\ SetReader(r, Emitting(None, norm, {}))
            ELSE cmdBuf' = norm /\ BackToLoop(r)
  /\ UNCHANGED <<fut, result>>

(* set_result on whatever future is current when it is called.             *)
Resolve(c, out) ==
  IF CommandActive /\ ~Done(cmdFut)
    THEN /\ fut' = [fut EXCEPT ![cmdFut] = "result"]
         /\ result' = [result EXCEPT ![cmdFut] = [of |-> c, out |-> out]]
    ELSE UNCHANGED <<fut, result>>

(* The END marker: cut the buffer, stream the last output, resolve.        *)
ReadEnd(r, n) ==
  /\ ReadForCommand(r, n, TRUE)
  /\ \E norm \in Normalized(r, n) : \E i \in At(norm, End(cmdFut)) :
       LET out == Outputs(SubSeq(norm, 1, i - 1)) IN
       /\ cmdBuf' = From(norm, i + 1)
       /\ streamed' = out
       /\ IF NewOutput(out)
            THEN SetReader(r, Emitting(cmdFut, <<>>, out)) /\ UNCHANGED <<fut, result>>
            ELSE Resolve(cmdFut, out) /\ BackToLoop(r)

(* The callback returned: the statement after the await.                   *)
EmitReturns(r) ==
  /\ Runs(r, {"emit"})
  /\ IF reader[r].end = None
       THEN cmdBuf' = reader[r].buf /\ UNCHANGED <<fut, result>>
       ELSE Resolve(reader[r].end, reader[r].out) /\ UNCHANGED cmdBuf
  /\ BackToLoop(r)
  /\ UNCHANGED <<session, cmdFut, started, streamed, locks, probeFut, pc, joining, remote, counts>>

-----------------------------------------------------------------------------
(* run_shell_command.  asyncio hands a lock over in the order of arrival;  *)
(* here any waiting task may be next.                                      *)

RunRefused(t) == pc[t] = "idle" /\ ~Usable /\ OnlyGoto(t, "failed")

RunQueue(t) ==
  /\ pc[t] = "idle" /\ Usable
  /\ cmdLock # None \/ \E u \in Runners : pc[u] = "lock"
  /\ OnlyGoto(t, "lock")

(* t is the task that gets the free _command_lock, at once or after a wait:*)
(* then is_interactive was tested before the wait.                         *)
GetsCommandLockHeld(t) == pc[t] = "lock" \/ (pc[t] = "idle" /\ Usable) \* fault
GetsCommandLock(t) ==
  /\ cmdLock = None
  /\ \/ pc[t] = "lock"
     \/ pc[t] = "idle" /\ Usable /\ \A u \in Runners : pc[u] # "lock"

RunRejected(t) == GetsCommandLock(t) /\ Busy /\ OnlyGoto(t, "failed")

Install(t) ==
  /\ GetsCommandLock(t) /\ ~Busy
  /\ cmdFut' = t /\ cmdBuf' = <<>> /\ started' = FALSE /\ streamed' = {}
  /\ fut' = [fut EXCEPT ![t] = "pending"]
  /\ UNCHANGED <<session, probeLock, probeFut, result, reader, joining,
                 alive, stdout, fg, printed, counts>>

Submit(t) == Install(t) /\ Writable /\ Write(Cmd(t)) /\ cmdLock' = t /\ Goto(t, "waiting")

(* The write raises, and is not inside the try: the future stays installed.*)
SubmitRaises(t) == Install(t) /\ ~Writable /\ Goto(t, "failed") /\ UNCHANGED <<cmdLock, stdin>>

(* The awaited future is done: _wait_command_event and the finally clause. *)
RunWake(t) ==
  /\ pc[t] = "waiting" /\ Done(t)
  /\ IF fut[t] = "result" \/ (CommandActive /\ Done(cmdFut))
       THEN ResetCommandState ELSE UNCHANGED command
  /\ cmdLock' = None
  /\ Goto(t, IF fut[t] = "result" THEN "done" ELSE "failed")
  /\ UNCHANGED <<session, probeLock, probeFut, fut, result, reader, joining, remote, counts>>

-----------------------------------------------------------------------------
(* get_shell_cwd                                                           *)

ProbeRefused(q) == pc[q] = "idle" /\ ~Usable /\ OnlyGoto(q, "failed")

ProbeQueue(q) ==
  /\ pc[q] = "idle" /\ Usable
  /\ probeLock # None \/ \E u \in Probers : pc[u] = "lock"
  /\ OnlyGoto(q, "lock")

GetsProbeLockHeld(q) == pc[q] = "lock" \/ (pc[q] = "idle" /\ Usable)   \* fault
GetsProbeLock(q) ==
  /\ probeLock = None
  /\ \/ pc[q] = "lock"
     \/ pc[q] = "idle" /\ Usable /\ \A u \in Probers : pc[u] # "lock"

ProbeRejected(q) == GetsProbeLock(q) /\ ProbePending /\ OnlyGoto(q, "failed")

InstallProbe(q) ==
  /\ GetsProbeLock(q) /\ ~ProbePending
  /\ probeFut' = q
  /\ fut' = [fut EXCEPT ![q] = "pending"]
  /\ UNCHANGED <<session, command, cmdLock, result, reader, joining,
                 alive, stdout, fg, printed, counts>>

ProbeSubmit(q) ==
  InstallProbe(q) /\ Writable /\ Write(Probe(q)) /\ probeLock' = q /\ Goto(q, "waiting")

(* This write is outside the try as well: the probe stays installed.       *)
ProbeSubmitRaises(q) ==
  InstallProbe(q) /\ ~Writable /\ Goto(q, "failed") /\ UNCHANGED <<probeLock, stdin>>

(* The future is done, or 4 s passed and wait_for cancels it; the finally  *)
(* clause clears whatever probe is installed.                              *)
ProbeWake(q) ==
  /\ pc[q] = "waiting"
  /\ Done(q) \/ TimesOut
  /\ fut' = IF Done(q) THEN fut ELSE [fut EXCEPT ![q] = "timeout"]
  /\ probeFut' = None
  /\ probeLock' = None
  /\ Goto(q, IF fut[q] = "result" THEN "done" ELSE "failed")
  /\ UNCHANGED <<session, command, cmdLock, result, reader, joining, remote, counts>>

-----------------------------------------------------------------------------
(* interrupt_shell_command and send_to_shell; a write that raises is their *)
(* first effect, and so the last.                                          *)

Interrupt ==
  /\ interrupts < MaxInterrupts /\ interrupts' = interrupts + 1
  /\ Usable /\ Writable /\ Write(CtrlC)
  /\ Fail({cmdFut}, "interrupted")
  /\ ResetCommandState
  /\ UNCHANGED <<session, locks, probeFut, pc, result, reader, joining,
                 alive, stdout, fg, printed, inputs>>

SendToShell ==
  /\ inputs < MaxInputs /\ inputs' = inputs + 1
  /\ Usable /\ Writable /\ Write(Text)
  /\ UNCHANGED <<session, command, locks, probeFut, tasks, reader, joining,
                 alive, stdout, fg, printed, interrupts>>

-----------------------------------------------------------------------------
(* close_shell, called by /exit and by disconnect() while is_interactive   *)

CloseRefused(c) == pc[c] = "idle" /\ ~interactive /\ OnlyGoto(c, "failed")

(* Up to the first await: fail both futures, reset, cancel the reader.     *)
CloseStart(c) ==
  /\ pc[c] = "idle" /\ interactive
  /\ Overlap \/ Quiet
  /\ interactive' = FALSE
  /\ Fail({probeFut, cmdFut}, "closed")
  /\ probeFut' = None /\ ResetCommandState
  /\ joins' = [joins EXCEPT ![c] = readerTask]
  /\ cancelled' = cancelled \cup ({readerTask} \ {None})
  /\ Goto(c, "joining")
  /\ UNCHANGED <<process, readerTask, callback, locks, result, reader, remote, counts>>

(* The awaited reader had failed: awaiting it raises here.                 *)
CloseJoinRaises(c) ==
  /\ pc[c] = "joining" /\ joins[c] # None
  /\ reader[joins[c]].pc = "failed"
  /\ OnlyGoto(c, "failed")

ReaderJoined(c) ==
  /\ pc[c] = "joining"
  /\ joins[c] # None => reader[joins[c]].pc = "ended"
  /\ readerTask' = IF joins[c] = None THEN readerTask ELSE None
  /\ UNCHANGED <<interactive, process, command, locks, probeFut, fut, result,
                 reader, joining, alive, stdout, fg, printed, counts>>

(* Write "exit" to the process that is current now, and wait for it.       *)
CloseExit(c) ==
  ReaderJoined(c) /\ Writable /\ Write(ExitLine) /\ Goto(c, "exiting") /\ UNCHANGED callback

(* The process has exited: writing "exit" raises, outside the try.         *)
CloseExitRaises(c) ==
  /\ ReaderJoined(c)
  /\ process # None /\ ~alive[process]
  /\ Goto(c, "failed") /\ UNCHANGED <<callback, stdin>>

(* The process is gone already (closed by another call): nothing to write. *)
CloseNoProcess(c) ==
  ReaderJoined(c) /\ process = None /\ callback' = FALSE /\ Goto(c, "done") /\ UNCHANGED stdin

(* It exited, or 3 s passed.                                               *)
CloseFinish(c) ==
  /\ pc[c] = "exiting"
  /\ TimesOut \/ (process # None => ~alive[process])
  /\ process' = None /\ callback' = FALSE
  /\ Goto(c, "done")
  /\ UNCHANGED <<interactive, readerTask, command, locks, probeFut, fut, result,
                 reader, joining, remote, counts>>

-----------------------------------------------------------------------------
(* The remote shell (external): reads a line at a time, runs one command   *)
(* at a time, and gives its terminal input to the running command.         *)

RemoteUnchanged == UNCHANGED <<session, command, locks, probeFut, tasks, reader, joining, counts>>
Prints(p, tok) == stdout' = [stdout EXCEPT ![p] = Append(@, tok)]
NextLine(p, line) == /\ alive[p] /\ stdin[p] # <<>> /\ Head(stdin[p]) = line
                     /\ stdin' = [stdin EXCEPT ![p] = Tail(@)]

RemoteBegins(p, t) ==
  /\ fg[p] = None /\ NextLine(p, Cmd(t))
  /\ fg' = [fg EXCEPT ![p] = t]
  /\ Prints(p, Begin(t))
  /\ RemoteUnchanged /\ UNCHANGED <<alive, printed>>

RemotePrints(p, t) ==
  /\ alive[p] /\ fg[p] = t /\ printed[t] < MaxOut
  /\ printed' = [printed EXCEPT ![t] = @ + 1]
  /\ Prints(p, Out(t, printed[t] + 1))
  /\ RemoteUnchanged /\ UNCHANGED <<alive, stdin, fg>>

RemoteEnds(p, t) ==
  /\ alive[p] /\ fg[p] = t
  /\ fg' = [fg EXCEPT ![p] = None]
  /\ Prints(p, End(t))
  /\ RemoteUnchanged /\ UNCHANGED <<alive, stdin, printed>>

RemoteAnswers(p, q) ==
  /\ fg[p] = None /\ NextLine(p, Probe(q))
  /\ Prints(p, Pwd(q))
  /\ RemoteUnchanged /\ UNCHANGED <<alive, fg, printed>>

(* The running command reads a line from its terminal; an idle shell runs  *)
(* the line as a command without markers.                                  *)
RemoteConsumes(p) ==
  /\ \E line \in Line \ {CtrlC} : NextLine(p, line) /\ (fg[p] = None => line = Text)
  /\ RemoteUnchanged /\ UNCHANGED <<alive, stdout, fg, printed>>

(* The terminal discards the lines before Ctrl-C and signals the command,  *)
(* which dies without printing its END marker, or ignores the signal.      *)
RemoteInterrupted(p) ==
  /\ alive[p]
  /\ \E i \in At(stdin[p], CtrlC) : stdin' = [stdin EXCEPT ![p] = From(@, i + 1)]
  /\ fg' \in {fg, [fg EXCEPT ![p] = None]}
  /\ RemoteUnchanged /\ UNCHANGED <<alive, stdout, printed>>

RemoteExits(p) ==
  /\ fg[p] = None /\ NextLine(p, ExitLine)
  /\ alive' = [alive EXCEPT ![p] = FALSE]
  /\ RemoteUnchanged /\ UNCHANGED <<stdout, fg, printed>>

(* The shell ends, or the connection is lost: the client may not write any *)
(* more, and reads what has arrived and then the end of file.              *)
RemoteDies(p) ==
  /\ ShellMayDie /\ alive[p]
  /\ alive' = [alive EXCEPT ![p] = FALSE]
  /\ RemoteUnchanged /\ UNCHANGED <<stdin, stdout, fg, printed>>

-----------------------------------------------------------------------------
Init ==
  /\ interactive = FALSE /\ process = None /\ readerTask = None /\ callback = FALSE
  /\ cmdFut = None /\ cmdBuf = <<>> /\ started = FALSE /\ streamed = {}
  /\ cmdLock = None /\ probeFut = None /\ probeLock = None
  /\ pc = [t \in Tasks |-> "idle"]
  /\ fut = [t \in Runners \cup Probers |-> "none"]
  /\ result = [t \in Runners |-> [of |-> None, out |-> {}]]
  /\ reader = [o \in Openers |-> Idle("none")]
  /\ cancelled = {} /\ joins = [c \in Closers |-> None]
  /\ alive = [o \in Openers |-> FALSE]
  /\ stdin = [o \in Openers |-> <<>>] /\ stdout = [o \in Openers |-> <<>>]
  /\ fg = [o \in Openers |-> None] /\ printed = [t \in Runners |-> 0]
  /\ interrupts = 0 /\ inputs = 0

OpenShell(o) == \/ OpenRefused(o) \/ OpenStart(o)
                \/ OpenFinish(o) \/ OpenWriteRaises(o) \/ OpenFail(o)

ReadChunk(r, n) == \/ ReadForProbe(r, n) \/ ReadUnsolicited(r, n)
                   \/ ReadBeforeBegin(r, n) \/ ReadOutput(r, n) \/ ReadEnd(r, n)

ReadShellLoop(r) == \/ ReaderTurn(r) \/ ReadTimeout(r) \/ ReadEof(r)
                    \/ /\ reader[r].pc = "read"
                       /\ \E n \in 1..Len(stdout[reader[r].src]) : ReadChunk(r, n)
                    \/ EmitReturns(r) \/ ReaderCancelled(r)

RunShellCommand(t) == \/ RunRefused(t) \/ RunQueue(t) \/ RunRejected(t)
                      \/ Submit(t) \/ SubmitRaises(t) \/ RunWake(t)

GetShellCwd(q) == \/ ProbeRefused(q) \/ ProbeQueue(q) \/ ProbeRejected(q)
                  \/ ProbeSubmit(q) \/ ProbeSubmitRaises(q) \/ ProbeWake(q)

CloseShell(c) == \/ CloseRefused(c) \/ CloseStart(c) \/ CloseJoinRaises(c)
                 \/ CloseExit(c) \/ CloseExitRaises(c) \/ CloseNoProcess(c)
                 \/ CloseFinish(c)

RemoteShell(p) == \/ \E t \in Runners : RemoteBegins(p, t) \/ RemotePrints(p, t) \/ RemoteEnds(p, t)
                  \/ \E q \in Probers : RemoteAnswers(p, q)
                  \/ RemoteConsumes(p) \/ RemoteInterrupted(p)
                  \/ RemoteExits(p) \/ RemoteDies(p)

Next == \/ \E o \in Openers : OpenShell(o) \/ ReadShellLoop(o) \/ RemoteShell(o)
        \/ \E t \in Runners : RunShellCommand(t)
        \/ \E q \in Probers : GetShellCwd(q)
        \/ \E c \in Closers : CloseShell(c)
        \/ Interrupt \/ SendToShell

Spec == Init /\ [][Next]_vars

-----------------------------------------------------------------------------
(* Correctness.                                                            *)

(* Every variable of the session, its tasks and the channel has its type.  *)
Outcome == {"none", "pending", "result", "interrupted", "closed", "timeout"}
ReaderState == [pc : {"none", "start", "loop", "read", "emit", "ended", "failed"},
                src : Ref(Openers), end : Ref(Runners), buf : Seq(Token), out : SUBSET Token]
TypeOK ==
  /\ interactive \in BOOLEAN /\ callback \in BOOLEAN
  /\ process \in Ref(Openers) /\ readerTask \in Ref(Openers)
  /\ cmdFut \in Ref(Runners) /\ cmdBuf \in Seq(Token)
  /\ started \in BOOLEAN /\ streamed \in SUBSET Token
  /\ cmdLock \in Ref(Runners) /\ probeLock \in Ref(Probers) /\ probeFut \in Ref(Probers)
  /\ pc \in [Tasks -> {"idle", "creating", "lock", "waiting", "joining", "exiting",
                       "done", "failed"}]
  /\ fut \in [Runners \cup Probers -> Outcome]
  /\ result \in [Runners -> [of : Ref(Runners), out : SUBSET Token]]
  /\ reader \in [Openers -> ReaderState]
  /\ cancelled \in SUBSET Openers /\ joins \in [Closers -> Ref(Openers)]
  /\ alive \in [Openers -> BOOLEAN]
  /\ stdin \in [Openers -> Seq(Line)] /\ stdout \in [Openers -> Seq(Token)]
  /\ fg \in [Openers -> Ref(Runners)] /\ printed \in [Runners -> Nat]
  /\ interrupts \in Nat /\ inputs \in Nat

(* A handler that waits for a command's (a probe's) future which nobody has*)
(* resolved finds it installed in the session, where the reader, /cancel   *)
(* and /exit look for it; otherwise it would wait for ever, holding the    *)
(* lock (run_shell_command, get_shell_cwd, asyncssh_runtime.py:330-398).   *)
NoOrphanFuture ==
  /\ \A t \in Runners : pc[t] = "waiting" /\ ~Done(t) => cmdFut = t
  /\ \A q \in Probers : pc[q] = "waiting" /\ ~Done(q) => probeFut = q

(* No step of any task drops or replaces an installed command or probe     *)
(* whose future is still pending: it is resolved in that step at the latest*)
(* (the resets at lines 326, 354-358, 398, 427, 441-447 act on whatever is *)
(* installed, not on the caller's own command).                            *)
PendingKept ==
  /\ cmdFut # None /\ cmdFut' # cmdFut => fut'[cmdFut] # "pending"
  /\ probeFut # None /\ probeFut' # probeFut => fut'[probeFut] # "pending"
PendingIsNeverDropped == [][PendingKept]_vars

(* What a command is resolved with is the output of one command only.  If  *)
(* that is another than its own, the other had been failed by /cancel or   *)
(* /exit while its output was being streamed, or was itself resolved with  *)
(* another's: one cancellation may shift all the answers after it, but a   *)
(* command that got its own output never answers anybody else, and the     *)
(* output of two commands is never mixed (lines 243-247).                  *)
Misled(u) == fut[u] \in {"interrupted", "closed"} \/ result[u].of \notin {None, u}
ResultIsolation ==
  \A t \in Runners : LET u == result[t].of IN
    u # None => /\ \A tok \in result[t].out : tok.of = u
                /\ u # t => Misled(u)

(* As long as no probe was made, a command's result is all that it printed,*)
(* however the bytes were cut into chunks (_try_finish_command).  A probe  *)
(* takes every chunk that arrives while it is installed (lines 170-173).   *)
CompleteOutput ==
  (\A q \in Probers : fut[q] = "none") =>
    \A t \in Runners : result[t].of = t => result[t].out = {Out(t, k) : k \in 1..printed[t]}

Live(r) == reader[r].pc \in {"start", "loop", "read", "emit"}

(* When calls to open_shell and close_shell do not overlap, a session never*)
(* has two reader tasks taking chunks from each other, and an interactive  *)
(* session has a process, a callback and a reader that runs until that very*)
(* process has ended.                                                      *)
SingleReader == \A r, s \in Openers : Live(r) /\ Live(s) => r = s
ShellIsServed ==
  interactive => /\ process # None /\ callback /\ readerTask = process
                 /\ readerTask \notin cancelled
                 /\ Live(readerTask) \/ ~alive[process]

(* Whichever way a command or a probe ends (result, /cancel, /exit, a write*)
(* that raises, the 4 s timeout), its lock is released with it: exactly the*)
(* task that waits for its future holds the lock.                          *)
LocksAreHeldByWaiters ==
  /\ \A t \in Runners : cmdLock = t <=> pc[t] = "waiting"
  /\ \A q \in Probers : probeLock = q <=> pc[q] = "waiting"

(* The session implements the turn-taking of CommandQueue: a runner has its *)
(* turn while it waits for its future, and what its caller is told is what *)
(* that future was resolved with.  A cancelled, closed or unsent command   *)
(* never starts a second turn, and a late answer never reaches a caller    *)
(* that was told already (run_shell_command, asyncssh_runtime.py:360-398). *)
Stage(t) == CASE pc[t] = "idle"   -> "new"
              [] pc[t] = "lock"   -> "queued"
              [] pc[t] = "waiting" /\ fut[t] = "pending" -> "running"
              [] pc[t] = "waiting" /\ fut[t] = "result"  -> "answered"
              [] pc[t] = "waiting" /\ fut[t] \notin {"pending", "result"} -> "broken"
              [] pc[t] \notin {"idle", "lock", "waiting"} -> pc[t]
Nothing == [of |-> None, out |-> {}]
Queue == INSTANCE CommandQueue WITH
  Commands <- Runners,
  Answers  <- [of : Ref(Runners), out : SUBSET Token],
  stage    <- [t \in Runners |-> Stage(t)],
  answer   <- [t \in Runners |-> IF pc[t] \in {"waiting", "done"} THEN result[t] ELSE Nothing]
QueueSpec == Queue!Spec

(* What test_asyncssh_runtime.py:153 asks of /cancel: the next command gets*)
(* its own result.                                                         *)
OwnResult == \A t \in Runners : result[t].of \in {None, t}

(* What makes the two invariants above inductive: a task that holds a lock *)
(* is the only one whose future can be installed, and a suspended read()   *)
(* belongs to a process.                                                   *)
InstalledByHolder ==
  /\ \A t \in Runners : cmdLock = t => cmdFut \in {t, None}
  /\ \A q \in Probers : probeLock = q => probeFut \in {q, None}
ReadsAProcess == \A r \in Openers : reader[r].pc = "read" => reader[r].src # None

IndInv == /\ TypeOK /\ ReadsAProcess
          /\ LocksAreHeldByWaiters /\ InstalledByHolder /\ NoOrphanFuture

-----------------------------------------------------------------------------
(* Fairness: the event loop runs every task that is ready (its future is   *)
(* done, its lock is free, its data has arrived, its timer has expired).   *)
(* Nothing is assumed of the remote shell or of the Telegram user.         *)
Fairness ==
  /\ \A r \in Openers : WF_vars(ReadShellLoop(r))
  /\ \A t \in Runners : WF_vars(RunWake(t)) /\ WF_vars(pc[t] = "lock" /\ RunShellCommand(t))
  /\ \A q \in Probers : WF_vars(ProbeWake(q)) /\ WF_vars(pc[q] = "lock" /\ GetShellCwd(q))
  /\ \A o \in Openers : WF_vars(OpenFinish(o) \/ OpenWriteRaises(o) \/ OpenFail(o))
  /\ \A c \in Closers : WF_vars(pc[c] \in {"joining", "exiting"} /\ CloseShell(c))
FairSpec == Spec /\ Fairness

(* Once the remote shell has printed a command's END marker, the handler   *)
(* that waits for the command wakes up, whatever else happens, unless a    *)
(* probe is made, which may take the marker (lines 170-173).               *)
EndIsDelivered ==
  \A t \in Runners : \A o \in Openers :
    (pc[t] = "waiting" /\ interactive /\ process = o /\ At(stdout[o], End(t)) # {})
      ~> pc[t] # "waiting" \/ \E q \in Probers : pc[q] # "idle"

(* A /pwd returns, answered or refused: also when the shell died, was      *)
(* closed, or runs a command that swallows the probe, and also when it is  *)
(* queued behind another /pwd (get_shell_cwd, 4 s timeout).                *)
CwdReturns == \A q \in Probers : pc[q] \in {"lock", "waiting"} ~> pc[q] \in {"done", "failed"}

(* A close_shell that was started returns, with an error or without.       *)
CloseReturns == \A c \in Closers : pc[c] = "joining" ~> pc[c] \in {"done", "failed"}

=============================================================================
