------------------------- MODULE ShellAnswersProofs -------------------------
(***************************************************************************)
(* Whose reader reads, whose output a command is answered with, and that   *)
(* it is all of it, when calls of open_shell and close_shell do not        *)
(* overlap: theorems of InteractiveShell for any tasks and any bounds.     *)
(***************************************************************************)
EXTENDS InteractiveShellProofs

-----------------------------------------------------------------------------
(* One call at a time opens or closes the shell, and what it has done so   *)
(* far says where the reader is.                                           *)

Inside(a) == pc[a] \in {"creating", "joining", "exiting"}
OneCall == \A a, b \in Openers \cup Closers : Inside(a) /\ Inside(b) => a = b
OpenersWait ==
  \A o \in Openers :
    /\ pc[o] = "creating" => ~interactive /\ callback
    /\ pc[o] # "done" => reader[o].pc = "none" /\ readerTask # o /\ o \notin cancelled
ClosersWait ==
  \A c \in Closers :
    /\ pc[c] = "joining" => ~interactive /\ joins[c] # None /\ joins[c] = readerTask
    /\ pc[c] = "exiting" => ~interactive /\ readerTask = None
ReaderIsCurrent ==
  \A r \in Openers :
    /\ Live(r) => r = readerTask /\ r = process
    /\ Live(r) /\ ~interactive => r \in cancelled /\ \E c \in Closers : pc[c] = "joining"
    /\ reader[r].pc = "read" => reader[r].src = r
Served == OneCall /\ OpenersWait /\ ClosersWait /\ ReaderIsCurrent /\ ShellIsServed

LEMMA ServedInit == Init => Served
BY TasksAssumption DEF Init, Served, OneCall, Inside, OpenersWait, ClosersWait, ReaderIsCurrent,
   ShellIsServed, Live, Idle, Tasks

(* A step that neither opens, closes nor reads.                            *)
LEMMA ServedElsewhere ==
  ASSUME TypeOK, Served, UNCHANGED <<session, joining, reader>>,
         \A a \in Openers \cup Closers : pc'[a] = pc[a],
         \A p \in Openers : alive'[p] => alive[p]
  PROVE  Served'
<1>1. process \in Openers \cup {None} /\ readerTask \in Openers \cup {None}
  BY DEF TypeOK, Ref
<1> QED BY <1>1 DEF Served, OneCall, Inside, OpenersWait, ClosersWait, ReaderIsCurrent,
   ShellIsServed, Live, session, joining

(* A runner, a prober or nobody moves on: openers and closers do not.      *)
LEMMA NoOpenerMoves ==
  ASSUME TypeOK, NEW u \in Runners \cup Probers, NEW where, Goto(u, where)
  PROVE  \A a \in Openers \cup Closers : pc'[a] = pc[a]
BY TasksAssumption DEF Goto, TypeOK, Tasks

LEMMA ServedCalls ==
  ASSUME TypeOK, Served,
         \/ \E t \in Runners : RunShellCommand(t)
         \/ \E q \in Probers : GetShellCwd(q)
         \/ Interrupt \/ SendToShell
  PROVE  Served'
<1>1. UNCHANGED <<session, joining, reader, alive>>
  BY DEF RunShellCommand, RunRefused, RunQueue, RunRejected, Submit, SubmitRaises, Install, RunWake,
         GetShellCwd, ProbeRefused, ProbeQueue, ProbeRejected, ProbeSubmit, ProbeSubmitRaises,
         InstallProbe, ProbeWake, Interrupt, SendToShell, OnlyGoto, remote, joining
<1>2. \A a \in Openers \cup Closers : pc'[a] = pc[a]
  BY NoOpenerMoves
  DEF RunShellCommand, RunRefused, RunQueue, RunRejected, Submit, SubmitRaises, Install, RunWake,
      GetShellCwd, ProbeRefused, ProbeQueue, ProbeRejected, ProbeSubmit, ProbeSubmitRaises,
      InstallProbe, ProbeWake, Interrupt, SendToShell, OnlyGoto, tasks
<1> QED BY <1>1, <1>2, ServedElsewhere

LEMMA ServedRemote ==
  ASSUME TypeOK, Served, NEW p \in Openers, RemoteShell(p)
  PROVE  Served'
<1>1. UNCHANGED <<session, joining, reader, pc>>
  BY DEF RemoteShell, RemoteBegins, RemotePrints, RemoteEnds, RemoteAnswers, RemoteConsumes,
         RemoteInterrupted, RemoteExits, RemoteDies, RemoteUnchanged, tasks
<1>2. \A q \in Openers : alive'[q] => alive[q]
  BY DEF RemoteShell, RemoteBegins, RemotePrints, RemoteEnds, RemoteAnswers, RemoteConsumes,
         RemoteInterrupted, RemoteExits, RemoteDies, TypeOK
<1> QED BY <1>1, <1>2, ServedElsewhere

LEMMA ServedOpen ==
  ASSUME ~Overlap, TypeOK, Served, NEW o \in Openers, OpenShell(o)
  PROVE  Served'
<1> USE TasksAssumption DEF Goto, OnlyGoto, session, joining, remote, Served, OneCall, Inside, OpenersWait,
        ClosersWait, ReaderIsCurrent, ShellIsServed, Live, Tasks
<1>1. /\ pc \in [Tasks -> {"idle", "creating", "lock", "waiting", "joining", "exiting",
                           "done", "failed"}]
      /\ reader \in [Openers -> ReaderState] /\ alive \in [Openers -> BOOLEAN]
      /\ readerTask \in Openers \cup {None} /\ process \in Openers \cup {None}
  BY DEF TypeOK, Ref
<1>2. CASE OpenRefused(o)
  BY <1>1, <1>2 DEF OpenRefused
<1>3. CASE OpenStart(o)
  <2>1. \A a \in Openers \cup Closers : ~Inside(a)
    BY <1>3 DEF OpenStart, Quiet
  <2>2. \A r \in Openers : ~Live(r)
    BY <1>3, <2>1 DEF OpenStart, MayOpen
  <2> QED BY <1>1, <1>3, <2>1, <2>2 DEF OpenStart, MayOpen
<1>4. CASE OpenFinish(o)
  <2>1. \A r \in Openers : ~Live(r)
    <3> SUFFICES ASSUME NEW r \in Openers, Live(r) PROVE FALSE
      OBVIOUS
    <3>1. PICK c \in Closers : pc[c] = "joining"
      BY <1>4 DEF OpenFinish
    <3> QED BY <1>4, <3>1 DEF OpenFinish
  <2>2. /\ reader' = [reader EXCEPT ![o] = Idle("start")] /\ readerTask' = o /\ process' = o
        /\ interactive' = TRUE /\ alive' = [alive EXCEPT ![o] = TRUE]
        /\ pc' = [pc EXCEPT ![o] = "done"] /\ UNCHANGED <<callback, cancelled, joins>>
    BY <1>4 DEF OpenFinish, SetReader, Stored
  <2>3. pc[o] = "creating" /\ o \notin cancelled /\ callback
    BY <1>4 DEF OpenFinish
  <2>4. \A a \in Openers \cup Closers : ~Inside(a)'
    BY <1>1, <2>2, <2>3
  <2> QED BY <1>1, <2>1, <2>2, <2>3, <2>4 DEF Idle
<1>5. CASE OpenFail(o)
  BY <1>1, <1>5 DEF OpenFail
<1>6. CASE OpenWriteRaises(o)
  <2>1. pc[o] = "creating" /\ o \notin cancelled /\ process' = o
    BY <1>6 DEF OpenWriteRaises
  <2> QED BY <1>1, <1>6, <2>1 DEF OpenWriteRaises
<1> QED BY <1>2, <1>3, <1>4, <1>5, <1>6 DEF OpenShell

LEMMA ServedClose ==
  ASSUME ~Overlap, TypeOK, Served, NEW c \in Closers, CloseShell(c)
  PROVE  Served'
<1> USE TasksAssumption DEF Goto, OnlyGoto, session, joining, remote, Served, OneCall, Inside, OpenersWait,
        ClosersWait, ReaderIsCurrent, ShellIsServed, Live, Tasks
<1>1. /\ pc \in [Tasks -> {"idle", "creating", "lock", "waiting", "joining", "exiting",
                           "done", "failed"}]
      /\ reader \in [Openers -> ReaderState] /\ joins \in [Closers -> Openers \cup {None}]
      /\ readerTask \in Openers \cup {None} /\ process \in Openers \cup {None}
      /\ cancelled \subseteq Openers
  BY DEF TypeOK, Ref
<1>2. CASE CloseRefused(c)
  BY <1>1, <1>2 DEF CloseRefused
<1>3. CASE CloseStart(c)
  <2>1. \A a \in Openers \cup Closers : ~Inside(a)
    BY <1>3 DEF CloseStart, Quiet
  <2>2. /\ readerTask \in Openers /\ pc[readerTask] = "done"
    BY <1>1, <1>3 DEF CloseStart
  <2>3. /\ interactive' = FALSE /\ joins' = [joins EXCEPT ![c] = readerTask]
        /\ cancelled' = cancelled \cup {readerTask} /\ pc' = [pc EXCEPT ![c] = "joining"]
        /\ UNCHANGED <<process, readerTask, callback, reader, alive>>
    BY <1>3, <2>2 DEF CloseStart
  <2> QED BY <1>1, <2>1, <2>2, <2>3
<1>4. CASE CloseJoinRaises(c)
  <2>1. pc[c] = "joining" /\ reader[joins[c]].pc = "failed" /\ joins[c] = readerTask /\ readerTask \in Openers
    BY <1>1, <1>4 DEF CloseJoinRaises
  <2>2. \A r \in Openers : ~Live(r)
    BY <2>1
  <2>3. pc' = [pc EXCEPT ![c] = "failed"]
    BY <1>4 DEF CloseJoinRaises
  <2> QED BY <1>1, <1>4, <2>1, <2>2, <2>3 DEF CloseJoinRaises
<1>5. CASE ReaderJoined(c)
  <2>1. /\ pc[c] = "joining" /\ readerTask \in Openers /\ reader[readerTask].pc = "ended"
        /\ readerTask' = None /\ ~interactive
    BY <1>1, <1>5 DEF ReaderJoined
  <2>2. \A r \in Openers : ~Live(r)
    BY <2>1
  <2>3. \A a \in Openers \cup Closers : a # c => ~Inside(a)
    BY <2>1
  <2>4. \E where \in {"exiting", "failed", "done"} : pc' = [pc EXCEPT ![c] = where]
    BY <1>1, <1>5, <2>1 DEF CloseShell, CloseRefused, CloseStart, CloseJoinRaises, CloseExit,
       CloseExitRaises, CloseNoProcess, CloseFinish
  <2>5. UNCHANGED <<interactive, process, reader, cancelled, joins, alive>>
    BY <1>5 DEF ReaderJoined
  <2> QED BY <1>1, <2>1, <2>2, <2>3, <2>4, <2>5
<1>6. CASE CloseFinish(c)
  <2>1. pc[c] = "exiting" /\ readerTask = None /\ ~interactive
    BY <1>6 DEF CloseFinish
  <2>2. \A r \in Openers : ~Live(r)
    BY <2>1, <1>1
  <2>3. \A a \in Openers \cup Closers : a # c => ~Inside(a)
    BY <2>1
  <2>4. /\ pc' = [pc EXCEPT ![c] = "done"] /\ process' = None
        /\ UNCHANGED <<interactive, readerTask, reader, cancelled, joins, alive>>
    BY <1>6 DEF CloseFinish
  <2> QED BY <1>1, <2>1, <2>2, <2>3, <2>4
<1> QED BY <1>2, <1>3, <1>4, <1>5, <1>6
        DEF CloseShell, CloseExit, CloseExitRaises, CloseNoProcess

(* A reader that runs is the one of the interactive shell.                 *)
LEMMA RunningReader ==
  ASSUME TypeOK, Served, NEW r \in Openers, Live(r), r \notin cancelled
  PROVE  /\ interactive /\ callback /\ r = readerTask /\ r = process
         /\ reader[r].pc = "read" => reader[r].src = r
BY DEF Served, ReaderIsCurrent, ShellIsServed

(* What a step of the reader makes of the reader.                          *)
LEMMA ReaderStep ==
  ASSUME TypeOK, Served, NEW r \in Openers, ReadShellLoop(r)
  PROVE  /\ Live(r) /\ UNCHANGED <<session, joining, alive, pc>>
         /\ \E state :
              /\ reader' = [reader EXCEPT ![r] = state]
              /\ state.pc \in {"loop", "read", "emit", "ended", "failed"}
              /\ state.pc = "read" => state.src = r
              /\ state.pc \in {"ended", "failed"} => r \in cancelled \/ ~alive[r]
<1> USE DEF OnlyReader, SetReader, BackToLoop, session, joining, remote, tasks, Live, Idle
<1>1. CASE ReaderTurn(r)
  <2>1. /\ interactive /\ callback /\ r = process /\ process # None /\ Live(r)
    BY <1>1, RunningReader DEF ReaderTurn, Runs, Served, ShellIsServed
  <2>2. reader' = [reader EXCEPT ![r] = Reading(r)]
    BY <1>1, <2>1 DEF ReaderTurn
  <2> QED BY <1>1, <2>1, <2>2 DEF Reading, ReaderTurn
<1>2. CASE ReadTimeout(r)
  <2>1. reader' = [reader EXCEPT ![r] = Idle("loop")] /\ reader[r].pc = "read"
    BY <1>2 DEF ReadTimeout, Runs
  <2> QED BY <1>2, <2>1 DEF ReadTimeout
<1>3. CASE ReadEof(r)
  <2>1. r \notin cancelled /\ reader[r].pc = "read" /\ ~alive[reader[r].src]
    BY <1>3 DEF ReadEof, Runs
  <2>2. reader[r].src = r
    BY <2>1, RunningReader
  <2> QED BY <1>3, <2>1, <2>2 DEF ReadEof
<1>4. ASSUME reader[r].pc = "read", NEW n \in 1 .. Len(stdout[reader[r].src]), ReadChunk(r, n)
      PROVE  /\ Live(r) /\ UNCHANGED <<session, joining, alive, pc>>
             /\ \E state : /\ reader' = [reader EXCEPT ![r] = state]
                           /\ state.pc \in {"loop", "emit"} \/ (state.pc = "failed" /\ ~callback)
                           /\ r \notin cancelled
  <2> USE <1>4 DEF Chunk, Runs
  <2>1. CASE ReadForProbe(r, n)
    BY <2>1 DEF ReadForProbe
  <2>2. CASE ReadUnsolicited(r, n)
    <3>1. reader' = [reader EXCEPT ![r] = IF callback THEN Idle("loop") ELSE Idle("failed")]
      BY <2>2 DEF ReadUnsolicited
    <3>2. CASE callback
      BY <2>2, <3>1, <3>2 DEF ReadUnsolicited
    <3>3. CASE ~callback
      BY <2>2, <3>1, <3>3 DEF ReadUnsolicited
    <3> QED BY <3>2, <3>3
  <2>3. CASE ReadBeforeBegin(r, n)
    BY <2>3 DEF ReadBeforeBegin, ReadForCommand
  <2>4. CASE ReadOutput(r, n)
    BY <2>4 DEF ReadOutput, ReadForCommand, Emitting
  <2>5. CASE ReadEnd(r, n)
    BY <2>5 DEF ReadEnd, ReadForCommand, Emitting
  <2> QED BY <2>1, <2>2, <2>3, <2>4, <2>5 DEF ReadChunk
<1>5. CASE reader[r].pc = "read" /\ \E n \in 1 .. Len(stdout[reader[r].src]) : ReadChunk(r, n)
  BY <1>4, <1>5, RunningReader
<1>6. CASE EmitReturns(r)
  <2>1. reader' = [reader EXCEPT ![r] = Idle("loop")] /\ reader[r].pc = "emit"
    BY <1>6 DEF EmitReturns, Runs
  <2> QED BY <1>6, <2>1 DEF EmitReturns
<1>7. CASE ReaderCancelled(r)
  BY <1>7 DEF ReaderCancelled
<1> QED BY <1>1, <1>2, <1>3, <1>5, <1>6, <1>7 DEF ReadShellLoop

LEMMA ServedReads ==
  ASSUME TypeOK, Served, NEW r \in Openers, ReadShellLoop(r)
  PROVE  Served'
<1>1. PICK state :
        /\ reader' = [reader EXCEPT ![r] = state]
        /\ state.pc \in {"loop", "read", "emit", "ended", "failed"}
        /\ state.pc = "read" => state.src = r
        /\ state.pc \in {"ended", "failed"} => r \in cancelled \/ ~alive[r]
  BY ReaderStep
<1>2. Live(r) /\ UNCHANGED <<session, joining, alive, pc>>
  BY ReaderStep
<1>3. reader \in [Openers -> ReaderState] /\ readerTask \in Openers \cup {None}
  BY DEF TypeOK, Ref
<1> QED BY <1>1, <1>2, <1>3 DEF Served, OneCall, Inside, OpenersWait, ClosersWait, ReaderIsCurrent,
        ShellIsServed, Live, session, joining

LEMMA ServedNext ==
  ASSUME ~Overlap, TypeOK, Served, [Next]_vars
  PROVE  Served'
<1>1. CASE UNCHANGED vars
  BY <1>1, ServedElsewhere DEF vars, tasks, remote
<1> QED BY <1>1, ServedOpen, ServedReads, ServedRemote, ServedCalls, ServedClose DEF Next

LEMMA ServedHolds ==
  ASSUME ~Overlap
  PROVE  Spec => []Served
<1>1. IndInv /\ Served /\ [Next]_vars => Served'
  BY ServedNext DEF IndInv
<1> QED BY <1>1, ServedInit, IndInvHolds, PTL DEF Spec

(* If no two calls of open_shell and close_shell overlap, at most one      *)
(* reader task of the session is running: two would take chunks of the     *)
(* output from each other (open_shell, close_shell,                        *)
(* asyncssh_runtime.py:138-155, 433-463).                                  *)
THEOREM SingleReaderHolds ==
  ASSUME ~Overlap
  PROVE  Spec => []SingleReader
<1>1. Served => SingleReader
  BY DEF Served, ReaderIsCurrent, SingleReader
<1> QED BY <1>1, ServedHolds, PTL

(* ... and a session that says it is interactive has a process, a callback *)
(* and a reader on that process that has not been cancelled and runs until *)
(* the process ends (_read_shell_loop, asyncssh_runtime.py:157-186).       *)
THEOREM ShellIsServedHolds ==
  ASSUME ~Overlap
  PROVE  Spec => []ShellIsServed
<1>1. Served => ShellIsServed
  BY DEF Served
<1> QED BY <1>1, ServedHolds, PTL

-----------------------------------------------------------------------------
(* What a step does to the channel: some lines and tokens are taken from   *)
(* its ends, or a line is written, or the remote shell prints a token.     *)

CutOf(new, old) ==
  \E k \in 0 .. Len(old) : /\ Len(new) = Len(old) - k
                           /\ \A i \in 1 .. Len(new) : new[i] = old[i + k]
Taken == /\ \A p \in Openers : /\ CutOf(stdin'[p], stdin[p]) /\ CutOf(stdout'[p], stdout[p])
                               /\ fg'[p] \in {fg[p], None}
         /\ printed' = printed
Written(line) == /\ process \in Openers /\ Write(line)
                 /\ UNCHANGED <<stdout, fg, printed>>
PrintedBy(p) == \/ \E t \in Runners : RemoteBegins(p, t) \/ RemotePrints(p, t) \/ RemoteEnds(p, t)
                \/ \E q \in Probers : RemoteAnswers(p, q)

LEMMA CutFrom ==
  ASSUME NEW S, NEW s \in Seq(S), NEW k \in 0 .. Len(s)
  PROVE  /\ Len(From(s, k + 1)) = Len(s) - k
         /\ \A i \in 1 .. Len(s) - k : From(s, k + 1)[i] = s[i + k]
<1>1. Len(s) \in Nat
  BY LenProperties
<1>2. \A i \in (k + 1) .. Len(s) : s[i] \in S
  <2>1. \A i \in (k + 1) .. Len(s) : i \in 1 .. Len(s)
    BY <1>1, SMT
  <2> QED BY <1>1, <2>1, ElementOfSeq
<1>3. CASE k = Len(s)
  <2>1. From(s, k + 1) = << >>
    BY <1>1, <1>3, SubSeqProperties DEF From
  <2> QED BY <1>1, <1>3, <2>1, EmptySeq
<1>4. CASE k # Len(s)
  BY <1>1, <1>2, <1>4, SubSeqProperties DEF From
<1> QED BY <1>3, <1>4

LEMMA CutOfFrom ==
  ASSUME NEW S, NEW s \in Seq(S), NEW k \in 0 .. Len(s)
  PROVE  CutOf(From(s, k + 1), s)
<1>1. Len(s) \in Nat
  BY LenProperties
<1> QED BY <1>1, CutFrom DEF CutOf

LEMMA CutOfSame ==
  ASSUME NEW S, NEW s \in Seq(S)
  PROVE  CutOf(s, s)
<1>1. Len(s) \in Nat
  BY LenProperties
<1> QED BY <1>1 DEF CutOf

LEMMA CutOfTail ==
  ASSUME NEW S, NEW s \in Seq(S), s # << >>
  PROVE  CutOf(Tail(s), s)
<1>1. Len(s) \in Nat \ {0} /\ Len(Tail(s)) = Len(s) - 1 /\ \A i \in 1 .. Len(s) - 1 : Tail(s)[i] = s[i + 1]
  BY LenProperties, EmptySeq, HeadTailProperties
<1> QED BY <1>1 DEF CutOf

(* What is left of the channels when p's are cut.                          *)
LEMMA TakenSame ==
  ASSUME TypeOK, UNCHANGED <<stdin, stdout, fg, printed>>
  PROVE  Taken
BY CutOfSame DEF Taken, TypeOK

LEMMA ChannelOfReader ==
  ASSUME TypeOK, Served, NEW r \in Openers, ReadShellLoop(r)
  PROVE  Taken
<1> USE DEF OnlyReader, remote
<1>1. CASE stdin' = stdin /\ stdout' = stdout /\ fg' = fg /\ printed' = printed
  BY <1>1, TakenSame
<1>2. CASE reader[r].pc = "read" /\ \E n \in 1 .. Len(stdout[reader[r].src]) : ReadChunk(r, n)
  <2>1. PICK n \in 1 .. Len(stdout[reader[r].src]) : ReadChunk(r, n)
    BY <1>2
  <2>2. reader[r].src = r
    BY <1>2 DEF Served, ReaderIsCurrent
  <2>3. /\ stdout' = [stdout EXCEPT ![r] = From(@, n + 1)]
        /\ UNCHANGED <<stdin, fg, printed>>
    BY <2>1, <2>2 DEF ReadChunk, ReadForProbe, ReadUnsolicited, ReadBeforeBegin, ReadOutput, ReadEnd,
       ReadForCommand, Chunk
  <2>4. stdout \in [Openers -> Seq(Token)] /\ stdin \in [Openers -> Seq(Line)]
    BY DEF TypeOK
  <2>5. n \in 0 .. Len(stdout[r])
    BY <2>2
  <2>6. CutOf(From(stdout[r], n + 1), stdout[r])
    BY <2>4, <2>5, CutOfFrom
  <2> QED BY <2>3, <2>4, <2>6, CutOfSame DEF Taken
<1> QED BY <1>1, <1>2 DEF ReadShellLoop, ReaderTurn, ReadTimeout, ReadEof, ReaderCancelled, EmitReturns

LEMMA ChannelOfRemote ==
  ASSUME TypeOK, NEW p \in Openers, RemoteShell(p)
  PROVE  Taken \/ PrintedBy(p)
<1>1. /\ stdout \in [Openers -> Seq(Token)] /\ stdin \in [Openers -> Seq(Line)]
      /\ fg \in [Openers -> Ref(Runners)]
  BY DEF TypeOK
<1>2. \A q \in Openers : CutOf(stdin[q], stdin[q]) /\ CutOf(stdout[q], stdout[q])
  BY <1>1, CutOfSame
<1>3. ASSUME NEW line, NextLine(p, line)
      PROVE  \A q \in Openers : CutOf(stdin'[q], stdin[q])
  BY <1>1, <1>2, <1>3, CutOfTail DEF NextLine
<1>4. CASE RemoteConsumes(p)
  BY <1>1, <1>2, <1>3, <1>4 DEF RemoteConsumes, Taken
<1>5. CASE RemoteInterrupted(p)
  <2>1. PICK i \in At(stdin[p], CtrlC) : stdin' = [stdin EXCEPT ![p] = From(@, i + 1)]
    BY <1>5 DEF RemoteInterrupted
  <2>2. i \in 0 .. Len(stdin[p])
    BY <1>1, LenProperties DEF At
  <2>3. CutOf(From(stdin[p], i + 1), stdin[p])
    BY <1>1, <2>2, CutOfFrom
  <2> QED BY <1>1, <1>2, <1>5, <2>1, <2>3 DEF RemoteInterrupted, Taken
<1>6. CASE RemoteExits(p)
  BY <1>1, <1>2, <1>3, <1>6 DEF RemoteExits, Taken
<1>7. CASE RemoteDies(p)
  BY <1>7, TakenSame DEF RemoteDies
<1> QED BY <1>4, <1>5, <1>6, <1>7 DEF RemoteShell, PrintedBy

LEMMA ChannelOfCalls ==
  ASSUME TypeOK, Next, ~(\E r \in Openers : ReadShellLoop(r) \/ RemoteShell(r))
  PROVE  \/ Taken
         \/ \E line \in Line : Written(line) /\ (line.kind # "cmd" \/ \E t \in Runners : line = Cmd(t) /\ Submit(t))
<1> USE DEF remote, OnlyGoto
<1>1. Writable => process \in Openers
  BY DEF Writable, TypeOK, Ref
<1>2. \A q \in Probers : Probe(q).kind # "cmd"
  BY DEF Probe
<1>3. CtrlC.kind # "cmd" /\ Text.kind # "cmd" /\ ExitLine.kind # "cmd"
  BY DEF CtrlC, Text, ExitLine
<1>4. CASE \E o \in Openers : OpenShell(o)
  BY <1>4, TakenSame DEF OpenShell, OpenRefused, OpenStart, OpenFinish, OpenWriteRaises, OpenFail
<1>5. CASE \E t \in Runners : RunShellCommand(t)
  BY <1>1, <1>5, TakenSame, LineType
  DEF RunShellCommand, RunRefused, RunQueue, RunRejected, Submit, SubmitRaises, Install, RunWake, Written
<1>6. CASE \E q \in Probers : GetShellCwd(q)
  BY <1>1, <1>2, <1>6, TakenSame, LineType
  DEF GetShellCwd, ProbeRefused, ProbeQueue, ProbeRejected, ProbeSubmit, ProbeSubmitRaises,
      InstallProbe, ProbeWake, Written
<1>7. CASE \E c \in Closers : CloseShell(c)
  BY <1>1, <1>3, <1>7, TakenSame, LineType
  DEF CloseShell, CloseRefused, CloseStart, CloseJoinRaises, CloseExit, CloseExitRaises,
      CloseNoProcess, CloseFinish, ReaderJoined, Written
<1>8. CASE Interrupt \/ SendToShell
  BY <1>1, <1>3, <1>8, LineType DEF Interrupt, SendToShell, Written
<1> QED BY <1>4, <1>5, <1>6, <1>7, <1>8 DEF Next

-----------------------------------------------------------------------------
(* A command is written once, runs once and ends once.                     *)

Absent(tok, s) == \A i \in 1 .. Len(s) : s[i] # tok

(* A command that waits in the channel has printed nothing yet ...         *)
SentOnce ==
  \A t \in Runners, p \in Openers : \A i \in 1 .. Len(stdin[p]) : stdin[p][i] = Cmd(t) =>
    /\ printed[t] = 0
    /\ \A j \in 1 .. Len(stdin[p]) : j # i => stdin[p][j] # Cmd(t)
    /\ \A q \in Openers : /\ q # p => Absent(Cmd(t), stdin[q])
                          /\ fg[q] # t
                          /\ Absent(Begin(t), stdout[q]) /\ Absent(End(t), stdout[q])
(* ... one that runs has not printed its END marker ...                    *)
RunsOnce ==
  \A t \in Runners, p \in Openers : fg[p] = t =>
    \A q \in Openers : /\ q # p => fg[q] # t
                       /\ Absent(End(t), stdout[q])
(* ... and behind its END marker nothing comes from it.                    *)
EndsOnce ==
  \A t \in Runners, p \in Openers : \A i \in 1 .. Len(stdout[p]) : stdout[p][i] = End(t) =>
    /\ \A j \in 1 .. Len(stdout[p]) : j > i => stdout[p][j].of # t
    /\ \A q \in Openers : q # p => Absent(End(t), stdout[q])
Once == SentOnce /\ RunsOnce /\ EndsOnce

(* Nothing is known anywhere of a command that is not yet written.         *)
Lacks(s, t) == \A i \in 1 .. Len(s) : s[i].of # t
Fresh(t) ==
  /\ fut[t] = "none" /\ cmdFut # t /\ printed[t] = 0 /\ Lacks(cmdBuf, t)
  /\ \A p \in Openers : /\ fg[p] # t /\ Absent(Cmd(t), stdin[p]) /\ Lacks(stdout[p], t)
                        /\ reader[p].end # t /\ Lacks(reader[p].buf, t)
  /\ result[t].of = None
  /\ \A u \in Runners : result[u].of # t
NewIsFresh == \A t \in Runners : pc[t] \in {"idle", "lock"} => Fresh(t)

LEMMA Tokens ==
  /\ \A t, u : Begin(t) # End(u)
  /\ \A t, u, k : Begin(t) # Out(u, k) /\ End(t) # Out(u, k)
  /\ \A t, u : Begin(t) # Pwd(u) /\ End(t) # Pwd(u)
  /\ \A t, u : (Begin(t) = Begin(u) => t = u) /\ (End(t) = End(u) => t = u) /\ (Cmd(t) = Cmd(u) => t = u)
  /\ \A t, k : Begin(t).of = t /\ End(t).of = t /\ Out(t, k).of = t /\ Pwd(t).of = t
  /\ \A t, k : Begin(t).kind = "begin" /\ End(t).kind = "end" /\ Out(t, k).kind = "out" /\ Pwd(t).kind = "pwd"
  /\ \A t : Cmd(t).kind = "cmd"
<1>1. \A t, k : /\ Begin(t).of = t /\ End(t).of = t /\ Out(t, k).of = t /\ Pwd(t).of = t /\ Cmd(t).of = t
                /\ Begin(t).kind = "begin" /\ End(t).kind = "end" /\ Out(t, k).kind = "out"
                /\ Pwd(t).kind = "pwd" /\ Cmd(t).kind = "cmd"
  BY DEF Begin, End, Out, Pwd, Cmd
<1> QED BY <1>1

LEMMA ChannelTypes ==
  ASSUME TypeOK
  PROVE  /\ stdin \in [Openers -> Seq(Line)] /\ stdout \in [Openers -> Seq(Token)]
         /\ fg \in [Openers -> Ref(Runners)] /\ printed \in [Runners -> Nat]
         /\ \A p \in Openers : /\ stdin[p] \in Seq(Line) /\ Len(stdin[p]) \in Nat
                               /\ stdout[p] \in Seq(Token) /\ Len(stdout[p]) \in Nat
<1>1. /\ stdin \in [Openers -> Seq(Line)] /\ stdout \in [Openers -> Seq(Token)]
      /\ fg \in [Openers -> Ref(Runners)] /\ printed \in [Runners -> Nat]
  BY DEF TypeOK
<1> QED BY <1>1, LenProperties

LEMMA Appended ==
  ASSUME NEW S, NEW s \in Seq(S), NEW x \in S
  PROVE  /\ Len(Append(s, x)) = Len(s) + 1 /\ Len(s) \in Nat
         /\ \A i \in 1 .. Len(s) : Append(s, x)[i] = s[i]
         /\ Append(s, x)[Len(s) + 1] = x
BY AppendProperties, LenProperties

(* What is left is in its old order, behind what was taken.                *)
Was(new, old, i, k) ==
  /\ k \in 1 .. Len(old) /\ new[i] = old[k]
  /\ \A j \in 1 .. Len(new) : \E l \in 1 .. Len(old) :
       new[j] = old[l] /\ (j > i => l > k) /\ (j # i => l # k)

LEMMA CutOrder ==
  ASSUME NEW new, NEW old, Len(old) \in Nat, CutOf(new, old), NEW i \in 1 .. Len(new)
  PROVE  \E k : Was(new, old, i, k)
<1>1. PICK d \in 0 .. Len(old) : /\ Len(new) = Len(old) - d
                                 /\ \A j \in 1 .. Len(new) : new[j] = old[j + d]
  BY DEF CutOf
<1>2. \A j \in 1 .. Len(new) : j + d \in 1 .. Len(old)
  BY <1>1
<1>3. /\ i + d \in 1 .. Len(old) /\ new[i] = old[i + d]
      /\ \A j \in 1 .. Len(new) : (j > i => j + d > i + d) /\ (j # i => j + d # i + d)
  BY <1>1, <1>2
<1>4. \A j \in 1 .. Len(new) : \E l \in 1 .. Len(old) :
        new[j] = old[l] /\ (j > i => l > i + d) /\ (j # i => l # i + d)
  BY <1>1, <1>2, <1>3
<1> QED BY <1>3, <1>4 DEF Was

LEMMA CutAbsent ==
  ASSUME NEW new, NEW old, NEW tok, Len(old) \in Nat, CutOf(new, old), Absent(tok, old)
  PROVE  Absent(tok, new)
<1> SUFFICES ASSUME NEW i \in 1 .. Len(new) PROVE new[i] # tok
  BY DEF Absent
<1>1. PICK k : Was(new, old, i, k)
  BY CutOrder
<1> QED BY <1>1 DEF Absent, Was

LEMMA OnceTaken ==
  ASSUME TypeOK, Once, Taken
  PROVE  Once'
<1>1. /\ None \notin Runners /\ printed' = printed
      /\ \A p \in Openers : /\ Len(stdin[p]) \in Nat /\ Len(stdout[p]) \in Nat
                            /\ fg'[p] \in {fg[p], None}
                            /\ CutOf(stdin'[p], stdin[p]) /\ CutOf(stdout'[p], stdout[p])
  BY ChannelTypes, TasksAssumption DEF Taken, Tasks
<1>2. \A p \in Openers : \A tok : /\ Absent(tok, stdout[p]) => Absent(tok, stdout'[p])
                                  /\ Absent(tok, stdin[p]) => Absent(tok, stdin'[p])
  BY <1>1, CutAbsent
<1>3. SentOnce'
  <2> SUFFICES ASSUME NEW t \in Runners, NEW p \in Openers, NEW i \in 1 .. Len(stdin'[p]), stdin'[p][i] = Cmd(t)
               PROVE  /\ printed'[t] = 0
                      /\ \A j \in 1 .. Len(stdin'[p]) : j # i => stdin'[p][j] # Cmd(t)
                      /\ \A q \in Openers :
                           /\ q # p => Absent(Cmd(t), stdin'[q])
                           /\ fg'[q] # t
                           /\ Absent(Begin(t), stdout'[q]) /\ Absent(End(t), stdout'[q])
    BY DEF SentOnce, Absent, Cmd, Begin, End
  <2>0. PICK k : Was(stdin'[p], stdin[p], i, k)
    BY <1>1, CutOrder
  <2>1. /\ k \in 1 .. Len(stdin[p]) /\ stdin[p][k] = Cmd(t)
        /\ \A j \in 1 .. Len(stdin'[p]) : \E l \in 1 .. Len(stdin[p]) :
             stdin'[p][j] = stdin[p][l] /\ (j > i => l > k) /\ (j # i => l # k)
    BY <2>0 DEF Was
  <2>2. /\ printed[t] = 0
        /\ \A j \in 1 .. Len(stdin[p]) : j # k => stdin[p][j] # Cmd(t)
        /\ \A q \in Openers : /\ q # p => Absent(Cmd(t), stdin[q])
                              /\ fg[q] # t
                              /\ Absent(Begin(t), stdout[q]) /\ Absent(End(t), stdout[q])
    BY <2>1 DEF Once, SentOnce
  <2>3. \A j \in 1 .. Len(stdin'[p]) : j # i => stdin'[p][j] # Cmd(t)
    BY <2>1, <2>2
  <2>4. \A q \in Openers : fg'[q] # t
    BY <1>1, <2>2
  <2> QED BY <1>1, <1>2, <2>2, <2>3, <2>4
<1>4. RunsOnce'
  <2>1. \A t \in Runners, p \in Openers : fg'[p] = t => fg[p] = t
    BY <1>1
  <2> QED BY <1>2, <2>1 DEF Once, RunsOnce, Absent, End
<1>5. EndsOnce'
  <2> SUFFICES ASSUME NEW t \in Runners, NEW p \in Openers, NEW i \in 1 .. Len(stdout'[p]), stdout'[p][i] = End(t)
               PROVE  /\ \A j \in 1 .. Len(stdout'[p]) : j > i => stdout'[p][j].of # t
                      /\ \A q \in Openers : q # p => Absent(End(t), stdout'[q])
    BY DEF EndsOnce, Absent, End
  <2>0. PICK k : Was(stdout'[p], stdout[p], i, k)
    BY <1>1, CutOrder
  <2>1. /\ k \in 1 .. Len(stdout[p]) /\ stdout[p][k] = End(t)
        /\ \A j \in 1 .. Len(stdout'[p]) : \E l \in 1 .. Len(stdout[p]) :
             stdout'[p][j] = stdout[p][l] /\ (j > i => l > k) /\ (j # i => l # k)
    BY <2>0 DEF Was
  <2>2. /\ \A j \in 1 .. Len(stdout[p]) : j > k => stdout[p][j].of # t
        /\ \A q \in Openers : q # p => Absent(End(t), stdout[q])
    BY <2>1 DEF Once, EndsOnce
  <2>3. \A j \in 1 .. Len(stdout'[p]) : j > i => stdout'[p][j].of # t
    BY <2>1, <2>2
  <2> QED BY <1>2, <2>2, <2>3
<1> QED BY <1>3, <1>4, <1>5 DEF Once

(* One element more: it is the last, and those before it stay.             *)
Added(new, old, x) ==
  /\ Len(old) \in Nat /\ Len(new) = Len(old) + 1
  /\ \A i \in 1 .. Len(old) : new[i] = old[i]
  /\ new[Len(old) + 1] = x

LEMMA AddedElements ==
  ASSUME NEW new, NEW old, NEW x, Added(new, old, x), NEW i \in 1 .. Len(new)
  PROVE  \/ i \in 1 .. Len(old) /\ new[i] = old[i]
         \/ i = Len(old) + 1 /\ new[i] = x
BY DEF Added

LEMMA AddedAbsent ==
  ASSUME NEW new, NEW old, NEW x, Added(new, old, x), NEW tok
  PROVE  Absent(tok, new) <=> (Absent(tok, old) /\ tok # x)
BY AddedElements DEF Added, Absent

LEMMA WrittenAdds ==
  ASSUME TypeOK, NEW line \in Line, Written(line)
  PROVE  /\ process \in Openers /\ Added(stdin'[process], stdin[process], line)
         /\ \A p \in Openers : p # process => stdin'[p] = stdin[p]
BY ChannelTypes, Appended DEF Written, Write, Added

LEMMA OnceWritten ==
  ASSUME TypeOK, Once, NEW line \in Line, Written(line),
         line.kind # "cmd" \/ \E t \in Runners : line = Cmd(t) /\ Fresh(t)
  PROVE  Once'
<1>1. /\ process \in Openers /\ Added(stdin'[process], stdin[process], line)
      /\ \A p \in Openers : p # process => stdin'[p] = stdin[p]
      /\ stdout' = stdout /\ fg' = fg /\ printed' = printed
  BY WrittenAdds DEF Written
<1>2. RunsOnce' /\ EndsOnce'
  BY <1>1 DEF Once, RunsOnce, EndsOnce, Absent, End
<1>3. SentOnce'
  <2> SUFFICES ASSUME NEW t \in Runners, NEW p \in Openers, NEW i \in 1 .. Len(stdin'[p]), stdin'[p][i] = Cmd(t)
               PROVE  /\ printed'[t] = 0
                      /\ \A j \in 1 .. Len(stdin'[p]) : j # i => stdin'[p][j] # Cmd(t)
                      /\ \A q \in Openers :
                           /\ q # p => Absent(Cmd(t), stdin'[q])
                           /\ fg'[q] # t
                           /\ Absent(Begin(t), stdout'[q]) /\ Absent(End(t), stdout'[q])
    BY DEF SentOnce, Absent, Cmd, Begin, End
  <2>1. CASE line = Cmd(t)
    <3>1. Fresh(t)
      BY <2>1, Tokens
    <3>2. /\ printed[t] = 0
          /\ \A q \in Openers : /\ fg[q] # t /\ Absent(Cmd(t), stdin[q])
                                /\ Absent(Begin(t), stdout[q]) /\ Absent(End(t), stdout[q])
      BY <3>1, Tokens DEF Fresh, Absent, Lacks
    <3>3. p = process /\ i = Len(stdin[process]) + 1
      BY <1>1, <3>2, AddedElements DEF Absent
    <3>4. \A j \in 1 .. Len(stdin'[p]) : j # i => stdin'[p][j] # Cmd(t)
      BY <1>1, <3>2, <3>3, AddedElements DEF Absent
    <3> QED BY <1>1, <3>2, <3>3, <3>4
  <2>2. CASE line # Cmd(t)
    <3>1. i \in 1 .. Len(stdin[p]) /\ stdin[p][i] = Cmd(t)
      BY <1>1, <2>2, AddedElements
    <3>2. /\ printed[t] = 0
          /\ \A j \in 1 .. Len(stdin[p]) : j # i => stdin[p][j] # Cmd(t)
          /\ \A q \in Openers : /\ q # p => Absent(Cmd(t), stdin[q])
                                /\ fg[q] # t
                                /\ Absent(Begin(t), stdout[q]) /\ Absent(End(t), stdout[q])
      BY <3>1 DEF Once, SentOnce
    <3>3. \A j \in 1 .. Len(stdin'[p]) : j # i => stdin'[p][j] # Cmd(t)
      BY <1>1, <2>2, <3>2, AddedElements
    <3>4. \A q \in Openers : q # p => Absent(Cmd(t), stdin'[q])
      BY <1>1, <2>2, <3>2, AddedAbsent
    <3> QED BY <1>1, <3>2, <3>3, <3>4
  <2> QED BY <2>1, <2>2
<1> QED BY <1>2, <1>3 DEF Once

(* What the remote shell prints is one token, of the command that starts,  *)
(* runs or ends, or of a probe.                                            *)
LEMMA PrintsAdds ==
  ASSUME TypeOK, NEW p \in Openers, NEW tok \in Token, Prints(p, tok)
  PROVE  /\ Added(stdout'[p], stdout[p], tok)
         /\ \A q \in Openers : q # p => stdout'[q] = stdout[q]
BY ChannelTypes, Appended DEF Prints, Added

LEMMA TakesLine ==
  ASSUME TypeOK, NEW p \in Openers, NEW line, NextLine(p, line)
  PROVE  /\ 1 \in 1 .. Len(stdin[p]) /\ stdin[p][1] = line
         /\ Len(stdin'[p]) = Len(stdin[p]) - 1
         /\ \A i \in 1 .. Len(stdin'[p]) : stdin'[p][i] = stdin[p][i + 1]
         /\ \A q \in Openers : q # p => stdin'[q] = stdin[q]
<1>1. stdin[p] \in Seq(Line) /\ stdin[p] # << >> /\ stdin'[p] = Tail(stdin[p]) /\ Head(stdin[p]) = line
      /\ \A q \in Openers : q # p => stdin'[q] = stdin[q]
  BY ChannelTypes DEF NextLine
<1>2. Len(stdin[p]) \in Nat \ {0}
  BY <1>1, LenProperties, EmptySeq
<1> QED BY <1>1, <1>2, HeadTailProperties

LEMMA OnceBegins ==
  ASSUME TypeOK, Once, NEW p \in Openers, NEW t \in Runners, RemoteBegins(p, t)
  PROVE  Once'
<1>1. /\ 1 \in 1 .. Len(stdin[p]) /\ stdin[p][1] = Cmd(t) /\ fg[p] = None
      /\ Len(stdin'[p]) = Len(stdin[p]) - 1
      /\ \A i \in 1 .. Len(stdin'[p]) : stdin'[p][i] = stdin[p][i + 1]
      /\ \A q \in Openers : q # p => stdin'[q] = stdin[q]
      /\ fg' = [fg EXCEPT ![p] = t] /\ printed' = printed
  BY TakesLine DEF RemoteBegins
<1>2. /\ Added(stdout'[p], stdout[p], Begin(t))
      /\ \A q \in Openers : q # p => stdout'[q] = stdout[q]
  BY PrintsAdds, TokenType DEF RemoteBegins
<1>3. /\ printed[t] = 0
      /\ \A j \in 1 .. Len(stdin[p]) : j # 1 => stdin[p][j] # Cmd(t)
      /\ \A q \in Openers : /\ q # p => Absent(Cmd(t), stdin[q])
                            /\ fg[q] # t
                            /\ Absent(Begin(t), stdout[q]) /\ Absent(End(t), stdout[q])
  BY <1>1 DEF Once, SentOnce
<1>4. fg \in [Openers -> Ref(Runners)] /\ None \notin Runners /\ \A q \in Openers : Len(stdin[q]) \in Nat
  BY ChannelTypes, TasksAssumption DEF Tasks
<1>0. \A i \in 1 .. Len(stdin'[p]) : i + 1 \in 1 .. Len(stdin[p]) /\ i + 1 # 1
  BY <1>1, <1>4
<1>5. \A q \in Openers : Absent(Cmd(t), stdin'[q])
  <2>1. Absent(Cmd(t), stdin'[p])
    BY <1>0, <1>1, <1>3 DEF Absent
  <2> QED BY <1>1, <1>3, <2>1
<1>6. \A q \in Openers, u \in Runners :
        /\ Absent(End(u), stdout[q]) => Absent(End(u), stdout'[q])
        /\ (u # t /\ Absent(Begin(u), stdout[q])) => Absent(Begin(u), stdout'[q])
        /\ Absent(Cmd(u), stdin[q]) => Absent(Cmd(u), stdin'[q])
  <2> SUFFICES ASSUME NEW q \in Openers, NEW u \in Runners
               PROVE  /\ Absent(End(u), stdout[q]) => Absent(End(u), stdout'[q])
                      /\ (u # t /\ Absent(Begin(u), stdout[q])) => Absent(Begin(u), stdout'[q])
                      /\ Absent(Cmd(u), stdin[q]) => Absent(Cmd(u), stdin'[q])
    OBVIOUS
  <2>1. CASE q # p
    BY <1>1, <1>2, <2>1
  <2>2. CASE q = p
    <3>1. Begin(t) # End(u) /\ (u # t => Begin(t) # Begin(u))
      BY Tokens
    <3>2. Absent(Cmd(u), stdin[p]) => Absent(Cmd(u), stdin'[p])
      BY <1>0, <1>1 DEF Absent
    <3>3. \A tok : Absent(tok, stdout'[p]) <=> (Absent(tok, stdout[p]) /\ tok # Begin(t))
      BY <1>2, AddedAbsent
    <3> QED BY <2>2, <3>1, <3>2, <3>3
  <2> QED BY <2>1, <2>2
<1>7. \A q \in Openers, u \in Runners : u # t => (fg'[q] = u => fg[q] = u)
  BY <1>1, <1>4
<1>8. SentOnce'
  <2> SUFFICES ASSUME NEW u \in Runners, NEW q \in Openers, NEW i \in 1 .. Len(stdin'[q]), stdin'[q][i] = Cmd(u)
               PROVE  /\ printed'[u] = 0
                      /\ \A j \in 1 .. Len(stdin'[q]) : j # i => stdin'[q][j] # Cmd(u)
                      /\ \A r \in Openers :
                           /\ r # q => Absent(Cmd(u), stdin'[r])
                           /\ fg'[r] # u
                           /\ Absent(Begin(u), stdout'[r]) /\ Absent(End(u), stdout'[r])
    BY DEF SentOnce, Absent, Cmd, Begin, End
  <2>1. u # t
    BY <1>5 DEF Absent
  <2>2. \E k \in 1 .. Len(stdin[q]) :
          /\ stdin[q][k] = Cmd(u)
          /\ (\A j \in 1 .. Len(stdin[q]) : j # k => stdin[q][j] # Cmd(u)) =>
               \A j \in 1 .. Len(stdin'[q]) : j # i => stdin'[q][j] # Cmd(u)
    <3>1. CASE q = p
      <4>1. i + 1 \in 1 .. Len(stdin[q]) /\ stdin[q][i + 1] = Cmd(u)
        BY <1>1, <1>4, <3>1
      <4>2. \A j \in 1 .. Len(stdin'[q]) : j + 1 \in 1 .. Len(stdin[q]) /\ stdin'[q][j] = stdin[q][j + 1]
        BY <1>1, <1>4, <3>1
      <4> QED BY <4>1, <4>2
    <3>2. CASE q # p
      BY <1>1, <3>2
    <3> QED BY <3>1, <3>2
  <2>3. /\ printed[u] = 0
        /\ \A j \in 1 .. Len(stdin'[q]) : j # i => stdin'[q][j] # Cmd(u)
        /\ \A r \in Openers : /\ r # q => Absent(Cmd(u), stdin[r])
                              /\ fg[r] # u
                              /\ Absent(Begin(u), stdout[r]) /\ Absent(End(u), stdout[r])
    BY <2>2 DEF Once, SentOnce
  <2> QED BY <1>1, <1>6, <1>7, <2>1, <2>3
<1>9. RunsOnce'
  <2> SUFFICES ASSUME NEW u \in Runners, NEW q \in Openers, fg'[q] = u, NEW r \in Openers
               PROVE  /\ r # q => fg'[r] # u
                      /\ Absent(End(u), stdout'[r])
    BY DEF RunsOnce, Absent, End
  <2>1. CASE u = t
    BY <1>1, <1>3, <1>4, <1>6, <2>1
  <2>2. CASE u # t
    <3>1. fg[q] = u
      BY <1>7, <2>2
    <3>2. (r # q => fg[r] # u) /\ Absent(End(u), stdout[r])
      BY <3>1 DEF Once, RunsOnce
    <3> QED BY <1>6, <1>7, <2>2, <3>2
  <2> QED BY <2>1, <2>2
<1>10. EndsOnce'
  <2> SUFFICES ASSUME NEW u \in Runners, NEW q \in Openers, NEW i \in 1 .. Len(stdout'[q]), stdout'[q][i] = End(u)
               PROVE  /\ \A j \in 1 .. Len(stdout'[q]) : j > i => stdout'[q][j].of # u
                      /\ \A r \in Openers : r # q => Absent(End(u), stdout'[r])
    BY DEF EndsOnce, Absent, End
  <2>1. i \in 1 .. Len(stdout[q]) /\ stdout[q][i] = End(u) /\ u # t
    BY <1>2, <1>3, AddedElements, Tokens DEF Absent
  <2>2. /\ \A j \in 1 .. Len(stdout[q]) : j > i => stdout[q][j].of # u
        /\ \A r \in Openers : r # q => Absent(End(u), stdout[r])
    BY <2>1 DEF Once, EndsOnce
  <2>3. \A j \in 1 .. Len(stdout'[q]) : j > i => stdout'[q][j].of # u
    BY <1>2, <2>1, <2>2, AddedElements, Tokens
  <2> QED BY <1>6, <2>2, <2>3
<1> QED BY <1>8, <1>9, <1>10 DEF Once

(* A token that leaves what a command has still to do as it was.           *)
LEMMA OncePrints ==
  ASSUME TypeOK, Once, NEW p \in Openers, NEW tok \in Token, Prints(p, tok),
         \A u \in Runners : tok # Begin(u) /\ tok # End(u),
         \A u \in Runners : tok.of = u => fg[p] = u,
         \A q \in Openers : CutOf(stdin'[q], stdin[q]),
         UNCHANGED fg,
         \A u \in Runners : fg[p] # u => printed'[u] = printed[u]
  PROVE  Once'
<1>1. /\ Added(stdout'[p], stdout[p], tok)
      /\ \A q \in Openers : q # p => stdout'[q] = stdout[q]
  BY PrintsAdds
<1>2. /\ fg' = fg /\ \A q \in Openers : Len(stdin[q]) \in Nat /\ Len(stdout[q]) \in Nat
      /\ \A q \in Openers : CutOf(stdin'[q], stdin[q])
  BY ChannelTypes
<1>3. \A q \in Openers, u \in Runners :
        /\ Absent(End(u), stdout[q]) => Absent(End(u), stdout'[q])
        /\ Absent(Begin(u), stdout[q]) => Absent(Begin(u), stdout'[q])
  BY <1>1, AddedAbsent
<1>4. \A q \in Openers, u \in Runners : Absent(Cmd(u), stdin[q]) => Absent(Cmd(u), stdin'[q])
  BY <1>2, CutAbsent
<1>5. SentOnce'
  <2> SUFFICES ASSUME NEW t \in Runners, NEW q \in Openers, NEW i \in 1 .. Len(stdin'[q]), stdin'[q][i] = Cmd(t)
               PROVE  /\ printed'[t] = 0
                      /\ \A j \in 1 .. Len(stdin'[q]) : j # i => stdin'[q][j] # Cmd(t)
                      /\ \A r \in Openers :
                           /\ r # q => Absent(Cmd(t), stdin'[r])
                           /\ fg'[r] # t
                           /\ Absent(Begin(t), stdout'[r]) /\ Absent(End(t), stdout'[r])
    BY DEF SentOnce, Absent, Cmd, Begin, End
  <2>0. PICK k : Was(stdin'[q], stdin[q], i, k)
    BY <1>2, CutOrder
  <2>1. /\ k \in 1 .. Len(stdin[q]) /\ stdin[q][k] = Cmd(t)
        /\ \A j \in 1 .. Len(stdin'[q]) : \E l \in 1 .. Len(stdin[q]) :
             stdin'[q][j] = stdin[q][l] /\ (j > i => l > k) /\ (j # i => l # k)
    BY <2>0 DEF Was
  <2>2. /\ printed[t] = 0
        /\ \A j \in 1 .. Len(stdin[q]) : j # k => stdin[q][j] # Cmd(t)
        /\ \A r \in Openers : /\ r # q => Absent(Cmd(t), stdin[r])
                              /\ fg[r] # t
                              /\ Absent(Begin(t), stdout[r]) /\ Absent(End(t), stdout[r])
    BY <2>1 DEF Once, SentOnce
  <2>3. \A j \in 1 .. Len(stdin'[q]) : j # i => stdin'[q][j] # Cmd(t)
    BY <2>1, <2>2
  <2> QED BY <1>2, <1>3, <1>4, <2>2, <2>3
<1>6. RunsOnce'
  BY <1>2, <1>3 DEF Once, RunsOnce, Absent, End
<1>7. EndsOnce'
  <2> SUFFICES ASSUME NEW u \in Runners, NEW q \in Openers, NEW i \in 1 .. Len(stdout'[q]), stdout'[q][i] = End(u)
               PROVE  /\ \A j \in 1 .. Len(stdout'[q]) : j > i => stdout'[q][j].of # u
                      /\ \A r \in Openers : r # q => Absent(End(u), stdout'[r])
    BY DEF EndsOnce, Absent, End
  <2>1. i \in 1 .. Len(stdout[q]) /\ stdout[q][i] = End(u)
    BY <1>1, AddedElements
  <2>2. /\ \A j \in 1 .. Len(stdout[q]) : j > i => stdout[q][j].of # u
        /\ \A r \in Openers : r # q => Absent(End(u), stdout[r])
    BY <2>1 DEF Once, EndsOnce
  <2>3. tok.of # u
    BY <2>1 DEF Once, RunsOnce, Absent
  <2>4. \A j \in 1 .. Len(stdout'[q]) : j > i => stdout'[q][j].of # u
    BY <1>1, <2>2, <2>3, AddedElements
  <2> QED BY <1>3, <2>2, <2>4
<1> QED BY <1>5, <1>6, <1>7 DEF Once

LEMMA OnceEnds ==
  ASSUME TypeOK, Once, NEW p \in Openers, NEW t \in Runners, RemoteEnds(p, t)
  PROVE  Once'
<1>1. /\ fg[p] = t /\ fg' = [fg EXCEPT ![p] = None] /\ stdin' = stdin /\ printed' = printed
      /\ fg \in [Openers -> Ref(Runners)] /\ None \notin Runners
  BY ChannelTypes, TasksAssumption DEF RemoteEnds, Tasks
<1>2. /\ Added(stdout'[p], stdout[p], End(t))
      /\ \A q \in Openers : q # p => stdout'[q] = stdout[q]
  BY PrintsAdds, TokenType DEF RemoteEnds
<1>3. \A q \in Openers : /\ q # p => fg[q] # t
                         /\ Absent(End(t), stdout[q]) /\ Absent(Cmd(t), stdin[q])
  BY <1>1 DEF Once, RunsOnce, SentOnce, Absent
<1>4. \A q \in Openers, u \in Runners :
        /\ fg'[q] = u => fg[q] = u /\ u # t
        /\ (u # t /\ Absent(End(u), stdout[q])) => Absent(End(u), stdout'[q])
        /\ Absent(Begin(u), stdout[q]) => Absent(Begin(u), stdout'[q])
  <2> SUFFICES ASSUME NEW q \in Openers, NEW u \in Runners
               PROVE  /\ fg'[q] = u => fg[q] = u /\ u # t
                      /\ (u # t /\ Absent(End(u), stdout[q])) => Absent(End(u), stdout'[q])
                      /\ Absent(Begin(u), stdout[q]) => Absent(Begin(u), stdout'[q])
    OBVIOUS
  <2>1. fg'[q] = u => fg[q] = u /\ u # t
    BY <1>1, <1>3
  <2>2. (u # t => End(u) # End(t)) /\ Begin(u) # End(t)
    BY Tokens
  <2> QED BY <1>2, <2>1, <2>2, AddedAbsent
<1>5. SentOnce'
  <2> SUFFICES ASSUME NEW u \in Runners, NEW q \in Openers, NEW i \in 1 .. Len(stdin'[q]), stdin'[q][i] = Cmd(u)
               PROVE  /\ printed'[u] = 0
                      /\ \A j \in 1 .. Len(stdin'[q]) : j # i => stdin'[q][j] # Cmd(u)
                      /\ \A r \in Openers :
                           /\ r # q => Absent(Cmd(u), stdin'[r])
                           /\ fg'[r] # u
                           /\ Absent(Begin(u), stdout'[r]) /\ Absent(End(u), stdout'[r])
    BY DEF SentOnce, Absent, Cmd, Begin, End
  <2>1. u # t /\ stdin[q][i] = Cmd(u) /\ i \in 1 .. Len(stdin[q])
    BY <1>1, <1>3 DEF Absent
  <2>2. /\ printed[u] = 0
        /\ \A j \in 1 .. Len(stdin[q]) : j # i => stdin[q][j] # Cmd(u)
        /\ \A r \in Openers : /\ r # q => Absent(Cmd(u), stdin[r])
                              /\ fg[r] # u
                              /\ Absent(Begin(u), stdout[r]) /\ Absent(End(u), stdout[r])
    BY <2>1 DEF Once, SentOnce
  <2> QED BY <1>1, <1>4, <2>1, <2>2
<1>6. RunsOnce'
  <2> SUFFICES ASSUME NEW u \in Runners, NEW q \in Openers, fg'[q] = u, NEW r \in Openers
               PROVE  /\ r # q => fg'[r] # u
                      /\ Absent(End(u), stdout'[r])
    BY DEF RunsOnce, Absent, End
  <2>1. fg[q] = u /\ u # t
    BY <1>4
  <2>2. (r # q => fg[r] # u) /\ Absent(End(u), stdout[r])
    BY <2>1 DEF Once, RunsOnce
  <2> QED BY <1>4, <2>1, <2>2
<1>7. EndsOnce'
  <2> SUFFICES ASSUME NEW u \in Runners, NEW q \in Openers, NEW i \in 1 .. Len(stdout'[q]), stdout'[q][i] = End(u)
               PROVE  /\ \A j \in 1 .. Len(stdout'[q]) : j > i => stdout'[q][j].of # u
                      /\ \A r \in Openers : r # q => Absent(End(u), stdout'[r])
    BY DEF EndsOnce, Absent, End
  <2>1. CASE u = t
    <3>1. q = p /\ i = Len(stdout[p]) + 1
      BY <1>2, <1>3, <2>1, AddedElements DEF Absent
    <3>2. \A r \in Openers : r # p => Absent(End(t), stdout'[r])
      BY <1>2, <1>3
    <3> QED BY <1>2, <2>1, <3>1, <3>2 DEF Added
  <2>2. CASE u # t
    <3>1. i \in 1 .. Len(stdout[q]) /\ stdout[q][i] = End(u)
      BY <1>2, <2>2, AddedElements, Tokens
    <3>2. /\ \A j \in 1 .. Len(stdout[q]) : j > i => stdout[q][j].of # u
          /\ \A r \in Openers : r # q => Absent(End(u), stdout[r])
      BY <3>1 DEF Once, EndsOnce
    <3>3. \A j \in 1 .. Len(stdout'[q]) : j > i => stdout'[q][j].of # u
      BY <1>2, <2>2, <3>2, AddedElements, Tokens
    <3> QED BY <1>4, <2>2, <3>2, <3>3
  <2> QED BY <2>1, <2>2
<1> QED BY <1>5, <1>6, <1>7 DEF Once

LEMMA OncePrinted ==
  ASSUME TypeOK, Once, NEW p \in Openers, PrintedBy(p)
  PROVE  Once'
<1>1. ASSUME NEW t \in Runners, RemotePrints(p, t)
      PROVE  Once'
  <2>1. /\ fg[p] = t /\ fg' = fg /\ stdin' = stdin /\ Prints(p, Out(t, printed[t] + 1))
        /\ printed' = [printed EXCEPT ![t] = @ + 1]
    BY <1>1 DEF RemotePrints
  <2>2. printed[t] + 1 \in Nat
    BY ChannelTypes
  <2>3. Out(t, printed[t] + 1) \in Token
    BY <2>2, TokenType
  <2>4. \A u \in Runners : fg[p] # u => printed'[u] = printed[u]
    BY <2>1, ChannelTypes
  <2>5. \A q \in Openers : CutOf(stdin'[q], stdin[q])
    BY <2>1, ChannelTypes, CutOfSame
  <2>6. Out(t, printed[t] + 1).of = t
        /\ \A u \in Runners : Out(t, printed[t] + 1) # Begin(u) /\ Out(t, printed[t] + 1) # End(u)
    BY Tokens
  <2> QED BY <2>1, <2>3, <2>4, <2>5, <2>6, OncePrints
<1>2. ASSUME NEW q \in Probers, RemoteAnswers(p, q)
      PROVE  Once'
  <2>1. /\ fg' = fg /\ printed' = printed /\ Prints(p, Pwd(q)) /\ NextLine(p, Probe(q))
    BY <1>2 DEF RemoteAnswers
  <2>2. \A r \in Openers : CutOf(stdin'[r], stdin[r])
    BY <2>1, ChannelTypes, CutOfSame, CutOfTail DEF NextLine
  <2>3. \A u \in Runners : u # q
    BY TasksAssumption
  <2>4. Pwd(q).of = q /\ \A u \in Runners : Pwd(q) # Begin(u) /\ Pwd(q) # End(u)
    BY Tokens
  <2> QED BY <2>1, <2>2, <2>3, <2>4, OncePrints, TokenType
<1> QED BY <1>1, <1>2, OnceBegins, OnceEnds DEF PrintedBy

-----------------------------------------------------------------------------
(* The reader's step on a chunk, in the terms of the sequences involved.   *)

Chunked(r, n) ==
  /\ reader[r].pc = "read" /\ r \notin cancelled
  /\ n \in 1 .. Len(stdout[r])
  /\ stdout' = [stdout EXCEPT ![r] = From(@, n + 1)]
  /\ UNCHANGED <<session, cmdFut, locks, probeFut, pc, joining, alive, stdin, fg, printed, counts>>
Chunk1(r, n) == SubSeq(stdout[r], 1, n)
Joined(r, n) == cmdBuf \o Chunk1(r, n)
LoopsOn(r) == reader' = [reader EXCEPT ![r] = Idle("loop")]

(* The buffer behind the BEGIN marker.                                     *)
Behind(r, n, norm) ==
  \E i \in 0 .. Len(Joined(r, n)) :
    /\ norm = From(Joined(r, n), i + 1)
    /\ started => i = 0
    /\ ~started => i \in 1 .. Len(Joined(r, n)) /\ Joined(r, n)[i] = Begin(cmdFut)

TakesProbe(r, n) ==
  /\ probeFut # None /\ LoopsOn(r)
  /\ \A t \in Runners : fut'[t] = fut[t]
  /\ \A q \in Probers : fut'[q] = fut[q] \/ (fut[q] = "pending" /\ fut'[q] = "result")
  /\ UNCHANGED <<cmdBuf, started, result>>
Suppresses(r, n) ==
  /\ probeFut = None /\ cmdFut = None /\ LoopsOn(r)
  /\ UNCHANGED <<cmdBuf, started, fut, result>>
SeesNoBegin(r, n) ==
  /\ probeFut = None /\ cmdFut # None /\ ~started /\ started' = FALSE
  /\ Absent(Begin(cmdFut), Joined(r, n))
  /\ cmdBuf' = Joined(r, n) /\ LoopsOn(r)
  /\ UNCHANGED <<fut, result>>
StreamsOutput(r, n) ==
  \E norm \in Seq(Token) :
    /\ probeFut = None /\ cmdFut # None /\ started' = TRUE
    /\ Behind(r, n, norm) /\ Absent(End(cmdFut), norm)
    /\ \/ cmdBuf' = Joined(r, n) /\ reader' = [reader EXCEPT ![r] = Emitting(None, norm, {})]
       \/ cmdBuf' = norm /\ LoopsOn(r)
    /\ UNCHANGED <<fut, result>>
FindsEnd(r, n) ==
  \E norm \in Seq(Token) : \E i \in 1 .. Len(norm) :
    LET out == Outputs(SubSeq(norm, 1, i - 1)) IN
    /\ probeFut = None /\ cmdFut # None /\ started' = TRUE
    /\ Behind(r, n, norm) /\ norm[i] = End(cmdFut)
    /\ cmdBuf' = From(norm, i + 1)
    /\ \/ /\ reader' = [reader EXCEPT ![r] = Emitting(cmdFut, <<>>, out)]
          /\ UNCHANGED <<fut, result>>
       \/ Resolve(cmdFut, out) /\ LoopsOn(r)

LEMMA ChunkCases ==
  ASSUME TypeOK, Served, NEW r \in Openers, reader[r].pc = "read",
         NEW n \in 1 .. Len(stdout[reader[r].src]), ReadChunk(r, n)
  PROVE  /\ Chunked(r, n)
         /\ \/ TakesProbe(r, n) \/ Suppresses(r, n) \/ SeesNoBegin(r, n)
            \/ StreamsOutput(r, n) \/ FindsEnd(r, n)
<1> USE DEF Chunked, SetReader, BackToLoop, LoopsOn
<1>1. reader[r].src = r
  BY DEF Served, ReaderIsCurrent
<1>2. Chunk(r, n) /\ r \notin cancelled
  BY DEF ReadChunk, ReadForProbe, ReadUnsolicited, ReadBeforeBegin, ReadOutput, ReadEnd, ReadForCommand,
     Chunk, Runs
<1>3. Chunked(r, n)
  BY <1>1, <1>2 DEF Chunk
<1>4. callback
  BY <1>2, RunningReader DEF Live
<1>5. Buffered(r, n) = Joined(r, n) /\ Joined(r, n) \in Seq(Token) /\ Len(Joined(r, n)) \in Nat
  BY <1>1, ChunkType, LenProperties DEF Buffered, Received, Joined, Chunk1
<1>6. ASSUME NEW norm \in Normalized(r, n)
      PROVE  Behind(r, n, norm) /\ norm \in Seq(Token)
  <2>1. PICK i \in IF started THEN {0} ELSE At(Joined(r, n), Begin(cmdFut)) : norm = From(Joined(r, n), i + 1)
    BY <1>5 DEF Normalized
  <2>2. started \in BOOLEAN
    BY DEF TypeOK
  <2>3. i \in 0 .. Len(Joined(r, n))
    BY <1>5, <2>1 DEF At
  <2>4. norm \in Seq(Token)
    BY <1>5, NormalizedType
  <2> QED BY <1>5, <2>1, <2>2, <2>3, <2>4 DEF Behind, At
<1>7. CASE ReadForProbe(r, n)
  <2>1. probeFut # None => probeFut \in Probers
    BY DEF TypeOK, Ref
  <2>2. fut \in [Runners \cup Probers -> Outcome]
    BY DEF TypeOK
  <2>3. \/ fut' = fut
        \/ ProbePending /\ fut' = [fut EXCEPT ![probeFut] = "result"]
    BY <1>7 DEF ReadForProbe
  <2>4. /\ \A t \in Runners : fut'[t] = fut[t]
        /\ \A q \in Probers : fut'[q] = fut[q] \/ (fut[q] = "pending" /\ fut'[q] = "result")
    BY <2>1, <2>2, <2>3, TasksAssumption DEF ProbePending, Done
  <2> QED BY <1>3, <1>7, <2>4 DEF ReadForProbe, TakesProbe
<1>8. CASE ReadUnsolicited(r, n)
  BY <1>3, <1>4, <1>8 DEF ReadUnsolicited, Suppresses, CommandActive
<1>9. CASE ReadBeforeBegin(r, n)
  <2>1. Normalized(r, n) = {} /\ started \in BOOLEAN
    BY <1>9 DEF ReadBeforeBegin, TypeOK
  <2>2. ~started /\ At(Joined(r, n), Begin(cmdFut)) = {}
    BY <1>5, <2>1 DEF Normalized
  <2>3. Absent(Begin(cmdFut), Joined(r, n))
    BY <2>2 DEF At, Absent
  <2> QED BY <1>3, <1>5, <1>9, <2>2, <2>3 DEF ReadBeforeBegin, ReadForCommand, SeesNoBegin, CommandActive
<1>10. CASE ReadOutput(r, n)
  <2>1. PICK norm \in Normalized(r, n) :
          /\ At(norm, End(cmdFut)) = {}
          /\ IF NewOutput(Outputs(norm))
               THEN cmdBuf' = Buffered(r, n) /\ SetReader(r, Emitting(None, norm, {}))
               ELSE cmdBuf' = norm /\ BackToLoop(r)
    BY <1>10 DEF ReadOutput
  <2>2. Absent(End(cmdFut), norm)
    BY <2>1 DEF At, Absent
  <2>3. /\ probeFut = None /\ cmdFut # None /\ started' = TRUE /\ UNCHANGED <<fut, result>>
    BY <1>10 DEF ReadOutput, ReadForCommand, CommandActive, Started
  <2> QED BY <1>3, <1>5, <1>6, <2>1, <2>2, <2>3 DEF StreamsOutput
<1>11. CASE ReadEnd(r, n)
  <2>1. PICK norm \in Normalized(r, n) : \E i \in At(norm, End(cmdFut)) :
          LET out == Outputs(SubSeq(norm, 1, i - 1)) IN
          /\ cmdBuf' = From(norm, i + 1)
          /\ IF NewOutput(out)
               THEN SetReader(r, Emitting(cmdFut, <<>>, out)) /\ UNCHANGED <<fut, result>>
               ELSE Resolve(cmdFut, out) /\ BackToLoop(r)
    BY <1>11 DEF ReadEnd
  <2>2. PICK i \in At(norm, End(cmdFut)) :
          LET out == Outputs(SubSeq(norm, 1, i - 1)) IN
          /\ cmdBuf' = From(norm, i + 1)
          /\ IF NewOutput(out)
               THEN SetReader(r, Emitting(cmdFut, <<>>, out)) /\ UNCHANGED <<fut, result>>
               ELSE Resolve(cmdFut, out) /\ BackToLoop(r)
    BY <2>1
  <2>3. i \in 1 .. Len(norm) /\ norm[i] = End(cmdFut)
    BY DEF At
  <2>4. /\ probeFut = None /\ cmdFut # None /\ started' = TRUE
    BY <1>11 DEF ReadEnd, ReadForCommand, CommandActive
  <2> QED BY <1>3, <1>6, <2>2, <2>3, <2>4 DEF FindsEnd
<1> QED BY <1>7, <1>8, <1>9, <1>10, <1>11 DEF ReadChunk

-----------------------------------------------------------------------------
(* A command that is not yet written stays unknown.                        *)

LEMMA LacksCut ==
  ASSUME NEW new, NEW old, NEW t, Len(old) \in Nat, CutOf(new, old), Lacks(old, t)
  PROVE  Lacks(new, t)
<1> SUFFICES ASSUME NEW i \in 1 .. Len(new) PROVE new[i].of # t
  BY DEF Lacks
<1>1. PICK k : Was(new, old, i, k)
  BY CutOrder
<1> QED BY <1>1 DEF Lacks, Was

LEMMA LacksAdded ==
  ASSUME NEW new, NEW old, NEW x, NEW t, Added(new, old, x), Lacks(old, t), x.of # t
  PROVE  Lacks(new, t)
BY AddedElements DEF Lacks

LEMMA LacksEmpty == \A t : Lacks(<<>>, t)
BY EmptySeq DEF Lacks

(* The elements of the buffer with a chunk appended.                       *)
LEMMA JoinedElements ==
  ASSUME TypeOK, NEW r \in Openers, NEW n \in 1 .. Len(stdout[r])
  PROVE  /\ Joined(r, n) \in Seq(Token) /\ Len(Joined(r, n)) = Len(cmdBuf) + n
         /\ Len(cmdBuf) \in Nat
         /\ \A i \in 1 .. Len(cmdBuf) : Joined(r, n)[i] = cmdBuf[i]
         /\ \A i \in 1 .. n : Joined(r, n)[Len(cmdBuf) + i] = stdout[r][i]
         /\ Chunk1(r, n) \in Seq(Token) /\ Len(Chunk1(r, n)) = n
         /\ \A i \in 1 .. n : Chunk1(r, n)[i] = stdout[r][i]
<1>1. /\ stdout[r] \in Seq(Token) /\ Len(stdout[r]) \in Nat
      /\ cmdBuf \in Seq(Token) /\ Len(cmdBuf) \in Nat
  BY ChannelTypes, LenProperties DEF TypeOK
<1>2. \A i \in 1 .. n : i \in 1 .. Len(stdout[r]) /\ stdout[r][i] \in Token
  BY <1>1, ElementOfSeq
<1>3. /\ Chunk1(r, n) \in Seq(Token) /\ Len(Chunk1(r, n)) = n
      /\ \A i \in 1 .. n : Chunk1(r, n)[i] = stdout[r][i]
  BY <1>1, <1>2, SubSeqProperties, PrefixType DEF Chunk1
<1>4. Len(Joined(r, n)) = Len(cmdBuf) + n /\ Joined(r, n) \in Seq(Token)
  BY <1>1, <1>3, ConcatProperties DEF Joined
<1>5. \A i \in 1 .. Len(cmdBuf) : Joined(r, n)[i] = cmdBuf[i]
  BY <1>1, <1>3, ConcatProperties DEF Joined
<1>6. ASSUME NEW i \in 1 .. n PROVE Joined(r, n)[Len(cmdBuf) + i] = stdout[r][i]
  <2>1. Len(cmdBuf) + i \in 1 .. Len(cmdBuf) + n /\ ~(Len(cmdBuf) + i <= Len(cmdBuf))
        /\ (Len(cmdBuf) + i) - Len(cmdBuf) = i
    BY <1>1
  <2>2. Joined(r, n)[Len(cmdBuf) + i] = Chunk1(r, n)[(Len(cmdBuf) + i) - Len(cmdBuf)]
    BY <1>1, <1>3, <2>1, ConcatProperties DEF Joined
  <2> QED BY <1>3, <2>1, <2>2
<1> QED BY <1>1, <1>3, <1>4, <1>5, <1>6

LEMMA LacksJoined ==
  ASSUME TypeOK, NEW r \in Openers, NEW n \in 1 .. Len(stdout[r]), NEW t,
         Lacks(cmdBuf, t), Lacks(stdout[r], t)
  PROVE  Lacks(Joined(r, n), t)
<1> SUFFICES ASSUME NEW i \in 1 .. Len(Joined(r, n)) PROVE Joined(r, n)[i].of # t
  BY DEF Lacks
<1>1. Len(stdout[r]) \in Nat /\ Len(cmdBuf) \in Nat
  BY ChannelTypes, JoinedElements
<1>2. CASE i <= Len(cmdBuf)
  BY <1>1, <1>2, JoinedElements DEF Lacks
<1>3. CASE i > Len(cmdBuf)
  <2>1. i - Len(cmdBuf) \in 1 .. n /\ i - Len(cmdBuf) \in 1 .. Len(stdout[r]) /\ Len(cmdBuf) + (i - Len(cmdBuf)) = i
    BY <1>1, <1>3, JoinedElements
  <2>2. Joined(r, n)[i] = stdout[r][i - Len(cmdBuf)]
    BY <2>1, JoinedElements
  <2> QED BY <2>1, <2>2 DEF Lacks
<1> QED BY <1>1, <1>2, <1>3, JoinedElements

(* What lies behind the BEGIN marker, and behind the END marker.           *)
LEMMA BehindCuts ==
  ASSUME TypeOK, NEW r \in Openers, NEW n \in 1 .. Len(stdout[r]), NEW norm, Behind(r, n, norm)
  PROVE  norm \in Seq(Token) /\ CutOf(norm, Joined(r, n))
<1>1. Joined(r, n) \in Seq(Token) /\ Len(Joined(r, n)) \in Nat
  BY JoinedElements, LenProperties
<1>2. PICK i \in 0 .. Len(Joined(r, n)) : norm = From(Joined(r, n), i + 1)
  BY DEF Behind
<1> QED BY <1>1, <1>2, CutOfFrom, CutType

LEMMA FreshInChannel ==
  ASSUME TypeOK, NEW t \in Runners, Fresh(t),
         \/ Taken
         \/ \E line \in Line : Written(line) /\ line # Cmd(t)
         \/ \E p \in Openers : PrintedBy(p)
  PROVE  /\ printed'[t] = 0
         /\ \A p \in Openers : fg'[p] # t /\ Absent(Cmd(t), stdin'[p]) /\ Lacks(stdout'[p], t)
<1>1. /\ printed[t] = 0 /\ None # t /\ \A q \in Probers : q # t
      /\ \A p \in Openers : /\ fg[p] # t /\ Absent(Cmd(t), stdin[p]) /\ Lacks(stdout[p], t)
                            /\ Len(stdin[p]) \in Nat /\ Len(stdout[p]) \in Nat
  BY ChannelTypes, TasksAssumption DEF Fresh, Tasks
<1>2. CASE Taken
  BY <1>1, <1>2, CutAbsent, LacksCut DEF Taken
<1>3. ASSUME NEW line \in Line, Written(line), line # Cmd(t)
      PROVE  /\ printed'[t] = 0
             /\ \A p \in Openers : fg'[p] # t /\ Absent(Cmd(t), stdin'[p]) /\ Lacks(stdout'[p], t)
  <2>1. stdout' = stdout /\ fg' = fg /\ printed' = printed
    BY <1>3 DEF Written
  <2>2. \A p \in Openers : Absent(Cmd(t), stdin'[p])
    BY <1>1, <1>3, WrittenAdds, AddedAbsent
  <2> QED BY <1>1, <2>1, <2>2
<1>4. ASSUME NEW p \in Openers, PrintedBy(p)
      PROVE  /\ printed'[t] = 0
             /\ \A q \in Openers : fg'[q] # t /\ Absent(Cmd(t), stdin'[q]) /\ Lacks(stdout'[q], t)
  <2>1. \A q \in Openers : CutOf(stdin'[q], stdin[q])
    BY <1>4, ChannelTypes, CutOfSame, CutOfTail
    DEF PrintedBy, RemoteBegins, RemotePrints, RemoteEnds, RemoteAnswers, NextLine
  <2>2. \A q \in Openers : Absent(Cmd(t), stdin'[q])
    BY <1>1, <2>1, CutAbsent
  <2>3. ASSUME NEW tok \in Token, Prints(p, tok), tok.of # t
        PROVE  \A q \in Openers : Lacks(stdout'[q], t)
    BY <1>1, <2>3, PrintsAdds, LacksAdded
  <2>4. CASE \E u \in Runners : RemoteBegins(p, u)
    <3>1. PICK u \in Runners : RemoteBegins(p, u)
      BY <2>4
    <3>2. u # t
      BY <1>1, <3>1, TakesLine DEF RemoteBegins, Absent
    <3>3. fg' = [fg EXCEPT ![p] = u] /\ printed' = printed /\ Prints(p, Begin(u))
      BY <3>1 DEF RemoteBegins
    <3> QED BY <1>1, <2>2, <2>3, <3>2, <3>3, Tokens, TokenType, ChannelTypes
  <2>5. CASE \E u \in Runners : RemotePrints(p, u)
    <3>1. PICK u \in Runners : RemotePrints(p, u)
      BY <2>5
    <3>2. /\ u # t /\ fg' = fg /\ printed' = [printed EXCEPT ![u] = @ + 1] /\ Prints(p, Out(u, printed[u] + 1))
          /\ printed[u] + 1 \in Nat
      BY <1>1, <3>1, ChannelTypes DEF RemotePrints
    <3>3. Out(u, printed[u] + 1).of # t /\ Out(u, printed[u] + 1) \in Token
      BY <3>2, Tokens, TokenType
    <3> QED BY <1>1, <2>2, <2>3, <3>2, <3>3, ChannelTypes
  <2>6. CASE \E u \in Runners : RemoteEnds(p, u)
    <3>1. PICK u \in Runners : RemoteEnds(p, u)
      BY <2>6
    <3>2. u # t /\ fg' = [fg EXCEPT ![p] = None] /\ printed' = printed /\ Prints(p, End(u))
      BY <1>1, <3>1 DEF RemoteEnds
    <3> QED BY <1>1, <2>2, <2>3, <3>2, Tokens, TokenType, ChannelTypes
  <2>7. CASE \E q \in Probers : RemoteAnswers(p, q)
    <3>1. PICK q \in Probers : RemoteAnswers(p, q)
      BY <2>7
    <3>2. q # t /\ fg' = fg /\ printed' = printed /\ Prints(p, Pwd(q))
      BY <1>1, <3>1 DEF RemoteAnswers
    <3> QED BY <1>1, <2>2, <2>3, <3>2, Tokens, TokenType
  <2> QED BY <1>4, <2>4, <2>5, <2>6, <2>7 DEF PrintedBy
<1> QED BY <1>2, <1>3, <1>4

(* The same of the futures, the results and the buffers.                   *)
Unheard(t) ==
  /\ fut'[t] = "none" /\ cmdFut' # t /\ Lacks(cmdBuf', t)
  /\ \A p \in Openers : reader'[p].end # t /\ Lacks(reader'[p].buf, t)
  /\ result'[t].of = None /\ \A u \in Runners : result'[u].of # t

LEMMA ResolveKeepsFresh ==
  ASSUME TypeOK, NEW t \in Runners, Fresh(t), NEW c, c # t, NEW out, Resolve(c, out)
  PROVE  fut'[t] = "none" /\ result'[t].of = None /\ \A u \in Runners : result'[u].of # t
<1>1. /\ cmdFut # t /\ fut[t] = "none" /\ result[t].of = None /\ \A u \in Runners : result[u].of # t
      /\ result \in [Runners -> [of : Ref(Runners), out : SUBSET Token]]
      /\ fut \in [Runners \cup Probers -> Outcome]
  BY DEF Fresh, TypeOK
<1> QED BY <1>1 DEF Resolve

LEMMA FreshReader ==
  ASSUME TypeOK, Served, NEW t \in Runners, Fresh(t), NEW r \in Openers, ReadShellLoop(r)
  PROVE  Unheard(t)
<1> USE DEF OnlyReader, command, tasks
<1>1. /\ fut[t] = "none" /\ cmdFut # t /\ Lacks(cmdBuf, t) /\ Lacks(stdout[r], t) /\ None # t
      /\ \A p \in Openers : reader[p].end # t /\ Lacks(reader[p].buf, t)
      /\ result[t].of = None /\ \A u \in Runners : result[u].of # t
      /\ reader \in [Openers -> ReaderState]
  BY TasksAssumption DEF Fresh, TypeOK, Tasks
<1>2. ASSUME NEW state, reader' = [reader EXCEPT ![r] = state], state.end # t, Lacks(state.buf, t)
      PROVE  \A p \in Openers : reader'[p].end # t /\ Lacks(reader'[p].buf, t)
  BY <1>1, <1>2
<1>3. ASSUME NEW p PROVE Idle(p).end # t /\ Lacks(Idle(p).buf, t)
  BY <1>1, LacksEmpty DEF Idle
<1>0. ASSUME NEW p, SetReader(r, Idle(p))
      PROVE  \A q \in Openers : reader'[q].end # t /\ Lacks(reader'[q].buf, t)
  <2>1. reader' = [reader EXCEPT ![r] = Idle(p)] /\ Idle(p).end # t /\ Lacks(Idle(p).buf, t)
    BY <1>0, <1>3 DEF SetReader
  <2> QED BY <1>1, <2>1
<1>4. ASSUME NEW e, NEW b, NEW o, e # t, Lacks(b, t)
      PROVE  Emitting(e, b, o).end # t /\ Lacks(Emitting(e, b, o).buf, t)
  BY <1>4 DEF Emitting
<1>5. CASE ReaderTurn(r)
  <2>1. Reading(process).end # t /\ Lacks(Reading(process).buf, t)
    BY <1>1, LacksEmpty DEF Reading
  <2>2. \/ SetReader(r, Reading(process))
        \/ \E p : SetReader(r, Idle(p))
    BY <1>5 DEF ReaderTurn
  <2>3. \A p \in Openers : reader'[p].end # t /\ Lacks(reader'[p].buf, t)
    BY <1>0, <1>2, <2>1, <2>2 DEF SetReader
  <2> QED BY <1>1, <1>5, <2>3 DEF ReaderTurn, Unheard
<1>6. CASE ReadTimeout(r) \/ ReadEof(r) \/ ReaderCancelled(r)
  BY <1>1, <1>2, <1>3, <1>6 DEF ReadTimeout, ReadEof, ReaderCancelled, BackToLoop, SetReader, Unheard
<1>7. CASE EmitReturns(r)
  <2>1. \A p \in Openers : reader'[p].end # t /\ Lacks(reader'[p].buf, t)
    BY <1>0, <1>7 DEF EmitReturns, BackToLoop
  <2>2. cmdFut' = cmdFut
    BY <1>7 DEF EmitReturns
  <2>3. CASE reader[r].end = None
    BY <1>1, <1>7, <2>1, <2>2, <2>3 DEF EmitReturns, Unheard
  <2>4. CASE reader[r].end # None
    <3>1. Resolve(reader[r].end, reader[r].out) /\ cmdBuf' = cmdBuf
      BY <1>7, <2>4 DEF EmitReturns
    <3> QED BY <1>1, <2>1, <2>2, <3>1, ResolveKeepsFresh DEF Unheard
  <2> QED BY <2>3, <2>4
<1>8. CASE reader[r].pc = "read" /\ \E n \in 1 .. Len(stdout[reader[r].src]) : ReadChunk(r, n)
  <2>1. PICK n \in 1 .. Len(stdout[reader[r].src]) : ReadChunk(r, n)
    BY <1>8
  <2>2. /\ Chunked(r, n)
        /\ \/ TakesProbe(r, n) \/ Suppresses(r, n) \/ SeesNoBegin(r, n)
           \/ StreamsOutput(r, n) \/ FindsEnd(r, n)
    BY <1>8, <2>1, ChunkCases
  <2>3. n \in 1 .. Len(stdout[r]) /\ cmdFut' = cmdFut
    BY <2>2 DEF Chunked
  <2>4. Lacks(Joined(r, n), t) /\ Len(Joined(r, n)) \in Nat
    BY <1>1, <2>3, LacksJoined, JoinedElements, LenProperties
  <2>5. LoopsOn(r) => \A p \in Openers : reader'[p].end # t /\ Lacks(reader'[p].buf, t)
    BY <1>0 DEF LoopsOn, SetReader
  <2>6. ASSUME NEW norm, Behind(r, n, norm) PROVE Lacks(norm, t) /\ norm \in Seq(Token)
    BY <2>3, <2>4, <2>6, BehindCuts, LacksCut
  <2>7. CASE TakesProbe(r, n)
    BY <1>1, <2>3, <2>5, <2>7 DEF TakesProbe, Unheard
  <2>8. CASE Suppresses(r, n)
    BY <1>1, <2>3, <2>5, <2>8 DEF Suppresses, Unheard
  <2>9. CASE SeesNoBegin(r, n)
    BY <1>1, <2>3, <2>4, <2>5, <2>9 DEF SeesNoBegin, Unheard
  <2>10. CASE StreamsOutput(r, n)
    <3>1. PICK norm \in Seq(Token) :
            /\ Behind(r, n, norm)
            /\ \/ cmdBuf' = Joined(r, n) /\ reader' = [reader EXCEPT ![r] = Emitting(None, norm, {})]
               \/ cmdBuf' = norm /\ LoopsOn(r)
            /\ UNCHANGED <<fut, result>>
      BY <2>10 DEF StreamsOutput
    <3>2. Lacks(norm, t)
      BY <2>6, <3>1
    <3>3. Lacks(cmdBuf', t)
      BY <2>4, <3>1, <3>2
    <3>4. \A p \in Openers : reader'[p].end # t /\ Lacks(reader'[p].buf, t)
      BY <1>1, <1>2, <1>4, <2>5, <3>1, <3>2
    <3> QED BY <1>1, <2>3, <3>1, <3>3, <3>4 DEF Unheard
  <2>11. CASE FindsEnd(r, n)
    <3>0. PICK norm \in Seq(Token) : \E i \in 1 .. Len(norm) :
            /\ Behind(r, n, norm)
            /\ cmdBuf' = From(norm, i + 1)
            /\ \/ /\ reader' = [reader EXCEPT ![r] = Emitting(cmdFut, <<>>, Outputs(SubSeq(norm, 1, i - 1)))]
                  /\ UNCHANGED <<fut, result>>
               \/ Resolve(cmdFut, Outputs(SubSeq(norm, 1, i - 1))) /\ LoopsOn(r)
      BY <2>11 DEF FindsEnd
    <3>1. PICK i \in 1 .. Len(norm) :
            /\ Behind(r, n, norm)
            /\ cmdBuf' = From(norm, i + 1)
            /\ \/ /\ reader' = [reader EXCEPT ![r] = Emitting(cmdFut, <<>>, Outputs(SubSeq(norm, 1, i - 1)))]
                  /\ UNCHANGED <<fut, result>>
               \/ Resolve(cmdFut, Outputs(SubSeq(norm, 1, i - 1))) /\ LoopsOn(r)
      BY <3>0
    <3>2. Lacks(norm, t) /\ Len(norm) \in Nat
      BY <2>6, <3>1, LenProperties
    <3>3. Lacks(cmdBuf', t)
      BY <3>1, <3>2, CutOfFrom, LacksCut
    <3>4. \A p \in Openers : reader'[p].end # t /\ Lacks(reader'[p].buf, t)
      BY <1>1, <1>2, <1>4, <2>5, <3>1, LacksEmpty
    <3>5. fut'[t] = "none" /\ result'[t].of = None /\ \A u \in Runners : result'[u].of # t
      BY <1>1, <3>1, ResolveKeepsFresh
    <3> QED BY <2>3, <1>1, <3>3, <3>4, <3>5 DEF Unheard
  <2> QED BY <2>2, <2>7, <2>8, <2>9, <2>10, <2>11
<1> QED BY <1>5, <1>6, <1>7, <1>8 DEF ReadShellLoop

(* A step of a call in which t itself writes nothing.                      *)
LEMMA FreshCalls ==
  ASSUME TypeOK, NEW t \in Runners, Fresh(t), pc'[t] \in {"idle", "lock"}, Next,
         ~(\E r \in Openers : ReadShellLoop(r) \/ RemoteShell(r))
  PROVE  Unheard(t)
<1> USE DEF command, tasks, OnlyGoto, Unheard
<1>1. /\ fut[t] = "none" /\ cmdFut # t /\ Lacks(cmdBuf, t) /\ None # t
      /\ \A p \in Openers : reader[p].end # t /\ Lacks(reader[p].buf, t)
      /\ result[t].of = None /\ \A u \in Runners : result[u].of # t
      /\ reader \in [Openers -> ReaderState] /\ fut \in [Runners \cup Probers -> Outcome]
      /\ t \in Tasks /\ t \notin Probers /\ Lacks(<<>>, t)
      /\ pc \in [Tasks -> {"idle", "creating", "lock", "waiting", "joining", "exiting",
                           "done", "failed"}]
  BY TasksAssumption, LacksEmpty DEF Fresh, TypeOK, Tasks
<1>2. ASSUME NEW o \in Openers, OpenShell(o) PROVE Unheard(t)
  <2>1. CASE OpenFinish(o)
    <3>1. Idle("start").end # t /\ Lacks(Idle("start").buf, t)
      BY <1>1 DEF Idle
    <3> QED BY <1>1, <2>1, <3>1 DEF OpenFinish, SetReader
  <2> QED BY <1>1, <1>2, <2>1 DEF OpenShell, OpenRefused, OpenStart, OpenWriteRaises, OpenFail
<1>3. ASSUME NEW u \in Runners, RunShellCommand(u) PROVE Unheard(t)
  <2>1. CASE Submit(u) \/ SubmitRaises(u)
    <3>1. u # t
      BY <1>1, <2>1 DEF Submit, SubmitRaises, Install, Goto
    <3> QED BY <1>1, <2>1, <3>1 DEF Submit, SubmitRaises, Install
  <2>2. CASE RunWake(u)
    BY <1>1, <2>2 DEF RunWake, ResetCommandState
  <2> QED BY <1>1, <1>3, <2>1, <2>2 DEF RunShellCommand, RunRefused, RunQueue, RunRejected
<1>4. ASSUME NEW q \in Probers, GetShellCwd(q) PROVE Unheard(t)
  BY <1>1, <1>4 DEF GetShellCwd, ProbeRefused, ProbeQueue, ProbeRejected, ProbeSubmit, ProbeSubmitRaises,
     InstallProbe, ProbeWake
<1>5. ASSUME NEW c \in Closers, CloseShell(c) PROVE Unheard(t)
  BY <1>1, <1>5 DEF CloseShell, CloseRefused, CloseStart, CloseJoinRaises, CloseExit, CloseExitRaises,
     CloseNoProcess, CloseFinish, ReaderJoined, Fail, Done, ResetCommandState
<1>6. CASE Interrupt \/ SendToShell
  BY <1>1, <1>6 DEF Interrupt, SendToShell, Fail, Done, ResetCommandState
<1> QED BY <1>2, <1>3, <1>4, <1>5, <1>6 DEF Next

(* Nobody becomes idle, and only an idle task begins to wait for the lock. *)
LEMMA NewWasNew ==
  ASSUME TypeOK, [Next]_vars, NEW t \in Runners, pc'[t] \in {"idle", "lock"}
  PROVE  pc[t] \in {"idle", "lock"}
<1> USE DEF tasks, Goto, OnlyGoto
<1>1. /\ t \in Tasks /\ pc \in [Tasks -> {"idle", "creating", "lock", "waiting", "joining", "exiting",
                                        "done", "failed"}]
  BY DEF TypeOK, Tasks
<1>2. CASE \E u \in Runners : RunShellCommand(u)
  BY <1>1, <1>2 DEF RunShellCommand, RunRefused, RunQueue, RunRejected, GetsCommandLock, Submit, SubmitRaises,
     Install, RunWake
<1>3. CASE \E u \in Probers : GetShellCwd(u)
  BY <1>1, <1>3, TasksAssumption DEF GetShellCwd, ProbeRefused, ProbeQueue, ProbeRejected, GetsProbeLock,
     ProbeSubmit, ProbeSubmitRaises, InstallProbe, ProbeWake
<1>4. CASE \E o \in Openers : OpenShell(o)
  BY <1>1, <1>4 DEF OpenShell, OpenRefused, OpenStart, OpenFinish, OpenWriteRaises, OpenFail
<1>5. CASE \E c \in Closers : CloseShell(c)
  BY <1>1, <1>5 DEF CloseShell, CloseRefused, CloseStart, CloseJoinRaises, CloseExit, CloseExitRaises,
     CloseNoProcess, CloseFinish
<1>6. CASE Interrupt \/ SendToShell \/ UNCHANGED vars
  BY <1>6 DEF Interrupt, SendToShell, vars
<1>7. CASE \E r \in Openers : RemoteShell(r)
  BY <1>7 DEF RemoteShell, RemoteBegins, RemotePrints, RemoteEnds, RemoteAnswers, RemoteConsumes,
     RemoteInterrupted, RemoteExits, RemoteDies, RemoteUnchanged
<1>8. CASE \E r \in Openers : ReadShellLoop(r)
  BY <1>8 DEF ReadShellLoop, ReaderTurn, ReadTimeout, ReadEof, ReaderCancelled, EmitReturns, ReadChunk,
     ReadForProbe, ReadUnsolicited, ReadBeforeBegin, ReadOutput, ReadEnd, ReadForCommand, Chunk, OnlyReader
<1> QED BY <1>2, <1>3, <1>4, <1>5, <1>6, <1>7, <1>8 DEF Next

LEMMA SubmitsNew ==
  ASSUME NewIsFresh, NEW t \in Runners, Submit(t) \/ SubmitRaises(t)
  PROVE  pc[t] \in {"idle", "lock"} /\ Fresh(t)
BY DEF NewIsFresh, Submit, SubmitRaises, Install, GetsCommandLock

LEMMA OnceNext ==
  ASSUME TypeOK, Served, Once, NewIsFresh, [Next]_vars
  PROVE  Once'
<1>1. CASE UNCHANGED vars
  BY <1>1, TakenSame, OnceTaken DEF vars, remote
<1>2. ASSUME NEW r \in Openers, ReadShellLoop(r) PROVE Once'
  BY <1>2, ChannelOfReader, OnceTaken
<1>3. ASSUME NEW p \in Openers, RemoteShell(p) PROVE Once'
  BY <1>3, ChannelOfRemote, OnceTaken, OncePrinted
<1>4. ASSUME Next, ~(\E r \in Openers : ReadShellLoop(r) \/ RemoteShell(r)) PROVE Once'
  <2>1. CASE Taken
    BY <2>1, OnceTaken
  <2>2. ASSUME NEW line \in Line, Written(line),
               line.kind # "cmd" \/ \E t \in Runners : line = Cmd(t) /\ Submit(t)
        PROVE  Once'
    BY <2>2, OnceWritten, SubmitsNew
  <2> QED BY <1>4, <2>1, <2>2, ChannelOfCalls
<1> QED BY <1>1, <1>2, <1>3, <1>4

LEMMA NewIsFreshNext ==
  ASSUME TypeOK, Served, NewIsFresh, [Next]_vars
  PROVE  NewIsFresh'
<1> SUFFICES ASSUME NEW t \in Runners, pc'[t] \in {"idle", "lock"}
             PROVE  Fresh(t)'
  BY DEF NewIsFresh, Fresh, Lacks, Absent, Cmd
<1>1. Fresh(t)
  BY NewWasNew DEF NewIsFresh
<1>2. ASSUME Unheard(t),
             printed'[t] = 0,
             \A p \in Openers : fg'[p] # t /\ Absent(Cmd(t), stdin'[p]) /\ Lacks(stdout'[p], t)
      PROVE  Fresh(t)'
  BY <1>2 DEF Unheard, Fresh, Lacks, Absent, Cmd
<1>3. CASE UNCHANGED vars
  BY <1>1, <1>3 DEF vars, command, tasks, remote, Fresh, Lacks, Absent, Cmd
<1>4. ASSUME NEW r \in Openers, ReadShellLoop(r) PROVE Fresh(t)'
  BY <1>1, <1>2, <1>4, ChannelOfReader, FreshInChannel, FreshReader
<1>5. ASSUME NEW r \in Openers, RemoteShell(r) PROVE Fresh(t)'
  <2>1. Unheard(t)
    BY <1>1, <1>5 DEF RemoteShell, RemoteBegins, RemotePrints, RemoteEnds, RemoteAnswers, RemoteConsumes,
       RemoteInterrupted, RemoteExits, RemoteDies, RemoteUnchanged, Unheard, Fresh, command, tasks
  <2> QED BY <1>1, <1>2, <1>5, <2>1, ChannelOfRemote, FreshInChannel
<1>6. ASSUME Next, ~(\E r \in Openers : ReadShellLoop(r) \/ RemoteShell(r)) PROVE Fresh(t)'
  <2>1. Unheard(t)
    BY <1>1, <1>6, FreshCalls
  <2>2. ASSUME NEW u \in Runners, Submit(u) PROVE u # t
    <3>1. /\ u \in Tasks /\ pc' = [pc EXCEPT ![u] = "waiting"]
          /\ pc \in [Tasks -> {"idle", "creating", "lock", "waiting", "joining", "exiting", "done", "failed"}]
      BY <2>2 DEF Submit, Goto, TypeOK, Tasks
    <3> QED BY <3>1
  <2>3. \/ Taken
        \/ \E line \in Line : Written(line) /\ line # Cmd(t)
    BY <1>6, <2>2, ChannelOfCalls, Tokens
  <2> QED BY <1>1, <1>2, <2>1, <2>3, FreshInChannel
<1> QED BY <1>3, <1>4, <1>5, <1>6

LEMMA KnownInit == Init => Once /\ NewIsFresh
<1> SUFFICES ASSUME Init PROVE Once /\ NewIsFresh
  OBVIOUS
<1>1. \A p \in Openers : stdin[p] = <<>> /\ stdout[p] = <<>> /\ fg[p] = None /\ reader[p] = Idle("none")
  BY DEF Init
<1>2. /\ \A t : Lacks(<<>>, t) /\ Absent(Cmd(t), <<>>)
      /\ None \notin Runners /\ Runners \subseteq Tasks
  BY LacksEmpty, EmptySeq, TasksAssumption DEF Absent, Tasks
<1>3. Once
  BY <1>1, <1>2, EmptySeq DEF Once, SentOnce, RunsOnce, EndsOnce
<1>4. NewIsFresh
  BY <1>1, <1>2 DEF Init, NewIsFresh, Fresh, Idle
<1> QED BY <1>3, <1>4

-----------------------------------------------------------------------------
(* The installed command is the last one written: behind it no process     *)
(* finds another command to run, so what follows its BEGIN marker is its.  *)

NoCommands(s) == \A i \in 1 .. Len(s) : s[i].kind # "cmd"
Clean(p, t)   == fg[p] \in {t, None} /\ NoCommands(stdin[p])
IsLast(t, p) ==
  /\ fg[p] = t => NoCommands(stdin[p])
  /\ \A i \in 1 .. Len(stdin[p]) : stdin[p][i] = Cmd(t) =>
       \A j \in 1 .. Len(stdin[p]) : j > i => stdin[p][j].kind # "cmd"
  /\ \A i \in 1 .. Len(stdout[p]) : stdout[p][i] = Begin(t) =>
       /\ Clean(p, t)
       /\ \A j \in 1 .. Len(stdout[p]) : j > i /\ stdout[p][j].kind = "out" => stdout[p][j].of = t
InstalledIsLast == cmdFut # None => \A p \in Openers : IsLast(cmdFut, p)

LEMMA NoCommandsCut ==
  ASSUME NEW new, NEW old, Len(old) \in Nat, CutOf(new, old), NoCommands(old)
  PROVE  NoCommands(new)
<1> SUFFICES ASSUME NEW i \in 1 .. Len(new) PROVE new[i].kind # "cmd"
  BY DEF NoCommands
<1>1. PICK k : Was(new, old, i, k)
  BY CutOrder
<1> QED BY <1>1 DEF NoCommands, Was

(* What was taken from a channel takes no order away.                      *)
LEMMA LastInLines ==
  ASSUME NEW new, NEW old, NEW t, Len(old) \in Nat, CutOf(new, old),
         \A i \in 1 .. Len(old) : old[i] = Cmd(t) =>
           \A j \in 1 .. Len(old) : j > i => old[j].kind # "cmd"
  PROVE  \A i \in 1 .. Len(new) : new[i] = Cmd(t) =>
           \A j \in 1 .. Len(new) : j > i => new[j].kind # "cmd"
<1> SUFFICES ASSUME NEW i \in 1 .. Len(new), new[i] = Cmd(t), NEW j \in 1 .. Len(new), j > i
             PROVE  new[j].kind # "cmd"
  OBVIOUS
<1>1. PICK k : Was(new, old, i, k)
  BY CutOrder
<1> QED BY <1>1 DEF Was

LEMMA LastInTokens ==
  ASSUME NEW new, NEW old, NEW t, Len(old) \in Nat, CutOf(new, old),
         NEW i \in 1 .. Len(new), new[i] = Begin(t)
  PROVE  \E k \in 1 .. Len(old) :
           /\ old[k] = Begin(t)
           /\ (\A j \in 1 .. Len(old) : j > k /\ old[j].kind = "out" => old[j].of = t)
                => \A j \in 1 .. Len(new) : j > i /\ new[j].kind = "out" => new[j].of = t
<1>1. PICK k : Was(new, old, i, k)
  BY CutOrder
<1>2. k \in 1 .. Len(old) /\ old[k] = Begin(t)
  BY <1>1 DEF Was
<1>3. ASSUME \A j \in 1 .. Len(old) : j > k /\ old[j].kind = "out" => old[j].of = t
      PROVE  \A j \in 1 .. Len(new) : j > i /\ new[j].kind = "out" => new[j].of = t
  BY <1>1, <1>3 DEF Was
<1> QED BY <1>2, <1>3

LEMMA LastTaken ==
  ASSUME TypeOK, NEW t \in Runners, NEW p \in Openers, IsLast(t, p),
         CutOf(stdin'[p], stdin[p]), CutOf(stdout'[p], stdout[p]), fg'[p] \in {fg[p], None}
  PROVE  IsLast(t, p)'
<1>1. Len(stdin[p]) \in Nat /\ Len(stdout[p]) \in Nat /\ None # t
  BY ChannelTypes, TasksAssumption DEF Tasks
<1>2. fg'[p] = t => fg[p] = t
  BY <1>1
<1>3. NoCommands(stdin[p]) => NoCommands(stdin'[p])
  BY <1>1, NoCommandsCut
<1>4. \A i \in 1 .. Len(stdin'[p]) : stdin'[p][i] = Cmd(t) =>
        \A j \in 1 .. Len(stdin'[p]) : j > i => stdin'[p][j].kind # "cmd"
  BY <1>1, LastInLines DEF IsLast
<1>5. ASSUME NEW i \in 1 .. Len(stdout'[p]), stdout'[p][i] = Begin(t)
      PROVE  /\ fg'[p] \in {t, None} /\ NoCommands(stdin'[p])
             /\ \A j \in 1 .. Len(stdout'[p]) :
                  j > i /\ stdout'[p][j].kind = "out" => stdout'[p][j].of = t
  <2>1. PICK k \in 1 .. Len(stdout[p]) :
          /\ stdout[p][k] = Begin(t)
          /\ (\A j \in 1 .. Len(stdout[p]) : j > k /\ stdout[p][j].kind = "out" => stdout[p][j].of = t)
               => \A j \in 1 .. Len(stdout'[p]) :
                    j > i /\ stdout'[p][j].kind = "out" => stdout'[p][j].of = t
    BY <1>1, <1>5, LastInTokens
  <2>2. Clean(p, t)
        /\ \A j \in 1 .. Len(stdout[p]) : j > k /\ stdout[p][j].kind = "out" => stdout[p][j].of = t
    BY <2>1 DEF IsLast
  <2> QED BY <1>3, <2>1, <2>2 DEF Clean
<1> QED BY <1>2, <1>3, <1>4, <1>5 DEF IsLast, Clean, NoCommands, Cmd, Begin

(* A line that is no command may be written behind it.                     *)
LEMMA LastWritten ==
  ASSUME TypeOK, NEW t \in Runners, NEW p \in Openers, IsLast(t, p),
         NEW line \in Line, Written(line), line.kind # "cmd"
  PROVE  IsLast(t, p)'
<1>1. /\ stdout' = stdout /\ fg' = fg
      /\ Added(stdin'[p], stdin[p], line) \/ stdin'[p] = stdin[p]
  BY WrittenAdds DEF Written
<1>2. CASE stdin'[p] = stdin[p]
  BY <1>1, <1>2 DEF IsLast, Clean, NoCommands, Cmd, Begin
<1>3. CASE Added(stdin'[p], stdin[p], line)
  <2>1. NoCommands(stdin[p]) => NoCommands(stdin'[p])
    BY <1>3, AddedElements DEF NoCommands
  <2>2. ASSUME NEW i \in 1 .. Len(stdin'[p]), stdin'[p][i] = Cmd(t), NEW j \in 1 .. Len(stdin'[p]), j > i
        PROVE  stdin'[p][j].kind # "cmd"
    <3>1. Cmd(t).kind = "cmd"
      BY Tokens
    <3>2. i \in 1 .. Len(stdin[p]) /\ stdin[p][i] = Cmd(t)
      BY <1>3, <2>2, <3>1, AddedElements
    <3>3. \A l \in 1 .. Len(stdin[p]) : l > i => stdin[p][l].kind # "cmd"
      BY <3>2 DEF IsLast
    <3>4. CASE j \in 1 .. Len(stdin[p])
      BY <1>3, <2>2, <3>3, <3>4 DEF Added
    <3>5. CASE stdin'[p][j] = line
      BY <3>5
    <3> QED BY <1>3, <3>4, <3>5, AddedElements
  <2> QED BY <1>1, <2>1, <2>2 DEF IsLast, Clean, NoCommands, Cmd, Begin
<1> QED BY <1>1, <1>2, <1>3

(* Nor does a token disturb it that is the running command's own output or *)
(* no output at all.                                                       *)
LEMMA LastPrints ==
  ASSUME TypeOK, NEW t \in Runners, NEW p \in Openers, IsLast(t, p),
         NEW tok \in Token, Added(stdout'[p], stdout[p], tok), tok # Begin(t),
         tok.kind = "out" => fg[p] = tok.of /\ tok.of \in Runners,
         CutOf(stdin'[p], stdin[p]), fg'[p] \in {fg[p], None}
  PROVE  IsLast(t, p)'
<1>1. Len(stdin[p]) \in Nat /\ Len(stdout[p]) \in Nat /\ None \notin Runners
  BY ChannelTypes, TasksAssumption DEF Tasks
<1>2. fg'[p] = t => fg[p] = t
  BY <1>1
<1>3. NoCommands(stdin[p]) => NoCommands(stdin'[p])
  BY <1>1, NoCommandsCut
<1>4. \A i \in 1 .. Len(stdin'[p]) : stdin'[p][i] = Cmd(t) =>
        \A j \in 1 .. Len(stdin'[p]) : j > i => stdin'[p][j].kind # "cmd"
  BY <1>1, LastInLines DEF IsLast
<1>5. ASSUME NEW i \in 1 .. Len(stdout'[p]), stdout'[p][i] = Begin(t)
      PROVE  /\ fg'[p] \in {t, None} /\ NoCommands(stdin'[p])
             /\ \A j \in 1 .. Len(stdout'[p]) :
                  j > i /\ stdout'[p][j].kind = "out" => stdout'[p][j].of = t
  <2>1. i \in 1 .. Len(stdout[p]) /\ stdout[p][i] = Begin(t)
    BY <1>5, AddedElements
  <2>2. Clean(p, t)
        /\ \A j \in 1 .. Len(stdout[p]) : j > i /\ stdout[p][j].kind = "out" => stdout[p][j].of = t
    BY <2>1 DEF IsLast
  <2>3. tok.kind = "out" => tok.of = t
    BY <1>1, <2>2 DEF Clean
  <2>4. \A j \in 1 .. Len(stdout'[p]) :
          j > i /\ stdout'[p][j].kind = "out" => stdout'[p][j].of = t
    BY <2>2, <2>3, AddedElements
  <2> QED BY <1>3, <2>2, <2>4 DEF Clean
<1> QED BY <1>2, <1>3, <1>4, <1>5 DEF IsLast, Clean, NoCommands, Cmd, Begin

LEMMA LastBegins ==
  ASSUME TypeOK, Once, NEW t \in Runners, NEW p \in Openers, IsLast(t, p),
         NEW u \in Runners, RemoteBegins(p, u)
  PROVE  IsLast(t, p)'
<1>1. /\ 1 \in 1 .. Len(stdin[p]) /\ stdin[p][1] = Cmd(u) /\ fg[p] = None
      /\ Len(stdin'[p]) = Len(stdin[p]) - 1 /\ Len(stdin[p]) \in Nat
      /\ \A i \in 1 .. Len(stdin'[p]) : stdin'[p][i] = stdin[p][i + 1]
      /\ fg'[p] = u
  BY TakesLine, ChannelTypes DEF RemoteBegins
<1>2. Added(stdout'[p], stdout[p], Begin(u))
  BY PrintsAdds, TokenType DEF RemoteBegins
<1>3. CutOf(stdin'[p], stdin[p])
  BY ChannelTypes, CutOfTail DEF RemoteBegins, NextLine
<1>4. \A i \in 1 .. Len(stdin'[p]) : stdin'[p][i] = Cmd(t) =>
        \A j \in 1 .. Len(stdin'[p]) : j > i => stdin'[p][j].kind # "cmd"
  BY <1>1, <1>3, LastInLines DEF IsLast
<1>5. Begin(u).kind = "begin" /\ Cmd(u).kind = "cmd" /\ (Begin(u) = Begin(t) => u = t)
  BY Tokens
<1>6. CASE u = t
  <2>1. \A j \in 1 .. Len(stdin[p]) : j > 1 => stdin[p][j].kind # "cmd"
    BY <1>1, <1>6 DEF IsLast
  <2>2. \A i \in 1 .. Len(stdin'[p]) : i + 1 \in 1 .. Len(stdin[p]) /\ i + 1 > 1
    BY <1>1
  <2>3. NoCommands(stdin'[p])
    BY <1>1, <2>1, <2>2 DEF NoCommands
  <2>4. Absent(Begin(t), stdout[p])
    BY <1>1, <1>6 DEF Once, SentOnce
  <2>5. ASSUME NEW i \in 1 .. Len(stdout'[p]), stdout'[p][i] = Begin(t), NEW j \in 1 .. Len(stdout'[p]), j > i
        PROVE  FALSE
    <3>1. i = Len(stdout[p]) + 1
      BY <1>2, <2>4, <2>5, AddedElements DEF Absent
    <3> QED BY <1>2, <2>5, <3>1 DEF Added
  <2> QED BY <1>1, <1>4, <1>6, <2>3, <2>5 DEF IsLast, Clean, NoCommands, Cmd, Begin
<1>7. CASE u # t
  <2>1. \A i \in 1 .. Len(stdout[p]) : stdout[p][i] # Begin(t)
    BY <1>1, <1>5 DEF IsLast, Clean, NoCommands
  <2>2. \A i \in 1 .. Len(stdout'[p]) : stdout'[p][i] # Begin(t)
    BY <1>2, <1>5, <1>7, <2>1, AddedElements
  <2> QED BY <1>1, <1>4, <1>7, <2>2 DEF IsLast, Clean, NoCommands, Cmd, Begin
<1> QED BY <1>6, <1>7

LEMMA LastSame ==
  ASSUME NEW t, NEW p, stdin'[p] = stdin[p], stdout'[p] = stdout[p], fg'[p] = fg[p], IsLast(t, p)
  PROVE  IsLast(t, p)'
BY DEF IsLast, Clean, NoCommands, Cmd, Begin

LEMMA LastPrinted ==
  ASSUME TypeOK, Once, NEW t \in Runners, NEW p \in Openers, IsLast(t, p),
         NEW q \in Openers, PrintedBy(q)
  PROVE  IsLast(t, p)'
<1>1. CASE p # q
  <2>1. stdin'[p] = stdin[p] /\ stdout'[p] = stdout[p] /\ fg'[p] = fg[p]
    BY <1>1, ChannelTypes DEF PrintedBy, RemoteBegins, RemotePrints, RemoteEnds, RemoteAnswers, Prints, NextLine
  <2> QED BY <2>1, LastSame
<1>2. CASE p = q
  <2>1. ASSUME NEW u \in Runners, RemotePrints(p, u) PROVE IsLast(t, p)'
    <3>1. printed[u] + 1 \in Nat /\ fg[p] = u /\ fg' = fg /\ stdin' = stdin /\ Prints(p, Out(u, printed[u] + 1))
      BY <2>1, ChannelTypes DEF RemotePrints
    <3>2. Out(u, printed[u] + 1) \in Token /\ Out(u, printed[u] + 1).of = u /\ Out(u, printed[u] + 1) # Begin(t)
      BY <3>1, Tokens, TokenType
    <3>3. CutOf(stdin'[p], stdin[p])
      BY <3>1, ChannelTypes, CutOfSame
    <3> QED BY <3>1, <3>2, <3>3, PrintsAdds, LastPrints
  <2>2. ASSUME NEW u \in Runners, RemoteEnds(p, u) PROVE IsLast(t, p)'
    <3>1. /\ fg'[p] = None /\ stdin' = stdin /\ Prints(p, End(u))
          /\ End(u) \in Token /\ End(u).kind = "end" /\ End(u) # Begin(t)
      BY <2>2, ChannelTypes, Tokens, TokenType DEF RemoteEnds
    <3>2. CutOf(stdin'[p], stdin[p])
      BY <3>1, ChannelTypes, CutOfSame
    <3> QED BY <3>1, <3>2, PrintsAdds, LastPrints
  <2>3. ASSUME NEW u \in Probers, RemoteAnswers(p, u) PROVE IsLast(t, p)'
    <3>1. /\ fg' = fg /\ Prints(p, Pwd(u))
          /\ Pwd(u) \in Token /\ Pwd(u).kind = "pwd" /\ Pwd(u) # Begin(t)
      BY <2>3, Tokens, TokenType DEF RemoteAnswers
    <3>2. CutOf(stdin'[p], stdin[p])
      BY <2>3, ChannelTypes, CutOfTail DEF RemoteAnswers, NextLine
    <3> QED BY <3>1, <3>2, PrintsAdds, LastPrints
  <2> QED BY <1>2, <2>1, <2>2, <2>3, LastBegins DEF PrintedBy
<1> QED BY <1>1, <1>2

(* A command that is new in the channel is the last one there.             *)
LEMMA LastSubmitted ==
  ASSUME TypeOK, NEW t \in Runners, Fresh(t), NEW p \in Openers,
         Written(Cmd(t)) \/ UNCHANGED <<stdin, stdout, fg>>
  PROVE  IsLast(t, p)'
<1>1. /\ fg[p] # t /\ Absent(Cmd(t), stdin[p]) /\ Absent(Begin(t), stdout[p])
  BY Tokens DEF Fresh, Lacks, Absent
<1>2. stdout' = stdout /\ fg' = fg
  BY DEF Written
<1>3. \/ stdin'[p] = stdin[p]
      \/ Added(stdin'[p], stdin[p], Cmd(t))
  BY WrittenAdds, LineType
<1>4. ASSUME NEW i \in 1 .. Len(stdin'[p]), stdin'[p][i] = Cmd(t), NEW j \in 1 .. Len(stdin'[p]), j > i
      PROVE  FALSE
  <2>1. Added(stdin'[p], stdin[p], Cmd(t)) /\ i = Len(stdin[p]) + 1
    BY <1>1, <1>3, <1>4, AddedElements DEF Absent
  <2> QED BY <1>4, <2>1 DEF Added
<1> QED BY <1>1, <1>2, <1>4 DEF IsLast, Clean, NoCommands, Absent, Cmd, Begin

(* Who installs and who uninstalls a command.                              *)
LEMMA InstallSteps ==
  ASSUME [Next]_vars
  PROVE  \/ cmdFut' \in {cmdFut, None}
         \/ /\ cmdFut = None
            /\ \E t \in Runners : /\ Submit(t) \/ SubmitRaises(t)
                                  /\ cmdFut' = t
<1> USE DEF command, tasks, OnlyGoto
<1>1. CASE \E u \in Runners : RunShellCommand(u)
  BY <1>1 DEF RunShellCommand, RunRefused, RunQueue, RunRejected, Submit, SubmitRaises, Install, Busy,
     CommandActive, RunWake, ResetCommandState
<1>2. CASE \E u \in Probers : GetShellCwd(u)
  BY <1>2 DEF GetShellCwd, ProbeRefused, ProbeQueue, ProbeRejected, ProbeSubmit, ProbeSubmitRaises,
     InstallProbe, ProbeWake
<1>3. CASE \E o \in Openers : OpenShell(o)
  BY <1>3 DEF OpenShell, OpenRefused, OpenStart, OpenFinish, OpenWriteRaises, OpenFail
<1>4. CASE \E c \in Closers : CloseShell(c)
  BY <1>4 DEF CloseShell, CloseRefused, CloseStart, CloseJoinRaises, CloseExit, CloseExitRaises,
     CloseNoProcess, CloseFinish, ReaderJoined, ResetCommandState
<1>5. CASE Interrupt \/ SendToShell \/ UNCHANGED vars
  BY <1>5 DEF Interrupt, SendToShell, vars, ResetCommandState
<1>6. CASE \E r \in Openers : RemoteShell(r)
  BY <1>6 DEF RemoteShell, RemoteBegins, RemotePrints, RemoteEnds, RemoteAnswers, RemoteConsumes,
     RemoteInterrupted, RemoteExits, RemoteDies, RemoteUnchanged
<1>7. CASE \E r \in Openers : ReadShellLoop(r)
  BY <1>7 DEF ReadShellLoop, ReaderTurn, ReadTimeout, ReadEof, ReaderCancelled, EmitReturns, ReadChunk,
     ReadForProbe, ReadUnsolicited, ReadBeforeBegin, ReadOutput, ReadEnd, ReadForCommand, Chunk, OnlyReader
<1> QED BY <1>1, <1>2, <1>3, <1>4, <1>5, <1>6, <1>7 DEF Next

LEMMA SubmitChannel ==
  ASSUME TypeOK, NEW t \in Runners, Submit(t) \/ SubmitRaises(t)
  PROVE  Written(Cmd(t)) \/ UNCHANGED <<stdin, stdout, fg, printed>>
BY DEF Submit, SubmitRaises, Install, Written, Writable, TypeOK, Ref

LEMMA InstalledIsLastNext ==
  ASSUME TypeOK, Served, Once, NewIsFresh, InstalledIsLast, [Next]_vars
  PROVE  InstalledIsLast'
<1> SUFFICES ASSUME cmdFut' # None
             PROVE  \A p \in Openers : IsLast(cmdFut, p)'
  BY DEF InstalledIsLast, IsLast, Clean, NoCommands, Cmd, Begin
<1>1. CASE cmdFut' = cmdFut
  <2>1. cmdFut \in Runners
    BY <1>1 DEF TypeOK, Ref
  <2>2. PICK t \in Runners : t = cmdFut
    BY <2>1
  <2>3. \A p \in Openers : IsLast(t, p)
    BY <1>1, <2>2 DEF InstalledIsLast
  <2>4. Taken => \A p \in Openers : IsLast(t, p)'
    BY <2>3, LastTaken DEF Taken
  <2>5. ASSUME NEW q \in Openers, PrintedBy(q) PROVE \A p \in Openers : IsLast(t, p)'
    BY <2>3, <2>5, LastPrinted
  <2>6. ASSUME Next, ~(\E r \in Openers : ReadShellLoop(r) \/ RemoteShell(r))
        PROVE  \A p \in Openers : IsLast(t, p)'
    <3>1. \A u \in Runners : ~Submit(u)
      BY <1>1 DEF Submit, Install, Busy, CommandActive
    <3>2. Taken \/ \E line \in Line : Written(line) /\ line.kind # "cmd"
      BY <2>6, <3>1, ChannelOfCalls
    <3> QED BY <2>3, <2>4, <3>2, LastWritten
  <2>7. UNCHANGED vars => Taken
    BY TakenSame DEF vars, remote
  <2>8. \A p \in Openers : IsLast(t, p)'
    BY <2>4, <2>5, <2>6, <2>7, ChannelOfReader, ChannelOfRemote
  <2> QED BY <1>1, <2>2, <2>8 DEF IsLast, Clean, NoCommands, Cmd, Begin
<1>2. CASE cmdFut' # cmdFut
  <2>1. PICK t \in Runners : (Submit(t) \/ SubmitRaises(t)) /\ cmdFut' = t
    BY <1>2, InstallSteps
  <2>2. Fresh(t) /\ (Written(Cmd(t)) \/ UNCHANGED <<stdin, stdout, fg>>)
    BY <2>1, SubmitsNew, SubmitChannel
  <2>3. \A p \in Openers : IsLast(t, p)'
    BY <2>2, LastSubmitted
  <2> QED BY <2>1, <2>3 DEF IsLast, Clean, NoCommands, Cmd, Begin
<1> QED BY <1>1, <1>2

-----------------------------------------------------------------------------
(* Once its BEGIN marker was read, the buffer and the channel hold only    *)
(* the installed command's output.  While the reader awaits the callback,  *)
(* the buffer is the one it will write back.                               *)

OnlyOf(s, t) == \A i \in 1 .. Len(s) : s[i].kind = "out" => s[i].of = t
Streams(r) == Runs(r, {"emit"}) /\ reader[r].end = None
Kept == IF readerTask # None /\ Streams(readerTask) THEN reader[readerTask].buf ELSE cmdBuf
OwnChannel(t, p) == Clean(p, t) /\ OnlyOf(stdout[p], t)
BufferIsOwn ==
  /\ started => /\ cmdFut # None /\ interactive
                /\ OnlyOf(Kept, cmdFut) /\ Absent(End(cmdFut), Kept)
                /\ OwnChannel(cmdFut, readerTask)
  /\ cmdFut # None /\ ~started => Absent(Begin(cmdFut), Kept)

LEMMA OnlyOfCut ==
  ASSUME NEW new, NEW old, NEW t, Len(old) \in Nat, CutOf(new, old), OnlyOf(old, t)
  PROVE  OnlyOf(new, t)
<1> SUFFICES ASSUME NEW i \in 1 .. Len(new), new[i].kind = "out" PROVE new[i].of = t
  BY DEF OnlyOf
<1>1. PICK k : Was(new, old, i, k)
  BY CutOrder
<1> QED BY <1>1 DEF OnlyOf, Was

LEMMA OnlyOfAdded ==
  ASSUME NEW new, NEW old, NEW x, NEW t, Added(new, old, x), OnlyOf(old, t), x.kind = "out" => x.of = t
  PROVE  OnlyOf(new, t)
BY AddedElements DEF OnlyOf

LEMMA OwnChannelTaken ==
  ASSUME TypeOK, NEW t \in Runners, NEW p \in Openers, OwnChannel(t, p), Taken
  PROVE  OwnChannel(t, p)'
<1>1. Len(stdin[p]) \in Nat /\ Len(stdout[p]) \in Nat
  BY ChannelTypes
<1>2. NoCommands(stdin'[p]) /\ OnlyOf(stdout'[p], t) /\ fg'[p] \in {t, None}
  BY <1>1, NoCommandsCut, OnlyOfCut DEF Taken, OwnChannel, Clean
<1> QED BY <1>2 DEF OwnChannel, Clean, NoCommands, OnlyOf

LEMMA OwnChannelWritten ==
  ASSUME TypeOK, NEW t \in Runners, NEW p \in Openers, OwnChannel(t, p),
         NEW line \in Line, Written(line), line.kind # "cmd"
  PROVE  OwnChannel(t, p)'
<1>1. stdout' = stdout /\ fg' = fg
      /\ (stdin'[p] = stdin[p] \/ Added(stdin'[p], stdin[p], line))
  BY WrittenAdds DEF Written
<1>2. NoCommands(stdin'[p])
  BY <1>1, AddedElements DEF OwnChannel, Clean, NoCommands
<1> QED BY <1>1, <1>2 DEF OwnChannel, Clean, NoCommands, OnlyOf

LEMMA OwnChannelPrinted ==
  ASSUME TypeOK, NEW t \in Runners, NEW p \in Openers, OwnChannel(t, p),
         NEW q \in Openers, PrintedBy(q)
  PROVE  OwnChannel(t, p)'
<1>0. /\ Len(stdin[p]) \in Nat /\ Len(stdout[p]) \in Nat /\ None \notin Runners
      /\ fg \in [Openers -> Ref(Runners)]
  BY ChannelTypes, TasksAssumption DEF Tasks
<1>1. CASE p # q
  <2>1. stdin'[p] = stdin[p] /\ stdout'[p] = stdout[p] /\ fg'[p] = fg[p]
    BY <1>1, ChannelTypes DEF PrintedBy, RemoteBegins, RemotePrints, RemoteEnds, RemoteAnswers, Prints, NextLine
  <2> QED BY <2>1 DEF OwnChannel, Clean, NoCommands, OnlyOf
<1>2. CASE p = q
  <2>1. \A u \in Runners : ~RemoteBegins(p, u)
    BY TakesLine, Tokens DEF RemoteBegins, OwnChannel, Clean, NoCommands
  <2>2. CutOf(stdin'[p], stdin[p])
    BY <1>2, ChannelTypes, CutOfSame, CutOfTail
    DEF PrintedBy, RemoteBegins, RemotePrints, RemoteEnds, RemoteAnswers, NextLine
  <2>3. NoCommands(stdin'[p])
    BY <1>0, <2>2, NoCommandsCut DEF OwnChannel, Clean
  <2>4. ASSUME NEW tok \in Token, Prints(p, tok), tok.kind = "out" => tok.of = t, fg'[p] \in {t, None}
        PROVE  OwnChannel(t, p)'
    <3>1. OnlyOf(stdout'[p], t)
      BY <2>4, PrintsAdds, OnlyOfAdded DEF OwnChannel
    <3> QED BY <2>3, <2>4, <3>1 DEF OwnChannel, Clean, NoCommands, OnlyOf
  <2>5. ASSUME NEW u \in Runners, RemotePrints(p, u) PROVE OwnChannel(t, p)'
    <3>1. /\ printed[u] + 1 \in Nat /\ fg[p] = u /\ u = t /\ fg' = fg
          /\ Prints(p, Out(u, printed[u] + 1))
      BY <1>0, <2>5, ChannelTypes DEF RemotePrints, OwnChannel, Clean
    <3>2. Out(u, printed[u] + 1) \in Token /\ Out(u, printed[u] + 1).of = u
      BY <3>1, Tokens, TokenType
    <3> QED BY <2>4, <3>1, <3>2
  <2>6. ASSUME NEW u \in Runners, RemoteEnds(p, u) PROVE OwnChannel(t, p)'
    <3>1. fg'[p] = None /\ Prints(p, End(u)) /\ End(u) \in Token /\ End(u).kind = "end"
      BY <1>0, <2>6, Tokens, TokenType DEF RemoteEnds
    <3> QED BY <2>4, <3>1
  <2>7. ASSUME NEW u \in Probers, RemoteAnswers(p, u) PROVE OwnChannel(t, p)'
    <3>1. fg' = fg /\ Prints(p, Pwd(u)) /\ Pwd(u) \in Token /\ Pwd(u).kind = "pwd"
      BY <2>7, Tokens, TokenType DEF RemoteAnswers
    <3> QED BY <2>4, <3>1 DEF OwnChannel, Clean
  <2> QED BY <1>2, <2>1, <2>5, <2>6, <2>7 DEF PrintedBy
<1> QED BY <1>1, <1>2

LEMMA KeptQuiet ==
  ASSUME TypeOK, Served, ~interactive
  PROVE  Kept = cmdBuf
<1>1. readerTask # None => readerTask \in Openers
  BY DEF TypeOK, Ref
<1>2. ~(readerTask # None /\ Streams(readerTask))
  BY <1>1 DEF Served, ReaderIsCurrent, Streams, Runs, Live
<1> QED BY <1>2 DEF Kept

(* A step that leaves the command and its buffers alone.                   *)
LEMMA BufferSame ==
  ASSUME BufferIsOwn, UNCHANGED <<started, cmdFut>>, Kept' = Kept,
         started => /\ interactive' /\ readerTask' = readerTask
                    /\ (OwnChannel(cmdFut, readerTask) => OwnChannel(cmdFut, readerTask)')
  PROVE  BufferIsOwn'
BY DEF BufferIsOwn, OnlyOf, Absent, End, Begin, OwnChannel, Clean, NoCommands

LEMMA KeptSame ==
  ASSUME UNCHANGED <<readerTask, cancelled, reader, cmdBuf>>
  PROVE  Kept' = Kept
BY DEF Kept, Streams, Runs

(* A step in which nobody reads.                                           *)
LEMMA BufferOfCalls ==
  ASSUME ~Overlap, TypeOK, Served, Served', Once, NewIsFresh, BufferIsOwn, Next,
         ~(\E r \in Openers : ReadShellLoop(r) \/ RemoteShell(r))
  PROVE  BufferIsOwn'
<1> USE DEF session, command, tasks, joining, OnlyGoto
<1>1. CASE \E t \in Runners : Submit(t) \/ SubmitRaises(t)
  <2>1. PICK t \in Runners : Submit(t) \/ SubmitRaises(t)
    BY <1>1
  <2>2. /\ cmdFut' = t /\ cmdBuf' = <<>> /\ started' = FALSE /\ reader' = reader
        /\ readerTask' = readerTask
    BY <2>1 DEF Submit, SubmitRaises, Install
  <2>3. Fresh(t) /\ readerTask \in Openers \cup {None}
    BY <2>1, SubmitsNew DEF TypeOK, Ref
  <2>4. \A p \in Openers : Absent(Begin(t), reader[p].buf)
    BY <2>3, Tokens DEF Fresh, Lacks, Absent
  <2>5. Absent(Begin(t), <<>>)
    BY EmptySeq DEF Absent
  <2>6. Absent(Begin(t), Kept')
    BY <2>2, <2>3, <2>4, <2>5 DEF Kept
  <2> QED BY <2>2, <2>6 DEF BufferIsOwn, Absent, Begin
<1>2. CASE cmdFut' = None /\ started' = FALSE
  BY <1>2 DEF BufferIsOwn
<1>3. CASE UNCHANGED <<started, cmdFut>> /\ Kept' = Kept /\ (started => UNCHANGED <<interactive, readerTask>>)
           /\ ~(\E t \in Runners : Submit(t))
  <2>1. started => cmdFut \in Runners /\ readerTask \in Openers /\ interactive
    BY DEF BufferIsOwn, TypeOK, Ref, Served, ShellIsServed
  <2>2. Taken \/ \E line \in Line : Written(line) /\ line.kind # "cmd"
    BY <1>3, ChannelOfCalls
  <2>3. started /\ OwnChannel(cmdFut, readerTask) => OwnChannel(cmdFut, readerTask)'
    <3> SUFFICES ASSUME started, OwnChannel(cmdFut, readerTask) PROVE OwnChannel(cmdFut, readerTask)'
      OBVIOUS
    <3>1. PICK t \in Runners, p \in Openers : t = cmdFut /\ p = readerTask
      BY <2>1
    <3>2. OwnChannel(t, p)'
      BY <2>2, <3>1, OwnChannelTaken, OwnChannelWritten
    <3> QED BY <1>3, <3>1, <3>2 DEF OwnChannel, Clean, NoCommands, OnlyOf
  <2> QED BY <1>3, <2>1, <2>3, BufferSame
<1>4. ASSUME NEW o \in Openers, OpenShell(o), ~(\E t \in Runners : Submit(t)) PROVE BufferIsOwn'
  <2>1. CASE OpenFinish(o)
    <3>1. /\ readerTask' = o /\ reader'[o] = Idle("start") /\ UNCHANGED <<cmdBuf, started, cmdFut>>
      BY <2>1 DEF OpenFinish, SetReader, Stored, TypeOK
    <3>2. Kept' = cmdBuf
      BY <3>1 DEF Kept, Streams, Runs, Idle
    <3>3. ~interactive
      BY <2>1 DEF OpenFinish, Served, OpenersWait
    <3> QED BY <1>3, <1>4, <3>1, <3>2, <3>3, KeptQuiet DEF BufferIsOwn
  <2>2. CASE ~OpenFinish(o)
    BY <1>3, <1>4, <2>2, KeptSame DEF OpenShell, OpenRefused, OpenStart, OpenWriteRaises, OpenFail
  <2> QED BY <2>1, <2>2
<1>5. ASSUME NEW c \in Closers, CloseShell(c), ~(\E t \in Runners : Submit(t)) PROVE BufferIsOwn'
  <2>1. CASE CloseStart(c)
    BY <1>2, <2>1 DEF CloseStart, ResetCommandState
  <2>2. CASE ReaderJoined(c)
    <3>1. UNCHANGED <<interactive, cmdBuf, started, cmdFut>> /\ ~interactive
      BY <2>2 DEF ReaderJoined, Served, ClosersWait
    <3>2. Kept = cmdBuf /\ readerTask' = None
      BY <2>2, <3>1, KeptQuiet DEF ReaderJoined, Served, ClosersWait
    <3>3. Kept' = cmdBuf'
      BY <3>2 DEF Kept
    <3> QED BY <1>3, <1>5, <3>1, <3>2, <3>3 DEF BufferIsOwn
  <2>3. CASE CloseRefused(c) \/ CloseJoinRaises(c) \/ CloseFinish(c)
    BY <1>3, <1>5, <2>3, KeptSame DEF CloseRefused, CloseJoinRaises, CloseFinish
  <2> QED BY <1>5, <2>1, <2>2, <2>3 DEF CloseShell, CloseExit, CloseExitRaises, CloseNoProcess
<1>6. ASSUME NEW u \in Runners, RunShellCommand(u), ~(\E t \in Runners : Submit(t) \/ SubmitRaises(t))
      PROVE  BufferIsOwn'
  BY <1>2, <1>3, <1>6, KeptSame DEF RunShellCommand, RunRefused, RunQueue, RunRejected, RunWake, ResetCommandState
<1>7. ASSUME NEW q \in Probers, GetShellCwd(q), ~(\E t \in Runners : Submit(t)) PROVE BufferIsOwn'
  BY <1>3, <1>7, KeptSame DEF GetShellCwd, ProbeRefused, ProbeQueue, ProbeRejected, ProbeSubmit,
     ProbeSubmitRaises, InstallProbe, ProbeWake
<1>8. CASE Interrupt
  BY <1>2, <1>8 DEF Interrupt, ResetCommandState
<1>9. ASSUME SendToShell, ~(\E t \in Runners : Submit(t)) PROVE BufferIsOwn'
  BY <1>3, <1>9, KeptSame DEF SendToShell
<1> QED BY <1>1, <1>4, <1>5, <1>6, <1>7, <1>8, <1>9 DEF Next

LEMMA BufferOfRemote ==
  ASSUME TypeOK, Served, BufferIsOwn, NEW q \in Openers, RemoteShell(q)
  PROVE  BufferIsOwn'
<1>1. UNCHANGED <<session, command, reader, joining>>
  BY DEF RemoteShell, RemoteBegins, RemotePrints, RemoteEnds, RemoteAnswers, RemoteConsumes,
         RemoteInterrupted, RemoteExits, RemoteDies, RemoteUnchanged
<1>2. Kept' = Kept
  BY <1>1, KeptSame DEF session, command, joining
<1>3. ASSUME started, OwnChannel(cmdFut, readerTask) PROVE OwnChannel(cmdFut, readerTask)'
  <2>1. cmdFut \in Runners /\ readerTask \in Openers
    BY <1>3 DEF BufferIsOwn, TypeOK, Ref, Served, ShellIsServed
  <2>2. PICK t \in Runners, p \in Openers : t = cmdFut /\ p = readerTask
    BY <2>1
  <2>3. OwnChannel(t, p)'
    BY <1>3, <2>2, ChannelOfRemote, OwnChannelTaken, OwnChannelPrinted
  <2> QED BY <1>1, <2>2, <2>3 DEF session, command, OwnChannel, Clean, NoCommands, OnlyOf
<1>4. started => interactive
  BY DEF BufferIsOwn
<1> QED BY <1>1, <1>2, <1>3, <1>4, BufferSame DEF session, command

(* The reader that runs reads for the buffer it keeps.                     *)
LEMMA KeptByReader ==
  ASSUME TypeOK, Served, NEW r \in Openers, Live(r), r \notin cancelled,
         UNCHANGED <<readerTask, cancelled>>
  PROVE  /\ r = readerTask /\ interactive
         /\ ~Streams(r) => Kept = cmdBuf
         /\ Streams(r) => Kept = reader[r].buf
         /\ \A state : reader' = [reader EXCEPT ![r] = state] =>
              /\ state.pc # "emit" \/ state.end # None => Kept' = cmdBuf'
              /\ state.pc = "emit" /\ state.end = None => Kept' = state.buf
<1>1. r = readerTask /\ interactive /\ r # None /\ reader \in [Openers -> ReaderState]
  BY RunningReader, TasksAssumption DEF TypeOK, Tasks
<1> QED BY <1>1 DEF Kept, Streams, Runs

(* Where the elements behind the BEGIN marker come from.                   *)
BehindAt(r, n, norm, i) ==
  /\ i \in 0 .. Len(cmdBuf) + n
  /\ norm \in Seq(Token) /\ Len(norm) = Len(cmdBuf) + n - i
  /\ started => i = 0
  /\ ~started => i # 0 /\ Joined(r, n)[i] = Begin(cmdFut)
  /\ \A l \in 1 .. Len(norm) : norm[l] = Joined(r, n)[i + l]

LEMMA BehindElements ==
  ASSUME TypeOK, NEW r \in Openers, NEW n \in 1 .. Len(stdout[r]), NEW norm, Behind(r, n, norm)
  PROVE  \E i : BehindAt(r, n, norm, i)
<1>1. Joined(r, n) \in Seq(Token) /\ Len(Joined(r, n)) = Len(cmdBuf) + n /\ Len(cmdBuf) \in Nat
  BY JoinedElements
<1>2. PICK i \in 0 .. Len(Joined(r, n)) :
        /\ norm = From(Joined(r, n), i + 1)
        /\ started => i = 0
        /\ ~started => i \in 1 .. Len(Joined(r, n)) /\ Joined(r, n)[i] = Begin(cmdFut)
  BY DEF Behind
<1>3. /\ Len(norm) = Len(Joined(r, n)) - i
      /\ \A l \in 1 .. Len(Joined(r, n)) - i : norm[l] = Joined(r, n)[l + i]
  BY <1>1, <1>2, CutFrom
<1>4. norm \in Seq(Token)
  BY <1>1, <1>2, CutType
<1>5. \A l \in 1 .. Len(norm) : norm[l] = Joined(r, n)[i + l]
  BY <1>1, <1>3
<1>6. BehindAt(r, n, norm, i)
  BY <1>1, <1>2, <1>3, <1>4, <1>5 DEF BehindAt
<1> QED BY <1>6

(* An element of the joined buffer that lies in the chunk.                 *)
LEMMA JoinedInChunk ==
  ASSUME TypeOK, NEW r \in Openers, NEW n \in 1 .. Len(stdout[r]),
         NEW i \in 1 .. Len(cmdBuf) + n, i > Len(cmdBuf)
  PROVE  /\ i - Len(cmdBuf) \in 1 .. n /\ i - Len(cmdBuf) \in 1 .. Len(stdout[r])
         /\ Joined(r, n)[i] = stdout[r][i - Len(cmdBuf)]
<1>1. Len(stdout[r]) \in Nat /\ Len(cmdBuf) \in Nat
  BY ChannelTypes, JoinedElements
<1>2. i - Len(cmdBuf) \in 1 .. n /\ i - Len(cmdBuf) \in 1 .. Len(stdout[r]) /\ Len(cmdBuf) + (i - Len(cmdBuf)) = i
  BY <1>1
<1> QED BY <1>2, JoinedElements

(* What follows the BEGIN marker is the installed command's, and an END    *)
(* marker of it lies in the chunk.                                         *)
LEMMA ChunkIsOwn ==
  ASSUME TypeOK, BufferIsOwn, InstalledIsLast, NEW t \in Runners, cmdFut = t, Kept = cmdBuf,
         NEW r \in Openers, r = readerTask,
         NEW n \in 1 .. Len(stdout[r]), NEW norm, Behind(r, n, norm)
  PROVE  /\ norm \in Seq(Token) /\ OnlyOf(norm, t) /\ Clean(r, t)
         /\ \A l \in n + 1 .. Len(stdout[r]) : stdout[r][l].kind = "out" => stdout[r][l].of = t
         /\ \A k \in 1 .. Len(norm) : norm[k] = End(t) =>
              \E j \in 1 .. n : /\ stdout[r][j] = End(t)
                                /\ \A l \in 1 .. Len(norm) : l > k =>
                                     \E m \in 1 .. n : m > j /\ norm[l] = stdout[r][m]
<1>0. PICK i : BehindAt(r, n, norm, i)
  BY BehindElements
<1>1. /\ i \in 0 .. Len(cmdBuf) + n
      /\ norm \in Seq(Token) /\ Len(norm) = Len(cmdBuf) + n - i
      /\ started => i = 0
      /\ ~started => i # 0 /\ Joined(r, n)[i] = Begin(t)
      /\ \A l \in 1 .. Len(norm) : norm[l] = Joined(r, n)[i + l]
  BY <1>0 DEF BehindAt
<1>2. /\ Len(cmdBuf) \in Nat /\ Len(stdout[r]) \in Nat /\ started \in BOOLEAN
      /\ None \notin Runners
      /\ \A l \in 1 .. Len(cmdBuf) : Joined(r, n)[l] = cmdBuf[l]
  BY JoinedElements, ChannelTypes, TasksAssumption DEF TypeOK, Tasks
<1>3. i \in Nat
  BY <1>1, <1>2
<1>4. started => /\ OnlyOf(cmdBuf, t) /\ Absent(End(t), cmdBuf) /\ Clean(r, t) /\ OnlyOf(stdout[r], t)
  BY DEF BufferIsOwn, OwnChannel
<1>5. ASSUME ~started
      PROVE  /\ i > Len(cmdBuf) /\ Clean(r, t)
             /\ \A l \in 1 .. Len(stdout[r]) :
                  l > i - Len(cmdBuf) /\ stdout[r][l].kind = "out" => stdout[r][l].of = t
  <2>1. i \in 1 .. Len(cmdBuf) + n /\ Joined(r, n)[i] = Begin(t)
    BY <1>1, <1>2, <1>5
  <2>2. Absent(Begin(t), cmdBuf)
    BY <1>2, <1>5 DEF BufferIsOwn
  <2>3. i > Len(cmdBuf)
    BY <1>2, <2>1, <2>2 DEF Absent
  <2>4. i - Len(cmdBuf) \in 1 .. Len(stdout[r]) /\ stdout[r][i - Len(cmdBuf)] = Begin(t)
    BY <2>1, <2>3, JoinedInChunk
  <2>5. IsLast(t, r)
    BY <1>2 DEF InstalledIsLast
  <2> QED BY <2>3, <2>4, <2>5 DEF IsLast
<1>6. Clean(r, t)
  BY <1>2, <1>4, <1>5
<1>7. ASSUME NEW l \in n + 1 .. Len(stdout[r]), stdout[r][l].kind = "out" PROVE stdout[r][l].of = t
  <2>1. l \in 1 .. Len(stdout[r]) /\ (~started => l > i - Len(cmdBuf))
    BY <1>1, <1>2
  <2> QED BY <1>2, <1>4, <1>5, <1>7, <2>1 DEF OnlyOf
<1>8. ASSUME NEW l \in 1 .. Len(norm), norm[l].kind = "out" PROVE norm[l].of = t
  <2>1. i + l \in 1 .. Len(cmdBuf) + n /\ norm[l] = Joined(r, n)[i + l]
    BY <1>1, <1>2
  <2>2. CASE i + l <= Len(cmdBuf)
    <3>1. started /\ i + l \in 1 .. Len(cmdBuf)
      BY <1>1, <1>2, <1>5, <2>1, <2>2
    <3> QED BY <1>2, <1>4, <1>8, <2>1, <3>1 DEF OnlyOf
  <2>3. CASE i + l > Len(cmdBuf)
    <3>1. /\ (i + l) - Len(cmdBuf) \in 1 .. Len(stdout[r])
          /\ norm[l] = stdout[r][(i + l) - Len(cmdBuf)]
      BY <2>1, <2>3, JoinedInChunk
    <3>2. (i + l) - Len(cmdBuf) > i - Len(cmdBuf)
      BY <1>3, <1>2
    <3> QED BY <1>2, <1>4, <1>5, <1>8, <3>1, <3>2 DEF OnlyOf
  <2> QED BY <1>2, <2>1, <2>2, <2>3
<1>9. ASSUME NEW k \in 1 .. Len(norm), norm[k] = End(t)
      PROVE  \E j \in 1 .. n : /\ stdout[r][j] = End(t)
                               /\ \A l \in 1 .. Len(norm) : l > k =>
                                    \E m \in 1 .. n : m > j /\ norm[l] = stdout[r][m]
  <2>1. i + k \in 1 .. Len(cmdBuf) + n /\ norm[k] = Joined(r, n)[i + k]
    BY <1>1, <1>2
  <2>2. i + k > Len(cmdBuf)
    <3>1. CASE started
      <4>1. ~(i + k \in 1 .. Len(cmdBuf))
        BY <1>2, <1>4, <1>9, <2>1, <3>1 DEF Absent
      <4> QED BY <1>2, <2>1, <4>1
    <3>2. CASE ~started
      BY <1>3, <1>2, <1>5, <3>2
    <3> QED BY <1>2, <3>1, <3>2
  <2>3. (i + k) - Len(cmdBuf) \in 1 .. n /\ stdout[r][(i + k) - Len(cmdBuf)] = End(t)
    BY <1>9, <2>1, <2>2, JoinedInChunk
  <2>4. ASSUME NEW l \in 1 .. Len(norm), l > k
        PROVE  \E m \in 1 .. n : m > (i + k) - Len(cmdBuf) /\ norm[l] = stdout[r][m]
    <3>1. i + l \in 1 .. Len(cmdBuf) + n /\ norm[l] = Joined(r, n)[i + l] /\ i + l > Len(cmdBuf)
      BY <1>1, <1>2, <2>2, <2>4
    <3>2. (i + l) - Len(cmdBuf) \in 1 .. n /\ norm[l] = stdout[r][(i + l) - Len(cmdBuf)]
      BY <3>1, JoinedInChunk
    <3>3. (i + l) - Len(cmdBuf) > (i + k) - Len(cmdBuf)
      BY <1>3, <1>2, <2>4
    <3> QED BY <3>2, <3>3
  <2> QED BY <2>3, <2>4
<1> QED BY <1>1, <1>6, <1>7, <1>8, <1>9 DEF OnlyOf

(* Nothing more can come of a command that has ended.                      *)
Gone(t) == \A p \in Openers : fg[p] # t /\ Absent(Cmd(t), stdin[p]) /\ Absent(End(t), stdout[p])

LEMMA EndIsLast ==
  ASSUME TypeOK, Once, NEW t \in Runners, NEW r \in Openers, NEW n, Chunked(r, n),
         NEW j \in 1 .. n, stdout[r][j] = End(t)
  PROVE  /\ \A m \in 1 .. n : m > j => stdout[r][m].of # t
         /\ Gone(t)'
<1>1. /\ n \in 1 .. Len(stdout[r]) /\ stdout[r] \in Seq(Token) /\ Len(stdout[r]) \in Nat
      /\ stdout' = [stdout EXCEPT ![r] = From(@, n + 1)] /\ stdout \in [Openers -> Seq(Token)]
      /\ fg' = fg /\ stdin' = stdin
  BY ChannelTypes DEF Chunked
<1>2. j \in 1 .. Len(stdout[r])
  BY <1>1
<1>3. /\ \A l \in 1 .. Len(stdout[r]) : l > j => stdout[r][l].of # t
      /\ \A q \in Openers : q # r => Absent(End(t), stdout[q])
  BY <1>2 DEF Once, EndsOnce
<1>4. ~Absent(End(t), stdout[r])
  BY <1>2 DEF Absent
<1>5. \A p \in Openers : fg[p] # t /\ Absent(Cmd(t), stdin[p])
  BY <1>4 DEF Once, RunsOnce, SentOnce, Absent
<1>6. Absent(End(t), stdout'[r])
  <2> SUFFICES ASSUME NEW l \in 1 .. Len(From(stdout[r], n + 1)) PROVE From(stdout[r], n + 1)[l] # End(t)
    BY <1>1 DEF Absent, End
  <2>0. n \in 0 .. Len(stdout[r])
    BY <1>1
  <2>1. /\ Len(From(stdout[r], n + 1)) = Len(stdout[r]) - n
        /\ \A i \in 1 .. Len(stdout[r]) - n : From(stdout[r], n + 1)[i] = stdout[r][i + n]
    BY <1>1, <2>0, CutFrom
  <2>2. From(stdout[r], n + 1)[l] = stdout[r][l + n] /\ l + n \in 1 .. Len(stdout[r]) /\ l + n > j
    BY <1>1, <2>1
  <2> QED BY <1>3, <2>2, Tokens
<1>7. \A p \in Openers : Absent(End(t), stdout'[p])
  BY <1>1, <1>3, <1>6
<1> QED BY <1>1, <1>3, <1>5, <1>7 DEF Gone, Absent, Cmd, End

LEMMA BufferOfReader ==
  ASSUME TypeOK, Served, Once, InstalledIsLast, BufferIsOwn, NEW r \in Openers, ReadShellLoop(r)
  PROVE  BufferIsOwn'
<1> USE DEF session, command, joining, OnlyReader
<1>1. Live(r) /\ UNCHANGED <<interactive, readerTask, cancelled>> /\ cmdFut' = cmdFut
  BY ReaderStep, ReaderResolves
<1>2. Taken
  BY ChannelOfReader
<1>3. ASSUME UNCHANGED started, Kept' = Kept PROVE BufferIsOwn'
  <2>1. ASSUME started, OwnChannel(cmdFut, readerTask) PROVE OwnChannel(cmdFut, readerTask)'
    <3>1. cmdFut \in Runners /\ readerTask \in Openers
      BY <2>1 DEF BufferIsOwn, TypeOK, Ref, Served, ShellIsServed
    <3>2. PICK t \in Runners, p \in Openers : t = cmdFut /\ p = readerTask
      BY <3>1
    <3>3. OwnChannel(t, p)'
      BY <1>2, <2>1, <3>2, OwnChannelTaken
    <3> QED BY <1>1, <3>2, <3>3 DEF OwnChannel, Clean, NoCommands, OnlyOf
  <2>2. started => interactive
    BY DEF BufferIsOwn
  <2> QED BY <1>1, <1>3, <2>1, <2>2, BufferSame
<1>4. CASE r \in cancelled
  <2>1. ReaderCancelled(r) /\ r = readerTask /\ ~interactive
    BY <1>1, <1>4 DEF ReadShellLoop, ReaderTurn, ReadTimeout, ReadEof, EmitReturns, Runs, ReadChunk,
       ReadForProbe, ReadUnsolicited, ReadBeforeBegin, ReadOutput, ReadEnd, ReadForCommand, Chunk,
       Served, ReaderIsCurrent, ShellIsServed
  <2>2. UNCHANGED <<cmdBuf, started>>
    BY <2>1 DEF ReaderCancelled
  <2>3. Kept' = Kept
    BY <1>1, <1>4, <2>1, <2>2 DEF Kept, Streams, Runs
  <2> QED BY <1>3, <2>2, <2>3
<1>5. CASE r \notin cancelled
  <2>1. /\ r = readerTask /\ interactive
        /\ ~Streams(r) => Kept = cmdBuf
        /\ Streams(r) => Kept = reader[r].buf
    BY <1>1, <1>5, KeptByReader
  <2>2. ASSUME NEW state, reader' = [reader EXCEPT ![r] = state], state.pc # "emit" \/ state.end # None
        PROVE  Kept' = cmdBuf'
    BY <1>1, <1>5, <2>2, KeptByReader
  <2>3. ASSUME NEW state, reader' = [reader EXCEPT ![r] = state], state.pc = "emit", state.end = None
        PROVE  Kept' = state.buf
    BY <1>1, <1>5, <2>3, KeptByReader
  <2>4. CASE ReaderTurn(r) \/ ReadTimeout(r) \/ ReadEof(r)
    <3>1. UNCHANGED <<cmdBuf, started>> /\ ~Streams(r)
      BY <2>4 DEF ReaderTurn, ReadTimeout, ReadEof, Streams, Runs
    <3>2. \E state : reader' = [reader EXCEPT ![r] = state] /\ state.pc # "emit"
      <4>1. Reading(process).pc # "emit" /\ \A w \in {"ended", "failed", "loop"} : Idle(w).pc # "emit"
        BY DEF Reading, Idle
      <4>2. \/ SetReader(r, Reading(process))
            \/ \E w \in {"ended", "failed", "loop"} : SetReader(r, Idle(w))
        BY <2>4 DEF ReaderTurn, ReadTimeout, ReadEof, BackToLoop
      <4> QED BY <4>1, <4>2 DEF SetReader
    <3>3. Kept' = cmdBuf'
      BY <2>2, <3>2
    <3> QED BY <1>3, <2>1, <3>1, <3>3
  <2>5. Idle("loop").pc # "emit"
    BY DEF Idle
  <2>6. LoopsOn(r) => Kept' = cmdBuf'
    BY <2>2, <2>5 DEF LoopsOn
  <2>7. CASE EmitReturns(r)
    <3>1. LoopsOn(r) /\ UNCHANGED started
      BY <2>7 DEF EmitReturns, BackToLoop, SetReader, LoopsOn
    <3>2. IF reader[r].end = None THEN cmdBuf' = reader[r].buf ELSE cmdBuf' = cmdBuf
      BY <2>7 DEF EmitReturns
    <3>3. Streams(r) <=> reader[r].end = None
      BY <2>7 DEF EmitReturns, Streams
    <3> QED BY <1>3, <2>1, <2>6, <3>1, <3>2, <3>3
  <2>8. CASE reader[r].pc = "read" /\ \E n \in 1 .. Len(stdout[reader[r].src]) : ReadChunk(r, n)
    <3>1. PICK n \in 1 .. Len(stdout[reader[r].src]) : ReadChunk(r, n)
      BY <2>8
    <3>2. /\ Chunked(r, n)
          /\ \/ TakesProbe(r, n) \/ Suppresses(r, n) \/ SeesNoBegin(r, n)
             \/ StreamsOutput(r, n) \/ FindsEnd(r, n)
      BY <2>8, <3>1, ChunkCases
    <3>3. n \in 1 .. Len(stdout[r]) /\ ~Streams(r) /\ Kept = cmdBuf
      BY <2>1, <2>8, <3>2 DEF Chunked, Streams, Runs
    <3>4. CASE TakesProbe(r, n) \/ Suppresses(r, n)
      BY <1>3, <2>6, <3>3, <3>4 DEF TakesProbe, Suppresses
    <3>5. CASE SeesNoBegin(r, n)
      BY <1>1, <2>6, <3>5 DEF SeesNoBegin, BufferIsOwn, Absent, Begin
    <3>6. ASSUME cmdFut # None, NEW norm, Behind(r, n, norm), started' = TRUE,
                 OnlyOf(Kept', cmdFut), Absent(End(cmdFut), Kept')
          PROVE  BufferIsOwn'
      <4>1. PICK t \in Runners : t = cmdFut
        BY <3>6 DEF TypeOK, Ref
      <4>2. /\ Clean(r, t)
            /\ \A l \in n + 1 .. Len(stdout[r]) : stdout[r][l].kind = "out" => stdout[r][l].of = t
        BY <2>1, <3>3, <3>6, <4>1, ChunkIsOwn
      <4>3. /\ stdout' = [stdout EXCEPT ![r] = From(@, n + 1)] /\ stdout \in [Openers -> Seq(Token)]
            /\ stdin' = stdin /\ fg' = fg /\ Len(stdout[r]) \in Nat
        BY <3>2, ChannelTypes DEF Chunked
      <4>0. n \in 0 .. Len(stdout[r]) /\ stdout[r] \in Seq(Token)
        BY <3>3, <4>3
      <4>4. /\ Len(From(stdout[r], n + 1)) = Len(stdout[r]) - n
            /\ \A i \in 1 .. Len(stdout[r]) - n : From(stdout[r], n + 1)[i] = stdout[r][i + n]
        BY <4>0, CutFrom
      <4>5. \A i \in 1 .. Len(stdout[r]) - n : i + n \in n + 1 .. Len(stdout[r])
        BY <3>3, <4>3
      <4>6. OnlyOf(stdout'[r], t)
        BY <4>2, <4>3, <4>4, <4>5 DEF OnlyOf
      <4>7. OwnChannel(t, r)'
        BY <4>2, <4>3, <4>6 DEF OwnChannel, Clean, NoCommands, OnlyOf
      <4> QED BY <1>1, <2>1, <3>6, <4>1, <4>7
              DEF BufferIsOwn, OwnChannel, Clean, NoCommands, OnlyOf, Absent, End
    <3>7. CASE StreamsOutput(r, n)
      <4>1. PICK norm \in Seq(Token) :
              /\ cmdFut # None /\ started' = TRUE
              /\ Behind(r, n, norm) /\ Absent(End(cmdFut), norm)
              /\ \/ cmdBuf' = Joined(r, n) /\ reader' = [reader EXCEPT ![r] = Emitting(None, norm, {})]
                 \/ cmdBuf' = norm /\ LoopsOn(r)
        BY <3>7 DEF StreamsOutput
      <4>2. Emitting(None, norm, {}).pc = "emit" /\ Emitting(None, norm, {}).end = None
            /\ Emitting(None, norm, {}).buf = norm
        BY DEF Emitting
      <4>3. Kept' = norm
        BY <2>3, <2>6, <4>1, <4>2
      <4>4. PICK t \in Runners : t = cmdFut
        BY <4>1 DEF TypeOK, Ref
      <4>5. OnlyOf(norm, t)
        BY <2>1, <3>3, <4>1, <4>4, ChunkIsOwn
      <4> QED BY <3>6, <4>1, <4>3, <4>4, <4>5
    <3>8. CASE FindsEnd(r, n)
      <4>0. PICK norm \in Seq(Token) : \E i \in 1 .. Len(norm) :
              /\ cmdFut # None /\ started' = TRUE
              /\ Behind(r, n, norm) /\ norm[i] = End(cmdFut)
              /\ cmdBuf' = From(norm, i + 1)
              /\ \/ reader' = [reader EXCEPT ![r] = Emitting(cmdFut, <<>>, Outputs(SubSeq(norm, 1, i - 1)))]
                 \/ LoopsOn(r)
        BY <3>8 DEF FindsEnd
      <4>1. PICK i \in 1 .. Len(norm) :
              /\ cmdFut # None /\ started' = TRUE
              /\ Behind(r, n, norm) /\ norm[i] = End(cmdFut)
              /\ cmdBuf' = From(norm, i + 1)
              /\ \/ reader' = [reader EXCEPT ![r] = Emitting(cmdFut, <<>>, Outputs(SubSeq(norm, 1, i - 1)))]
                 \/ LoopsOn(r)
        BY <4>0
      <4>2. Emitting(cmdFut, <<>>, Outputs(SubSeq(norm, 1, i - 1))).end = cmdFut
        BY DEF Emitting
      <4>3. Kept' = From(norm, i + 1)
        BY <2>2, <2>6, <4>1, <4>2
      <4>4. PICK t \in Runners : t = cmdFut
        BY <4>1 DEF TypeOK, Ref
      <4>5. /\ OnlyOf(norm, t) /\ Len(norm) \in Nat
            /\ \E j \in 1 .. n : /\ stdout[r][j] = End(t)
                                 /\ \A l \in 1 .. Len(norm) : l > i =>
                                      \E m \in 1 .. n : m > j /\ norm[l] = stdout[r][m]
        BY <2>1, <3>3, <4>1, <4>4, ChunkIsOwn, LenProperties
      <4>6. \A l \in 1 .. Len(norm) : l > i => norm[l].of # t
        BY <3>2, <4>5, EndIsLast
      <4>7. /\ Len(From(norm, i + 1)) = Len(norm) - i
            /\ \A l \in 1 .. Len(norm) - i : From(norm, i + 1)[l] = norm[l + i]
        BY <4>5, CutFrom
      <4>8. \A l \in 1 .. Len(norm) - i : l + i \in 1 .. Len(norm) /\ l + i > i
        BY <4>5
      <4>9. OnlyOf(From(norm, i + 1), t)
        BY <4>5, <4>7, <4>8 DEF OnlyOf
      <4>10. Absent(End(t), From(norm, i + 1))
        <5> SUFFICES ASSUME NEW l \in 1 .. Len(norm) - i PROVE From(norm, i + 1)[l] # End(t)
          BY <4>7 DEF Absent
        <5>1. From(norm, i + 1)[l] = norm[l + i]
          BY <4>7
        <5>2. norm[l + i].of # t
          BY <4>6, <4>8
        <5>3. End(t).of = t
          BY Tokens
        <5> QED BY <5>1, <5>2, <5>3
      <4> QED BY <3>6, <4>1, <4>3, <4>4, <4>9, <4>10
    <3> QED BY <3>2, <3>4, <3>5, <3>7, <3>8
  <2>9. CASE ReaderCancelled(r)
    BY <1>5, <2>9 DEF ReaderCancelled
  <2> QED BY <2>4, <2>7, <2>8, <2>9 DEF ReadShellLoop
<1> QED BY <1>4, <1>5

LEMMA BufferIsOwnNext ==
  ASSUME ~Overlap, TypeOK, Served, Served', Once, NewIsFresh, InstalledIsLast, BufferIsOwn, [Next]_vars
  PROVE  BufferIsOwn'
<1>1. CASE UNCHANGED vars
  <2>1. UNCHANGED <<session, command, reader, joining, remote>>
    BY <1>1 DEF vars
  <2>2. Kept' = Kept
    BY <2>1, KeptSame DEF session, command, joining
  <2> QED BY <2>1, <2>2 DEF session, command, remote, BufferIsOwn, OwnChannel, Clean, NoCommands, OnlyOf,
      Absent, Begin, End
<1> QED BY <1>1, BufferOfCalls, BufferOfRemote, BufferOfReader

-----------------------------------------------------------------------------
(* As long as no probe takes chunks away, nothing of the output gets lost: *)
(* what the command printed is behind its BEGIN marker, in the channel or  *)
(* in the buffer, until its END marker is read.                            *)

Unprobed  == \A q \in Probers : fut[q] = "none"
AllOut(t) == {Out(t, k) : k \in 1 .. printed[t]}
Over(p, t) == fg[p] # t /\ Absent(End(t), stdout[p])
OutsBehind(s, i) == {s[j] : j \in {k \in 1 .. Len(s) : k > i /\ s[k].kind = "out"}}

WholeInChannel ==
  Unprobed /\ cmdFut # None =>
    \A p \in Openers : ~Over(p, cmdFut) =>
      \A i \in 1 .. Len(stdout[p]) : stdout[p][i] = Begin(cmdFut) =>
        OutsBehind(stdout[p], i) = AllOut(cmdFut)
WholeInBuffer ==
  Unprobed /\ started /\ ~Over(readerTask, cmdFut) =>
    Outputs(Kept) \cup Outputs(stdout[readerTask]) = AllOut(cmdFut)

LEMMA InOutputs ==
  ASSUME NEW s, NEW tok
  PROVE  tok \in Outputs(s) <=> \E j \in 1 .. Len(s) : s[j].kind = "out" /\ tok = s[j]
BY DEF Outputs

LEMMA InBehind ==
  ASSUME NEW s, NEW i, NEW tok
  PROVE  tok \in OutsBehind(s, i) <=> \E j \in 1 .. Len(s) : j > i /\ s[j].kind = "out" /\ tok = s[j]
BY DEF OutsBehind

LEMMA OutsOfCut ==
  ASSUME NEW new, NEW old, Len(old) \in Nat, NEW k \in 0 .. Len(old), Len(new) = Len(old) - k,
         \A j \in 1 .. Len(new) : new[j] = old[j + k], NEW i \in Nat
  PROVE  OutsBehind(new, i) = OutsBehind(old, i + k)
<1>1. ASSUME NEW tok \in OutsBehind(new, i) PROVE tok \in OutsBehind(old, i + k)
  <2>1. PICK j \in 1 .. Len(new) : j > i /\ new[j].kind = "out" /\ tok = new[j]
    BY <1>1, InBehind
  <2>2. j + k \in 1 .. Len(old) /\ j + k > i + k
    BY <2>1
  <2> QED BY <2>1, <2>2, InBehind
<1>2. ASSUME NEW tok \in OutsBehind(old, i + k) PROVE tok \in OutsBehind(new, i)
  <2>1. PICK j \in 1 .. Len(old) : j > i + k /\ old[j].kind = "out" /\ tok = old[j]
    BY <1>2, InBehind
  <2>2. j - k \in 1 .. Len(new) /\ j - k > i /\ (j - k) + k = j
    BY <2>1
  <2>3. new[j - k] = old[j]
    BY <2>2
  <2> QED BY <2>1, <2>2, <2>3, InBehind
<1> QED BY <1>1, <1>2

LEMMA OutsOfAdded ==
  ASSUME NEW new, NEW old, NEW x, Added(new, old, x), NEW i \in 0 .. Len(old)
  PROVE  OutsBehind(new, i) = OutsBehind(old, i) \cup (IF x.kind = "out" THEN {x} ELSE {})
<1>1. ASSUME NEW tok \in OutsBehind(new, i)
      PROVE  tok \in OutsBehind(old, i) \cup (IF x.kind = "out" THEN {x} ELSE {})
  <2>1. PICK j \in 1 .. Len(new) : j > i /\ new[j].kind = "out" /\ tok = new[j]
    BY <1>1, InBehind
  <2>2. \/ j \in 1 .. Len(old) /\ new[j] = old[j]
        \/ new[j] = x
    BY AddedElements
  <2>3. j \in 1 .. Len(old) /\ new[j] = old[j] => tok \in OutsBehind(old, i)
    BY <2>1, InBehind
  <2> QED BY <2>1, <2>2, <2>3
<1>2. ASSUME NEW tok \in OutsBehind(old, i) PROVE tok \in OutsBehind(new, i)
  <2>1. PICK j \in 1 .. Len(old) : j > i /\ old[j].kind = "out" /\ tok = old[j]
    BY <1>2, InBehind
  <2>2. j \in 1 .. Len(new) /\ new[j] = old[j]
    BY DEF Added
  <2> QED BY <2>1, <2>2, InBehind
<1>3. x.kind = "out" => x \in OutsBehind(new, i)
  <2>1. Len(old) + 1 \in 1 .. Len(new) /\ Len(old) + 1 > i /\ new[Len(old) + 1] = x
    BY DEF Added
  <2> QED BY <2>1, InBehind
<1> QED BY <1>1, <1>2, <1>3

LEMMA OutputsAreBehind ==
  ASSUME NEW s
  PROVE  Outputs(s) = OutsBehind(s, 0)
BY DEF Outputs, OutsBehind

(* A chunk moves output from the channel to the buffer.                    *)
LEMMA ChunkIsWhole ==
  ASSUME TypeOK, BufferIsOwn, WholeInChannel, WholeInBuffer, Unprobed,
         NEW t \in Runners, cmdFut = t, Kept = cmdBuf,
         NEW r \in Openers, r = readerTask, ~Over(r, t),
         NEW n \in 1 .. Len(stdout[r]), NEW norm, Behind(r, n, norm)
  PROVE  Outputs(norm) \cup OutsBehind(stdout[r], n) = AllOut(t)
<1>1. PICK i : BehindAt(r, n, norm, i)
  BY BehindElements
<1>2. /\ i \in 0 .. Len(cmdBuf) + n
      /\ norm \in Seq(Token) /\ Len(norm) = Len(cmdBuf) + n - i
      /\ started => i = 0
      /\ ~started => i # 0 /\ Joined(r, n)[i] = Begin(t)
      /\ \A l \in 1 .. Len(norm) : norm[l] = Joined(r, n)[i + l]
  BY <1>1 DEF BehindAt
<1>3. /\ Len(cmdBuf) \in Nat /\ Len(stdout[r]) \in Nat /\ started \in BOOLEAN /\ t # None
      /\ \A l \in 1 .. Len(cmdBuf) : Joined(r, n)[l] = cmdBuf[l]
  BY JoinedElements, ChannelTypes, TasksAssumption DEF TypeOK, Tasks
<1>4. i \in Nat /\ n \in Nat
  BY <1>2, <1>3
<1>5. CASE started
  <2>1. Outputs(cmdBuf) \cup Outputs(stdout[r]) = AllOut(t)
    BY <1>5 DEF WholeInBuffer
  <2>2. \A tok \in Outputs(norm) : tok \in Outputs(cmdBuf) \cup Outputs(stdout[r])
    <3> SUFFICES ASSUME NEW tok \in Outputs(norm) PROVE tok \in Outputs(cmdBuf) \cup Outputs(stdout[r])
      OBVIOUS
    <3>1. PICK l \in 1 .. Len(norm) : norm[l].kind = "out" /\ tok = norm[l]
      BY InOutputs, InBehind
    <3>2. l \in 1 .. Len(cmdBuf) + n /\ norm[l] = Joined(r, n)[l]
      BY <1>2, <1>3, <1>5
    <3>3. CASE l <= Len(cmdBuf)
      <4>1. l \in 1 .. Len(cmdBuf) /\ norm[l] = cmdBuf[l]
        BY <1>3, <3>2, <3>3
      <4> QED BY <3>1, <4>1, InOutputs, InBehind
    <3>4. CASE l > Len(cmdBuf)
      <4>1. l - Len(cmdBuf) \in 1 .. Len(stdout[r]) /\ norm[l] = stdout[r][l - Len(cmdBuf)]
        BY <3>2, <3>4, JoinedInChunk
      <4> QED BY <3>1, <4>1, InOutputs, InBehind
    <3> QED BY <1>3, <3>2, <3>3, <3>4
  <2>3. \A tok \in OutsBehind(stdout[r], n) : tok \in Outputs(stdout[r])
    BY InOutputs, InBehind
  <2>4. \A tok \in Outputs(cmdBuf) : tok \in Outputs(norm)
    <3> SUFFICES ASSUME NEW tok \in Outputs(cmdBuf) PROVE tok \in Outputs(norm)
      OBVIOUS
    <3>1. PICK l \in 1 .. Len(cmdBuf) : cmdBuf[l].kind = "out" /\ tok = cmdBuf[l]
      BY InOutputs, InBehind
    <3>2. l \in 1 .. Len(norm) /\ norm[l] = cmdBuf[l]
      BY <1>2, <1>3, <1>4, <1>5
    <3> QED BY <3>1, <3>2, InOutputs, InBehind
  <2>5. \A tok \in Outputs(stdout[r]) : tok \in Outputs(norm) \cup OutsBehind(stdout[r], n)
    <3> SUFFICES ASSUME NEW tok \in Outputs(stdout[r]) PROVE tok \in Outputs(norm) \cup OutsBehind(stdout[r], n)
      OBVIOUS
    <3>1. PICK l \in 1 .. Len(stdout[r]) : stdout[r][l].kind = "out" /\ tok = stdout[r][l]
      BY InOutputs, InBehind
    <3>2. CASE l > n
      BY <3>1, <3>2, InOutputs, InBehind
    <3>3. CASE l <= n
      <4>1. /\ Len(cmdBuf) + l \in 1 .. Len(norm) /\ 0 + (Len(cmdBuf) + l) = Len(cmdBuf) + l
            /\ l \in 1 .. n
        BY <1>2, <1>3, <1>4, <1>5, <3>3
      <4>2. Joined(r, n)[Len(cmdBuf) + l] = stdout[r][l]
        BY <4>1, JoinedElements
      <4>3. norm[Len(cmdBuf) + l] = stdout[r][l]
        BY <1>2, <1>5, <4>1, <4>2
      <4> QED BY <3>1, <4>1, <4>3, InOutputs, InBehind
    <3> QED BY <1>3, <1>4, <3>2, <3>3
  <2> QED BY <2>1, <2>2, <2>3, <2>4, <2>5
<1>6. CASE ~started
  <2> DEFINE m == i - Len(cmdBuf)
  <2>1. i \in 1 .. Len(cmdBuf) + n /\ Joined(r, n)[i] = Begin(t)
    BY <1>2, <1>3, <1>6
  <2>2. Absent(Begin(t), cmdBuf)
    BY <1>3, <1>6 DEF BufferIsOwn
  <2>3. i > Len(cmdBuf)
    BY <1>3, <2>1, <2>2 DEF Absent
  <2>4. m \in 1 .. n /\ m \in 1 .. Len(stdout[r]) /\ stdout[r][m] = Begin(t)
    BY <2>1, <2>3, JoinedInChunk
  <2>5. OutsBehind(stdout[r], m) = AllOut(t)
    BY <1>3, <2>4 DEF WholeInChannel
  <2>6. \A tok \in Outputs(norm) : tok \in OutsBehind(stdout[r], m)
    <3> SUFFICES ASSUME NEW tok \in Outputs(norm) PROVE tok \in OutsBehind(stdout[r], m)
      OBVIOUS
    <3>1. PICK l \in 1 .. Len(norm) : norm[l].kind = "out" /\ tok = norm[l]
      BY InOutputs, InBehind
    <3>2. i + l \in 1 .. Len(cmdBuf) + n /\ norm[l] = Joined(r, n)[i + l] /\ i + l > Len(cmdBuf)
      BY <1>2, <1>3, <1>4, <2>3
    <3>3. (i + l) - Len(cmdBuf) \in 1 .. Len(stdout[r]) /\ norm[l] = stdout[r][(i + l) - Len(cmdBuf)]
      BY <3>2, JoinedInChunk
    <3>4. (i + l) - Len(cmdBuf) > m
      BY <1>3, <1>4
    <3> QED BY <3>1, <3>3, <3>4, InOutputs, InBehind
  <2>7. \A tok \in OutsBehind(stdout[r], n) : tok \in OutsBehind(stdout[r], m)
    <3> SUFFICES ASSUME NEW tok \in OutsBehind(stdout[r], n) PROVE tok \in OutsBehind(stdout[r], m)
      OBVIOUS
    <3>1. PICK l \in 1 .. Len(stdout[r]) : l > n /\ stdout[r][l].kind = "out" /\ tok = stdout[r][l]
      BY InOutputs, InBehind
    <3>2. l > m
      BY <1>3, <1>4, <2>4, <3>1
    <3> QED BY <3>1, <3>2, InOutputs, InBehind
  <2>8. \A tok \in OutsBehind(stdout[r], m) : tok \in Outputs(norm) \cup OutsBehind(stdout[r], n)
    <3> SUFFICES ASSUME NEW tok \in OutsBehind(stdout[r], m)
                 PROVE  tok \in Outputs(norm) \cup OutsBehind(stdout[r], n)
      OBVIOUS
    <3>1. PICK l \in 1 .. Len(stdout[r]) : l > m /\ stdout[r][l].kind = "out" /\ tok = stdout[r][l]
      BY InOutputs, InBehind
    <3>2. CASE l > n
      BY <3>1, <3>2, InOutputs, InBehind
    <3>3. CASE l <= n
      <4>1. l - m \in 1 .. Len(norm) /\ i + (l - m) = Len(cmdBuf) + l /\ l \in 1 .. n
        BY <1>2, <1>3, <1>4, <2>4, <3>1, <3>3
      <4>2. Joined(r, n)[Len(cmdBuf) + l] = stdout[r][l]
        BY <4>1, JoinedElements
      <4>3. norm[l - m] = stdout[r][l]
        BY <1>2, <4>1, <4>2
      <4> QED BY <3>1, <4>1, <4>3, InOutputs, InBehind
    <3> QED BY <1>3, <1>4, <3>2, <3>3
  <2> QED BY <2>5, <2>6, <2>7, <2>8
<1> QED BY <1>3, <1>5, <1>6

-----------------------------------------------------------------------------
(* Whose output answers whom.                                              *)

Emits(r) == reader[r].pc = "emit" /\ reader[r].end # None
OnlyBy(out, t) == \A tok \in out : tok.of = t
Owed(t) == Misled(t) \/ (cmdFut = t /\ fut[t] = "pending")

(* The output the reader holds is that of a command which has ended, and   *)
(* which has it still to come unless it was told something else ...        *)
EndsAreOwn ==
  \A r \in Openers : Emits(r) => /\ OnlyBy(reader[r].out, reader[r].end)
                                 /\ Gone(reader[r].end) /\ Owed(reader[r].end)
(* ... an answer is given once, a command's own after it has ended ...     *)
ResultsAreFinal ==
  \A t \in Runners : /\ fut[t] = "result" <=> result[t].of # None
                     /\ result[t].of = t => Gone(t)
(* ... and what is installed was neither cancelled nor closed.             *)
InstalledWaits == cmdFut # None => fut[cmdFut] \in {"pending", "result"}
Answers == EndsAreOwn /\ ResultsAreFinal /\ InstalledWaits /\ ResultIsolation

LEMMA GoneStays ==
  ASSUME TypeOK, Served, NewIsFresh, [Next]_vars, NEW t \in Runners, ~Fresh(t), Gone(t)
  PROVE  Gone(t)'
<1>1. /\ None # t
      /\ \A p \in Openers : /\ fg[p] # t /\ Absent(Cmd(t), stdin[p]) /\ Absent(End(t), stdout[p])
                            /\ Len(stdin[p]) \in Nat /\ Len(stdout[p]) \in Nat
      /\ fg \in [Openers -> Ref(Runners)]
  BY ChannelTypes, TasksAssumption DEF Gone, Tasks
<1>2. ASSUME \A p \in Openers : fg'[p] # t /\ Absent(Cmd(t), stdin'[p]) /\ Absent(End(t), stdout'[p])
      PROVE  Gone(t)'
  BY <1>2 DEF Gone, Absent, Cmd, End
<1>3. CASE Taken
  BY <1>1, <1>2, <1>3, CutAbsent DEF Taken
<1>4. ASSUME NEW line \in Line, Written(line), line # Cmd(t) PROVE Gone(t)'
  <2>1. stdout' = stdout /\ fg' = fg
    BY <1>4 DEF Written
  <2>2. \A p \in Openers : Absent(Cmd(t), stdin'[p])
    BY <1>1, <1>4, WrittenAdds, AddedAbsent
  <2> QED BY <1>1, <1>2, <2>1, <2>2
<1>5. ASSUME NEW p \in Openers, PrintedBy(p) PROVE Gone(t)'
  <2>1. \A q \in Openers : CutOf(stdin'[q], stdin[q])
    BY <1>5, ChannelTypes, CutOfSame, CutOfTail
    DEF PrintedBy, RemoteBegins, RemotePrints, RemoteEnds, RemoteAnswers, NextLine
  <2>2. \A q \in Openers : Absent(Cmd(t), stdin'[q])
    BY <1>1, <2>1, CutAbsent
  <2>3. ASSUME NEW tok \in Token, Prints(p, tok), tok # End(t)
        PROVE  \A q \in Openers : Absent(End(t), stdout'[q])
    BY <1>1, <2>3, PrintsAdds, AddedAbsent
  <2>4. CASE \E u \in Runners : RemoteBegins(p, u)
    <3>1. PICK u \in Runners : RemoteBegins(p, u)
      BY <2>4
    <3>2. u # t
      BY <1>1, <3>1, TakesLine DEF RemoteBegins, Absent
    <3>3. fg' = [fg EXCEPT ![p] = u] /\ Prints(p, Begin(u))
      BY <3>1 DEF RemoteBegins
    <3>4. \A q \in Openers : fg'[q] # t
      BY <1>1, <3>2, <3>3
    <3>5. \A q \in Openers : Absent(End(t), stdout'[q])
      BY <2>3, <3>3, Tokens, TokenType
    <3> QED BY <1>2, <2>2, <3>4, <3>5
  <2>5. CASE \E u \in Runners : RemotePrints(p, u)
    <3>1. PICK u \in Runners : RemotePrints(p, u)
      BY <2>5
    <3>2. fg' = fg /\ Prints(p, Out(u, printed[u] + 1)) /\ printed[u] + 1 \in Nat
      BY <3>1, ChannelTypes DEF RemotePrints
    <3>3. Out(u, printed[u] + 1) # End(t) /\ Out(u, printed[u] + 1) \in Token
      BY <3>2, Tokens, TokenType
    <3> QED BY <1>1, <1>2, <2>2, <2>3, <3>2, <3>3
  <2>6. CASE \E u \in Runners : RemoteEnds(p, u)
    <3>1. PICK u \in Runners : RemoteEnds(p, u)
      BY <2>6
    <3>2. u # t /\ fg' = [fg EXCEPT ![p] = None] /\ Prints(p, End(u))
      BY <1>1, <3>1 DEF RemoteEnds
    <3>3. \A q \in Openers : fg'[q] # t
      BY <1>1, <3>2
    <3>4. \A q \in Openers : Absent(End(t), stdout'[q])
      BY <2>3, <3>2, Tokens, TokenType
    <3> QED BY <1>2, <2>2, <3>3, <3>4
  <2>7. CASE \E q \in Probers : RemoteAnswers(p, q)
    <3>1. PICK q \in Probers : RemoteAnswers(p, q)
      BY <2>7
    <3>2. fg' = fg /\ Prints(p, Pwd(q)) /\ Pwd(q) # End(t) /\ Pwd(q) \in Token
      BY <3>1, Tokens, TokenType DEF RemoteAnswers
    <3> QED BY <1>1, <1>2, <2>2, <2>3, <3>2
  <2> QED BY <1>5, <2>4, <2>5, <2>6, <2>7 DEF PrintedBy
<1>6. ASSUME Next, ~(\E r \in Openers : ReadShellLoop(r) \/ RemoteShell(r)) PROVE Gone(t)'
  <2>1. ~Submit(t)
    BY SubmitsNew
  <2>2. Taken \/ \E line \in Line : Written(line) /\ line # Cmd(t)
    BY <1>6, <2>1, ChannelOfCalls, Tokens
  <2> QED BY <1>3, <1>4, <2>2
<1>7. UNCHANGED vars => Taken
  BY TakenSame DEF vars, remote
<1> QED BY <1>3, <1>5, <1>6, <1>7, ChannelOfReader, ChannelOfRemote

(* What the calls do to the futures of commands and to the readers.        *)
LEMMA FuturesOfCalls ==
  ASSUME TypeOK, [Next]_vars, ~(\E r \in Openers : ReadShellLoop(r))
  PROVE  /\ result' = result
         /\ \A o \in Openers : reader'[o] = reader[o] \/ reader'[o].pc = "start"
         /\ \A u \in Runners :
              \/ fut'[u] = fut[u]
              \/ cmdFut = u /\ cmdFut' = None /\ fut[u] = "pending" /\ fut'[u] \in {"interrupted", "closed"}
              \/ (Submit(u) \/ SubmitRaises(u)) /\ fut'[u] = "pending" /\ cmdFut' = u
<1> USE DEF command, tasks, OnlyGoto
<1>1. /\ fut \in [Runners \cup Probers -> Outcome] /\ reader \in [Openers -> ReaderState]
      /\ cmdFut \in Runners \cup {None} /\ probeFut \in Probers \cup {None}
      /\ None \notin Runners /\ Runners \cap Probers = {}
  BY TasksAssumption DEF TypeOK, Ref, Tasks
<1>2. CASE \E t \in Runners : RunShellCommand(t)
  BY <1>1, <1>2 DEF RunShellCommand, RunRefused, RunQueue, RunRejected, Submit, SubmitRaises, Install, RunWake
<1>3. CASE \E q \in Probers : GetShellCwd(q)
  BY <1>1, <1>3 DEF GetShellCwd, ProbeRefused, ProbeQueue, ProbeRejected, ProbeSubmit, ProbeSubmitRaises,
     InstallProbe, ProbeWake
<1>4. CASE \E o \in Openers : OpenShell(o)
  BY <1>1, <1>4 DEF OpenShell, OpenRefused, OpenStart, OpenFinish, OpenWriteRaises, OpenFail, SetReader, Idle
<1>5. CASE \E c \in Closers : CloseShell(c)
  BY <1>1, <1>5 DEF CloseShell, CloseRefused, CloseStart, CloseJoinRaises, CloseExit, CloseExitRaises,
     CloseNoProcess, CloseFinish, ReaderJoined, ResetCommandState, Fail, Done
<1>6. CASE Interrupt \/ SendToShell \/ UNCHANGED vars
  BY <1>1, <1>6 DEF Interrupt, SendToShell, vars, ResetCommandState, Fail, Done
<1>7. CASE \E r \in Openers : RemoteShell(r)
  BY <1>7 DEF RemoteShell, RemoteBegins, RemotePrints, RemoteEnds, RemoteAnswers, RemoteConsumes,
     RemoteInterrupted, RemoteExits, RemoteDies, RemoteUnchanged
<1> QED BY <1>2, <1>3, <1>4, <1>5, <1>6, <1>7 DEF Next

(* The reader finds the END marker of the installed command: that command  *)
(* has ended just now, and what it read of it is its own, and all of it if *)
(* no probe was made.                                                      *)
EndsNow(r, t, out) ==
  /\ cmdFut = t /\ cmdFut' = t /\ ~Gone(t) /\ Gone(t)' /\ OnlyBy(out, t)
  /\ WholeInChannel /\ WholeInBuffer /\ Unprobed => out = AllOut(t)
  /\ \/ /\ reader' = [reader EXCEPT ![r] = Emitting(t, <<>>, out)]
        /\ UNCHANGED <<fut, result>>
     \/ Resolve(t, out) /\ LoopsOn(r)

LEMMA PrefixOutputs ==
  ASSUME NEW norm \in Seq(Token), NEW i \in 1 .. Len(norm), NEW t, OnlyOf(norm, t)
  PROVE  OnlyBy(Outputs(SubSeq(norm, 1, i - 1)), t)
<1>1. /\ Len(norm) \in Nat /\ i - 1 \in Nat
      /\ \A k \in 1 .. i - 1 : k \in 1 .. Len(norm) /\ norm[k] \in Token
  BY LenProperties, ElementOfSeq
<1>2. /\ Len(SubSeq(norm, 1, i - 1)) = i - 1
      /\ \A k \in 1 .. i - 1 : SubSeq(norm, 1, i - 1)[k] = norm[k]
  BY <1>1, SubSeqProperties
<1> QED BY <1>1, <1>2 DEF OnlyBy, Outputs, OnlyOf

LEMMA PrefixIsAll ==
  ASSUME NEW norm \in Seq(Token), NEW i \in 1 .. Len(norm),
         \A l \in 1 .. Len(norm) : l >= i => norm[l].kind # "out"
  PROVE  Outputs(SubSeq(norm, 1, i - 1)) = Outputs(norm)
<1>1. /\ Len(norm) \in Nat /\ i - 1 \in Nat
      /\ \A k \in 1 .. i - 1 : k \in 1 .. Len(norm) /\ norm[k] \in Token
  BY LenProperties, ElementOfSeq
<1>2. /\ Len(SubSeq(norm, 1, i - 1)) = i - 1
      /\ \A k \in 1 .. i - 1 : SubSeq(norm, 1, i - 1)[k] = norm[k]
  BY <1>1, SubSeqProperties
<1>3. ASSUME NEW tok \in Outputs(norm) PROVE tok \in Outputs(SubSeq(norm, 1, i - 1))
  <2>1. PICK l \in 1 .. Len(norm) : norm[l].kind = "out" /\ tok = norm[l]
    BY <1>3, InOutputs
  <2>2. l \in 1 .. i - 1
    BY <1>1, <2>1
  <2> QED BY <1>2, <2>1, <2>2, InOutputs
<1>4. ASSUME NEW tok \in Outputs(SubSeq(norm, 1, i - 1)) PROVE tok \in Outputs(norm)
  <2>1. PICK l \in 1 .. Len(SubSeq(norm, 1, i - 1)) :
          SubSeq(norm, 1, i - 1)[l].kind = "out" /\ tok = SubSeq(norm, 1, i - 1)[l]
    BY <1>4, InOutputs
  <2> QED BY <1>1, <1>2, <2>1, InOutputs
<1> QED BY <1>3, <1>4

LEMMA FindsEndNow ==
  ASSUME TypeOK, Served, Once, InstalledIsLast, BufferIsOwn,
         NEW r \in Openers, NEW n, Chunked(r, n), FindsEnd(r, n)
  PROVE  \E t \in Runners : \E out : EndsNow(r, t, out)
<1>1. /\ n \in 1 .. Len(stdout[r]) /\ reader[r].pc = "read" /\ r \notin cancelled
      /\ UNCHANGED <<readerTask, cancelled, cmdFut>>
  BY DEF Chunked, session, joining
<1>2. r = readerTask /\ Kept = cmdBuf
  BY <1>1, KeptByReader DEF Live, Streams, Runs
<1>3. PICK norm \in Seq(Token) : \E i \in 1 .. Len(norm) :
        /\ cmdFut # None /\ Behind(r, n, norm) /\ norm[i] = End(cmdFut)
        /\ \/ /\ reader' = [reader EXCEPT ![r] = Emitting(cmdFut, <<>>, Outputs(SubSeq(norm, 1, i - 1)))]
              /\ UNCHANGED <<fut, result>>
           \/ Resolve(cmdFut, Outputs(SubSeq(norm, 1, i - 1))) /\ LoopsOn(r)
  BY DEF FindsEnd
<1>4. PICK i \in 1 .. Len(norm) :
        /\ cmdFut # None /\ Behind(r, n, norm) /\ norm[i] = End(cmdFut)
        /\ \/ /\ reader' = [reader EXCEPT ![r] = Emitting(cmdFut, <<>>, Outputs(SubSeq(norm, 1, i - 1)))]
              /\ UNCHANGED <<fut, result>>
           \/ Resolve(cmdFut, Outputs(SubSeq(norm, 1, i - 1))) /\ LoopsOn(r)
  BY <1>3
<1>5. PICK t \in Runners : t = cmdFut
  BY <1>4 DEF TypeOK, Ref
<1>6. /\ OnlyOf(norm, t)
      /\ \E j \in 1 .. n : stdout[r][j] = End(t)
  BY <1>1, <1>2, <1>4, <1>5, ChunkIsOwn
<1>7. PICK j \in 1 .. n : stdout[r][j] = End(t)
  BY <1>6
<1>8. Gone(t)'
  BY <1>7, EndIsLast
<1>9. j \in 1 .. Len(stdout[r])
  BY <1>1, ChannelTypes
<1>10. ~Gone(t)
  BY <1>7, <1>9 DEF Gone, Absent
<1>11. OnlyBy(Outputs(SubSeq(norm, 1, i - 1)), t)
  BY <1>6, PrefixOutputs
<1>12. ASSUME WholeInChannel, WholeInBuffer, Unprobed
       PROVE  Outputs(SubSeq(norm, 1, i - 1)) = AllOut(t)
  <2>1. ~Over(r, t)
    BY <1>7, <1>9 DEF Over, Absent
  <2>2. Outputs(norm) \cup OutsBehind(stdout[r], n) = AllOut(t)
    BY <1>1, <1>2, <1>4, <1>5, <1>12, <2>1, ChunkIsWhole
  <2>3. \A l \in 1 .. Len(stdout[r]) : l > j => stdout[r][l].of # t
    BY <1>7, <1>9 DEF Once, EndsOnce
  <2>4. /\ \A l \in n + 1 .. Len(stdout[r]) : stdout[r][l].kind = "out" => stdout[r][l].of = t
        /\ \E k \in 1 .. n : /\ stdout[r][k] = End(t)
                             /\ \A l \in 1 .. Len(norm) : l > i =>
                                  \E m \in 1 .. n : m > k /\ norm[l] = stdout[r][m]
    BY <1>1, <1>2, <1>4, <1>5, ChunkIsOwn
  <2>5. \A l \in 1 .. Len(stdout[r]) : l > n => stdout[r][l].kind # "out"
    <3> SUFFICES ASSUME NEW l \in 1 .. Len(stdout[r]), l > n PROVE stdout[r][l].kind # "out"
      OBVIOUS
    <3>1. l \in n + 1 .. Len(stdout[r]) /\ l > j
      BY <1>1, ChannelTypes
    <3> QED BY <2>3, <2>4, <3>1
  <2>6. OutsBehind(stdout[r], n) = {}
    BY <2>5 DEF OutsBehind
  <2>7. PICK k \in 1 .. n : /\ stdout[r][k] = End(t)
                            /\ \A l \in 1 .. Len(norm) : l > i =>
                                 \E m \in 1 .. n : m > k /\ norm[l] = stdout[r][m]
    BY <2>4
  <2>8. \A m \in 1 .. n : m > k => stdout[r][m].of # t
    BY <2>7, EndIsLast
  <2>9. \A l \in 1 .. Len(norm) : l > i => norm[l].kind # "out"
    BY <1>6, <2>7, <2>8 DEF OnlyOf
  <2>10. norm[i].kind # "out"
    BY <1>4, <1>5, Tokens
  <2>11. \A l \in 1 .. Len(norm) : l >= i => norm[l].kind # "out"
    <3>1. Len(norm) \in Nat
      BY LenProperties
    <3> QED BY <2>9, <2>10, <3>1
  <2> QED BY <2>2, <2>6, <2>11, PrefixIsAll
<1>13. EndsNow(r, t, Outputs(SubSeq(norm, 1, i - 1)))
  BY <1>1, <1>4, <1>5, <1>8, <1>10, <1>11, <1>12 DEF EndsNow
<1> QED BY <1>13

(* What a step of the reader does to results and futures of commands.      *)
LEMMA ReaderAnswers ==
  ASSUME TypeOK, Served, Once, InstalledIsLast, BufferIsOwn, NEW r \in Openers, ReadShellLoop(r)
  PROVE  \/ /\ Emits(r) /\ Resolve(reader[r].end, reader[r].out) /\ LoopsOn(r) /\ cmdFut' = cmdFut
         \/ \E t \in Runners : \E out : EndsNow(r, t, out)
         \/ /\ result' = result /\ cmdFut' = cmdFut
            /\ \A u \in Runners : fut'[u] = fut[u]
            /\ \E state : /\ reader' = [reader EXCEPT ![r] = state]
                          /\ state.pc # "emit" \/ state.end = None
<1> USE DEF OnlyReader, tasks
<1>0. cmdFut' = cmdFut
  BY ReaderResolves
<1>1. Reading(process).pc # "emit" /\ \A w \in {"ended", "failed", "loop"} : Idle(w).pc # "emit"
  BY DEF Reading, Idle
<1>2. CASE ReaderTurn(r) \/ ReadTimeout(r) \/ ReadEof(r) \/ ReaderCancelled(r)
  <2>1. \/ SetReader(r, Reading(process))
        \/ \E w \in {"ended", "failed", "loop"} : SetReader(r, Idle(w))
    BY <1>2 DEF ReaderTurn, ReadTimeout, ReadEof, ReaderCancelled, BackToLoop
  <2>2. \E state : reader' = [reader EXCEPT ![r] = state] /\ (state.pc # "emit" \/ state.end = None)
    BY <1>1, <2>1 DEF SetReader
  <2>3. UNCHANGED <<fut, result>>
    BY <1>2 DEF ReaderTurn, ReadTimeout, ReadEof, ReaderCancelled
  <2> QED BY <1>0, <2>2, <2>3
<1>3. LoopsOn(r) => \E state : /\ reader' = [reader EXCEPT ![r] = state]
                               /\ state.pc # "emit" \/ state.end = None
  BY <1>1 DEF LoopsOn
<1>4. CASE EmitReturns(r)
  <2>1. LoopsOn(r) /\ reader[r].pc = "emit"
    BY <1>4 DEF EmitReturns, BackToLoop, SetReader, LoopsOn, Runs
  <2> QED BY <1>0, <1>3, <1>4, <2>1 DEF EmitReturns, Emits
<1>5. CASE reader[r].pc = "read" /\ \E n \in 1 .. Len(stdout[reader[r].src]) : ReadChunk(r, n)
  <2>1. PICK n \in 1 .. Len(stdout[reader[r].src]) : ReadChunk(r, n)
    BY <1>5
  <2>2. /\ Chunked(r, n)
        /\ \/ TakesProbe(r, n) \/ Suppresses(r, n) \/ SeesNoBegin(r, n)
           \/ StreamsOutput(r, n) \/ FindsEnd(r, n)
    BY <1>5, <2>1, ChunkCases
  <2>3. CASE TakesProbe(r, n) \/ Suppresses(r, n) \/ SeesNoBegin(r, n)
    BY <1>0, <1>3, <2>3 DEF TakesProbe, Suppresses, SeesNoBegin
  <2>4. CASE StreamsOutput(r, n)
    <3>1. \A norm : Emitting(None, norm, {}).end = None
      BY DEF Emitting
    <3>2. UNCHANGED <<fut, result>>
      BY <2>4 DEF StreamsOutput
    <3>3. LoopsOn(r) \/ \E norm : reader' = [reader EXCEPT ![r] = Emitting(None, norm, {})]
      BY <2>4 DEF StreamsOutput
    <3> QED BY <1>0, <1>3, <3>1, <3>2, <3>3
  <2> QED BY <2>2, <2>3, <2>4, FindsEndNow
<1> QED BY <1>2, <1>4, <1>5 DEF ReadShellLoop

-----------------------------------------------------------------------------

(* A future that is not pending, of a command that is known, is final.     *)
LEMMA MisledStays ==
  ASSUME TypeOK, Served, Once, NewIsFresh, InstalledIsLast, BufferIsOwn, ResultsAreFinal, [Next]_vars,
         NEW u \in Runners, ~Fresh(u), Misled(u)
  PROVE  Misled(u)'
<1>1. fut[u] # "pending" /\ ~Submit(u) /\ ~SubmitRaises(u)
  BY SubmitsNew DEF Misled, ResultsAreFinal
<1>2. /\ fut \in [Runners \cup Probers -> Outcome]
      /\ result \in [Runners -> [of : Ref(Runners), out : SUBSET Token]]
  BY DEF TypeOK
<1>3. ASSUME NEW c, NEW out, Resolve(c, out) PROVE fut'[u] = fut[u] /\ result'[u] = result[u]
  BY <1>1, <1>2, <1>3 DEF Resolve, Done
<1>4. ASSUME NEW r \in Openers, ReadShellLoop(r) PROVE fut'[u] = fut[u] /\ result'[u] = result[u]
  BY <1>3, <1>4, ReaderAnswers DEF EndsNow
<1>5. ASSUME ~(\E r \in Openers : ReadShellLoop(r)) PROVE fut'[u] = fut[u] /\ result'[u] = result[u]
  BY <1>1, <1>5, FuturesOfCalls
<1>6. fut'[u] = fut[u] /\ result'[u] = result[u]
  BY <1>4, <1>5
<1> QED BY <1>6 DEF Misled

(* What the calls of runners, closers, ... leave of the answers.           *)
LEMMA OwedStays ==
  ASSUME IndInv, Served, Once, NewIsFresh, InstalledIsLast, BufferIsOwn, ResultsAreFinal, [Next]_vars,
         ~(\E r \in Openers : ReadShellLoop(r)),
         NEW u \in Runners, ~Fresh(u), Owed(u)
  PROVE  Owed(u)'
<1>1. TypeOK
  BY DEF IndInv
<1>2. CASE Misled(u)
  BY <1>1, <1>2, MisledStays DEF Owed
<1>3. CASE cmdFut = u /\ fut[u] = "pending"
  <2>1. \/ fut'[u] = fut[u]
        \/ fut'[u] \in {"interrupted", "closed"}
        \/ Submit(u) \/ SubmitRaises(u)
    BY <1>1, FuturesOfCalls
  <2>2. ~Submit(u) /\ ~SubmitRaises(u)
    BY SubmitsNew
  <2>3. CASE fut'[u] \in {"interrupted", "closed"}
    BY <2>3 DEF Owed, Misled
  <2>4. CASE fut'[u] = fut[u]
    <3>1. cmdFut' = cmdFut \/ fut'[cmdFut] # "pending"
      BY <1>3, StepKeepsPending, TasksAssumption DEF PendingKept, vars, command, Tasks
    <3> QED BY <1>3, <2>4, <3>1 DEF Owed
  <2> QED BY <2>1, <2>2, <2>3, <2>4
<1> QED BY <1>2, <1>3 DEF Owed

LEMMA AnswersOfCalls ==
  ASSUME IndInv, Served, Once, NewIsFresh, InstalledIsLast, BufferIsOwn, Answers, [Next]_vars,
         ~(\E r \in Openers : ReadShellLoop(r))
  PROVE  Answers'
<1>1. /\ TypeOK /\ None \notin Runners
      /\ reader \in [Openers -> ReaderState] /\ cmdFut \in Runners \cup {None}
      /\ result \in [Runners -> [of : Ref(Runners), out : SUBSET Token]]
  BY TasksAssumption DEF IndInv, TypeOK, Ref, Tasks
<1>2. /\ result' = result
      /\ \A o \in Openers : reader'[o] = reader[o] \/ reader'[o].pc = "start"
      /\ \A u \in Runners :
           \/ fut'[u] = fut[u]
           \/ cmdFut = u /\ cmdFut' = None /\ fut[u] = "pending" /\ fut'[u] \in {"interrupted", "closed"}
           \/ (Submit(u) \/ SubmitRaises(u)) /\ fut'[u] = "pending" /\ cmdFut' = u
  BY <1>1, FuturesOfCalls
<1>3. \A u \in Runners : Submit(u) \/ SubmitRaises(u) => fut[u] = "none" /\ result[u].of = None
  BY SubmitsNew DEF Fresh
<1>4. EndsAreOwn'
  <2> SUFFICES ASSUME NEW r \in Openers, Emits(r)'
               PROVE  OnlyBy(reader[r].out, reader[r].end)' /\ Gone(reader[r].end)' /\ Owed(reader[r].end)'
    BY DEF EndsAreOwn
  <2>1. reader'[r] = reader[r] /\ Emits(r)
    BY <1>2 DEF Emits
  <2>2. PICK c \in Runners : c = reader[r].end
    BY <1>1, <2>1 DEF Emits, ReaderState, Ref
  <2>3. OnlyBy(reader[r].out, c) /\ Gone(c) /\ Owed(c) /\ ~Fresh(c)
    BY <2>1, <2>2 DEF Answers, EndsAreOwn, Fresh
  <2>4. Gone(c)' /\ Owed(c)'
    BY <1>1, <2>3, GoneStays, OwedStays DEF Answers
  <2>5. reader'[r].end = c /\ reader'[r].out = reader[r].out
    BY <2>1, <2>2
  <2> QED BY <2>3, <2>4, <2>5 DEF OnlyBy, Gone, Owed, Misled, Absent, Cmd, End
<1>5. ResultsAreFinal'
  <2> SUFFICES ASSUME NEW t \in Runners
               PROVE  /\ fut'[t] = "result" <=> result'[t].of # None
                      /\ result'[t].of = t => Gone(t)'
    BY DEF ResultsAreFinal, Gone, Absent, Cmd, End
  <2>1. /\ fut[t] = "result" <=> result[t].of # None
        /\ result[t].of = t => Gone(t)
    BY DEF Answers, ResultsAreFinal
  <2>2. fut'[t] = "result" <=> fut[t] = "result"
    BY <1>2, <1>3, <2>1
  <2>3. result[t].of = t => Gone(t)'
    BY <1>1, <2>1, GoneStays DEF Fresh
  <2> QED BY <1>2, <2>1, <2>2, <2>3
<1>6. InstalledWaits'
  <2> SUFFICES ASSUME cmdFut' # None PROVE fut'[cmdFut'] \in {"pending", "result"}
    BY DEF InstalledWaits
  <2>1. CASE cmdFut' = cmdFut
    BY <1>1, <1>2, <2>1 DEF Answers, InstalledWaits
  <2>2. CASE cmdFut' # cmdFut
    <3>1. PICK t \in Runners : (Submit(t) \/ SubmitRaises(t)) /\ cmdFut' = t
      BY <2>2, InstallSteps
    <3>2. fut'[t] = "pending"
      BY <1>1, <3>1 DEF Submit, SubmitRaises, Install, TypeOK
    <3> QED BY <3>1, <3>2
  <2> QED BY <2>1, <2>2
<1>7. ResultIsolation'
  <2> SUFFICES ASSUME NEW t \in Runners, result'[t].of # None
               PROVE  /\ \A tok \in result'[t].out : tok.of = result'[t].of
                      /\ result'[t].of # t => Misled(result[t].of)'
    BY DEF ResultIsolation, Misled
  <2>1. PICK u \in Runners : u = result[t].of
    BY <1>1, <1>2 DEF Ref
  <2>2. /\ \A tok \in result[t].out : tok.of = u
        /\ u # t => Misled(u)
        /\ ~Fresh(u)
    BY <1>2, <2>1 DEF Answers, ResultIsolation, Fresh
  <2>3. u # t => Misled(u)'
    BY <1>1, <2>2, MisledStays DEF Answers
  <2> QED BY <1>2, <2>1, <2>2, <2>3 DEF Misled
<1> QED BY <1>4, <1>5, <1>6, <1>7 DEF Answers

(* The answers that were given stay as they are.                           *)
LEMMA GivenAnswers ==
  ASSUME TypeOK, Served, Once, NewIsFresh, InstalledIsLast, BufferIsOwn, Answers, [Next]_vars,
         NEW t \in Runners, NEW u, u = result[t].of
  PROVE  /\ u = t => Gone(t)'
         /\ u # None => /\ OnlyBy(result[t].out, u)
                        /\ u # t => Misled(u)'
<1>1. u \in Runners \cup {None}
  BY DEF TypeOK, Ref
<1>2. CASE u = t
  <2>1. Gone(t) /\ ~Fresh(t)
    BY <1>2 DEF Answers, ResultsAreFinal, Fresh
  <2>2. Gone(t)'
    BY <2>1, GoneStays
  <2> QED BY <1>2, <2>2 DEF Answers, ResultIsolation, OnlyBy
<1>3. CASE u # t /\ u # None
  <2>1. u \in Runners /\ Misled(u) /\ ~Fresh(u) /\ OnlyBy(result[t].out, u)
    BY <1>1, <1>3 DEF Answers, ResultIsolation, Fresh, OnlyBy
  <2> QED BY <1>3, <2>1, MisledStays DEF Answers
<1> QED BY <1>2, <1>3

LEMMA NothingAnswered ==
  ASSUME TypeOK, Served, Once, NewIsFresh, InstalledIsLast, BufferIsOwn, Answers, [Next]_vars,
         UNCHANGED <<result, cmdFut>>, \A u \in Runners : fut'[u] = fut[u]
  PROVE  ResultsAreFinal' /\ InstalledWaits' /\ ResultIsolation'
<1>1. ResultsAreFinal'
  <2> SUFFICES ASSUME NEW t \in Runners
               PROVE  /\ fut'[t] = "result" <=> result'[t].of # None
                      /\ result'[t].of = t => Gone(t)'
    BY DEF ResultsAreFinal, Gone, Absent, Cmd, End
  <2>1. fut[t] = "result" <=> result[t].of # None
    BY DEF Answers, ResultsAreFinal
  <2>2. result[t].of = t => Gone(t)'
    BY GivenAnswers
  <2> QED BY <2>1, <2>2
<1>2. InstalledWaits'
  BY DEF Answers, InstalledWaits, TypeOK, Ref
<1>3. ResultIsolation'
  <2> SUFFICES ASSUME NEW t \in Runners, result'[t].of # None
               PROVE  /\ \A tok \in result'[t].out : tok.of = result'[t].of
                      /\ result'[t].of # t => Misled(result[t].of)'
    BY DEF ResultIsolation, Misled
  <2>1. PICK u : u = result[t].of
    OBVIOUS
  <2>2. OnlyBy(result[t].out, u) /\ (u # t => Misled(u)')
    BY <2>1, GivenAnswers
  <2> QED BY <2>1, <2>2 DEF OnlyBy, Misled
<1> QED BY <1>1, <1>2, <1>3

(* set_result: of c's output, on the future that is installed now.         *)
LEMMA AnswerGiven ==
  ASSUME TypeOK, Served, Once, NewIsFresh, InstalledIsLast, BufferIsOwn, Answers, [Next]_vars,
         NEW c \in Runners, NEW out, Resolve(c, out), cmdFut' = cmdFut,
         OnlyBy(out, c), Gone(c)', cmdFut = c \/ Misled(c)'
  PROVE  ResultsAreFinal' /\ InstalledWaits' /\ ResultIsolation'
<1>1. CASE ~(CommandActive /\ ~Done(cmdFut))
  <2>1. UNCHANGED <<fut, result>>
    BY <1>1 DEF Resolve
  <2> QED BY <2>1, NothingAnswered
<1>2. CASE CommandActive /\ ~Done(cmdFut)
  <2>1. PICK t \in Runners : t = cmdFut
    BY <1>2 DEF CommandActive, TypeOK, Ref
  <2>2. /\ fut' = [fut EXCEPT ![t] = "result"]
        /\ result' = [result EXCEPT ![t] = [of |-> c, out |-> out]]
        /\ fut[t] = "pending" /\ c # None
        /\ fut \in [Runners \cup Probers -> Outcome]
        /\ result \in [Runners -> [of : Ref(Runners), out : SUBSET Token]]
    BY <1>2, <2>1, TasksAssumption DEF Resolve, Done, TypeOK, Tasks
  <2>3. /\ fut'[t] = "result" /\ result'[t].of = c /\ result'[t].out = out
        /\ \A v \in Runners : v # t => fut'[v] = fut[v] /\ result'[v] = result[v]
    BY <2>2
  <2>4. ResultsAreFinal'
    <3> SUFFICES ASSUME NEW v \in Runners
                 PROVE  /\ fut'[v] = "result" <=> result'[v].of # None
                        /\ result'[v].of = v => Gone(v)'
      BY DEF ResultsAreFinal, Gone, Absent, Cmd, End
    <3>1. CASE v = t
      BY <2>2, <2>3, <3>1 DEF Gone, Absent, Cmd, End
    <3>2. CASE v # t
      <4>1. fut[v] = "result" <=> result[v].of # None
        BY DEF Answers, ResultsAreFinal
      <4>2. result[v].of = v => Gone(v)'
        BY GivenAnswers
      <4> QED BY <2>3, <3>2, <4>1, <4>2
    <3> QED BY <3>1, <3>2
  <2>5. InstalledWaits'
    BY <2>1, <2>3 DEF InstalledWaits
  <2>6. ResultIsolation'
    <3> SUFFICES ASSUME NEW v \in Runners, result'[v].of # None
                 PROVE  /\ \A tok \in result'[v].out : tok.of = result'[v].of
                        /\ result'[v].of # v => Misled(result[v].of)'
      BY DEF ResultIsolation, Misled
    <3>1. CASE v = t
      <4>1. c # t => Misled(c)'
        BY <2>1
      <4> QED BY <2>3, <3>1, <4>1 DEF OnlyBy, Misled
    <3>2. CASE v # t
      <4>1. PICK u : u = result[v].of
        OBVIOUS
      <4>2. u # None => OnlyBy(result[v].out, u) /\ (u # v => Misled(u)')
        BY <4>1, GivenAnswers
      <4> QED BY <2>3, <3>2, <4>1, <4>2 DEF OnlyBy, Misled
    <3> QED BY <3>1, <3>2
  <2> QED BY <2>4, <2>5, <2>6
<1> QED BY <1>1, <1>2

LEMMA AnswersOfReader ==
  ASSUME TypeOK, Served, Once, NewIsFresh, InstalledIsLast, BufferIsOwn, Answers, [Next]_vars,
         NEW r \in Openers, ReadShellLoop(r)
  PROVE  Answers'
<1>1. Live(r) /\ reader \in [Openers -> ReaderState] /\ None \notin Runners
  BY ReaderStep, TasksAssumption DEF TypeOK, Tasks
<1>2. \A s \in Openers : s # r => ~Emits(s)
  BY <1>1 DEF Served, ReaderIsCurrent, Live, Emits
<1>3. ASSUME NEW state, reader' = [reader EXCEPT ![r] = state], state.pc # "emit" \/ state.end = None
      PROVE  EndsAreOwn'
  <2>1. \A s \in Openers : ~(reader'[s].pc = "emit" /\ reader'[s].end # None)
    BY <1>1, <1>2, <1>3 DEF Emits
  <2> QED BY <2>1 DEF EndsAreOwn, Emits
<1>4. LoopsOn(r) => EndsAreOwn'
  <2>1. Idle("loop").pc # "emit"
    BY DEF Idle
  <2> QED BY <1>3, <2>1 DEF LoopsOn
<1>5. CASE Emits(r) /\ Resolve(reader[r].end, reader[r].out) /\ LoopsOn(r) /\ cmdFut' = cmdFut
  <2>1. PICK c \in Runners : c = reader[r].end
    BY <1>1, <1>5 DEF Emits, ReaderState, Ref
  <2>2. OnlyBy(reader[r].out, c) /\ Gone(c) /\ Owed(c) /\ ~Fresh(c)
    BY <1>5, <2>1 DEF Answers, EndsAreOwn, Fresh
  <2>3. Gone(c)'
    BY <2>2, GoneStays
  <2>4. cmdFut = c \/ Misled(c)'
    BY <2>2, MisledStays DEF Owed, Answers
  <2>5. ResultsAreFinal' /\ InstalledWaits' /\ ResultIsolation'
    BY <1>5, <2>1, <2>2, <2>3, <2>4, AnswerGiven
  <2> QED BY <1>4, <1>5, <2>5 DEF Answers
<1>6. ASSUME NEW t \in Runners, NEW out, EndsNow(r, t, out) PROVE Answers'
  <2>1. CASE Resolve(t, out) /\ LoopsOn(r)
    <3>1. ResultsAreFinal' /\ InstalledWaits' /\ ResultIsolation'
      BY <1>6, <2>1, AnswerGiven DEF EndsNow
    <3> QED BY <1>4, <2>1, <3>1 DEF Answers
  <2>2. CASE reader' = [reader EXCEPT ![r] = Emitting(t, <<>>, out)] /\ UNCHANGED <<fut, result>>
    <3>1. ResultsAreFinal' /\ InstalledWaits' /\ ResultIsolation'
      BY <1>6, <2>2, NothingAnswered DEF EndsNow
    <3>2. Owed(t)'
      <4>1. fut[t] \in {"pending", "result"} /\ cmdFut' = t
        BY <1>1, <1>6 DEF EndsNow, Answers, InstalledWaits
      <4>2. fut[t] = "result" => result[t].of \notin {None, t}
        BY <1>6 DEF EndsNow, Answers, ResultsAreFinal
      <4> QED BY <2>2, <4>1, <4>2 DEF Owed, Misled
    <3>3. /\ \A s \in Openers : s # r => reader'[s] = reader[s]
          /\ reader'[r].end = t /\ reader'[r].out = out
      BY <1>1, <2>2 DEF Emitting
    <3>4. EndsAreOwn'
      <4> SUFFICES ASSUME NEW s \in Openers, Emits(s)'
                   PROVE  OnlyBy(reader[s].out, reader[s].end)' /\ Gone(reader[s].end)' /\ Owed(reader[s].end)'
        BY DEF EndsAreOwn
      <4>1. s = r
        BY <1>2, <3>3 DEF Emits
      <4> QED BY <1>6, <3>2, <3>3, <4>1 DEF EndsNow, OnlyBy, Gone, Owed, Misled, Absent, Cmd, End
    <3> QED BY <3>1, <3>4 DEF Answers
  <2> QED BY <1>6, <2>1, <2>2 DEF EndsNow
<1>7. CASE /\ result' = result /\ cmdFut' = cmdFut
           /\ \A u \in Runners : fut'[u] = fut[u]
           /\ \E state : /\ reader' = [reader EXCEPT ![r] = state]
                         /\ state.pc # "emit" \/ state.end = None
  <2>1. ResultsAreFinal' /\ InstalledWaits' /\ ResultIsolation'
    BY <1>7, NothingAnswered
  <2> QED BY <1>3, <1>7, <2>1 DEF Answers
<1> QED BY <1>5, <1>6, <1>7, ReaderAnswers

(* Everything that follows from one reader, one holder of the lock and the *)
(* markers of the channel, together.                                       *)
AnswersInv == Served /\ Once /\ NewIsFresh /\ InstalledIsLast /\ BufferIsOwn /\ Answers

LEMMA AnswersInit == Init => AnswersInv
<1> SUFFICES ASSUME Init PROVE AnswersInv
  OBVIOUS
<1>1. /\ \A r \in Openers : ~Emits(r)
      /\ \A t \in Runners : fut[t] = "none" /\ result[t].of = None /\ t # None
  BY TasksAssumption DEF Init, Emits, Idle, Tasks
<1>2. EndsAreOwn /\ ResultsAreFinal /\ ResultIsolation
  BY <1>1 DEF EndsAreOwn, ResultsAreFinal, ResultIsolation
<1>3. InstalledWaits /\ InstalledIsLast /\ BufferIsOwn
  BY DEF Init, InstalledWaits, InstalledIsLast, BufferIsOwn
<1> QED BY <1>2, <1>3, ServedInit, KnownInit DEF AnswersInv, Answers

LEMMA AnswersNext ==
  ASSUME ~Overlap, IndInv, AnswersInv, [Next]_vars
  PROVE  AnswersInv'
<1> USE DEF AnswersInv
<1>1. TypeOK
  BY DEF IndInv
<1>2. Served' /\ Once' /\ NewIsFresh'
  BY <1>1, ServedNext, OnceNext, NewIsFreshNext
<1>3. InstalledIsLast' /\ BufferIsOwn'
  BY <1>1, <1>2, InstalledIsLastNext, BufferIsOwnNext
<1>4. Answers'
  BY <1>1, AnswersOfCalls, AnswersOfReader
<1> QED BY <1>2, <1>3, <1>4

(* If no two calls of open_shell and close_shell overlap, a command is     *)
(* answered with the output of one command only, and with another's only   *)
(* if that one was cancelled, closed or itself answered with another's: a  *)
(* command that got its own output answers nobody else                     *)
(* (_try_finish_command, asyncssh_runtime.py:188-247, 360-398).            *)
THEOREM ResultIsolationHolds ==
  ASSUME ~Overlap
  PROVE  Spec => []ResultIsolation
<1>1. IndInv /\ AnswersInv /\ [Next]_vars => AnswersInv'
  BY AnswersNext
<1>2. AnswersInv => ResultIsolation
  BY DEF AnswersInv, Answers
<1> QED BY <1>1, <1>2, AnswersInit, IndInvHolds, PTL DEF Spec

-----------------------------------------------------------------------------
(* Nothing that is installed without a probe loses output: what of it was  *)
(* read is in the buffer, what was not in the channel.                     *)

ProbesAreKnown == probeFut # None => fut[probeFut] # "none"
WholeInReader ==
  Unprobed => \A r \in Openers : Emits(r) => reader[r].out = AllOut(reader[r].end)
CompleteInv == ProbesAreKnown /\ WholeInChannel /\ WholeInBuffer /\ WholeInReader /\ CompleteOutput

(* A probe that was made stays known, and is installed only as such.       *)
LEMMA ProbesStep ==
  ASSUME TypeOK, ProbesAreKnown, [Next]_vars
  PROVE  /\ ProbesAreKnown'
         /\ Unprobed' => Unprobed
<1> USE DEF command, tasks, OnlyGoto
<1>1. /\ fut \in [Runners \cup Probers -> Outcome]
      /\ cmdFut \in Runners \cup {None} /\ probeFut \in Probers \cup {None}
      /\ None \notin Runners /\ None \notin Probers /\ Runners \cap Probers = {}
  BY TasksAssumption DEF TypeOK, Ref, Tasks
<1>2. ASSUME probeFut' \in {probeFut, None},
             \A q \in Probers : fut'[q] = fut[q] \/ (fut'[q] # "none")
      PROVE  ProbesAreKnown' /\ (Unprobed' => Unprobed)
  BY <1>1, <1>2 DEF ProbesAreKnown, Unprobed
<1>3. CASE \E t \in Runners : RunShellCommand(t)
  <2>1. probeFut' = probeFut /\ \A q \in Probers : fut'[q] = fut[q]
    BY <1>1, <1>3 DEF RunShellCommand, RunRefused, RunQueue, RunRejected, Submit, SubmitRaises, Install, RunWake
  <2> QED BY <1>2, <2>1
<1>4. ASSUME NEW q \in Probers, GetShellCwd(q) PROVE ProbesAreKnown' /\ (Unprobed' => Unprobed)
  <2>1. CASE ProbeRefused(q) \/ ProbeQueue(q) \/ ProbeRejected(q)
    BY <1>2, <2>1 DEF ProbeRefused, ProbeQueue, ProbeRejected
  <2>2. CASE ProbeSubmit(q) \/ ProbeSubmitRaises(q)
    BY <1>1, <2>2 DEF ProbeSubmit, ProbeSubmitRaises, InstallProbe, ProbesAreKnown, Unprobed
  <2>3. CASE ProbeWake(q)
    <3>1. probeFut' = None /\ (fut' = fut \/ fut' = [fut EXCEPT ![q] = "timeout"])
      BY <2>3 DEF ProbeWake
    <3> QED BY <1>1, <1>2, <3>1
  <2> QED BY <1>4, <2>1, <2>2, <2>3 DEF GetShellCwd
<1>5. CASE \E o \in Openers : OpenShell(o)
  BY <1>2, <1>5 DEF OpenShell, OpenRefused, OpenStart, OpenFinish, OpenWriteRaises, OpenFail
<1>6. ASSUME NEW futures, NEW why, Fail(futures, why), why # "none", probeFut' \in {probeFut, None}
      PROVE  ProbesAreKnown' /\ (Unprobed' => Unprobed)
  BY <1>1, <1>2, <1>6 DEF Fail
<1>7. CASE \E c \in Closers : CloseShell(c)
  BY <1>2, <1>6, <1>7 DEF CloseShell, CloseRefused, CloseStart, CloseJoinRaises, CloseExit, CloseExitRaises,
     CloseNoProcess, CloseFinish, ReaderJoined
<1>8. CASE Interrupt \/ SendToShell \/ UNCHANGED vars
  BY <1>2, <1>6, <1>8 DEF Interrupt, SendToShell, vars
<1>9. CASE \E r \in Openers : RemoteShell(r)
  BY <1>2, <1>9 DEF RemoteShell, RemoteBegins, RemotePrints, RemoteEnds, RemoteAnswers, RemoteConsumes,
     RemoteInterrupted, RemoteExits, RemoteDies, RemoteUnchanged
<1>10. ASSUME NEW r \in Openers, ReadShellLoop(r) PROVE ProbesAreKnown' /\ (Unprobed' => Unprobed)
  <2>1. probeFut' = probeFut
    BY <1>10, ReaderResolves
  <2>2. \A q \in Probers : fut'[q] = fut[q] \/ fut'[q] # "none"
    BY <1>1, <1>10 DEF ReadShellLoop, ReaderTurn, ReadTimeout, ReadEof, ReaderCancelled, EmitReturns, ReadChunk,
       ReadForProbe, ReadUnsolicited, ReadBeforeBegin, ReadOutput, ReadEnd, Resolve, OnlyReader
  <2> QED BY <1>2, <2>1, <2>2
<1> QED BY <1>3, <1>4, <1>5, <1>7, <1>8, <1>9, <1>10 DEF Next

LEMMA NoProbe ==
  ASSUME TypeOK, ProbesAreKnown, Unprobed
  PROVE  probeFut = None
BY DEF TypeOK, Ref, ProbesAreKnown, Unprobed

(* A process that runs at most t prints what t prints, or no output.       *)
LEMMA PrintsOwn ==
  ASSUME TypeOK, NEW t \in Runners, NEW p \in Openers, PrintedBy(p), Clean(p, t)
  PROVE  \E tok : /\ Added(stdout'[p], stdout[p], tok) /\ tok # Begin(t)
                  /\ tok = End(t) => fg[p] = t
                  /\ fg'[p] = t => fg[p] = t
                  /\ AllOut(t)' = AllOut(t) \cup (IF tok.kind = "out" THEN {tok} ELSE {})
<1>0. /\ None \notin Runners /\ fg \in [Openers -> Ref(Runners)] /\ printed \in [Runners -> Nat]
  BY ChannelTypes, TasksAssumption DEF Tasks
<1>1. \A u \in Runners : ~RemoteBegins(p, u)
  BY TakesLine, Tokens DEF RemoteBegins, Clean, NoCommands
<1>2. printed' = printed => AllOut(t)' = AllOut(t)
  BY DEF AllOut, Out
<1>3. ASSUME NEW u \in Runners, RemotePrints(p, u)
      PROVE  \E tok : /\ Added(stdout'[p], stdout[p], tok) /\ tok # Begin(t)
                      /\ tok = End(t) => fg[p] = t
                      /\ fg'[p] = t => fg[p] = t
                      /\ AllOut(t)' = AllOut(t) \cup (IF tok.kind = "out" THEN {tok} ELSE {})
  <2>1. u = t /\ fg' = fg /\ printed' = [printed EXCEPT ![t] = @ + 1] /\ Prints(p, Out(t, printed[t] + 1))
    BY <1>0, <1>3 DEF RemotePrints, Clean
  <2>2. printed[t] \in Nat /\ printed'[t] = printed[t] + 1
    BY <1>0, <2>1
  <2>3. Out(t, printed[t] + 1) \in Token /\ Out(t, printed[t] + 1).kind = "out"
        /\ Out(t, printed[t] + 1) # Begin(t) /\ Out(t, printed[t] + 1) # End(t)
    BY <2>2, Tokens, TokenType
  <2>4. AllOut(t)' = AllOut(t) \cup {Out(t, printed[t] + 1)}
    <3>1. AllOut(t)' = {Out(t, k) : k \in 1 .. printed[t] + 1}
      BY <2>2 DEF AllOut, Out
    <3>2. 1 .. printed[t] + 1 = (1 .. printed[t]) \cup {printed[t] + 1}
      BY <2>2
    <3> QED BY <3>1, <3>2 DEF AllOut
  <2> QED BY <2>1, <2>3, <2>4, PrintsAdds
<1>4. ASSUME NEW u \in Runners, RemoteEnds(p, u)
      PROVE  \E tok : /\ Added(stdout'[p], stdout[p], tok) /\ tok # Begin(t)
                      /\ tok = End(t) => fg[p] = t
                      /\ fg'[p] = t => fg[p] = t
                      /\ AllOut(t)' = AllOut(t) \cup (IF tok.kind = "out" THEN {tok} ELSE {})
  <2>1. u = t /\ fg[p] = t /\ printed' = printed /\ Prints(p, End(t))
    BY <1>0, <1>4 DEF RemoteEnds, Clean
  <2>2. End(t) \in Token /\ End(t).kind # "out" /\ End(t) # Begin(t)
    BY Tokens, TokenType
  <2> QED BY <1>2, <2>1, <2>2, PrintsAdds
<1>5. ASSUME NEW q \in Probers, RemoteAnswers(p, q)
      PROVE  \E tok : /\ Added(stdout'[p], stdout[p], tok) /\ tok # Begin(t)
                      /\ tok = End(t) => fg[p] = t
                      /\ fg'[p] = t => fg[p] = t
                      /\ AllOut(t)' = AllOut(t) \cup (IF tok.kind = "out" THEN {tok} ELSE {})
  <2>1. fg' = fg /\ printed' = printed /\ Prints(p, Pwd(q))
    BY <1>5 DEF RemoteAnswers
  <2>2. Pwd(q) \in Token /\ Pwd(q).kind # "out" /\ Pwd(q) # Begin(t) /\ Pwd(q) # End(t)
    BY Tokens, TokenType
  <2> QED BY <1>2, <2>1, <2>2, PrintsAdds
<1> QED BY <1>1, <1>3, <1>4, <1>5 DEF PrintedBy

(* A step of another process prints nothing of t.                          *)
LEMMA PrintsElsewhere ==
  ASSUME TypeOK, Once, NEW t \in Runners, NEW p \in Openers, NEW q \in Openers, p # q, PrintedBy(q), ~Over(p, t)
  PROVE  stdout'[p] = stdout[p] /\ fg'[p] = fg[p] /\ AllOut(t)' = AllOut(t)
<1>1. stdout'[p] = stdout[p] /\ fg'[p] = fg[p]
  BY ChannelTypes DEF PrintedBy, RemoteBegins, RemotePrints, RemoteEnds, RemoteAnswers, Prints
<1>2. fg[q] # t
  BY DEF Over, Once, RunsOnce
<1>3. printed'[t] = printed[t]
  BY <1>2, ChannelTypes DEF PrintedBy, RemoteBegins, RemotePrints, RemoteEnds, RemoteAnswers
<1> QED BY <1>1, <1>3 DEF AllOut, Out

(* What is printed by nobody.                                              *)
LEMMA OverStays ==
  ASSUME TypeOK, NEW t \in Runners, NEW p \in Openers, CutOf(stdout'[p], stdout[p]),
         fg'[p] \in {fg[p], None}, Over(p, t)
  PROVE  Over(p, t)'
<1>1. Absent(End(t), stdout'[p])
  BY ChannelTypes, CutAbsent DEF Over
<1> QED BY <1>1, TasksAssumption DEF Over, Absent, End, Tasks

WholeAt(t, p) ==
  ~Over(p, t) => \A i \in 1 .. Len(stdout[p]) : stdout[p][i] = Begin(t) =>
                   OutsBehind(stdout[p], i) = AllOut(t)

CutBehind(new, old, k) ==
  /\ Len(new) = Len(old) - k
  /\ \A j \in 1 .. Len(new) : new[j] = old[j + k]
  /\ \A i \in Nat : OutsBehind(new, i) = OutsBehind(old, i + k)

LEMMA CutsBehind ==
  ASSUME NEW new, NEW old, Len(old) \in Nat, CutOf(new, old)
  PROVE  \E k \in 0 .. Len(old) : CutBehind(new, old, k)
<1>1. PICK k \in 0 .. Len(old) : /\ Len(new) = Len(old) - k
                                 /\ \A j \in 1 .. Len(new) : new[j] = old[j + k]
  BY DEF CutOf
<1>2. ASSUME NEW i \in Nat PROVE OutsBehind(new, i) = OutsBehind(old, i + k)
  BY <1>1, OutsOfCut
<1>3. CutBehind(new, old, k)
  BY <1>1, <1>2 DEF CutBehind
<1> QED BY <1>3

LEMMA WholeAtTaken ==
  ASSUME TypeOK, Taken, NEW t \in Runners, NEW p \in Openers, WholeAt(t, p)
  PROVE  WholeAt(t, p)'
<1>1. AllOut(t)' = AllOut(t)
  BY DEF Taken, AllOut, Out
<1>2. CutOf(stdout'[p], stdout[p]) /\ fg'[p] \in {fg[p], None} /\ Len(stdout[p]) \in Nat
  BY ChannelTypes DEF Taken
<1>3. ASSUME ~Over(p, t)', NEW i \in 1 .. Len(stdout'[p]), stdout'[p][i] = Begin(t)
      PROVE  OutsBehind(stdout'[p], i) = AllOut(t)
  <2>1. ~Over(p, t)
    BY <1>2, <1>3, OverStays
  <2>2. PICK k \in 0 .. Len(stdout[p]) : CutBehind(stdout'[p], stdout[p], k)
    BY <1>2, CutsBehind
  <2>3. i \in Nat /\ i + k \in 1 .. Len(stdout[p]) /\ stdout[p][i + k] = Begin(t)
    <3>1. Len(stdout'[p]) = Len(stdout[p]) - k /\ stdout'[p][i] = stdout[p][i + k]
      BY <1>3, <2>2 DEF CutBehind
    <3>2. i \in Nat /\ i + k \in 1 .. Len(stdout[p])
      BY <1>2, <1>3, <3>1
    <3> QED BY <1>3, <3>1, <3>2
  <2>4. OutsBehind(stdout'[p], i) = OutsBehind(stdout[p], i + k)
    BY <2>2, <2>3 DEF CutBehind
  <2> QED BY <2>1, <2>3, <2>4 DEF WholeAt
<1> QED BY <1>1, <1>3 DEF WholeAt, OutsBehind, Begin

LEMMA WholeAtPrinted ==
  ASSUME TypeOK, Once, NEW t \in Runners, NEW p \in Openers, WholeAt(t, p), IsLast(t, p),
         NEW q \in Openers, PrintedBy(q)
  PROVE  WholeAt(t, p)'
<1> SUFFICES ASSUME ~Over(p, t)', NEW i \in 1 .. Len(stdout'[p]), stdout'[p][i] = Begin(t)
             PROVE  OutsBehind(stdout'[p], i) = AllOut(t)'
  BY DEF WholeAt, OutsBehind, Begin
<1>1. CASE p # q
  <2>1. stdout'[p] = stdout[p] /\ fg'[p] = fg[p]
    BY <1>1, ChannelTypes DEF PrintedBy, RemoteBegins, RemotePrints, RemoteEnds, RemoteAnswers, Prints
  <2>2. ~Over(p, t)
    BY <2>1 DEF Over, Absent, End
  <2> QED BY <1>1, <2>1, <2>2, PrintsElsewhere DEF WholeAt
<1>2. CASE p = q /\ \E j \in 1 .. Len(stdout[p]) : stdout[p][j] = Begin(t)
  <2>1. Clean(p, t)
    BY <1>2 DEF IsLast
  <2>2. PICK tok : /\ Added(stdout'[p], stdout[p], tok) /\ tok # Begin(t)
                   /\ tok = End(t) => fg[p] = t
                   /\ fg'[p] = t => fg[p] = t
                   /\ AllOut(t)' = AllOut(t) \cup (IF tok.kind = "out" THEN {tok} ELSE {})
    BY <1>2, <2>1, PrintsOwn
  <2>3. ~Over(p, t)
    <3>1. fg'[p] = t \/ ~Absent(End(t), stdout'[p])
      BY DEF Over, Absent, End
    <3> QED BY <2>2, <3>1, AddedAbsent DEF Over
  <2>4. i \in 1 .. Len(stdout[p]) /\ stdout[p][i] = Begin(t)
    BY <2>2, AddedElements
  <2>5. i \in 0 .. Len(stdout[p])
    BY <2>4
  <2>6. OutsBehind(stdout'[p], i) = OutsBehind(stdout[p], i) \cup (IF tok.kind = "out" THEN {tok} ELSE {})
    BY <2>2, <2>5, OutsOfAdded
  <2> QED BY <2>2, <2>3, <2>4, <2>6 DEF WholeAt
<1>3. CASE p = q /\ Absent(Begin(t), stdout[p])
  <2>1. PICK tok \in Token : Prints(p, tok) /\ (tok = Begin(t) => RemoteBegins(p, t))
    <3>1. ASSUME NEW u \in Runners, RemoteBegins(p, u)
          PROVE  \E tok \in Token : Prints(p, tok) /\ (tok = Begin(t) => RemoteBegins(p, t))
      BY <3>1, Tokens, TokenType DEF RemoteBegins
    <3>2. ASSUME NEW u \in Runners, RemotePrints(p, u)
          PROVE  \E tok \in Token : Prints(p, tok) /\ (tok = Begin(t) => RemoteBegins(p, t))
      <4>1. printed[u] + 1 \in Nat /\ Prints(p, Out(u, printed[u] + 1))
        BY <3>2, ChannelTypes DEF RemotePrints
      <4>2. Out(u, printed[u] + 1) \in Token /\ Out(u, printed[u] + 1) # Begin(t)
        BY <4>1, Tokens, TokenType
      <4> QED BY <4>1, <4>2
    <3>3. ASSUME NEW u \in Runners, RemoteEnds(p, u)
          PROVE  \E tok \in Token : Prints(p, tok) /\ (tok = Begin(t) => RemoteBegins(p, t))
      BY <3>3, Tokens, TokenType DEF RemoteEnds
    <3>4. ASSUME NEW u \in Probers, RemoteAnswers(p, u)
          PROVE  \E tok \in Token : Prints(p, tok) /\ (tok = Begin(t) => RemoteBegins(p, t))
      BY <3>4, Tokens, TokenType DEF RemoteAnswers
    <3> QED BY <1>3, <3>1, <3>2, <3>3, <3>4 DEF PrintedBy
  <2>2. Added(stdout'[p], stdout[p], tok)
    BY <2>1, PrintsAdds
  <2>3. i = Len(stdout[p]) + 1 /\ tok = Begin(t)
    BY <1>3, <2>2, AddedElements DEF Absent
  <2>4. RemoteBegins(p, t)
    BY <2>1, <2>3
  <2>5. printed[t] = 0 /\ printed' = printed
    BY <2>4, TakesLine DEF RemoteBegins, Once, SentOnce
  <2>6. AllOut(t)' = {}
    BY <2>5 DEF AllOut
  <2>7. \A j \in 1 .. Len(stdout'[p]) : ~(j > i)
    BY <2>2, <2>3 DEF Added
  <2>8. OutsBehind(stdout'[p], i) = {}
    BY <2>7 DEF OutsBehind
  <2> QED BY <2>6, <2>8
<1> QED BY <1>1, <1>2, <1>3 DEF Absent

LEMMA WholeInChannelNext ==
  ASSUME TypeOK, Served, Once, NewIsFresh, InstalledIsLast, ProbesAreKnown, WholeInChannel, [Next]_vars
  PROVE  WholeInChannel'
<1> SUFFICES ASSUME Unprobed', cmdFut' # None, NEW p \in Openers
             PROVE  WholeAt(cmdFut, p)'
  BY DEF WholeInChannel, WholeAt, OutsBehind, Over, AllOut, Absent, Begin, End, Out
<1>0. Unprobed
  BY ProbesStep
<1>1. CASE cmdFut' = cmdFut
  <2>1. PICK t \in Runners : t = cmdFut
    BY <1>1 DEF TypeOK, Ref
  <2>2. WholeAt(t, p) /\ IsLast(t, p)
    BY <1>0, <1>1, <2>1 DEF WholeInChannel, WholeAt, InstalledIsLast
  <2>3. Taken => WholeAt(t, p)'
    BY <2>2, WholeAtTaken
  <2>4. ASSUME NEW q \in Openers, PrintedBy(q) PROVE WholeAt(t, p)'
    BY <2>2, <2>4, WholeAtPrinted
  <2>5. ASSUME NEW line, Written(line) PROVE WholeAt(t, p)'
    BY <2>2, <2>5 DEF Written, WholeAt, OutsBehind, Over, AllOut, Absent, Begin, End, Out
  <2>6. UNCHANGED vars => Taken
    BY TakenSame DEF vars, remote
  <2>7. WholeAt(t, p)'
    BY <2>3, <2>4, <2>5, <2>6, ChannelOfReader, ChannelOfRemote, ChannelOfCalls
  <2> QED BY <1>1, <2>1, <2>7 DEF WholeAt, OutsBehind, Over, AllOut, Absent, Begin, End, Out
<1>2. CASE cmdFut' # cmdFut
  <2>1. PICK t \in Runners : (Submit(t) \/ SubmitRaises(t)) /\ cmdFut' = t
    BY <1>2, InstallSteps
  <2>2. Fresh(t) /\ stdout' = stdout
    BY <2>1, SubmitsNew DEF Submit, SubmitRaises, Install
  <2>3. \A i \in 1 .. Len(stdout'[p]) : stdout'[p][i] # Begin(t)
    BY <2>2, Tokens DEF Fresh, Lacks
  <2> QED BY <2>1, <2>3 DEF WholeAt, Begin
<1> QED BY <1>1, <1>2

(* What a step in which nobody reads does to the buffer and the channel.   *)
LEMMA NotRead ==
  ASSUME TypeOK, Served, BufferIsOwn, [Next]_vars, ~(\E r \in Openers : ReadShellLoop(r)), started'
  PROVE  /\ started /\ cmdFut' = cmdFut /\ readerTask' = readerTask /\ Kept' = Kept
         /\ \/ UNCHANGED <<stdout, printed>> /\ \A p \in Openers : fg'[p] \in {fg[p], None}
            \/ \E q \in Openers : PrintedBy(q)
<1> USE DEF session, command, tasks, joining, remote, OnlyGoto
<1> DEFINE Keeps == UNCHANGED <<started, cmdFut, readerTask, cancelled, reader, cmdBuf>>
           Still == UNCHANGED <<stdout, printed>> /\ \A p \in Openers : fg'[p] \in {fg[p], None}
<1>1. started' = started => interactive
  BY DEF BufferIsOwn
<1>2. CASE \E t \in Runners : RunShellCommand(t)
  BY <1>2, KeptSame DEF RunShellCommand, RunRefused, RunQueue, RunRejected, Submit, SubmitRaises, Install,
     RunWake, ResetCommandState
<1>3. CASE \E q \in Probers : GetShellCwd(q)
  BY <1>3, KeptSame DEF GetShellCwd, ProbeRefused, ProbeQueue, ProbeRejected, ProbeSubmit, ProbeSubmitRaises,
     InstallProbe, ProbeWake
<1>4. CASE \E o \in Openers : OpenShell(o)
  BY <1>1, <1>4, KeptSame DEF OpenShell, OpenRefused, OpenStart, OpenFinish, OpenWriteRaises, OpenFail, Served, OpenersWait
<1>5. CASE \E c \in Closers : CloseShell(c)
  BY <1>1, <1>5, KeptSame DEF CloseShell, CloseRefused, CloseStart, CloseJoinRaises, CloseExit, CloseExitRaises,
     CloseNoProcess, CloseFinish, ReaderJoined, ResetCommandState, Served, ClosersWait
<1>6. CASE Interrupt \/ SendToShell \/ UNCHANGED vars
  BY <1>6, KeptSame DEF Interrupt, SendToShell, vars, ResetCommandState
<1>7. CASE \E r \in Openers : RemoteShell(r)
  <2>1. Keeps
    BY <1>7 DEF RemoteShell, RemoteBegins, RemotePrints, RemoteEnds, RemoteAnswers, RemoteConsumes,
       RemoteInterrupted, RemoteExits, RemoteDies, RemoteUnchanged
  <2>2. Still \/ \E q \in Openers : PrintedBy(q)
    BY <1>7, ChannelTypes DEF RemoteShell, PrintedBy, RemoteConsumes, RemoteInterrupted, RemoteExits, RemoteDies,
       RemoteUnchanged
  <2> QED BY <2>1, <2>2, KeptSame
<1> QED BY <1>2, <1>3, <1>4, <1>5, <1>6, <1>7 DEF Next

LEMMA WholeBufferOfOthers ==
  ASSUME TypeOK, Served, Once, BufferIsOwn, WholeInBuffer, Unprobed, [Next]_vars,
         ~(\E r \in Openers : ReadShellLoop(r)), started', ~Over(readerTask, cmdFut)'
  PROVE  (Outputs(Kept) \cup Outputs(stdout[readerTask]))' = AllOut(cmdFut)'
<1>1. /\ started /\ cmdFut' = cmdFut /\ readerTask' = readerTask /\ Kept' = Kept
      /\ \/ UNCHANGED <<stdout, printed>> /\ \A p \in Openers : fg'[p] \in {fg[p], None}
         \/ \E q \in Openers : PrintedBy(q)
  BY NotRead
<1>2. cmdFut \in Runners /\ readerTask \in Openers
  BY <1>1 DEF BufferIsOwn, TypeOK, Ref, Served, ShellIsServed
<1>3. PICK t \in Runners : t = cmdFut
  BY <1>2
<1>4. PICK p \in Openers : p = readerTask
  BY <1>2
<1>5. ~Over(p, t)'
  BY <1>1, <1>3, <1>4 DEF Over, Absent, End
<1>6. ~Over(p, t) => Outputs(Kept) \cup Outputs(stdout[p]) = AllOut(t)
  BY <1>1, <1>3, <1>4 DEF WholeInBuffer
<1>7. OwnChannel(t, p)
  BY <1>1, <1>3, <1>4 DEF BufferIsOwn
<1>8. Outputs(Kept) \cup Outputs(stdout'[p]) = AllOut(t)'
  <2>1. CASE UNCHANGED <<stdout, printed>> /\ \A q \in Openers : fg'[q] \in {fg[q], None}
    <3>1. AllOut(t)' = AllOut(t) /\ ~Over(p, t)
      BY <1>5, <2>1, TasksAssumption DEF AllOut, Over, Absent, Out, End, Tasks
    <3> QED BY <1>6, <2>1, <3>1
  <2>2. ASSUME NEW q \in Openers, PrintedBy(q), p # q PROVE Outputs(Kept) \cup Outputs(stdout'[p]) = AllOut(t)'
    <3>1. stdout'[p] = stdout[p] /\ fg'[p] = fg[p]
      BY <2>2, ChannelTypes DEF PrintedBy, RemoteBegins, RemotePrints, RemoteEnds, RemoteAnswers, Prints
    <3>2. ~Over(p, t)
      BY <1>5, <3>1 DEF Over, Absent, End
    <3> QED BY <1>6, <2>2, <3>1, <3>2, PrintsElsewhere
  <2>3. CASE PrintedBy(p)
    <3>1. PICK tok : /\ Added(stdout'[p], stdout[p], tok) /\ tok # Begin(t)
                     /\ tok = End(t) => fg[p] = t
                     /\ fg'[p] = t => fg[p] = t
                     /\ AllOut(t)' = AllOut(t) \cup (IF tok.kind = "out" THEN {tok} ELSE {})
      BY <1>7, <2>3, PrintsOwn DEF OwnChannel
    <3>2. ~Over(p, t)
      <4>1. fg'[p] = t \/ ~Absent(End(t), stdout'[p])
        BY <1>5 DEF Over, Absent, End
      <4> QED BY <3>1, <4>1, AddedAbsent DEF Over
    <3>3. Outputs(stdout'[p]) = Outputs(stdout[p]) \cup (IF tok.kind = "out" THEN {tok} ELSE {})
      <4>1. 0 \in 0 .. Len(stdout[p])
        BY ChannelTypes
      <4> QED BY <3>1, <4>1, OutsOfAdded, OutputsAreBehind
    <3> QED BY <1>6, <3>1, <3>2, <3>3
  <2> QED BY <1>1, <2>1, <2>2, <2>3
<1> QED BY <1>1, <1>3, <1>4, <1>8 DEF Outputs, AllOut, Out

(* What the reader's step does to them.                                    *)
LEMMA ReaderKeeps ==
  ASSUME TypeOK, Served, BufferIsOwn, NEW r \in Openers, ReadShellLoop(r), started'
  PROVE  /\ UNCHANGED <<cmdFut, readerTask, printed, fg>>
         /\ \/ UNCHANGED <<started, stdout>> /\ Kept' = Kept
            \/ \E n \in 1 .. Len(stdout[r]) :
                 /\ r = readerTask /\ Kept = cmdBuf /\ Chunked(r, n)
                 /\ \/ TakesProbe(r, n) \/ FindsEnd(r, n)
                    \/ \E norm : Behind(r, n, norm) /\ Kept' = norm
<1> USE DEF OnlyReader, remote, session, joining, command
<1>1. /\ Live(r) /\ UNCHANGED <<interactive, readerTask, cancelled, cmdFut>>
      /\ started' = started => interactive
  BY ReaderStep, ReaderResolves DEF BufferIsOwn
<1>2. CASE reader[r].pc = "read" /\ \E n \in 1 .. Len(stdout[reader[r].src]) : ReadChunk(r, n)
  <2>1. PICK n \in 1 .. Len(stdout[reader[r].src]) : ReadChunk(r, n)
    BY <1>2
  <2>2. /\ Chunked(r, n)
        /\ \/ TakesProbe(r, n) \/ Suppresses(r, n) \/ SeesNoBegin(r, n)
           \/ StreamsOutput(r, n) \/ FindsEnd(r, n)
    BY <1>2, <2>1, ChunkCases
  <2>3. /\ n \in 1 .. Len(stdout[r]) /\ r \notin cancelled /\ UNCHANGED <<printed, fg>>
        /\ r = readerTask /\ Kept = cmdBuf
    BY <1>1, <2>2, KeptByReader DEF Chunked, Streams, Runs
  <2>4. ~Suppresses(r, n) /\ ~SeesNoBegin(r, n)
    BY DEF Suppresses, SeesNoBegin, BufferIsOwn
  <2>5. CASE StreamsOutput(r, n)
    <3>1. PICK norm \in Seq(Token) :
            /\ Behind(r, n, norm)
            /\ \/ reader' = [reader EXCEPT ![r] = Emitting(None, norm, {})]
               \/ cmdBuf' = norm /\ LoopsOn(r)
      BY <2>5 DEF StreamsOutput
    <3>2. Emitting(None, norm, {}).pc = "emit" /\ Emitting(None, norm, {}).end = None
          /\ Emitting(None, norm, {}).buf = norm /\ Idle("loop").pc # "emit"
      BY DEF Emitting, Idle
    <3>3. Kept' = norm
      BY <1>1, <2>3, <3>1, <3>2, KeptByReader DEF LoopsOn
    <3> QED BY <1>1, <2>2, <2>3, <3>1, <3>3
  <2> QED BY <1>1, <2>2, <2>3, <2>4, <2>5
<1>3. CASE EmitReturns(r)
  <2>1. /\ UNCHANGED <<started, stdout, printed, fg>> /\ r \notin cancelled /\ LoopsOn(r)
        /\ IF reader[r].end = None THEN cmdBuf' = reader[r].buf ELSE cmdBuf' = cmdBuf
        /\ Streams(r) <=> reader[r].end = None
    BY <1>3 DEF EmitReturns, Runs, Streams, BackToLoop, SetReader, LoopsOn
  <2>2. Idle("loop").pc # "emit"
    BY DEF Idle
  <2>3. Kept' = Kept
    BY <1>1, <2>1, <2>2, KeptByReader DEF LoopsOn
  <2> QED BY <1>1, <2>1, <2>3
<1>4. CASE ReaderTurn(r) \/ ReadTimeout(r) \/ ReadEof(r)
  <2>1. UNCHANGED <<cmdBuf, started, stdout, printed, fg>> /\ ~Streams(r) /\ r \notin cancelled
    BY <1>4 DEF ReaderTurn, ReadTimeout, ReadEof, Streams, Runs
  <2>2. \E state : reader' = [reader EXCEPT ![r] = state] /\ state.pc # "emit"
    <3>1. Reading(process).pc # "emit" /\ \A w \in {"ended", "failed", "loop"} : Idle(w).pc # "emit"
      BY DEF Reading, Idle
    <3>2. \/ SetReader(r, Reading(process))
          \/ \E w \in {"ended", "failed", "loop"} : SetReader(r, Idle(w))
      BY <1>4 DEF ReaderTurn, ReadTimeout, ReadEof, BackToLoop
    <3> QED BY <3>1, <3>2 DEF SetReader
  <2>3. Kept' = Kept
    BY <1>1, <2>1, <2>2, KeptByReader
  <2> QED BY <1>1, <2>1, <2>3
<1>5. CASE ReaderCancelled(r)
  <2>1. r \in cancelled /\ started' = started /\ r = readerTask
    BY <1>1, <1>5 DEF ReaderCancelled, Served, ReaderIsCurrent
  <2> QED BY <1>1, <2>1 DEF Served, ShellIsServed
<1> QED BY <1>2, <1>3, <1>4, <1>5 DEF ReadShellLoop

LEMMA FromBehind ==
  ASSUME NEW s \in Seq(Token), NEW n \in 0 .. Len(s)
  PROVE  Outputs(From(s, n + 1)) = OutsBehind(s, n)
<1> DEFINE new == From(s, n + 1)
<1>1. /\ Len(s) \in Nat /\ Len(new) = Len(s) - n
      /\ \A j \in 1 .. Len(new) : new[j] = s[j + n]
  BY LenProperties, CutFrom
<1> HIDE DEF new
<1>2. OutsBehind(new, 0) = OutsBehind(s, 0 + n)
  BY <1>1, OutsOfCut
<1>3. 0 + n = n
  BY <1>1
<1> QED BY <1>2, <1>3, OutputsAreBehind DEF new

LEMMA WholeBufferOfReader ==
  ASSUME TypeOK, Served, Once, InstalledIsLast, BufferIsOwn, ProbesAreKnown, WholeInChannel, WholeInBuffer,
         Unprobed, NEW r \in Openers, ReadShellLoop(r), started', ~Over(readerTask, cmdFut)'
  PROVE  (Outputs(Kept) \cup Outputs(stdout[readerTask]))' = AllOut(cmdFut)'
<1>1. /\ UNCHANGED <<cmdFut, readerTask, printed, fg>>
      /\ \/ UNCHANGED <<started, stdout>> /\ Kept' = Kept
         \/ \E n \in 1 .. Len(stdout[r]) :
              /\ r = readerTask /\ Kept = cmdBuf /\ Chunked(r, n)
              /\ \/ TakesProbe(r, n) \/ FindsEnd(r, n)
                 \/ \E norm : Behind(r, n, norm) /\ Kept' = norm
  BY ReaderKeeps
<1>2. PICK t \in Runners : t = cmdFut
  <2>1. BufferIsOwn'
    BY BufferOfReader
  <2> QED BY <1>1, <2>1 DEF BufferIsOwn, TypeOK, Ref
<1>3. AllOut(cmdFut)' = AllOut(t)
  BY <1>1, <1>2 DEF AllOut, Out
<1>4. CASE UNCHANGED <<started, stdout>> /\ Kept' = Kept
  <2>1. ~Over(readerTask, cmdFut)
    BY <1>1, <1>4 DEF Over, Absent, End
  <2> QED BY <1>1, <1>2, <1>3, <1>4, <2>1 DEF WholeInBuffer, Outputs
<1>5. ASSUME NEW n \in 1 .. Len(stdout[r]), r = readerTask, Kept = cmdBuf, Chunked(r, n),
             TakesProbe(r, n) \/ FindsEnd(r, n)
      PROVE  FALSE
  <2>1. CASE TakesProbe(r, n)
    BY <2>1, NoProbe DEF TakesProbe
  <2>2. CASE FindsEnd(r, n)
    <3>1. PICK u \in Runners : \E out : EndsNow(r, u, out)
      BY <1>5, <2>2, FindsEndNow
    <3>2. u = t /\ Gone(u)'
      BY <1>2, <3>1 DEF EndsNow
    <3>3. Over(readerTask, cmdFut)'
      BY <1>1, <1>2, <1>5, <3>2 DEF Gone, Over, Absent, End, Cmd
    <3> QED BY <3>3
  <2> QED BY <1>5, <2>1, <2>2
<1>6. ASSUME NEW n \in 1 .. Len(stdout[r]), r = readerTask, Kept = cmdBuf, Chunked(r, n),
             NEW norm, Behind(r, n, norm), Kept' = norm
      PROVE  (Outputs(Kept) \cup Outputs(stdout[readerTask]))' = AllOut(cmdFut)'
  <2>1. /\ stdout' = [stdout EXCEPT ![r] = From(@, n + 1)] /\ stdout \in [Openers -> Seq(Token)]
        /\ stdout[r] \in Seq(Token) /\ Len(stdout[r]) \in Nat
    BY <1>6, ChannelTypes DEF Chunked
  <2>2. n \in 0 .. Len(stdout[r]) /\ stdout'[r] = From(stdout[r], n + 1)
    BY <2>1
  <2>3. CutOf(stdout'[r], stdout[r])
    BY <2>1, <2>2, CutOfFrom
  <2>4. ~Over(r, t)
    <3>1. ~Over(r, t)'
      BY <1>1, <1>2, <1>6 DEF Over, Absent, End
    <3> QED BY <1>1, <2>3, <3>1, OverStays
  <2>5. Outputs(norm) \cup OutsBehind(stdout[r], n) = AllOut(t)
    BY <1>2, <1>6, <2>4, ChunkIsWhole
  <2>6. Outputs(stdout'[r]) = OutsBehind(stdout[r], n)
    BY <2>1, <2>2, FromBehind
  <2> QED BY <1>1, <1>3, <1>6, <2>5, <2>6 DEF Outputs
<1> QED BY <1>1, <1>4, <1>5, <1>6

LEMMA WholeInBufferNext ==
  ASSUME TypeOK, Served, Once, InstalledIsLast, BufferIsOwn, ProbesAreKnown, WholeInChannel, WholeInBuffer,
         [Next]_vars
  PROVE  WholeInBuffer'
<1> SUFFICES ASSUME Unprobed', started', ~Over(readerTask, cmdFut)'
             PROVE  (Outputs(Kept) \cup Outputs(stdout[readerTask]))' = AllOut(cmdFut)'
  BY DEF WholeInBuffer
<1>1. Unprobed
  BY ProbesStep
<1> QED BY <1>1, WholeBufferOfOthers, WholeBufferOfReader

LEMMA ReaderPrintsNothing ==
  ASSUME TypeOK, NEW r \in Openers, ReadShellLoop(r)
  PROVE  printed' = printed
BY DEF ReadShellLoop, ReaderTurn, ReadTimeout, ReadEof, ReaderCancelled, EmitReturns, ReadChunk, OnlyReader,
   ReadForProbe, ReadUnsolicited, ReadBeforeBegin, ReadOutput, ReadEnd, ReadForCommand, Chunk, remote

(* What a command that is gone has printed does not change.                *)
LEMMA GonePrintsNothing ==
  ASSUME TypeOK, [Next]_vars, NEW t \in Runners, Gone(t)
  PROVE  AllOut(t)' = AllOut(t)
<1>1. \A p \in Openers : fg[p] # t
  BY DEF Gone
<1>2. Taken \/ (\E line : Written(line)) => printed' = printed
  BY DEF Taken, Written
<1>3. ASSUME NEW q \in Openers, RemoteShell(q) PROVE printed'[t] = printed[t]
  BY <1>1, <1>3, ChannelTypes DEF RemoteShell, RemoteBegins, RemotePrints, RemoteEnds, RemoteAnswers,
     RemoteConsumes, RemoteInterrupted, RemoteExits, RemoteDies
<1>4. ASSUME NEW r \in Openers, ReadShellLoop(r) PROVE printed' = printed
  BY <1>4, ReaderPrintsNothing
<1>5. UNCHANGED vars => printed' = printed
  BY DEF vars, remote
<1>6. printed'[t] = printed[t]
  BY <1>2, <1>3, <1>4, <1>5, ChannelOfCalls
<1> QED BY <1>6 DEF AllOut, Out

LEMMA WholeInReaderNext ==
  ASSUME IndInv, AnswersInv, ProbesAreKnown, WholeInChannel, WholeInBuffer, WholeInReader, [Next]_vars
  PROVE  WholeInReader'
<1> USE DEF AnswersInv
<1>1. /\ TypeOK /\ None \notin Runners
      /\ reader \in [Openers -> ReaderState]
  BY TasksAssumption DEF IndInv, TypeOK, Tasks
<1> SUFFICES ASSUME Unprobed', NEW r \in Openers, Emits(r)'
             PROVE  reader'[r].out = AllOut(reader[r].end)'
  BY DEF WholeInReader
<1>2. Unprobed
  BY <1>1, ProbesStep
<1>3. ASSUME reader'[r] = reader[r]
      PROVE  reader'[r].out = AllOut(reader[r].end)'
  <2>1. Emits(r)
    BY <1>3 DEF Emits
  <2>2. PICK c \in Runners : c = reader[r].end
    BY <1>1, <2>1 DEF Emits, ReaderState, Ref
  <2>3. Gone(c) /\ reader[r].out = AllOut(c)
    BY <1>2, <2>1, <2>2 DEF Answers, EndsAreOwn, WholeInReader
  <2>4. AllOut(c)' = AllOut(c)
    BY <1>1, <2>3, GonePrintsNothing
  <2> QED BY <1>3, <2>2, <2>3, <2>4 DEF AllOut, Out
<1>4. CASE ~(\E s \in Openers : ReadShellLoop(s))
  <2>1. reader'[r] = reader[r] \/ reader'[r].pc = "start"
    BY <1>1, <1>4, FuturesOfCalls
  <2> QED BY <1>3, <2>1 DEF Emits
<1>5. ASSUME NEW s \in Openers, ReadShellLoop(s) PROVE reader'[r].out = AllOut(reader[r].end)'
  <2>1. Idle("loop").pc # "emit"
    BY DEF Idle
  <2>2. CASE r # s
    <3>1. reader'[r] = reader[r]
      BY <1>1, <1>5, <2>2, ReaderStep
    <3> QED BY <1>3, <3>1
  <2>3. CASE r = s /\ \E t \in Runners : \E out : EndsNow(s, t, out)
    <3>1. PICK t \in Runners : \E out : EndsNow(s, t, out)
      BY <2>3
    <3>2. PICK out : EndsNow(s, t, out)
      BY <3>1
    <3>3. reader' = [reader EXCEPT ![r] = Emitting(t, <<>>, out)] /\ out = AllOut(t)
      BY <1>1, <1>2, <2>1, <2>3, <3>2 DEF EndsNow, LoopsOn, Emits
    <3>4. reader'[r].end = t /\ reader'[r].out = out
      BY <1>1, <3>3 DEF Emitting
    <3>5. printed' = printed
      BY <1>1, <1>5, ReaderPrintsNothing
    <3> QED BY <3>3, <3>4, <3>5 DEF AllOut, Out
  <2>4. CASE r = s /\ ~(\E t \in Runners : \E out : EndsNow(s, t, out))
    <3>1. \/ LoopsOn(r)
          \/ \E state : reader' = [reader EXCEPT ![r] = state] /\ (state.pc # "emit" \/ state.end = None)
      BY <1>1, <1>5, <2>4, ReaderAnswers
    <3>2. ~(reader'[r].pc = "emit" /\ reader'[r].end # None)
      BY <1>1, <2>1, <3>1 DEF LoopsOn
    <3> QED BY <3>2 DEF Emits
  <2> QED BY <2>2, <2>3, <2>4
<1> QED BY <1>4, <1>5

LEMMA CompleteOutputNext ==
  ASSUME IndInv, AnswersInv, CompleteInv, [Next]_vars
  PROVE  CompleteOutput'
<1> USE DEF AnswersInv, CompleteInv
<1>1. /\ TypeOK /\ None \notin Runners
      /\ reader \in [Openers -> ReaderState]
      /\ result \in [Runners -> [of : Ref(Runners), out : SUBSET Token]]
  BY TasksAssumption DEF IndInv, TypeOK, Tasks
<1> SUFFICES ASSUME Unprobed', NEW t \in Runners, result'[t].of = t
             PROVE  result'[t].out = AllOut(t)'
  BY DEF CompleteOutput, Unprobed, AllOut, Out
<1>2. Unprobed
  BY <1>1, ProbesStep
<1>3. ASSUME result'[t] = result[t] PROVE result'[t].out = AllOut(t)'
  <2>1. Gone(t) /\ result[t].out = AllOut(t)
    BY <1>2, <1>3 DEF Answers, ResultsAreFinal, CompleteOutput, Unprobed, AllOut
  <2> QED BY <1>1, <1>3, <2>1, GonePrintsNothing
<1>4. CASE ~(\E s \in Openers : ReadShellLoop(s))
  BY <1>1, <1>3, <1>4, FuturesOfCalls
<1>5. ASSUME NEW s \in Openers, ReadShellLoop(s) PROVE result'[t].out = AllOut(t)'
  <2>1. printed' = printed
    BY <1>1, <1>5, ReaderPrintsNothing
  <2>2. AllOut(t)' = AllOut(t)
    BY <2>1 DEF AllOut, Out
  <2>3. ASSUME NEW c, NEW out, Resolve(c, out), c = t => out = AllOut(t)
        PROVE  result'[t].out = AllOut(t)'
    <3>1. result'[t] = result[t] \/ result'[t] = [of |-> c, out |-> out]
      BY <1>1, <2>3 DEF Resolve
    <3> QED BY <1>3, <2>2, <2>3, <3>1
  <2>4. CASE Emits(s) /\ Resolve(reader[s].end, reader[s].out)
    BY <1>2, <2>3, <2>4 DEF WholeInReader
  <2>5. ASSUME NEW u \in Runners, NEW out, EndsNow(s, u, out) PROVE result'[t].out = AllOut(t)'
    BY <1>2, <1>3, <2>3, <2>5 DEF EndsNow
  <2>6. CASE result' = result
    BY <1>3, <2>6
  <2> QED BY <1>1, <1>5, <2>4, <2>5, <2>6, ReaderAnswers
<1> QED BY <1>4, <1>5

LEMMA CompleteInit == Init => CompleteInv
<1> SUFFICES ASSUME Init PROVE CompleteInv
  OBVIOUS
<1>1. /\ \A r \in Openers : ~Emits(r)
      /\ \A t \in Runners : result[t].of # t
  BY TasksAssumption DEF Init, Emits, Idle, Tasks
<1> QED BY <1>1 DEF CompleteInv, ProbesAreKnown, WholeInChannel, WholeInBuffer, WholeInReader, CompleteOutput, Init

LEMMA CompleteNext ==
  ASSUME IndInv, AnswersInv, CompleteInv, [Next]_vars
  PROVE  CompleteInv'
<1>1. TypeOK /\ ProbesAreKnown' /\ CompleteOutput'
  BY CompleteOutputNext, ProbesStep DEF IndInv, CompleteInv
<1>2. WholeInChannel'
  BY <1>1, WholeInChannelNext DEF AnswersInv, CompleteInv
<1>3. WholeInBuffer'
  BY <1>1, WholeInBufferNext DEF AnswersInv, CompleteInv
<1>4. WholeInReader'
  BY WholeInReaderNext DEF CompleteInv
<1> QED BY <1>1, <1>2, <1>3, <1>4 DEF CompleteInv

(* If no two calls of open_shell and close_shell overlap and no probe was  *)
(* made, a command that is answered with its own output is answered with   *)
(* all of it, wherever the stream is cut into chunks and whatever is typed *)
(* meanwhile (_read_shell_loop, _try_finish_command,                       *)
(* asyncssh_runtime.py:163-247).                                           *)
THEOREM CompleteOutputHolds ==
  ASSUME ~Overlap
  PROVE  Spec => []CompleteOutput
<1>1. IndInv /\ AnswersInv /\ [Next]_vars => AnswersInv'
  BY AnswersNext
<1>2. IndInv /\ AnswersInv /\ CompleteInv /\ [Next]_vars => CompleteInv'
  BY CompleteNext
<1>3. CompleteInv => CompleteOutput
  BY DEF CompleteInv
<1> QED BY <1>1, <1>2, <1>3, AnswersInit, CompleteInit, IndInvHolds, PTL DEF Spec
=============================================================================
