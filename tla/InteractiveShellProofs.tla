----------------------- MODULE InteractiveShellProofs -----------------------
(***************************************************************************)
(* Theorems of InteractiveShell, for any sets of tasks and any bounds.     *)
(***************************************************************************)
EXTENDS InteractiveShell, SequenceTheorems, TLAPS

(* Cutting a sequence keeps its elements (what a chunk, a marker's tail, a *)
(* flushed terminal line leave of a buffer).                               *)
LEMMA CutType ==
  ASSUME NEW S, NEW s \in Seq(S), NEW i \in Nat
  PROVE  From(s, i + 1) \in Seq(S)
<1>1. Len(s) \in Nat
  BY LenProperties
<1>2. \A k \in (i + 1) .. Len(s) : s[k] \in S
  <2>1. \A k \in (i + 1) .. Len(s) : k \in 1 .. Len(s)
    BY <1>1, SMT
  <2> QED BY <2>1, ElementOfSeq
<1>3. SubSeq(s, i + 1, Len(s)) \in Seq(S)
  BY <1>1, <1>2, SubSeqProperties
<1> QED BY <1>3 DEF From

LEMMA PrefixType ==
  ASSUME NEW S, NEW s \in Seq(S), NEW n \in Nat, n <= Len(s)
  PROVE  SubSeq(s, 1, n) \in Seq(S)
<1>1. Len(s) \in Nat
  BY LenProperties
<1>2. \A k \in 1 .. n : s[k] \in S
  BY <1>1, ElementOfSeq
<1> QED BY <1>2, SubSeqProperties

LEMMA AtType ==
  ASSUME NEW S, NEW s \in Seq(S), NEW tok
  PROVE  At(s, tok) \subseteq Nat /\ \A i \in At(s, tok) : i - 1 \in Nat /\ i - 1 <= Len(s)
BY LenProperties DEF At

(* The outputs in a buffer are tokens.                                     *)
LEMMA OutputsType ==
  ASSUME NEW s \in Seq(Token)
  PROVE  Outputs(s) \subseteq Token
BY ElementOfSeq DEF Outputs

LEMMA TokenType ==
  /\ \A t \in Runners : Begin(t) \in Token /\ End(t) \in Token
  /\ \A t \in Runners, k \in Nat : Out(t, k) \in Token
  /\ \A q \in Probers : Pwd(q) \in Token
BY DEF Begin, End, Out, Pwd, Token, Ref, Tasks

LEMMA LineType ==
  /\ \A t \in Runners : Cmd(t) \in Line
  /\ \A q \in Probers : Probe(q) \in Line
  /\ CtrlC \in Line /\ Text \in Line /\ ExitLine \in Line
BY DEF Cmd, Probe, CtrlC, Text, ExitLine, Line

-----------------------------------------------------------------------------
(* Type correctness.                                                       *)

(* The states a reader is put in.                                          *)
LEMMA ReaderStates ==
  /\ \A p \in {"none", "start", "loop", "ended", "failed"} : Idle(p) \in ReaderState
  /\ \A p \in Openers : Reading(p) \in ReaderState
  /\ \A e \in Ref(Runners), b \in Seq(Token), u \in SUBSET Token :
       Emitting(e, b, u) \in ReaderState
<1>1. <<>> \in Seq(Token)
  BY EmptySeq
<1> QED BY <1>1 DEF Idle, Reading, Emitting, ReaderState, Ref

LEMMA ReaderType ==
  ASSUME TypeOK, NEW r \in Openers, NEW state \in ReaderState, SetReader(r, state)
  PROVE  reader' \in [Openers -> ReaderState]
BY DEF TypeOK, SetReader

LEMMA BackToLoopType ==
  ASSUME TypeOK, NEW r \in Openers, BackToLoop(r)
  PROVE  reader' \in [Openers -> ReaderState]
BY ReaderStates, ReaderType DEF BackToLoop

LEMMA InitType == Init => TypeOK
<1> SUFFICES ASSUME Init PROVE TypeOK
  OBVIOUS
<1>1. <<>> \in Seq(Token) /\ <<>> \in Seq(Line)
  BY EmptySeq
<1> QED BY <1>1, ReaderStates DEF Init, TypeOK, Ref, Outcome

(* One more line for the current process.                                  *)
LEMMA WriteType ==
  ASSUME TypeOK, Writable, NEW line \in Line, Write(line)
  PROVE  stdin' \in [Openers -> Seq(Line)]
<1>1. process \in Openers /\ stdin \in [Openers -> Seq(Line)]
  BY DEF TypeOK, Ref, Writable
<1>2. Append(stdin[process], line) \in Seq(Line)
  BY <1>1
<1> QED BY <1>1, <1>2 DEF Write

LEMMA OpenShellType ==
  ASSUME TypeOK, NEW o \in Openers, OpenShell(o)
  PROVE  TypeOK'
<1> USE DEF TypeOK, Ref, Tasks, Outcome, Goto, OnlyGoto, session, command, locks, tasks, joining, remote, counts
<1>1. CASE OpenRefused(o)
  BY <1>1 DEF OpenRefused
<1>2. CASE OpenStart(o)
  BY <1>2 DEF OpenStart
<1>3. CASE OpenFinish(o)
  BY <1>3, ReaderStates, ReaderType DEF OpenFinish, Stored
<1>4. CASE OpenFail(o)
  BY <1>4 DEF OpenFail
<1>5. CASE OpenWriteRaises(o)
  BY <1>5 DEF OpenWriteRaises
<1> QED BY <1>1, <1>2, <1>3, <1>4, <1>5 DEF OpenShell

LEMMA RunShellCommandType ==
  ASSUME TypeOK, NEW t \in Runners, RunShellCommand(t)
  PROVE  TypeOK'
<1> USE DEF TypeOK, Ref, Tasks, Outcome, Goto, OnlyGoto, session, command, locks, tasks, joining, remote, counts
<1>1. CASE RunRefused(t)
  BY <1>1 DEF RunRefused
<1>2. CASE RunQueue(t)
  BY <1>2 DEF RunQueue
<1>3. CASE RunRejected(t)
  BY <1>3 DEF RunRejected, GetsCommandLock
<1>4. CASE Submit(t)
  BY <1>4, LineType, WriteType, EmptySeq DEF Submit, Install, GetsCommandLock
<1>5. CASE SubmitRaises(t)
  BY <1>5, EmptySeq DEF SubmitRaises, Install, GetsCommandLock
<1>6. CASE RunWake(t)
  BY <1>6, EmptySeq DEF RunWake, ResetCommandState, Done
<1> QED BY <1>1, <1>2, <1>3, <1>4, <1>5, <1>6 DEF RunShellCommand

LEMMA GetShellCwdType ==
  ASSUME TypeOK, NEW q \in Probers, GetShellCwd(q)
  PROVE  TypeOK'
<1> USE DEF TypeOK, Ref, Tasks, Outcome, Goto, OnlyGoto, session, command, locks, tasks, joining, remote, counts
<1>1. CASE ProbeRefused(q)
  BY <1>1 DEF ProbeRefused
<1>2. CASE ProbeQueue(q)
  BY <1>2 DEF ProbeQueue
<1>3. CASE ProbeRejected(q)
  BY <1>3 DEF ProbeRejected, GetsProbeLock
<1>4. CASE ProbeSubmit(q)
  BY <1>4, LineType, WriteType DEF ProbeSubmit, InstallProbe, GetsProbeLock
<1>5. CASE ProbeSubmitRaises(q)
  BY <1>5 DEF ProbeSubmitRaises, InstallProbe, GetsProbeLock
<1>6. CASE ProbeWake(q)
  BY <1>6 DEF ProbeWake, Done
<1> QED BY <1>1, <1>2, <1>3, <1>4, <1>5, <1>6 DEF GetShellCwd

LEMMA CloseShellType ==
  ASSUME TypeOK, NEW c \in Closers, CloseShell(c)
  PROVE  TypeOK'
<1> USE DEF TypeOK, Ref, Tasks, Outcome, Goto, OnlyGoto, session, command, locks, tasks, joining, remote, counts
<1>1. CASE CloseRefused(c)
  BY <1>1 DEF CloseRefused
<1>2. CASE CloseStart(c)
  BY <1>2, EmptySeq DEF CloseStart, ResetCommandState, Fail, Done
<1>3. CASE CloseJoinRaises(c)
  BY <1>3 DEF CloseJoinRaises
<1>4. CASE CloseExit(c)
  BY <1>4, LineType, WriteType DEF CloseExit, ReaderJoined
<1>5. CASE CloseExitRaises(c)
  BY <1>5 DEF CloseExitRaises, ReaderJoined
<1>6. CASE CloseNoProcess(c)
  BY <1>6 DEF CloseNoProcess, ReaderJoined
<1>7. CASE CloseFinish(c)
  BY <1>7 DEF CloseFinish
<1> QED BY <1>1, <1>2, <1>3, <1>4, <1>5, <1>6, <1>7 DEF CloseShell

LEMMA CallType ==
  ASSUME TypeOK, Interrupt \/ SendToShell
  PROVE  TypeOK'
<1> USE DEF TypeOK, Ref, Tasks, Outcome, session, command, locks, tasks, joining, remote, counts
<1>1. CASE Interrupt
  <2>1. stdin' \in [Openers -> Seq(Line)]
    BY <1>1, LineType, WriteType DEF Interrupt
  <2>2. fut' \in [Runners \cup Probers -> Outcome]
    BY <1>1 DEF Interrupt, Fail
  <2>3. cmdBuf' \in Seq(Token)
    BY <1>1, EmptySeq DEF Interrupt, ResetCommandState
  <2>4. cmdFut' = None /\ started' = FALSE /\ streamed' = {} /\ interrupts' = interrupts + 1
    BY <1>1 DEF Interrupt, ResetCommandState
  <2>5. UNCHANGED <<session, locks, probeFut, pc, result, reader, joining,
                    alive, stdout, fg, printed, inputs>>
    BY <1>1 DEF Interrupt
  <2>6. interrupts' \in Nat
    BY <2>4
  <2>7. streamed' \in SUBSET Token /\ cmdFut' \in Ref(Runners) /\ started' \in BOOLEAN
    BY <2>4
  <2> QED BY <2>1, <2>2, <2>3, <2>5, <2>6, <2>7
<1>2. CASE SendToShell
  BY <1>2, LineType, WriteType DEF SendToShell
<1> QED BY <1>1, <1>2

(* A chunk, what is left of the stream behind it, and the buffer it joins. *)
LEMMA ChunkType ==
  ASSUME TypeOK, NEW r \in Openers, reader[r].src \in Openers,
         NEW n \in 1..Len(stdout[reader[r].src])
  PROVE  /\ Received(r, n) \in Seq(Token)
         /\ Buffered(r, n) \in Seq(Token)
         /\ [stdout EXCEPT ![reader[r].src] = From(@, n + 1)] \in [Openers -> Seq(Token)]
<1> DEFINE s == stdout[reader[r].src]
<1>1. s \in Seq(Token) /\ stdout \in [Openers -> Seq(Token)] /\ cmdBuf \in Seq(Token)
  BY DEF TypeOK
<1>2. n \in Nat /\ n <= Len(s)
  BY <1>1, LenProperties
<1>3. Received(r, n) \in Seq(Token)
  BY <1>1, <1>2, PrefixType DEF Received
<1>4. From(s, n + 1) \in Seq(Token)
  BY <1>1, <1>2, CutType
<1>5. cmdBuf \o Received(r, n) \in Seq(Token)
  BY <1>1, <1>3, ConcatProperties
<1> QED BY <1>1, <1>3, <1>4, <1>5 DEF Buffered

LEMMA NormalizedType ==
  ASSUME NEW r, NEW n, Buffered(r, n) \in Seq(Token)
  PROVE  \A norm \in Normalized(r, n) : norm \in Seq(Token)
<1> SUFFICES ASSUME NEW i \in IF started THEN {0} ELSE At(Buffered(r, n), Begin(cmdFut))
             PROVE  From(Buffered(r, n), i + 1) \in Seq(Token)
  BY DEF Normalized
<1>1. i \in Nat
  BY AtType
<1> QED BY <1>1, CutType

LEMMA ResolveType ==
  ASSUME TypeOK, NEW c \in Runners, NEW out \in SUBSET Token, Resolve(c, out)
  PROVE  /\ fut' \in [Runners \cup Probers -> Outcome]
         /\ result' \in [Runners -> [of : Ref(Runners), out : SUBSET Token]]
<1>1. /\ fut \in [Runners \cup Probers -> Outcome]
      /\ result \in [Runners -> [of : Ref(Runners), out : SUBSET Token]]
      /\ cmdFut \in Ref(Runners)
  BY DEF TypeOK
<1>2. [of |-> c, out |-> out] \in [of : Ref(Runners), out : SUBSET Token]
  BY DEF Ref
<1>3. CASE CommandActive /\ ~Done(cmdFut)
  <2>1. cmdFut \in Runners
    BY <1>1, <1>3 DEF CommandActive, Ref
  <2>2. "result" \in Outcome
    BY DEF Outcome
  <2>3. /\ fut' = [fut EXCEPT ![cmdFut] = "result"]
        /\ result' = [result EXCEPT ![cmdFut] = [of |-> c, out |-> out]]
    BY <1>3 DEF Resolve
  <2> QED BY <1>1, <1>2, <2>1, <2>2, <2>3
<1>4. CASE ~(CommandActive /\ ~Done(cmdFut))
  BY <1>1, <1>4 DEF Resolve
<1> QED BY <1>3, <1>4

LEMMA ReadChunkType ==
  ASSUME TypeOK, ReadsAProcess, NEW r \in Openers, reader[r].pc = "read",
         NEW n \in 1..Len(stdout[reader[r].src]), ReadChunk(r, n)
  PROVE  TypeOK'
<1> USE DEF session, locks, joining, counts, Chunk
<1>1. reader[r].src \in Openers
  BY DEF TypeOK, ReadsAProcess, ReaderState, Ref
<1>2. /\ Received(r, n) \in Seq(Token)
      /\ Buffered(r, n) \in Seq(Token)
      /\ [stdout EXCEPT ![reader[r].src] = From(@, n + 1)] \in [Openers -> Seq(Token)]
  BY <1>1, ChunkType
<1>3. /\ cmdBuf' \in Seq(Token) /\ started' \in BOOLEAN /\ streamed' \in SUBSET Token
      /\ reader' \in [Openers -> ReaderState]
      /\ fut' \in [Runners \cup Probers -> Outcome]
      /\ result' \in [Runners -> [of : Ref(Runners), out : SUBSET Token]]
  <2>1. CASE ReadForProbe(r, n)
    BY <2>1, BackToLoopType DEF ReadForProbe, TypeOK, Ref, Outcome
  <2>2. CASE ReadUnsolicited(r, n)
    <3>1. reader' \in [Openers -> ReaderState]
      BY <2>2, ReaderStates, ReaderType, BackToLoopType DEF ReadUnsolicited
    <3> QED BY <2>2, <3>1 DEF ReadUnsolicited, TypeOK
  <2>3. CASE ReadBeforeBegin(r, n)
    BY <2>3, <1>2, BackToLoopType DEF ReadBeforeBegin, ReadForCommand, TypeOK
  <2>4. CASE ReadOutput(r, n)
    <3>1. PICK norm \in Normalized(r, n) :
            /\ streamed' = Outputs(norm)
            /\ IF NewOutput(Outputs(norm))
                 THEN cmdBuf' = Buffered(r, n) /\ SetReader(r, Emitting(None, norm, {}))
                 ELSE cmdBuf' = norm /\ BackToLoop(r)
      BY <2>4 DEF ReadOutput
    <3>2. norm \in Seq(Token) /\ Outputs(norm) \in SUBSET Token
      BY <1>2, NormalizedType, OutputsType
    <3>3. fut' = fut /\ result' = result /\ started' = TRUE
      BY <2>4 DEF ReadOutput, ReadForCommand, Started
    <3>4. reader' \in [Openers -> ReaderState]
      <4>1. Emitting(None, norm, {}) \in ReaderState
        BY <3>2, ReaderStates DEF Ref
      <4> QED BY <3>1, <4>1, ReaderType, BackToLoopType
    <3> QED BY <1>2, <3>1, <3>2, <3>3, <3>4 DEF TypeOK
  <2>5. CASE ReadEnd(r, n)
    <3>0. PICK norm \in Normalized(r, n) : \E i \in At(norm, End(cmdFut)) :
            LET out == Outputs(SubSeq(norm, 1, i - 1)) IN
            /\ cmdBuf' = From(norm, i + 1)
            /\ streamed' = out
            /\ IF NewOutput(out)
                 THEN SetReader(r, Emitting(cmdFut, <<>>, out)) /\ UNCHANGED <<fut, result>>
                 ELSE Resolve(cmdFut, out) /\ BackToLoop(r)
      BY <2>5 DEF ReadEnd
    <3>1. PICK i \in At(norm, End(cmdFut)) :
            LET out == Outputs(SubSeq(norm, 1, i - 1)) IN
            /\ cmdBuf' = From(norm, i + 1)
            /\ streamed' = out
            /\ IF NewOutput(out)
                 THEN SetReader(r, Emitting(cmdFut, <<>>, out)) /\ UNCHANGED <<fut, result>>
                 ELSE Resolve(cmdFut, out) /\ BackToLoop(r)
      BY <3>0
    <3> DEFINE out == Outputs(SubSeq(norm, 1, i - 1))
    <3>2. norm \in Seq(Token)
      BY <1>2, NormalizedType
    <3>3. i \in Nat /\ i - 1 \in Nat /\ i - 1 <= Len(norm)
      BY <3>2, AtType
    <3>4. From(norm, i + 1) \in Seq(Token) /\ out \in SUBSET Token
      BY <3>2, <3>3, CutType, PrefixType, OutputsType
    <3>5. cmdFut \in Runners /\ started' = TRUE
      BY <2>5 DEF ReadEnd, ReadForCommand, CommandActive, TypeOK, Ref
    <3>6. CASE NewOutput(out)
      <4>1. Emitting(cmdFut, <<>>, out) \in ReaderState
        BY <3>4, <3>5, EmptySeq, ReaderStates DEF Ref
      <4>2. reader' \in [Openers -> ReaderState]
        BY <3>1, <3>6, <4>1, ReaderType
      <4>3. fut' = fut /\ result' = result
        BY <3>1, <3>6
      <4> QED BY <3>1, <3>4, <3>5, <4>2, <4>3 DEF TypeOK
    <3>7. CASE ~NewOutput(out)
      BY <3>1, <3>4, <3>5, <3>7, BackToLoopType, ResolveType
    <3> QED BY <3>6, <3>7
  <2> QED BY <2>1, <2>2, <2>3, <2>4, <2>5 DEF ReadChunk
<1>4. /\ stdout' = [stdout EXCEPT ![reader[r].src] = From(@, n + 1)]
      /\ UNCHANGED <<session, cmdFut, locks, probeFut, pc, cancelled, joins,
                     alive, stdin, fg, printed, counts>>
  BY DEF ReadChunk, ReadForProbe, ReadUnsolicited, ReadBeforeBegin, ReadOutput, ReadEnd, ReadForCommand
<1> QED BY <1>2, <1>3, <1>4 DEF TypeOK

LEMMA ReadShellLoopType ==
  ASSUME TypeOK, ReadsAProcess, NEW r \in Openers, ReadShellLoop(r)
  PROVE  TypeOK'
<1> USE DEF session, command, locks, tasks, joining, remote, counts, OnlyReader
<1>1. CASE ReaderTurn(r)
  <2>1. process \in Ref(Openers)
    BY DEF TypeOK
  <2>2. reader' \in [Openers -> ReaderState]
    BY <1>1, <2>1, ReaderStates, ReaderType DEF ReaderTurn, Ref
  <2> QED BY <1>1, <2>2 DEF ReaderTurn, TypeOK
<1>2. CASE ReadTimeout(r)
  BY <1>2, BackToLoopType DEF ReadTimeout, TypeOK
<1>3. CASE ReadEof(r)
  BY <1>3, ReaderStates, ReaderType DEF ReadEof, TypeOK
<1>4. CASE reader[r].pc = "read" /\ \E n \in 1..Len(stdout[reader[r].src]) : ReadChunk(r, n)
  BY <1>4, ReadChunkType
<1>5. CASE EmitReturns(r)
  <2>1. reader' \in [Openers -> ReaderState]
    BY <1>5, BackToLoopType DEF EmitReturns
  <2>2. reader[r] \in ReaderState
    BY DEF TypeOK
  <2>3. /\ cmdBuf' \in Seq(Token)
        /\ fut' \in [Runners \cup Probers -> Outcome]
        /\ result' \in [Runners -> [of : Ref(Runners), out : SUBSET Token]]
    <3>1. CASE reader[r].end = None
      BY <1>5, <2>2, <3>1 DEF EmitReturns, TypeOK, ReaderState
    <3>2. CASE reader[r].end # None
      BY <1>5, <2>2, <3>2, ResolveType DEF EmitReturns, TypeOK, ReaderState, Ref
    <3> QED BY <3>1, <3>2
  <2> QED BY <1>5, <2>1, <2>3 DEF EmitReturns, TypeOK
<1>6. CASE ReaderCancelled(r)
  <2>1. reader' \in [Openers -> ReaderState]
    BY <1>6, ReaderStates, ReaderType DEF ReaderCancelled
  <2> QED BY <1>6, <2>1 DEF ReaderCancelled, TypeOK
<1> QED BY <1>1, <1>2, <1>3, <1>4, <1>5, <1>6 DEF ReadShellLoop

LEMMA RemoteShellType ==
  ASSUME TypeOK, NEW p \in Openers, RemoteShell(p)
  PROVE  TypeOK'
<1> USE DEF RemoteUnchanged, session, command, locks, tasks, joining, counts
<1>1. stdout[p] \in Seq(Token) /\ stdin[p] \in Seq(Line)
  BY DEF TypeOK
<1>2. ASSUME NEW tok \in Token, Prints(p, tok)
      PROVE  stdout' \in [Openers -> Seq(Token)]
  <2>1. Append(stdout[p], tok) \in Seq(Token)
    BY <1>1
  <2> QED BY <1>2, <2>1 DEF Prints, TypeOK
<1>3. ASSUME NEW line, NextLine(p, line)
      PROVE  stdin' \in [Openers -> Seq(Line)]
  <2>1. Tail(stdin[p]) \in Seq(Line)
    BY <1>1, <1>3, HeadTailProperties DEF NextLine
  <2> QED BY <1>3, <2>1 DEF NextLine, TypeOK
<1>4. ASSUME NEW t \in Runners, RemoteBegins(p, t)
      PROVE  TypeOK'
  <2>1. stdin' \in [Openers -> Seq(Line)] /\ stdout' \in [Openers -> Seq(Token)]
    BY <1>2, <1>3, <1>4, TokenType DEF RemoteBegins
  <2> QED BY <1>4, <2>1 DEF RemoteBegins, TypeOK, Ref
<1>5. ASSUME NEW t \in Runners, RemotePrints(p, t)
      PROVE  TypeOK'
  <2>1. printed[t] \in Nat
    BY DEF TypeOK
  <2>2. printed[t] + 1 \in Nat
    BY <2>1
  <2>3. stdout' \in [Openers -> Seq(Token)]
    BY <1>2, <1>5, <2>2, TokenType DEF RemotePrints
  <2>4. printed' \in [Runners -> Nat]
    BY <1>5, <2>2 DEF RemotePrints, TypeOK
  <2> QED BY <1>5, <2>3, <2>4 DEF RemotePrints, TypeOK
<1>6. ASSUME NEW t \in Runners, RemoteEnds(p, t)
      PROVE  TypeOK'
  <2>1. stdout' \in [Openers -> Seq(Token)]
    BY <1>2, <1>6, TokenType DEF RemoteEnds
  <2> QED BY <1>6, <2>1 DEF RemoteEnds, TypeOK, Ref
<1>7. ASSUME NEW q \in Probers, RemoteAnswers(p, q)
      PROVE  TypeOK'
  <2>1. stdin' \in [Openers -> Seq(Line)] /\ stdout' \in [Openers -> Seq(Token)]
    BY <1>2, <1>3, <1>7, TokenType DEF RemoteAnswers
  <2> QED BY <1>7, <2>1 DEF RemoteAnswers, TypeOK
<1>8. CASE RemoteConsumes(p)
  <2>1. stdin' \in [Openers -> Seq(Line)]
    BY <1>3, <1>8 DEF RemoteConsumes
  <2> QED BY <1>8, <2>1 DEF RemoteConsumes, TypeOK
<1>9. CASE RemoteInterrupted(p)
  <2>1. PICK i \in At(stdin[p], CtrlC) : stdin' = [stdin EXCEPT ![p] = From(@, i + 1)]
    BY <1>9 DEF RemoteInterrupted
  <2>2. From(stdin[p], i + 1) \in Seq(Line)
    BY <1>1, AtType, CutType
  <2>3. stdin' \in [Openers -> Seq(Line)]
    BY <2>1, <2>2 DEF TypeOK
  <2> QED BY <1>9, <2>3 DEF RemoteInterrupted, TypeOK, Ref
<1>10. CASE RemoteExits(p)
  <2>1. stdin' \in [Openers -> Seq(Line)]
    BY <1>3, <1>10 DEF RemoteExits
  <2> QED BY <1>10, <2>1 DEF RemoteExits, TypeOK
<1>11. CASE RemoteDies(p)
  BY <1>11 DEF RemoteDies, TypeOK
<1> QED BY <1>4, <1>5, <1>6, <1>7, <1>8, <1>9, <1>10, <1>11 DEF RemoteShell

LEMMA StutterType == TypeOK /\ UNCHANGED vars => TypeOK'
BY DEF TypeOK, vars, session, command, locks, tasks, joining, remote, counts

LEMMA NextType == TypeOK /\ ReadsAProcess /\ [Next]_vars => TypeOK'
BY OpenShellType, ReadShellLoopType, RemoteShellType, RunShellCommandType, GetShellCwdType,
   CloseShellType, CallType, StutterType DEF Next

-----------------------------------------------------------------------------
(* Locks and futures.                                                      *)

Control == LocksAreHeldByWaiters /\ InstalledByHolder /\ NoOrphanFuture

(* A step that starts and ends no wait, and that resolves futures at most. *)
LEMMA ControlQuiet ==
  ASSUME Control,
         \A t \in Runners \cup Probers : /\ pc'[t] = "waiting" <=> pc[t] = "waiting"
                                         /\ fut'[t] = "pending" => fut[t] = "pending",
         UNCHANGED <<cmdFut, cmdLock, probeFut, probeLock>>
  PROVE  Control'
BY DEF Control, LocksAreHeldByWaiters, InstalledByHolder, NoOrphanFuture, Done

LEMMA ControlInit == Init => Control
BY TasksAssumption DEF Init, Control, LocksAreHeldByWaiters, InstalledByHolder, NoOrphanFuture, Done, Tasks

(* An opener or a closer moves on: no runner and no prober does.           *)
LEMMA OtherTask ==
  ASSUME TypeOK, NEW u \in Openers \cup Closers, NEW where, Goto(u, where)
  PROVE  \A t \in Runners \cup Probers : pc'[t] = pc[t]
BY TasksAssumption DEF Goto, TypeOK, Tasks

LEMMA OpenShellControl ==
  ASSUME TypeOK, Control, NEW o \in Openers, OpenShell(o)
  PROVE  Control'
<1>1. \A t \in Runners \cup Probers : pc'[t] = pc[t]
  BY OtherTask DEF OpenShell, OpenRefused, OpenStart, OpenFinish, OpenWriteRaises, OpenFail, OnlyGoto
<1>2. UNCHANGED <<fut, cmdFut, cmdLock, probeFut, probeLock>>
  BY DEF OpenShell, OpenRefused, OpenStart, OpenFinish, OpenWriteRaises, OpenFail, OnlyGoto, command, locks
<1> QED BY <1>1, <1>2, ControlQuiet

LEMMA RemoteShellControl ==
  ASSUME Control, NEW p \in Openers, RemoteShell(p)
  PROVE  Control'
<1>1. UNCHANGED <<pc, fut, cmdFut, cmdLock, probeFut, probeLock>>
  BY DEF RemoteShell, RemoteBegins, RemotePrints, RemoteEnds, RemoteAnswers, RemoteConsumes,
         RemoteInterrupted, RemoteExits, RemoteDies, RemoteUnchanged, command, locks, tasks
<1> QED BY <1>1, ControlQuiet

(* The reader resolves futures and leaves everything else as it is.        *)
LEMMA ReaderResolves ==
  ASSUME TypeOK, NEW r \in Openers, ReadShellLoop(r)
  PROVE  /\ UNCHANGED <<pc, cmdFut, cmdLock, probeFut, probeLock>>
         /\ \A f \in Runners \cup Probers : fut'[f] = "pending" => fut[f] = "pending"
<1> USE DEF locks, command, tasks
<1>1. fut \in [Runners \cup Probers -> Outcome] /\ cmdFut \in Ref(Runners) /\ probeFut \in Ref(Probers)
  BY DEF TypeOK
<1>2. ASSUME NEW c, NEW out, Resolve(c, out)
      PROVE  \A f \in Runners \cup Probers : fut'[f] = "pending" => fut[f] = "pending"
  BY <1>1, <1>2 DEF Resolve, CommandActive, Ref, Done
<1>3. CASE EmitReturns(r)
  BY <1>2, <1>3 DEF EmitReturns
<1>4. CASE ReaderTurn(r) \/ ReadTimeout(r) \/ ReadEof(r) \/ ReaderCancelled(r)
  BY <1>4 DEF ReaderTurn, ReadTimeout, ReadEof, ReaderCancelled, OnlyReader
<1>5. ASSUME NEW n, ReadChunk(r, n)
      PROVE  /\ UNCHANGED <<pc, cmdFut, cmdLock, probeFut, probeLock>>
             /\ \A f \in Runners \cup Probers : fut'[f] = "pending" => fut[f] = "pending"
  <2>1. CASE ReadForProbe(r, n)
    BY <1>1, <2>1 DEF ReadForProbe, Chunk, Ref
  <2>2. CASE ReadUnsolicited(r, n) \/ ReadBeforeBegin(r, n) \/ ReadOutput(r, n)
    BY <2>2 DEF ReadUnsolicited, ReadBeforeBegin, ReadOutput, ReadForCommand, Chunk
  <2>3. CASE ReadEnd(r, n)
    BY <1>2, <2>3 DEF ReadEnd, ReadForCommand, Chunk
  <2> QED BY <1>5, <2>1, <2>2, <2>3 DEF ReadChunk
<1> QED BY <1>3, <1>4, <1>5 DEF ReadShellLoop

LEMMA ReadShellLoopControl ==
  ASSUME TypeOK, Control, NEW r \in Openers, ReadShellLoop(r)
  PROVE  Control'
BY ReaderResolves, ControlQuiet

LEMMA CallControl ==
  ASSUME TypeOK, Control, Interrupt \/ SendToShell
  PROVE  Control'
<1>1. CASE SendToShell
  BY <1>1, ControlQuiet DEF SendToShell, command, locks, tasks
<1>2. CASE Interrupt
  <2>1. /\ fut \in [Runners \cup Probers -> Outcome] /\ cmdFut \in Ref(Runners)
        /\ None \notin Runners \cup Probers
    BY TasksAssumption DEF TypeOK, Tasks
  <2>2. UNCHANGED <<pc, cmdLock, probeFut, probeLock>> /\ cmdFut' = None
    BY <1>2 DEF Interrupt, locks, ResetCommandState
  <2>3. \A f \in Runners \cup Probers :
          /\ fut'[f] = "pending" => fut[f] = "pending"
          /\ fut'[f] = "pending" => f # cmdFut
    BY <1>2, <2>1 DEF Interrupt, Fail, Done, Ref
  <2> QED BY <2>2, <2>3 DEF Control, LocksAreHeldByWaiters, InstalledByHolder, NoOrphanFuture, Done
<1> QED BY <1>1, <1>2

LEMMA CloseShellControl ==
  ASSUME TypeOK, Control, NEW c \in Closers, CloseShell(c)
  PROVE  Control'
<1> USE DEF command, locks
<1>1. \A t \in Runners \cup Probers : pc'[t] = pc[t]
  BY OtherTask DEF CloseShell, CloseRefused, CloseStart, CloseJoinRaises, CloseExit,
                   CloseExitRaises, CloseNoProcess, CloseFinish, ReaderJoined, OnlyGoto
<1>2. CASE CloseStart(c)
  <2>1. UNCHANGED <<cmdLock, probeLock>> /\ cmdFut' = None /\ probeFut' = None
    BY <1>2 DEF CloseStart, ResetCommandState
  <2>2. \A f \in Runners \cup Probers :
          fut'[f] = "pending" => fut[f] = "pending" /\ f # cmdFut /\ f # probeFut
    BY <1>2 DEF CloseStart, Fail, TypeOK, Done
  <2> QED BY <1>1, <2>1, <2>2
          DEF Control, LocksAreHeldByWaiters, InstalledByHolder, NoOrphanFuture, Done
<1>3. CASE ~CloseStart(c)
  <2>1. UNCHANGED <<fut, cmdFut, cmdLock, probeFut, probeLock>>
    BY <1>3 DEF CloseShell, CloseRefused, CloseJoinRaises, CloseExit, CloseExitRaises,
                CloseNoProcess, CloseFinish, ReaderJoined, OnlyGoto
  <2> QED BY <1>1, <2>1, ControlQuiet
<1> QED BY <1>2, <1>3

LEMMA RunShellCommandControl ==
  ASSUME TypeOK, Control, NEW t \in Runners, RunShellCommand(t)
  PROVE  Control'
<1> USE TasksAssumption DEF command, locks, Goto, OnlyGoto
<1>1. /\ pc \in [Tasks -> {"idle", "creating", "lock", "waiting", "joining", "exiting",
                           "done", "failed"}]
      /\ fut \in [Runners \cup Probers -> Outcome] /\ t \in Tasks /\ t # None
      /\ cmdLock \in Ref(Runners)
      /\ \A q \in Probers : q # t /\ q \in Tasks
      /\ \A u \in Runners : u \in Tasks
  BY DEF TypeOK, Tasks
<1>2. CASE RunRefused(t) \/ RunQueue(t) \/ RunRejected(t)
  <2>1. UNCHANGED <<fut, cmdFut, cmdLock, probeFut, probeLock>>
    BY <1>2 DEF RunRefused, RunQueue, RunRejected
  <2>2. \A u \in Runners \cup Probers : pc'[u] = "waiting" <=> pc[u] = "waiting"
    BY <1>1, <1>2 DEF RunRefused, RunQueue, RunRejected, GetsCommandLock
  <2> QED BY <2>1, <2>2, ControlQuiet
<1>3. CASE Submit(t)
  <2>1. /\ cmdLock = None /\ pc[t] # "waiting" /\ cmdLock' = t /\ cmdFut' = t
        /\ UNCHANGED <<probeLock, probeFut>>
        /\ pc' = [pc EXCEPT ![t] = "waiting"] /\ fut' = [fut EXCEPT ![t] = "pending"]
    BY <1>3 DEF Submit, Install, GetsCommandLock
  <2>2. \A u \in Runners : pc[u] # "waiting"
    BY <1>1, <2>1 DEF Control, LocksAreHeldByWaiters, Tasks
  <2> QED BY <1>1, <2>1, <2>2
          DEF Control, LocksAreHeldByWaiters, InstalledByHolder, NoOrphanFuture, Done
<1>4. CASE SubmitRaises(t)
  <2>1. /\ cmdLock = None /\ pc[t] # "waiting" /\ cmdLock' = None /\ cmdFut' = t
        /\ UNCHANGED <<probeLock, probeFut>>
        /\ pc' = [pc EXCEPT ![t] = "failed"] /\ fut' = [fut EXCEPT ![t] = "pending"]
    BY <1>4 DEF SubmitRaises, Install, GetsCommandLock
  <2>2. \A u \in Runners : pc[u] # "waiting" /\ u # None
    BY <1>1, <2>1 DEF Control, LocksAreHeldByWaiters, Tasks
  <2> QED BY <1>1, <2>1, <2>2
          DEF Control, LocksAreHeldByWaiters, InstalledByHolder, NoOrphanFuture, Done
<1>5. CASE RunWake(t)
  <2>1. /\ pc[t] = "waiting" /\ cmdLock' = None /\ cmdFut' \in {cmdFut, None}
        /\ UNCHANGED <<probeLock, probeFut, fut>>
        /\ \/ pc' = [pc EXCEPT ![t] = "done"]
           \/ pc' = [pc EXCEPT ![t] = "failed"]
    BY <1>5 DEF RunWake, ResetCommandState
  <2>2. \A u \in Runners : u # None /\ (pc[u] = "waiting" => u = t)
    BY <1>1, <2>1 DEF Control, LocksAreHeldByWaiters, Tasks
  <2> QED BY <1>1, <2>1, <2>2
          DEF Control, LocksAreHeldByWaiters, InstalledByHolder, NoOrphanFuture, Done
<1> QED BY <1>2, <1>3, <1>4, <1>5 DEF RunShellCommand

LEMMA GetShellCwdControl ==
  ASSUME TypeOK, Control, NEW q \in Probers, GetShellCwd(q)
  PROVE  Control'
<1> USE TasksAssumption DEF command, locks, Goto, OnlyGoto
<1>1. /\ pc \in [Tasks -> {"idle", "creating", "lock", "waiting", "joining", "exiting",
                           "done", "failed"}]
      /\ fut \in [Runners \cup Probers -> Outcome] /\ q \in Tasks /\ q # None
      /\ probeLock \in Ref(Probers)
      /\ \A t \in Runners : t # q /\ t \in Tasks
      /\ \A u \in Probers : u \in Tasks
  BY DEF TypeOK, Tasks
<1>2. CASE ProbeRefused(q) \/ ProbeQueue(q) \/ ProbeRejected(q)
  <2>1. UNCHANGED <<fut, cmdFut, cmdLock, probeFut, probeLock>>
    BY <1>2 DEF ProbeRefused, ProbeQueue, ProbeRejected
  <2>2. \A u \in Runners \cup Probers : pc'[u] = "waiting" <=> pc[u] = "waiting"
    BY <1>1, <1>2 DEF ProbeRefused, ProbeQueue, ProbeRejected, GetsProbeLock
  <2> QED BY <2>1, <2>2, ControlQuiet
<1>3. CASE ProbeSubmit(q)
  <2>1. /\ probeLock = None /\ pc[q] # "waiting" /\ probeLock' = q /\ probeFut' = q
        /\ UNCHANGED <<cmdLock, cmdFut>>
        /\ pc' = [pc EXCEPT ![q] = "waiting"] /\ fut' = [fut EXCEPT ![q] = "pending"]
    BY <1>3 DEF ProbeSubmit, InstallProbe, GetsProbeLock
  <2>2. \A u \in Probers : pc[u] # "waiting"
    BY <1>1, <2>1 DEF Control, LocksAreHeldByWaiters, Tasks
  <2> QED BY <1>1, <2>1, <2>2
          DEF Control, LocksAreHeldByWaiters, InstalledByHolder, NoOrphanFuture, Done
<1>4. CASE ProbeSubmitRaises(q)
  <2>1. /\ probeLock = None /\ pc[q] # "waiting" /\ probeLock' = None /\ probeFut' = q
        /\ UNCHANGED <<cmdLock, cmdFut>>
        /\ pc' = [pc EXCEPT ![q] = "failed"] /\ fut' = [fut EXCEPT ![q] = "pending"]
    BY <1>4 DEF ProbeSubmitRaises, InstallProbe, GetsProbeLock
  <2>2. \A u \in Probers : pc[u] # "waiting" /\ u # None
    BY <1>1, <2>1 DEF Control, LocksAreHeldByWaiters, Tasks
  <2> QED BY <1>1, <2>1, <2>2
          DEF Control, LocksAreHeldByWaiters, InstalledByHolder, NoOrphanFuture, Done
<1>5. CASE ProbeWake(q)
  <2>1. /\ pc[q] = "waiting" /\ probeLock' = None /\ probeFut' = None
        /\ UNCHANGED <<cmdLock, cmdFut>>
        /\ \A f \in Runners \cup Probers : fut'[f] = "pending" => fut[f] = "pending"
        /\ \/ pc' = [pc EXCEPT ![q] = "done"]
           \/ pc' = [pc EXCEPT ![q] = "failed"]
    BY <1>1, <1>5 DEF ProbeWake
  <2>2. \A u \in Probers : u # None /\ (pc[u] = "waiting" => u = q)
    BY <1>1, <2>1 DEF Control, LocksAreHeldByWaiters, Tasks
  <2> QED BY <1>1, <2>1, <2>2
          DEF Control, LocksAreHeldByWaiters, InstalledByHolder, NoOrphanFuture, Done
<1> QED BY <1>2, <1>3, <1>4, <1>5 DEF GetShellCwd

-----------------------------------------------------------------------------
(* A suspended read().                                                     *)

LEMMA ReadsInit == Init => ReadsAProcess
BY DEF Init, ReadsAProcess, Idle

LEMMA SetReaderReads ==
  ASSUME TypeOK, ReadsAProcess, NEW r \in Openers, NEW state,
         state.pc = "read" => state.src # None, SetReader(r, state)
  PROVE  ReadsAProcess'
BY DEF TypeOK, SetReader, ReadsAProcess

LEMMA ReadShellLoopReads ==
  ASSUME TypeOK, ReadsAProcess, NEW r \in Openers, ReadShellLoop(r)
  PROVE  ReadsAProcess'
<1>1. \A p \in {"start", "loop", "ended", "failed"} : Idle(p).pc # "read"
  BY DEF Idle
<1>2. ASSUME NEW p \in {"start", "loop", "ended", "failed"}, SetReader(r, Idle(p))
      PROVE  ReadsAProcess'
  BY <1>1, <1>2, SetReaderReads
<1>3. ASSUME NEW e, NEW b, NEW u, SetReader(r, Emitting(e, b, u))
      PROVE  ReadsAProcess'
  <2>1. Emitting(e, b, u).pc # "read"
    BY DEF Emitting
  <2> QED BY <1>3, <2>1, SetReaderReads
<1>4. CASE ReaderTurn(r)
  <2>1. CASE SetReader(r, Reading(process)) /\ process # None
    <3>1. Reading(process).src # None
      BY <2>1 DEF Reading
    <3> QED BY <2>1, <3>1, SetReaderReads
  <2>2. CASE SetReader(r, Idle("ended")) \/ SetReader(r, Idle("failed"))
    BY <1>2, <2>2
  <2> QED BY <1>4, <2>1, <2>2 DEF ReaderTurn
<1>5. CASE ReadTimeout(r) \/ ReadEof(r) \/ EmitReturns(r) \/ ReaderCancelled(r)
  BY <1>2, <1>5 DEF ReadTimeout, ReadEof, EmitReturns, ReaderCancelled, BackToLoop
<1>6. ASSUME NEW n, ReadChunk(r, n)
      PROVE  ReadsAProcess'
  <2>1. \/ SetReader(r, Idle("loop")) \/ SetReader(r, Idle("failed"))
        \/ \E e, b, u : SetReader(r, Emitting(e, b, u))
    <3>1. CASE ReadForProbe(r, n) \/ ReadUnsolicited(r, n) \/ ReadBeforeBegin(r, n)
      BY <3>1 DEF ReadForProbe, ReadUnsolicited, ReadBeforeBegin, BackToLoop
    <3>2. CASE ReadOutput(r, n)
      BY <3>2 DEF ReadOutput, BackToLoop
    <3>3. CASE ReadEnd(r, n)
      BY <3>3 DEF ReadEnd, BackToLoop
    <3> QED BY <1>6, <3>1, <3>2, <3>3 DEF ReadChunk
  <2> QED BY <1>2, <1>3, <2>1
<1> QED BY <1>4, <1>5, <1>6 DEF ReadShellLoop

LEMMA NextReads ==
  ASSUME TypeOK, ReadsAProcess, [Next]_vars
  PROVE  ReadsAProcess'
<1> USE DEF ReadsAProcess
<1>1. ASSUME NEW o \in Openers, OpenShell(o)
      PROVE  ReadsAProcess'
  <2>1. CASE OpenFinish(o)
    <3>1. Idle("start").pc # "read"
      BY DEF Idle
    <3> QED BY <2>1, <3>1, SetReaderReads DEF OpenFinish
  <2> QED BY <1>1, <2>1 DEF OpenShell, OpenRefused, OpenStart, OpenWriteRaises, OpenFail, OnlyGoto
<1>2. ASSUME NEW p \in Openers, RemoteShell(p)
      PROVE  ReadsAProcess'
  BY <1>2 DEF RemoteShell, RemoteBegins, RemotePrints, RemoteEnds, RemoteAnswers, RemoteConsumes,
              RemoteInterrupted, RemoteExits, RemoteDies, RemoteUnchanged
<1>3. ASSUME NEW t \in Runners, RunShellCommand(t)
      PROVE  ReadsAProcess'
  BY <1>3 DEF RunShellCommand, RunRefused, RunQueue, RunRejected, Submit, SubmitRaises, Install, RunWake,
              OnlyGoto
<1>4. ASSUME NEW q \in Probers, GetShellCwd(q)
      PROVE  ReadsAProcess'
  BY <1>4 DEF GetShellCwd, ProbeRefused, ProbeQueue, ProbeRejected, ProbeSubmit, ProbeSubmitRaises,
              InstallProbe, ProbeWake, OnlyGoto
<1>5. ASSUME NEW c \in Closers, CloseShell(c)
      PROVE  ReadsAProcess'
  BY <1>5 DEF CloseShell, CloseRefused, CloseStart, CloseJoinRaises, CloseExit, CloseExitRaises,
              CloseNoProcess, CloseFinish, ReaderJoined, OnlyGoto
<1>6. CASE Interrupt \/ SendToShell
  BY <1>6 DEF Interrupt, SendToShell
<1>7. CASE UNCHANGED vars
  BY <1>7 DEF vars
<1> QED BY <1>1, <1>2, <1>3, <1>4, <1>5, <1>6, <1>7, ReadShellLoopReads DEF Next

-----------------------------------------------------------------------------
(* The invariant.                                                          *)

LEMMA NextControl ==
  ASSUME TypeOK, Control, [Next]_vars
  PROVE  Control'
<1>1. CASE UNCHANGED vars
  BY <1>1, ControlQuiet DEF vars, command, locks, tasks
<1> QED BY <1>1, OpenShellControl, ReadShellLoopControl, RemoteShellControl, CallControl,
           RunShellCommandControl, GetShellCwdControl, CloseShellControl DEF Next

LEMMA IndInvInductive == IndInv /\ [Next]_vars => IndInv'
BY NextType, NextReads, NextControl DEF IndInv, Control

THEOREM IndInvHolds == Spec => []IndInv
<1>1. Init => IndInv
  BY InitType, ControlInit, ReadsInit DEF IndInv, Control
<1> QED BY <1>1, IndInvInductive, PTL DEF Spec

(* Every variable of the session keeps its type.                           *)
THEOREM TypeCorrect == Spec => []TypeOK
<1>1. IndInv => TypeOK
  BY DEF IndInv
<1> QED BY <1>1, IndInvHolds, PTL

(* However many tasks call the session, and however their calls overlap,   *)
(* nobody waits for a future that the session has lost track of.           *)
THEOREM WaitersAreInstalled == Spec => []NoOrphanFuture
<1>1. IndInv => NoOrphanFuture
  BY DEF IndInv
<1> QED BY <1>1, IndInvHolds, PTL

(* _command_lock and _probe_lock are held by waiting tasks only.           *)
THEOREM LocksAreReleased == Spec => []LocksAreHeldByWaiters
<1>1. IndInv => LocksAreHeldByWaiters
  BY DEF IndInv
<1> QED BY <1>1, IndInvHolds, PTL

-----------------------------------------------------------------------------
(* No step drops a pending command or probe.                               *)

LEMMA StepKeepsPending ==
  ASSUME IndInv, Next
  PROVE  PendingKept
<1> USE DEF command, locks, tasks
<1>1. TypeOK /\ Control
  BY DEF IndInv, Control
<1>2. /\ fut \in [Runners \cup Probers -> Outcome]
      /\ cmdFut \in Ref(Runners) /\ probeFut \in Ref(Probers)
      /\ None \notin Runners \cup Probers
  BY <1>1, TasksAssumption DEF TypeOK, Tasks
<1>3. ASSUME UNCHANGED <<cmdFut, probeFut>>
      PROVE  PendingKept
  BY <1>3 DEF PendingKept
<1>4. ASSUME NEW o \in Openers, OpenShell(o) \/ ReadShellLoop(o) \/ RemoteShell(o)
      PROVE  PendingKept
  <2>1. OpenShell(o) \/ RemoteShell(o) => UNCHANGED <<cmdFut, probeFut>>
    BY DEF OpenShell, OpenRefused, OpenStart, OpenFinish, OpenWriteRaises, OpenFail, OnlyGoto,
           RemoteShell, RemoteBegins, RemotePrints, RemoteEnds, RemoteAnswers, RemoteConsumes,
           RemoteInterrupted, RemoteExits, RemoteDies, RemoteUnchanged
  <2> QED BY <1>1, <1>3, <1>4, <2>1, ReaderResolves
<1>5. ASSUME NEW t \in Runners, RunShellCommand(t)
      PROVE  PendingKept
  <2>1. CASE RunWake(t)
    <3>1. /\ UNCHANGED <<fut, probeFut>> /\ cmdLock = t /\ cmdFut \in {t, None} /\ Done(t)
      BY <1>1, <2>1 DEF RunWake, Control, LocksAreHeldByWaiters, InstalledByHolder
    <3> QED BY <3>1 DEF PendingKept, Done
  <2>2. CASE Submit(t) \/ SubmitRaises(t)
    BY <2>2 DEF Submit, SubmitRaises, Install, Busy, CommandActive, PendingKept
  <2> QED BY <1>3, <1>5, <2>1, <2>2 DEF RunShellCommand, RunRefused, RunQueue, RunRejected,
                                                OnlyGoto
<1>6. ASSUME NEW q \in Probers, GetShellCwd(q)
      PROVE  PendingKept
  <2>1. CASE ProbeWake(q)
    <3>1. UNCHANGED cmdFut /\ probeLock = q /\ probeFut \in {q, None}
      BY <1>1, <2>1 DEF ProbeWake, Control, LocksAreHeldByWaiters, InstalledByHolder
    <3>2. fut'[q] # "pending"
      BY <1>2, <2>1 DEF ProbeWake, Done
    <3> QED BY <3>1, <3>2 DEF PendingKept
  <2>2. CASE ProbeSubmit(q) \/ ProbeSubmitRaises(q)
    <3>1. /\ UNCHANGED cmdFut /\ probeFut' = q /\ fut' = [fut EXCEPT ![q] = "pending"]
          /\ probeFut # None => fut[probeFut] # "pending"
      BY <2>2 DEF ProbeSubmit, ProbeSubmitRaises, InstallProbe, ProbePending, Done
    <3> QED BY <1>2, <3>1 DEF PendingKept, Ref
  <2> QED BY <1>3, <1>6, <2>1, <2>2 DEF GetShellCwd, ProbeRefused, ProbeQueue, ProbeRejected,
                                                OnlyGoto
<1>7. ASSUME NEW c \in Closers, CloseShell(c)
      PROVE  PendingKept
  <2>1. CASE CloseStart(c)
    BY <1>2, <2>1 DEF CloseStart, Fail, PendingKept, Done, Ref
  <2> QED BY <1>3, <1>7, <2>1 DEF CloseShell, CloseRefused, CloseJoinRaises, CloseExit,
                                 CloseExitRaises, CloseNoProcess, CloseFinish, ReaderJoined, OnlyGoto
<1>8. CASE Interrupt
  BY <1>2, <1>8 DEF Interrupt, Fail, PendingKept, Done, Ref
<1>9. CASE SendToShell
  BY <1>3, <1>9 DEF SendToShell
<1> QED BY <1>4, <1>5, <1>6, <1>7, <1>8, <1>9 DEF Next

(* Every reset in the session acts on whatever command or probe is         *)
(* installed; none of them ever drops one that is still pending.           *)
THEOREM PendingIsKept == Spec => PendingIsNeverDropped
<1>1. IndInv /\ [Next]_vars => [PendingKept]_vars
  BY StepKeepsPending
<1> QED BY <1>1, IndInvHolds, PTL DEF Spec, PendingIsNeverDropped

-----------------------------------------------------------------------------
(* The shell implements CommandQueue: every step of it is a step of the    *)
(* queue under the mapping Queue, or changes neither the stage nor the     *)
(* answer of a command.                                                    *)

(* A command that was not sent yet is not installed and has no future; one *)
(* whose future is not resolved with a result has no result; and only one  *)
(* with a result is done.  The refinement needs this beside IndInv: a late *)
(* answer may find a future that nobody waits for any more.                *)
AnswersAreResults ==
  \A t \in Runners : /\ pc[t] \in {"idle", "lock"} => fut[t] = "none" /\ cmdFut # t
                     /\ fut[t] # "result" => result[t] = Nothing
                     /\ pc[t] = "done" => fut[t] = "result"

LEMMA ResultsInit == Init => AnswersAreResults
BY TasksAssumption DEF Init, AnswersAreResults, Nothing, Tasks

(* A step in which no runner moves, and futures are failed at most.        *)
LEMMA ResultsQuiet ==
  ASSUME AnswersAreResults, UNCHANGED result,
         \A t \in Runners : /\ pc'[t] = pc[t]
                            /\ fut'[t] = fut[t] \/ (fut[t] = "pending" /\ fut'[t] # "result"),
         cmdFut' = cmdFut \/ cmdFut' \notin Runners
  PROVE  AnswersAreResults'
BY DEF AnswersAreResults

(* What the reader does to the commands: nothing, or it resolves the one   *)
(* that is installed and pending.                                          *)
LEMMA ReaderResolvesInstalled ==
  ASSUME TypeOK, NEW r \in Openers, ReadShellLoop(r)
  PROVE  \/ /\ UNCHANGED result
            /\ \A t \in Runners : fut'[t] = fut[t]
         \/ \E res :
              /\ cmdFut # None /\ fut[cmdFut] = "pending"
              /\ fut' = [fut EXCEPT ![cmdFut] = "result"]
              /\ result' = [result EXCEPT ![cmdFut] = res]
<1> USE DEF tasks
<1>1. ASSUME NEW c, NEW out, Resolve(c, out)
      PROVE  \/ UNCHANGED <<fut, result>>
             \/ \E res :
                  /\ cmdFut # None /\ fut[cmdFut] = "pending"
                  /\ fut' = [fut EXCEPT ![cmdFut] = "result"]
                  /\ result' = [result EXCEPT ![cmdFut] = res]
  BY <1>1 DEF Resolve, CommandActive, Done
<1>2. CASE EmitReturns(r)
  BY <1>1, <1>2 DEF EmitReturns
<1>3. CASE ReaderTurn(r) \/ ReadTimeout(r) \/ ReadEof(r) \/ ReaderCancelled(r)
  BY <1>3 DEF ReaderTurn, ReadTimeout, ReadEof, ReaderCancelled, OnlyReader
<1>4. ASSUME NEW n, ReadForProbe(r, n)
      PROVE  UNCHANGED result /\ \A t \in Runners : fut'[t] = fut[t]
  BY <1>4, TasksAssumption DEF ReadForProbe, TypeOK, Ref, Tasks
<1>5. ASSUME NEW n, ReadUnsolicited(r, n) \/ ReadBeforeBegin(r, n) \/ ReadOutput(r, n)
      PROVE  UNCHANGED <<fut, result>>
  BY <1>5 DEF ReadUnsolicited, ReadBeforeBegin, ReadOutput
<1>6. ASSUME NEW n, ReadEnd(r, n)
      PROVE  UNCHANGED <<fut, result>> \/ \E c, out : Resolve(c, out)
  BY <1>6 DEF ReadEnd
<1> QED BY <1>1, <1>2, <1>3, <1>4, <1>5, <1>6 DEF ReadShellLoop, ReadChunk

(* Failing the installed command.                                          *)
LEMMA FailsInstalled ==
  ASSUME TypeOK, NEW futures, NEW why \in Outcome \ {"result"}, Fail(futures, why)
  PROVE  \A t \in Runners : \/ fut'[t] = fut[t]
                            \/ t \in futures /\ fut[t] = "pending" /\ fut'[t] = why
BY DEF Fail, TypeOK, Done

(* The actions that touch no command.                                      *)
LEMMA OtherCalls ==
  ASSUME TypeOK, Next,
         ~(\E r \in Openers : ReadShellLoop(r)), ~(\E t \in Runners : RunShellCommand(t)),
         ~(\E c \in Closers : CloseStart(c)), ~Interrupt
  PROVE  /\ UNCHANGED <<cmdFut, result>>
         /\ \A t \in Runners : pc'[t] = pc[t] /\ fut'[t] = fut[t]
<1> USE DEF command, locks, tasks, OnlyGoto
<1>1. ASSUME NEW o \in Openers, OpenShell(o)
      PROVE  UNCHANGED <<cmdFut, fut, result>> /\ \A t \in Runners : pc'[t] = pc[t]
  <2>1. UNCHANGED <<cmdFut, fut, result>>
    BY <1>1 DEF OpenShell, OpenRefused, OpenStart, OpenFinish, OpenWriteRaises, OpenFail
  <2>2. \A t \in Runners \cup Probers : pc'[t] = pc[t]
    BY <1>1, OtherTask DEF OpenShell, OpenRefused, OpenStart, OpenFinish, OpenWriteRaises, OpenFail
  <2> QED BY <2>1, <2>2
<1>2. ASSUME NEW p \in Openers, RemoteShell(p)
      PROVE  UNCHANGED <<cmdFut, fut, result, pc>>
  BY <1>2 DEF RemoteShell, RemoteBegins, RemotePrints, RemoteEnds, RemoteAnswers, RemoteConsumes,
              RemoteInterrupted, RemoteExits, RemoteDies, RemoteUnchanged
<1>3. ASSUME NEW q \in Probers, GetShellCwd(q)
      PROVE  /\ UNCHANGED <<cmdFut, result>>
             /\ \A t \in Runners : pc'[t] = pc[t] /\ fut'[t] = fut[t]
  <2>1. \A t \in Runners : t # q
    BY TasksAssumption
  <2>2. UNCHANGED <<cmdFut, result>>
    BY <1>3 DEF GetShellCwd, ProbeRefused, ProbeQueue, ProbeRejected, ProbeSubmit,
                ProbeSubmitRaises, InstallProbe, ProbeWake
  <2>3. \A t \in Runners : pc'[t] = pc[t]
    BY <1>3, <2>1 DEF GetShellCwd, ProbeRefused, ProbeQueue, ProbeRejected, ProbeSubmit,
                      ProbeSubmitRaises, ProbeWake, Goto, TypeOK, Tasks
  <2>4. \A t \in Runners : fut'[t] = fut[t]
    BY <1>3, <2>1 DEF GetShellCwd, ProbeRefused, ProbeQueue, ProbeRejected, ProbeSubmit,
                      ProbeSubmitRaises, InstallProbe, ProbeWake, TypeOK
  <2> QED BY <2>2, <2>3, <2>4
<1>4. ASSUME NEW c \in Closers, CloseShell(c), ~CloseStart(c)
      PROVE  UNCHANGED <<cmdFut, fut, result>> /\ \A t \in Runners : pc'[t] = pc[t]
  <2>1. UNCHANGED <<cmdFut, fut, result>>
    BY <1>4 DEF CloseShell, CloseRefused, CloseJoinRaises, CloseExit, CloseExitRaises,
                CloseNoProcess, CloseFinish, ReaderJoined
  <2>2. \A t \in Runners \cup Probers : pc'[t] = pc[t]
    BY <1>4, OtherTask DEF CloseShell, CloseRefused, CloseJoinRaises, CloseExit, CloseExitRaises,
                           CloseNoProcess, CloseFinish, ReaderJoined
  <2> QED BY <2>1, <2>2
<1>5. CASE SendToShell
  BY <1>5 DEF SendToShell
<1> QED BY <1>1, <1>2, <1>3, <1>4, <1>5 DEF Next

-----------------------------------------------------------------------------
(* The mapping.                                                            *)

(* The stage of a command, by the position of its task and its future, and *)
(* what its caller is told: before a step and after it.                    *)
CommandStage == [t \in Runners |-> Stage(t)]
CommandAnswer == [t \in Runners |-> IF pc[t] \in {"waiting", "done"} THEN result[t] ELSE Nothing]

LEMMA StageValue ==
  ASSUME NEW t
  PROVE  /\ pc[t] = "idle" => Stage(t) = "new"
         /\ pc[t] = "lock" => Stage(t) = "queued"
         /\ pc[t] = "waiting" /\ fut[t] = "pending" => Stage(t) = "running"
         /\ pc[t] = "waiting" /\ fut[t] = "result" => Stage(t) = "answered"
         /\ pc[t] = "waiting" /\ fut[t] \notin {"pending", "result"} => Stage(t) = "broken"
         /\ pc[t] \notin {"idle", "lock", "waiting"} => Stage(t) = pc[t]
BY DEF Stage

LEMMA NextStageValue ==
  ASSUME NEW t
  PROVE  /\ pc'[t] = "idle" => Stage(t)' = "new"
         /\ pc'[t] = "lock" => Stage(t)' = "queued"
         /\ pc'[t] = "waiting" /\ fut'[t] = "pending" => Stage(t)' = "running"
         /\ pc'[t] = "waiting" /\ fut'[t] = "result" => Stage(t)' = "answered"
         /\ pc'[t] = "waiting" /\ fut'[t] \notin {"pending", "result"} => Stage(t)' = "broken"
         /\ pc'[t] \notin {"idle", "lock", "waiting"} => Stage(t)' = pc'[t]
BY DEF Stage

LEMMA SameStage ==
  ASSUME NEW t, pc'[t] = pc[t], pc[t] # "waiting" \/ fut'[t] = fut[t]
  PROVE  Stage(t)' = Stage(t)
<1> QED BY StageValue, NextStageValue

LEMMA MoveStage ==
  ASSUME NEW c \in Runners, NEW from, NEW to,
         Stage(c) \in from, Stage(c)' = to,
         \A t \in Runners \ {c} : Stage(t)' = Stage(t)
  PROVE  Queue!Move(c, from, to)
BY DEF Queue!Move

LEMMA AnswersType ==
  ASSUME TypeOK
  PROVE  CommandAnswer \in [Runners -> [of : Ref(Runners), out : SUBSET Token]]
BY DEF TypeOK, CommandAnswer, Nothing, Ref

LEMMA QueueInit == Init => Queue!Init
<1> SUFFICES ASSUME Init PROVE Queue!Init
  OBVIOUS
<1>1. \A t \in Runners : Stage(t) = "new"
  BY StageValue DEF Init, Tasks
<1>2. CommandAnswer \in [Runners -> [of : Ref(Runners), out : SUBSET Token]]
  BY InitType, AnswersType
<1> QED BY <1>1, <1>2 DEF Queue!Init, CommandAnswer

(* No command moves.                                                       *)
LEMMA QueueStutters ==
  ASSUME \A t \in Runners : /\ pc'[t] = pc[t]
                            /\ pc[t] # "waiting" \/ fut'[t] = fut[t]
                            /\ pc[t] \notin {"waiting", "done"} \/ result'[t] = result[t]
  PROVE  UNCHANGED <<CommandStage, CommandAnswer>>
<1>1. \A t \in Runners : Stage(t)' = Stage(t)
  BY SameStage
<1> QED BY <1>1 DEF CommandStage, CommandAnswer

(* The steps of run_shell_command are those of its command.                *)
LEMMA RunShellCommandQueue ==
  ASSUME IndInv, AnswersAreResults, NEW c \in Runners, RunShellCommand(c)
  PROVE  Queue!Next
<1> USE DEF locks, command, tasks, Goto, OnlyGoto
<1>1. /\ pc \in [Tasks -> {"idle", "creating", "lock", "waiting", "joining", "exiting",
                           "done", "failed"}]
      /\ fut \in [Runners \cup Probers -> Outcome] /\ c \in Tasks
      /\ \A t \in Runners : t \in Tasks /\ t # None
      /\ \A t \in Runners : cmdLock = t <=> pc[t] = "waiting"
  BY TasksAssumption DEF IndInv, TypeOK, LocksAreHeldByWaiters, Tasks
<1>2. ASSUME NEW from, NEW to, Stage(c) \in from, Stage(c)' = to,
             \A t \in Runners \ {c} : pc'[t] = pc[t] /\ fut'[t] = fut[t]
      PROVE  Queue!Move(c, from, to)
  BY <1>2, SameStage, MoveStage
<1>3. ASSUME UNCHANGED result,
             \A t \in Runners \ {c} : pc'[t] = pc[t],
             \/ pc[c] \in {"waiting", "done"} /\ pc'[c] \in {"waiting", "done"}
             \/ result[c] = Nothing
      PROVE  UNCHANGED CommandAnswer
  BY <1>3 DEF CommandAnswer
<1>4. fut[c] # "result" => result[c] = Nothing
  BY DEF AnswersAreResults
<1>5. pc[c] \in {"idle", "lock"} => result[c] = Nothing
  BY DEF AnswersAreResults
<1>6. CASE RunQueue(c)
  <2>1. pc[c] = "idle" /\ pc' = [pc EXCEPT ![c] = "lock"] /\ UNCHANGED <<fut, result>>
    BY <1>6 DEF RunQueue
  <2>2. Stage(c) = "new" /\ Stage(c)' = "queued"
    BY <1>1, <2>1, StageValue, NextStageValue
  <2>3. Queue!Move(c, {"new"}, "queued") /\ UNCHANGED CommandAnswer
    BY <1>1, <1>2, <1>3, <1>5, <2>1, <2>2
  <2> QED BY <2>3 DEF Queue!Next, Queue!Wait, CommandAnswer
<1>7. CASE RunRefused(c) \/ RunRejected(c) \/ SubmitRaises(c)
  <2>1. /\ pc[c] \in {"idle", "lock"} /\ pc' = [pc EXCEPT ![c] = "failed"]
        /\ UNCHANGED result /\ \A t \in Runners \ {c} : fut'[t] = fut[t]
    BY <1>1, <1>7 DEF RunRefused, RunRejected, SubmitRaises, Install, GetsCommandLock
  <2>2. Stage(c) \in {"new", "queued"} /\ Stage(c)' = "failed"
    BY <1>1, <2>1, StageValue, NextStageValue
  <2>3. Queue!Move(c, {"new", "queued"}, "failed") /\ UNCHANGED CommandAnswer
    BY <1>1, <1>2, <1>3, <1>5, <2>1, <2>2
  <2> QED BY <2>3 DEF Queue!Next, Queue!Refuse, CommandAnswer
<1>8. CASE Submit(c)
  <2>1. /\ cmdLock = None
        /\ \/ pc[c] = "lock"
           \/ pc[c] = "idle" /\ \A u \in Runners : pc[u] # "lock"
        /\ pc' = [pc EXCEPT ![c] = "waiting"] /\ fut' = [fut EXCEPT ![c] = "pending"]
        /\ UNCHANGED result
    BY <1>8 DEF Submit, Install, GetsCommandLock
  <2>2. Stage(c) \in {"new", "queued"} /\ Stage(c)' = "running"
    BY <1>1, <2>1, StageValue, NextStageValue
  <2>3. Queue!Move(c, {"new", "queued"}, "running") /\ UNCHANGED CommandAnswer
    BY <1>1, <1>2, <1>3, <1>5, <2>1, <2>2
  <2>4. \A d \in Runners : Stage(d) \notin {"running", "answered", "broken"}
    BY <1>1, <2>1, StageValue
  <2>5. Stage(c) = "new" => \A d \in Runners : Stage(d) # "queued"
    BY <1>1, <2>1, StageValue
  <2> QED BY <2>3, <2>4, <2>5 DEF Queue!Next, Queue!Start, Queue!OnTurn, Queue!Turn, CommandAnswer
<1>9. CASE RunWake(c)
  <2>1. /\ pc[c] = "waiting" /\ fut[c] # "pending" /\ UNCHANGED <<fut, result>>
        /\ pc' = [pc EXCEPT ![c] = IF fut[c] = "result" THEN "done" ELSE "failed"]
    BY <1>9 DEF RunWake, Done
  <2>2. UNCHANGED CommandAnswer
    BY <1>1, <1>3, <1>4, <2>1
  <2>3. CASE fut[c] = "result"
    <3>1. Stage(c) = "answered" /\ Stage(c)' = "done"
      BY <1>1, <2>1, <2>3, StageValue, NextStageValue
    <3>2. Queue!Move(c, {"answered"}, "done")
      BY <1>1, <1>2, <2>1, <3>1
    <3> QED BY <2>2, <3>2 DEF Queue!Next, Queue!Return, CommandAnswer
  <2>4. CASE fut[c] # "result"
    <3>1. Stage(c) = "broken" /\ Stage(c)' = "failed"
      BY <1>1, <2>1, <2>4, StageValue, NextStageValue
    <3>2. Queue!Move(c, {"broken"}, "failed")
      BY <1>1, <1>2, <2>1, <3>1
    <3> QED BY <2>2, <3>2 DEF Queue!Next, Queue!Return, CommandAnswer
  <2> QED BY <2>3, <2>4
<1> QED BY <1>6, <1>7, <1>8, <1>9 DEF RunShellCommand

(* A step that resolves, fails or leaves alone the installed command.      *)
LEMMA InstalledQueue ==
  ASSUME IndInv, IndInv', AnswersAreResults, NEW c,
         \A t \in Runners : pc'[t] = pc[t],
         \A t \in Runners \ {c} : fut'[t] = fut[t] /\ result'[t] = result[t],
         c \in Runners => \/ fut'[c] = fut[c] /\ result'[c] = result[c]
                          \/ fut[c] = "pending" /\ fut'[c] = "result"
                          \/ /\ fut[c] = "pending" /\ fut'[c] \notin {"pending", "result"}
                             /\ result'[c] = result[c]
  PROVE  [Queue!Next]_<<CommandStage, CommandAnswer>>
<1>1. \A t \in Runners \ {c} : Stage(t)' = Stage(t)
  BY SameStage
<1>2. c \in Runners /\ pc[c] = "done" => fut[c] # "pending"
  BY DEF AnswersAreResults
<1>3. CASE c \notin Runners \/ pc[c] # "waiting" \/ (fut'[c] = fut[c] /\ result'[c] = result[c])
  BY <1>2, <1>3, QueueStutters
<1>4. CASE c \in Runners /\ pc[c] = "waiting" /\ fut[c] = "pending" /\ fut'[c] = "result"
  <2>1. Stage(c) = "running" /\ Stage(c)' = "answered"
    BY <1>4, StageValue, NextStageValue
  <2>2. Queue!Move(c, {"running"}, "answered")
    BY <1>1, <1>4, <2>1, MoveStage
  <2>3. CommandAnswer' \in [Runners -> [of : Ref(Runners), out : SUBSET Token]]
    BY DEF IndInv, TypeOK, CommandAnswer, Nothing, Ref
  <2>4. \A d \in Runners \ {c} : CommandAnswer'[d] = CommandAnswer[d]
    BY DEF CommandAnswer
  <2> QED BY <1>4, <2>2, <2>3, <2>4 DEF Queue!Next, Queue!Answer, CommandAnswer
<1>5. CASE /\ c \in Runners /\ pc[c] = "waiting" /\ fut[c] = "pending"
           /\ fut'[c] \notin {"pending", "result"} /\ result'[c] = result[c]
  <2>1. Stage(c) = "running" /\ Stage(c)' = "broken"
    BY <1>5, StageValue, NextStageValue
  <2>2. Queue!Move(c, {"running"}, "broken")
    BY <1>1, <1>5, <2>1, MoveStage
  <2>3. UNCHANGED CommandAnswer
    BY <1>5 DEF CommandAnswer
  <2> QED BY <1>5, <2>2, <2>3 DEF Queue!Next, Queue!Break, CommandAnswer
<1> QED BY <1>3, <1>4, <1>5

LEMMA QueueStep ==
  ASSUME IndInv, IndInv', AnswersAreResults, [Next]_vars
  PROVE  [Queue!Next]_<<CommandStage, CommandAnswer>> /\ AnswersAreResults'
<1> USE DEF command, tasks, locks
<1>1. /\ TypeOK /\ None \notin Runners
      /\ fut \in [Runners \cup Probers -> Outcome] /\ cmdFut \in Ref(Runners)
      /\ result \in [Runners -> [of : Ref(Runners), out : SUBSET Token]]
  BY TasksAssumption DEF IndInv, TypeOK, Tasks
<1>2. ASSUME NEW r \in Openers, ReadShellLoop(r)
      PROVE  [Queue!Next]_<<CommandStage, CommandAnswer>> /\ AnswersAreResults'
  <2>1. UNCHANGED <<pc, cmdFut>>
    BY <1>1, <1>2, ReaderResolves
  <2>2. CASE UNCHANGED result /\ \A t \in Runners : fut'[t] = fut[t]
    BY <2>1, <2>2, QueueStutters, ResultsQuiet
  <2>3. CASE \E res : /\ cmdFut # None /\ fut[cmdFut] = "pending"
                      /\ fut' = [fut EXCEPT ![cmdFut] = "result"]
                      /\ result' = [result EXCEPT ![cmdFut] = res]
    <3>1. /\ cmdFut \in Runners /\ fut[cmdFut] = "pending" /\ fut'[cmdFut] = "result"
          /\ \A t \in Runners \ {cmdFut} : fut'[t] = fut[t] /\ result'[t] = result[t]
      BY <1>1, <2>3 DEF Ref
    <3>2. [Queue!Next]_<<CommandStage, CommandAnswer>>
      BY <2>1, <3>1, InstalledQueue
    <3>3. AnswersAreResults'
      BY <2>1, <3>1 DEF AnswersAreResults
    <3> QED BY <3>2, <3>3
  <2> QED BY <1>1, <1>2, <2>2, <2>3, ReaderResolvesInstalled
<1>3. ASSUME NEW c \in Runners, RunShellCommand(c)
      PROVE  [Queue!Next]_<<CommandStage, CommandAnswer>> /\ AnswersAreResults'
  <2>1. Queue!Next
    BY <1>3, RunShellCommandQueue
  <2>2. /\ pc \in [Tasks -> {"idle", "creating", "lock", "waiting", "joining", "exiting",
                             "done", "failed"}]
        /\ c \in Tasks /\ Runners \subseteq Tasks
    BY <1>1 DEF TypeOK, Tasks
  <2>3. CASE RunRefused(c) \/ RunQueue(c) \/ RunRejected(c)
    <3>1. /\ UNCHANGED <<cmdFut, fut, result>> /\ pc[c] \in {"idle", "lock"}
          /\ pc' = [pc EXCEPT ![c] = "lock"] \/ pc' = [pc EXCEPT ![c] = "failed"]
      BY <2>3 DEF RunRefused, RunQueue, RunRejected, GetsCommandLock, OnlyGoto, Goto
    <3>2. AnswersAreResults'
      BY <1>1, <2>2, <3>1 DEF AnswersAreResults
    <3> QED BY <2>1, <3>2
  <2>4. CASE Submit(c) \/ SubmitRaises(c)
    <3>1. /\ cmdFut' = c /\ fut' = [fut EXCEPT ![c] = "pending"] /\ UNCHANGED result
          /\ pc[c] \in {"idle", "lock"}
          /\ pc' = [pc EXCEPT ![c] = "waiting"] \/ pc' = [pc EXCEPT ![c] = "failed"]
      BY <2>4 DEF Submit, SubmitRaises, Install, GetsCommandLock, Goto
    <3>2. AnswersAreResults'
      BY <1>1, <2>2, <3>1 DEF AnswersAreResults
    <3> QED BY <2>1, <3>2
  <2>5. CASE RunWake(c)
    <3>1. /\ cmdFut' \in {cmdFut, None} /\ UNCHANGED <<fut, result>>
          /\ pc' = [pc EXCEPT ![c] = IF fut[c] = "result" THEN "done" ELSE "failed"]
      BY <2>5 DEF RunWake, ResetCommandState, Goto
    <3>2. AnswersAreResults'
      BY <1>1, <2>2, <3>1 DEF AnswersAreResults
    <3> QED BY <2>1, <3>2
  <2> QED BY <1>3, <2>3, <2>4, <2>5 DEF RunShellCommand
<1>4. ASSUME Interrupt \/ \E c \in Closers : CloseStart(c)
      PROVE  [Queue!Next]_<<CommandStage, CommandAnswer>> /\ AnswersAreResults'
  <2>1. /\ UNCHANGED result /\ cmdFut' = None
        /\ \A t \in Runners : pc'[t] = pc[t]
    <3>1. CASE Interrupt
      BY <3>1 DEF Interrupt, ResetCommandState
    <3>2. ASSUME NEW c \in Closers, CloseStart(c)
          PROVE  UNCHANGED result /\ cmdFut' = None /\ \A t \in Runners : pc'[t] = pc[t]
      BY <1>1, <3>2, OtherTask DEF CloseStart, ResetCommandState
    <3> QED BY <1>4, <3>1, <3>2
  <2>2. PICK why \in {"interrupted", "closed"} : \E futures \in {{cmdFut}, {probeFut, cmdFut}} :
          Fail(futures, why)
    BY <1>4 DEF Interrupt, CloseStart
  <2>3. \A t \in Runners : \/ fut'[t] = fut[t]
                           \/ t \in {probeFut, cmdFut} /\ fut[t] = "pending" /\ fut'[t] = why
    BY <1>1, <2>2, FailsInstalled DEF Outcome
  <2>4. probeFut \notin Runners
    BY <1>1, TasksAssumption DEF TypeOK, Ref
  <2>5. [Queue!Next]_<<CommandStage, CommandAnswer>>
    BY <2>1, <2>3, <2>4, InstalledQueue
  <2>6. AnswersAreResults'
    BY <1>1, <2>1, <2>3, ResultsQuiet
  <2> QED BY <2>5, <2>6
<1>5. CASE UNCHANGED vars
  BY <1>5, QueueStutters, ResultsQuiet DEF vars
<1>6. CASE /\ Next
           /\ ~(\E r \in Openers : ReadShellLoop(r)) /\ ~(\E t \in Runners : RunShellCommand(t))
           /\ ~(\E c \in Closers : CloseStart(c)) /\ ~Interrupt
  BY <1>1, <1>6, OtherCalls, QueueStutters, ResultsQuiet
<1> QED BY <1>2, <1>3, <1>4, <1>5, <1>6

LEMMA ResultsHold == Spec => []AnswersAreResults
<1>1. IndInv /\ IndInv' /\ AnswersAreResults /\ [Next]_vars => AnswersAreResults'
  BY QueueStep
<1> QED BY <1>1, ResultsInit, IndInvHolds, PTL DEF Spec

(* Whatever is cancelled, closed or killed underneath, commands take turns,*)
(* a command is answered once, and its caller is told that answer: the     *)
(* session implements the queue (run_shell_command, _try_finish_command,   *)
(* interrupt_shell_command, close_shell).                                  *)
THEOREM ShellImplementsQueue == Spec => QueueSpec
<1>1. IndInv /\ IndInv' /\ AnswersAreResults /\ [Next]_vars
        => [Queue!Next]_<<[t \in Runners |-> Stage(t)],
                          [t \in Runners |-> IF pc[t] \in {"waiting", "done"}
                                                THEN result[t] ELSE Nothing]>>
  BY QueueStep DEF CommandStage, CommandAnswer
<1> QED BY <1>1, QueueInit, ResultsHold, IndInvHolds, PTL DEF Spec, QueueSpec, Queue!Spec

=============================================================================
