---------------------------- MODULE CommandText ----------------------------
(***************************************************************************)
(* How the output of one shell command is found in the text that the shell *)
(* writes (_try_finish_command, _cleanup_shell_output and                  *)
(* _emit_command_stream_delta in app/infrastructure/ssh/asyncssh_runtime.  *)
(* py).  read() may return the text in pieces that end anywhere, in the    *)
(* middle of a marker too.  InteractiveShell takes markers and output as   *)
(* whole; this module opens them.                                          *)
(*                                                                         *)
(* A text is a sequence of symbols: "n" and "r" are the two that end a line*)
(* ("\n" and "\r"), "c" and "a" the two halves of the command as it was    *)
(* typed, "x" anything else, and a marker a few symbols; a piece may end   *)
(* between any two.                                                        *)
(***************************************************************************)
EXTENDS OutputPager

CONSTANTS
  None,
  MaxLen,      \* bound: symbols that the command prints
  MaxPage      \* bound: sizes of a page

ASSUME BoundsAssumption == MaxLen \in Nat /\ MaxPage \in Nat

Begin   == <<"b", "B">>
(* "m" alone is not known for a marker; with "k" it holds "__SSHBOT_CMD_". *)
End     == <<"m", "k", "E">>
Command == <<"c", "a">>
Cwd     == <<"d", "d">>
Status  == <<"0", "|">>
Symbols == {"n", "r", "c", "a", "x", "b", "B", "m", "k", "E", "0", "|", "d"}
Printed == UNION {[1..l -> {"n", "c", "a", "x"}] : l \in 0..MaxLen}

ASSUME NoneAssumption == None \notin [output : Seq(Symbols), cwd : Seq(Symbols)]

VARIABLES
  printed,      \* what the command prints
  wire,         \* what the shell has written and nobody has read
  buffer,       \* _command_buffer
  started,      \* _command_started
  stripped,     \* _command_echo_stripped
  streamed,     \* _command_streamed_output
  shown,        \* what the output callback has been given, joined
  result,       \* the result of the future
  cutEnd, cutCwd,  \* history: has a piece ended inside the END marker, the cwd,
  cutEcho          \* ..., where the last line so far was the command?

parser == <<buffer, started, stripped, streamed, result>>
vars   == <<printed, wire, parser, shown, cutEnd, cutCwd, cutEcho>>

-----------------------------------------------------------------------------
(* Texts.  A definition marked "fault" is a mistake that the properties    *)
(* are tested against.                                                     *)

Starts(t, p, i) == i + Len(p) - 1 <= Len(t) /\ SubSeq(t, i, i + Len(p) - 1) = p
(* str.find, 0 if there is none.                                           *)
Find(t, p) == LET at == {i \in 1..Len(t) : Starts(t, p, i)} IN IF at = {} THEN 0 ELSE Min(at)
From(t, i) == SubSeq(t, i, Len(t))

(* replace("\r", "\n")                                                     *)
Normal(t) == [i \in DOMAIN t |-> IF t[i] = "r" THEN "n" ELSE t[i]]

(* split("\n") and "\n".join, of a text that is normal already             *)
Lines(t) ==
  LET upTo[i \in 0..Len(t)] ==
        IF i = 0 THEN <<<<>>>>
        ELSE LET ls == upTo[i - 1] IN
             IF t[i] = "n" THEN Append(ls, <<>>)
             ELSE [ls EXCEPT ![Len(ls)] = Append(ls[Len(ls)], t[i])]
  IN  upTo[Len(t)]
Join(ls) == FlattenSeq([l \in DOMAIN ls |-> IF l = 1 THEN ls[l] ELSE <<"n">> \o ls[l]])

(* Blank lines at the beginning and at the end are taken away.             *)
Untrimmed(ls) == ls                                                        \* fault
Trimmed(ls) == LET full == {i \in DOMAIN ls : ls[i] # <<>>}
               IN  IF full = {} THEN <<<<>>>> ELSE SubSeq(ls, Min(full), Max(full))

HasMarker(l) == Contains(l, "k")
WithoutMarkers(ls) ==
  LET upTo[i \in 0..Len(ls)] ==
        IF i = 0 THEN <<>>
        ELSE IF HasMarker(ls[i]) THEN upTo[i - 1] ELSE Append(upTo[i - 1], ls[i])
  IN  upTo[Len(ls)]
HasEcho(t)   == Contains(Lines(t), Command)

(* _cleanup_shell_output: the first line that is the command itself goes,  *)
(* unless one went before, and so do lines with a marker.                  *)
Cleaned(t) ==
  LET ls == IF stripped THEN Lines(t) ELSE RemoveFirst(Lines(t), Command)
  IN  Join(Trimmed(WithoutMarkers(ls)))
Cleans(t) == stripped' = (stripped \/ HasEcho(t))

(* _emit_command_stream_delta: what is new, or everything when the text    *)
(* does not continue what was streamed before.                             *)
DeltaWhole(t) == t                                                         \* fault
Delta(t) == IF IsPrefix(streamed, t) THEN From(t, Len(streamed) + 1) ELSE t
Emit(t) ==
  /\ streamed' = t
  /\ shown' = IF t = streamed THEN shown ELSE shown \o Delta(t)

-----------------------------------------------------------------------------
(* A text with every "n" written as the symbols e.  The terminal that      *)
(* open_shell asks for writes each as a carriage return and a line feed.   *)
WithLineEnds(t, e) == FlattenSeq([i \in DOMAIN t |-> IF t[i] = "n" THEN e ELSE <<t[i]>>])
CRLF == <<"r", "n">>

Init ==
  /\ printed \in Printed
  /\ \E before \in {<<>>, <<"x", "r", "n">>} :      \* of the shell's own start
       wire = before \o Begin \o CRLF \o WithLineEnds(printed, CRLF) \o End \o Status \o Cwd \o CRLF
  /\ buffer = <<>> /\ started = FALSE /\ stripped = FALSE
  /\ streamed = <<>> /\ shown = <<>> /\ result = None
  /\ cutEnd = FALSE /\ cutCwd = FALSE /\ cutEcho = FALSE

(* A piece of k symbols arrives: what is to be parsed with it.             *)
PieceAlone(k) == SubSeq(wire, 1, k)                                        \* fault
Arrived(k)    == buffer \o SubSeq(wire, 1, k)

Reads(k) ==
  /\ result = None
  /\ k \in 1..Len(wire)
  /\ wire' = From(wire, k + 1)
  /\ cutEnd' = (cutEnd \/ (wire' # <<>> /\ Head(wire') \in {"k", "E"}))
  /\ cutCwd' = (cutCwd \/ (wire' # <<>> /\ Head(wire') = "d" /\ wire[k] = "d"))
  /\ UNCHANGED printed

(* lstrip("\n") *)
Stripped(t) == IF \A i \in DOMAIN t : t[i] = "n" THEN <<>>
               ELSE From(t, Min({i \in DOMAIN t : t[i] # "n"}))
(* The text after BEGIN, if there is one.                                  *)
Normalized(k) ==
  LET t == Normal(Arrived(k)) IN
  IF started THEN {t}
  ELSE {Stripped(From(t, i + Len(Begin))) : i \in {Find(t, Begin)} \ {0}}

ReadBeforeBegin(k) ==
  /\ Reads(k) /\ Normalized(k) = {}
  /\ buffer' = Arrived(k)
  /\ UNCHANGED <<started, stripped, streamed, shown, result, cutEcho>>

ReadOutput(k) ==
  /\ Reads(k) /\ started' = TRUE
  /\ \E t \in Normalized(k) :
       /\ Find(t, End) = 0
       /\ Cleans(t) /\ Emit(Cleaned(t))
       /\ buffer' = t
       /\ cutEcho' = (cutEcho \/ Last(Lines(t)) = Command)
  /\ UNCHANGED result

(* The regular expression behind END: an exit code, "|", and a directory   *)
(* of one symbol at least.                                                 *)
HasStatus(tail)   == Starts(tail, Status, 1) /\ Len(tail) > Len(Status) /\ tail[Len(Status) + 1] # "n"
Directory(tail)   == Head(Lines(From(tail, Len(Status) + 1)))
TailOf(t, i)      == From(t, i + Len(End))

ReadPartOfEnd(k) ==
  /\ Reads(k) /\ started' = TRUE
  /\ \E t \in Normalized(k) : \E i \in {Find(t, End)} \ {0} :
       ~HasStatus(TailOf(t, i)) /\ buffer' = t
  /\ UNCHANGED <<stripped, streamed, shown, result, cutEcho>>

ReadEnd(k) ==
  /\ Reads(k) /\ started' = TRUE
  /\ \E t \in Normalized(k) : \E i \in {Find(t, End)} \ {0} :
       LET output == SubSeq(t, 1, i - 1)
           tail   == TailOf(t, i)
       IN  /\ HasStatus(tail)
           /\ Cleans(output) /\ Emit(Cleaned(output))
           /\ buffer' = From(tail, Len(Status) + Len(Directory(tail)) + 1)
           /\ result' = [output |-> Cleaned(output), cwd |-> Directory(tail)]
  /\ UNCHANGED cutEcho

Next == \E k \in 1..Len(wire) :
          ReadBeforeBegin(k) \/ ReadOutput(k) \/ ReadPartOfEnd(k) \/ ReadEnd(k)
Spec == Init /\ [][Next]_vars

-----------------------------------------------------------------------------
(* Correctness.                                                            *)

(* What a command is to be answered with: what it printed without the      *)
(* blank lines around it, and with every line end twice, as both symbols of*)
(* the terminal's line end count for one.                                  *)
Output   == WithLineEnds(printed, <<"n", "n">>)
Expected == Join(Trimmed(Lines(Output)))

(* The output in the result is the one between the markers, however the    *)
(* text arrives: unless one of its lines is the command itself, which is   *)
(* taken for an echo (runtime:283-285).  The directory may be cut: the     *)
(* regular expression takes what is there (runtime:236).                   *)
ResultIsOutput ==
  result # None => /\ HasEcho(Output) \/ result.output = Expected
                   /\ cutCwd \/ result.cwd = Cwd

(* Whatever was streamed before, in the end the whole output was streamed, *)
(* and as the last.  What is streamed is a beginning of that output, in the*)
(* end all of it and once (test_asyncssh_runtime.py:203): unless a piece   *)
(* ended inside the END marker, whose beginning is then streamed as output,*)
(* or lost with the line it is on, and everything is streamed again; or it *)
(* ended where a line began with the command, whose beginning is then lost *)
(* as an echo, and everything is streamed again.                           *)
StreamIsOutput ==
  ~HasEcho(Output) =>
    /\ result # None => IsSuffix(Expected, shown)
    /\ ~cutEnd /\ ~cutEcho => IsPrefix(shown, Expected) /\ (result # None => shown = Expected)

(* What a command prints, sent in pages of any size, is what it printed,   *)
(* nothing lost or twice at a boundary (paging.py:12-40, session.py:269).  *)
PagesAreWhole == \A size \in 1..MaxPage : WellPaged(printed, size)

(* The command is answered as soon as its text has arrived, whatever the   *)
(* pieces: a marker that was cut is put together (runtime:237-239, 252).   *)
IsAnswered == wire = <<>> => result # None
=============================================================================
