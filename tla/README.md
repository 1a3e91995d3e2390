# SSHConnectionBot in TLA+

A formal model of the concurrent core of the SSH bot: a Telegram bot through
which a user opens SSH sessions to servers, types into an interactive shell or
runs single commands, and gets the output back as edited messages.  The
modules are translated from the code under `src/app`; TLC checks them on small
instances, and TLAPS proves nearly all of the safety properties for every
instance.

The whole bot runs in one asyncio event loop.  aiogram handles every update in
a task of its own, so two messages of one user are handled concurrently, and
the tasks share the session objects.  There are no threads: a task is
interrupted only at an `await` that really suspends.  Every action of the
models is one such uninterrupted segment, and nearly everything that can go
wrong is a fact that held before an `await` and no longer holds after it.

## Inventory

| component | state | operations | talks to |
|---|---|---|---|
| interactive shell (`AsyncSSHSession`, `asyncssh_runtime.py:138-465`) | `is_interactive`, process, reader task, callback, current command (future, markers, buffer, streamed output), current probe, two locks | `open_shell`, reader loop, `run_shell_command`, `get_shell_cwd`, `interrupt_shell_command`, `send_to_shell`, `close_shell` | the remote shell through stdin and stdout; the output callback of the handler |
| connection (`AsyncSSHSession`, lines 61-136, 467-487) | connection, last activity, credentials | `connect`, `execute`, `disconnect`, SFTP | the SSH server; the registry |
| `SessionRegistry` (lines 490-575) | user -> name -> session, user -> active name | `store`, `get`, `get_all`, `switch`, `remove`, `remove_all`, `check_timeouts`, `close_all` | calls `disconnect` of a session |
| `ConnectionService`, `CommandService` (`services.py:43-279`) | none of their own | connect, quick connect, disconnect, disconnect all, switch, status, timeout clean-up, execute, shell calls | registry, MongoDB |
| `SavedServerService`, `GroupService` (`services.py:282-375`) | documents in MongoDB | save, list, delete, assign to a group | registry, shell probe, MongoDB |
| `MacroService` (`services.py:378-395`) | documents in MongoDB | save, list, delete | MongoDB |
| `FileTransferService`, `MonitorService` (`services.py:398-453`) | temporary directories | upload, download, monitor | session |
| `SessionHandler` (`handlers/session.py`) | per user: shell state with a lock and a stream context; paged outputs | route a message to a command or to the terminal, stream output, rotate the stream, pages | services, publisher |
| `HybridStreamPublisher` | message per stream, draft support per chat | `publish` | Telegram |
| `ConnectHandler` and the other handlers | dialogue state (FSM) | `/connect`, `/disconnect`, `/switch`, `/status`, `/save`, groups, macros, files | services |
| `BotApp` | the watchdog task | start, shutdown, `_timeout_watchdog` | everything |
| `OutputPager`, `Formatter`, validators, monitor parsing | none | pure functions | - |

What is hard here:

* **Check, await, act.**  `open_shell`, `connect`, `quick_connect` and
  `run_shell_command` test a condition, wait, and then act on it.
* **Await, then write back.**  The reader awaits the output callback and then
  writes the buffer or resolves "the current command"; `close_shell` awaits the
  reader and then clears whatever reader, process and callback there are;
  `remove` awaits a disconnection and then chooses the active session.
* **One byte stream, several readers of it.**  Command output, probe answers
  and terminal input share a channel; chunks cut it anywhere.
* **Failures half way.**  A write to a shell that has ended raises
  `BrokenPipeError`, in several places outside the `try` around it; a database
  call may raise after the registry was changed; a call that makes several
  database operations may end between two of them, and so may the bot itself.
* **Dialogues.**  `/connect` is a conversation over many messages; it can be
  abandoned, begun again, answered through buttons that are still on the screen,
  and its handlers wait (for a deletion, a download) while it goes on.
* **Liveness.**  A command has no time limit; the only ways out of the wait
  are the END marker, `/cancel` and closing.  The watchdog is one task.

What makes each component correct: for the shell, that no waiter is orphaned,
locks are released, output and results belong to the right command and
everything that was asked returns; for the registry, that a session has at most
one owner taking it down, that no connected session becomes unreachable and that
idle ones are closed; for the streaming, that everything printed is eventually
shown, once and in order; for the stores, that a saved server has its own
credentials and a group that exists; for transfers, that they
leave nothing behind; for the dialogue, that a connection is
made of the answers of one dialogue.  `PROJECT.json` lists the hazards line by line.

## Modules

### InteractiveShell

The shell of one session, and the remote shell behind it.  Tasks are constants:
`Openers`, `Closers`, `Runners`, `Probers`, each making one call; `pc[t]` names
the await at which the task is suspended.

| code | model |
|---|---|
| `is_interactive`, `_shell_process`, `_shell_reader_task`, `_shell_callback` | `interactive`, `process`, `readerTask`, `callback`; a process and a reader are named by the opener that made them |
| `_command_done_future` with the markers, `_command_buffer`, `_command_started`, `_command_streamed_output` | `cmdFut`, `cmdBuf`, `started`, `streamed`; a command is named by its runner, which stands for the uuid in the markers |
| `_probe_future` with its markers and buffer | `probeFut` |
| `_command_lock`, `_probe_lock` | `cmdLock`, `probeLock` (the holder) |
| a future's state and result | `fut`, `result` |
| the reader task | `reader[o]`: about to run, in `read()`, in the output callback, ended or failed, with the locals it needs afterwards |
| `task.cancel()` and awaiting the task | `cancelled`, `joins` |
| the channel and the remote shell | `alive`, `stdin`, `stdout`, `fg`, `printed` (external) |

`stdout` is a sequence of tokens: BEGIN marker, output piece, END marker, probe
answer.  A `read` takes any non-empty prefix, so chunks are cut at every token
boundary.  The remote shell runs lines in order, gives pending lines to a
running command as input, and on Ctrl-C drops what was typed before it; a
command may ignore the signal.

Abstracted: echo and clean-up of lines and markers split between two chunks
(both in CommandText), the `stty`/`cd` lines of a new shell, `last_activity`, the
text of errors.  A wake-up may be delayed arbitrarily and a free lock goes to
any waiter, which allows more orders than asyncio's queues do.  The shell
callbacks of both openers (`session.py:314`, `connect.py:119`) return without
suspending, so an unsolicited chunk is dropped in one step.  A dead process is
one whose end the client has noticed: writing to it raises.
`reply_shell_prompt` has no action: no handler calls it, and as it needs the
lock that the running command holds, it can never find an active command.

`Overlap` says whether calls of `open_shell` and `close_shell` may overlap in
time.  They may in the bot: `open_shell` tests `is_interactive` (line 141) before and
sets it (line 155) after the await of `create_process`, so both of two calls can
succeed, and the process and reader of the first shell are lost.  `open_shell`
may also be refused at any time, as the connection (`conn` of line 139) is not
part of this module, and it may raise after `_shell_process` is set, when the
shell has ended before its setup lines are written (lines 145-153).  The
properties that need the assumption that they do not are named below.

### CommandQueue

What `run_shell_command` promises to its callers: commands take turns, a turn
ends with one answer that nothing changes afterwards, and no newcomer overtakes
a command that waits.  `InteractiveShell!Queue` instantiates it with a mapping
from the position of a runner's task and the state of its future to the stage
of its command; `QueueSpec` is checked as a property of `shell_calls`.

### CommandText and OutputPager

InteractiveShell takes markers and output as whole tokens; CommandText opens
them for one command: `_try_finish_command`, `_cleanup_shell_output` and
`_emit_command_stream_delta`, on text that arrives in pieces cut anywhere.  A
text is a sequence of symbols: `n` and `r` are the line feed and the carriage
return, `c a` is the command as it was typed, `x` anything else; the markers are
`b B` and `m k E` (`k` stands for the part by which a line is known to hold a
marker), `d d` the directory.  A piece may end between any two symbols, within the
command's text and a line end too.  The terminal that `open_shell` asks for
(line 145; only its echo is turned off) writes every line end as `r n`, and the
parser takes each of the two for a line end (lines 222, 274).

| code | model |
|---|---|
| `_command_buffer`, `_command_started`, `_command_echo_stripped`, `_command_streamed_output` | `buffer`, `started`, `stripped`, `streamed` |
| what the callback was given | `shown` |
| the result of the future | `result` |
| the channel (external) | `wire`, and `printed`, what the command prints |

`cutEnd`, `cutCwd` and `cutEcho` record that a piece ended inside the END marker,
inside the directory, or where the last line so far read like the command.  The remote terminal does not echo (`stty -echo`, line 149), so a
line that is the command itself is always output here; the parser takes it for
an echo, which the properties except (`HasEcho`).  Left out: the lines that look
like prompts or titles (292-296), blanks inside lines, and a command that prints
carriage returns of its own, as a progress bar does.

OutputPager is `app/utils/paging.py` as operators on such texts, with the
reference definition: pages put together again are the text.

### ConnectionService

The registry of one user and the service calls on it (users share nothing but
the watchdog).  A session is named by the call that connected it; session name
1 is the saved server's name and `k` is "name-k".  `reg` is the dict of the
registry, `active` the active name, `conn` and `shell` what `disconnect()` of a
session depends on, `idle` the sessions whose last activity is before the
cutoff, `row` the documents in `ssh_sessions`.

* `get` drops a session that is not connected and passes the active name on;
  `get_all` *replaces* the dict, while a suspended `remove()` keeps the old one:
  `snap[t]` is what that task still sees.  The dict's order is any order.
* `disconnect()` of a session without a shell closes the connection in the
  step that popped it; with a shell, `close_shell` comes first and raises if
  the shell has ended.  `close_shell` is one step here; InteractiveShell has it
  in detail.
* The watchdog lists the idle names once, then looks each up again, removes it
  and deactivates its rows; an exception ends it.
* `/connect <saved>` is quick_connect followed by `_open_shell`; the inline
  button of `/quick` (`servers.py:67`) makes the first half only, which is a
  prefix of it as far as the registry is concerned.
* `storedOver` records which sessions were listed when another one was stored
  under their name; a session stored under a name that is free again is not
  among them.  `TimePasses` also ages a session whose connection is lost.
* `ShellDies` and `ConnectionLost` (external) do not happen to a session while
  it is being disconnected; happening just before or after gives the same.
  `Shells` says whether servers grant shells at all, `DbFails` whether MongoDB
  operations may raise.

Left out: `/shell` and `/exit` (in InteractiveShell),
credentials, hosts (in ActiveSession) and messages.  Deactivating the documents of
a name (`update_many`, `mongo.py:81`) is one step, here and in ActiveSession: that
a call reads them, or the database raises, when some are done is not modelled.

### Lifecycle

How the bot stops: ConnectionService goes on around `on_shutdown`, which cancels
the watchdog, awaits it, and disconnects every session (`close_all`).  The
shutdown hooks run when polling has ended, so no new call begins (external,
aiogram), but the suspended ones go on.  When `on_shutdown` has returned or
raised, the process ends and nothing moves any more.

| code | model |
|---|---|
| where `on_shutdown` is | `bot`: running, waiting for the watchdog, closing sessions, done, raised |
| the session whose `disconnect()` is awaited, and the rest of the dict that `remove_all` popped | `closing`, `left` |
| history | `known`, the sessions connected before `close_all`; `cancelLost` |

Cancelling the watchdog does what the code does at the await it is in: sleep
and `send_message` end it, and so does a database write, which MongoDB may have
got; in `close_shell` the await of the reader swallows it (`cancelLost`).  Of
the users there is one, so `close_all` is one `remove_all`; `mongo.close` and
what raises in it are left out.

### OutputStream

What a user sees of the commands typed into a shell: the routing of messages
(`handle_message`, `cmd_enter`, lines 359-465 of `handlers/session.py`), the
stream context of each command with its workers (lines 136-227) and
`HybridStreamPublisher`.  The shell itself is abstract: a running command
prints, ends, is interrupted, fails or is closed by `/exit`.

| code | model |
|---|---|
| the handler of a message or `/enter` | `pc[t]`; `target[t]` for one that waits to rotate a stream |
| `shell_state["lock"]`, `["rotate_stream"]` | `shellLock`, `Rotatable` |
| `stream_ctx["buffer"]`, `["last_pages"]`, `["delayed_publish_task"]` | `buffer`, `lastPages`, `delayed` |
| `["last_publish"]` and the clock | `due`: has the update interval passed? |
| `["has_streamed"]` | `printed[m] # 0` |
| `["lock"]` | `sending[m] # None`: only a publish that awaits Telegram holds it across an `await` |
| `on_stream`, `flush` and the `delayed_publish` tasks | `work[m][w]` for the workers `Out`, `Flush` and `Timers` |
| `["stream_ids"]` and the `StreamState` of each | `post[m]`, by page; new ids are an unposted row |
| the Telegram chat | `chat` (external): the bot's messages in order |

A chunk of output is a number, a page holds `PageSize` chunks.  A chunk stands for
text that `clean_terminal_output` leaves as it is.  The code cleans the whole
buffer anew for each publish (`session.py:231`, `formatting.py:26-33`), so an escape
sequence or a prompt line that is cut between chunks is shown at first and taken
back by the next edit; that is not modelled, and no property says that a message
only grows.  A request may
raise whether or not Telegram carried it out; the publisher then sends a new
message once, and gives up if that raises too.  "message is not modified" is
not a case: `last_text` and `last_pages` keep a page that is unchanged from
being sent.  A free lock goes to any waiter.  Cancelling a delayed publish stops
it at once if it has not started; otherwise its `finally` clause still runs,
as a step of its own, and clears the reference to whatever task is there.
Chunks are never blank; the write of input to the shell does not suspend; a
shell is not opened again after `/exit`; the one-shot path is in
ConnectionService.

### ActiveSession, ServerStore, FileTransfer, UserCommands

UserCommands composes the commands that work on the active session: ServerStore
(`/save`, `/group`, `/delgroup`, `/delserver`) and FileTransfer (`/upload`,
`/download`), both over ActiveSession, which is the registry and the session
documents as these commands see them: ConnectionService says how the registry
gets from one state to the next, here a session comes and goes in one step.

| code | model |
|---|---|
| the registry, the active name | `reg`, `active` |
| `ssh_sessions` | `row`, `named`, and `created`, the order of `created_at`; a connection stands for its host and its credentials |
| `saved_servers`, `server_groups` | `servers`, `groups` |
| the locals of a call on the store | `call[k]`: the await it is suspended at and what it has read |
| the locals of a transfer | `step[t]`, `session[t]` |
| the temporary directories | `dirs` |

An action is one database operation on one document (which MongoDB makes atomic)
and what the call does up to the next; the `update_many` of `/delgroup` goes through
the servers one by one, in any order, and may end in the middle.  An operation
that has raised, or whose bot has stopped, does no more afterwards.  Every operation may raise, which ends the call there; Telegram
and SFTP requests may raise.  `Restart` is a crash of the bot: tasks and the
registry are gone, documents and directories stay, a document that was being
written may have arrived or not.  Documents of earlier runs are there from the
start.  `overlapped` records that a command was given before the last database
command was answered; `MaxCommands` and `MaxRestarts` bound the run.

### ConnectForm

The dialogue of `/connect` (`connect.py:50-279`, `states.py`).  An answer stands
for the number of the dialogue it was given in, so that answers of two dialogues
can be told apart; a secret is a message with a password, a key or a passphrase.

| code | model |
|---|---|
| the FSM state and data | `state`, `data` |
| the inline keyboards on the screen | `keyboards` |
| the handler of a secret with its locals | `handler[m]` |
| what `service.connect` is called with | `made[m]` |

The FSM storage is in memory (`bot_app.py:28`) and does not suspend, so a handler
runs to the first request to Telegram that matters: the deletion of a message
with a secret, the download of a key.  `late`, `oldButton` and `hurried` record
what the user did meanwhile: begun a dialogue, pressed a button that was not
asked for, sent anything at all.  Answers that a validator rejects are left out.

### The proofs

| module | about |
|---|---|
| InteractiveShellProofs | types, waiters and locks of InteractiveShell with any overlap of calls; the refinement of CommandQueue |
| ShellAnswersProofs | readers, answers and their completeness in InteractiveShell, if openings and closings do not overlap |
| ConnectionServiceProofs | the registry, and Lifecycle's shutdown on top of it |
| CommandTextProofs | CommandText and OutputPager: answer, stream and pages of a command's output |
| OutputStreamProofs | what the user sees of a command's output |
| UserCommandsProofs | documents, credentials, groups and directories |
| ConnectFormProofs | the answers of the `/connect` dialogue |
| NaturalSets | smallest and largest elements of sets of naturals, and induction for them |

See "Proofs" for the theorems and the invariants behind them.  The modules
`MC...` add the symmetry sets for TLC, and MCShellLiveness a bound on the calls;
CommandText and Lifecycle are checked as they are.

## Runs

| run | question | result |
|---|---|---|
| `shell_calls` | two openings, one closing, two commands, one probe, one `/cancel`, shells that may die; openings and closings do not overlap; is `CommandQueue` implemented? | holds, 2.4 million states |
| `shell_overlap` | two openings and two closings that overlap, two probes, raw input: is the inductive invariant of the proofs kept? | holds, 0.9 million states |
| `shell_liveness` | any three of two commands, two probes and a `/cancel`, and a closing: is the END marker always delivered, do probes and closing return? | holds, 0.5 million states |
| `shell_own_result` | does a command after `/cancel` get its own result? | **violated** |
| `registry_calls` | two connects, a disconnect, disconnect all, a one-shot command, status, switch, watchdog; shells, database errors | holds, 3.5 million states |
| `bot_shutdown` | two connects, a disconnect, the watchdog, then a shutdown at any moment; shells, database errors: does it end, is every session closed, are idle ones disconnected before? | holds, 0.4 million states |
| `registry_watchdog_dies` | is an idle session always disconnected, whatever becomes of its shell? | **violated** |
| `stream_commands` | two messages, each a command or the other's input, `/enter`, `/cancel`, `/exit`, a request that raises: is the output shown in order and once, and does input freeze what is above it? | holds, 2.6 million states |
| `stream_live` | one command with four chunks on two pages, `/enter`, two requests that raise: is waiting output shown, and nothing after the end? | holds, 0.1 million states |
| `user_commands` | one `/save`, `/group`, `/delgroup`, `/delserver`, upload and download each, two connections, a restart, a database that may raise, at most four commands: are documents and directories consistent? | holds, 1.7 million states |
| `connect_form` | three dialogues, three secrets, old buttons, restarts: what is a connection made of? | holds, 0.7 million states |
| `command_text` | every output of up to five symbols, every division into pieces, pages of up to four symbols | holds, 0.3 million states |

What the properties say, beside the type invariants:

* `NoOrphanFuture`, `LocksAreHeldByWaiters`, `PendingIsNeverDropped`: whatever
  ends a command or a probe, its future is resolved before it is uninstalled
  and its lock is released with it, so nobody waits for a future no one can
  reach.  These hold with overlapping openings and closings too.
* `ResultIsolation`, `CompleteOutput`: a result holds the output of one command
  only, and all of it when no probe was made.  It is another command's only if
  that one was cancelled or closed, or was itself answered with another's; a
  command that got its own output answers nobody else.  This is the window that
  `shell_own_result` exhibits.
* `SingleReader`, `ShellIsServed` (need ~`Overlap`): an interactive session has
  exactly one reader, on its own process, until that process ends.
* `EndIsDelivered`, `CwdReturns`, `CloseReturns`: nothing waits for ever for
  something that has happened; a probe also returns when it queues behind another
  one that nobody answers.  `EndIsDelivered` is stated for commands without
  a probe, since a probe diverts the END marker (lines 170-173).
* `SingleOwner`: at most one call disconnects a session, and by then the
  registry has forgotten it.
* `NoOtherLeak`: a connected session is reachable through the registry or being
  taken down; the only exceptions are another session stored under its name while
  it was listed there, and a disconnection that raised.  A name that is used again
  later excuses nothing.
* `LiveRows`: the database row of a listed session is deactivated only by a
  call that meant another session of that name or by a `disconnect_all`.
* `TimeoutIsEnforced`: a listed session that stays idle is disconnected; it is
  violated, and `IdleIsDisconnected` holds: the same as long as no exception has
  ended the watchdog and the bot is not being stopped.
* `ShutdownReturns`: a shutdown returns or raises, wherever the watchdog and the
  suspended calls are, unless the watchdog swallowed its cancellation.
* `ShutdownCloses`: when it has returned, every session that was connected is
  closed; the exceptions are sessions that another call was disconnecting or had
  failed to, those the registry had lost to another session stored over them, and
  the one the cancelled watchdog was at.
* `ShownOnceInOrder`: read from the top, the bot's messages show a command's output
  in order and nothing twice, across pages, rotations, delayed publishes and the
  flush, as long as no request raises (a request that raised may have been carried
  out, and is then repeated).
* `EarlierStays`: a message that shows output from before the last input never
  changes again, whichever publish was under way, waiting or delayed when the
  stream was rotated.
* `FlushedIsShown`, `BufferIsShown`: at the end everything since the last input
  is shown; before the end, what waits in the buffer is shown without further
  output, because a delayed publish is always pending for it.
* `QuietAfterEnd`: nothing is added to a command's messages after its handler
  is done, although delayed publishes whose reference was lost still run.

* `QueueSpec`: the shell implements `CommandQueue`, whatever is cancelled, closed
  or killed underneath.
* `GroupsExist`, `SaveKeepsGroup`, `OwnCredentials`: wherever a call or the bot
  ends, a server's group exists, saving again keeps it, and a saved server has
  the credentials of its own connection or none.  All three need a user who
  waits for each answer (~`overlapped`): without it `/delgroup` between a
  `/save`'s reading and writing brings the group back on a server only, and a
  `/save` that meets a connect may find the row of an earlier session.
* `NoOtherDirLeft`: no transfer leaves its directory, but a download whose SFTP
  request raised, and one that the bot's end cut off.
* `OneDialogue`, `ConnectsOnce`, `NothingLeft`, `SecretIsUsed`: a connection is
  made of one dialogue's answers and no answer makes two; nothing is left when
  the dialogue is over; a secret that was asked for is used.
* `ResultIsOutput`, `StreamIsOutput`, `IsAnswered`: however the text is cut, the
  result is the command's output, with every line end of the terminal as two and
  without blank lines around it, unless a line of it is the command; the command
  is answered when its text has arrived; what is streamed ends with the whole
  output, and is a beginning of it all along, in the end all of it and once, unless
  a piece ended inside the END marker or where a line began with the command.
* `PagesAreWhole`: the pages of a text put together are the text.

Bounds.  One piece of output per command is enough to tell "some output" from
"none" and both orders of output and END; two commands, two openers and two
closers give every pair of calls that can meet, and the hazards are all between
two calls (a third one only repeats a role).  One `/cancel` is enough to make a
command stale while its output is streamed, one forwarded line to be eaten by
it.  `shell_liveness` takes no symmetry, so of its five calls any three are made: a
probe with a command and a `/cancel`, or two probes that queue and what they
swallow.  Two connects and two names give the collision of names and the reuse of a
name; the four calls that take sessions down (a disconnect, a disconnect all, a
command on a lost connection, the watchdog) give every pair of owners.
`bot_shutdown` has no one-shot command: two sessions, the watchdog and a
`/disconnect` are what a shutdown can meet in the middle of disconnecting.
`shell_overlap` has no command: with two openings, two closings and two probes
that overlap a command would make it ten times as large, and the proofs cover
it for any number of tasks.  For the streams: losing the reference of a delayed publish takes four
chunks (publish, delay, publish, delay), giving up takes two requests that
raise, and a page boundary in the middle two pages of two chunks; two messages
and `/enter` give every pair of a command, its input and the next command.
For the store: two servers make a group's assignment a sequence of
writes, one group is enough for it to be deleted meanwhile, two connections may
share a name or a server, and four commands are a connect, a command that
prepares the documents, and two that meet.  Three dialogues are one abandoned,
one late and one current; three secrets a key with its passphrase and a
password beside them.  Five symbols hold an output line between blank ones and
one that is the command or begins with it (`c a x`); four symbols are the smallest page with an inner half.
Symmetry is used in runs without liveness properties only.  Deadlock is not
checked: every task makes one call, and a finished system stops.

### What the violations show

1. `shell_own_result`: the reader has read the END marker of command 1 and
   awaits the callback that shows its last output (line 243).  `/cancel` fails
   command 1, the user starts command 2, the callback returns and the reader
   resolves `self._command_done_future`, which is command 2's now (line 246).
   Command 2's output may then answer command 3, and so on: one cancellation
   may shift all the answers after it (`Misled`).
2. `registry_watchdog_dies`: a shell that the user ended with `exit` leaves
   `is_interactive` set.  When the watchdog disconnects that session, the write
   of "exit" raises and the watchdog task ends.

What else the code does that a reader may not expect has no run of its own; it
is the condition under which a property is stated, and without the condition
TLC shows it:

* two openings at once both succeed (`Overlap`, `SingleReader`);
* two quick connects at once take the same name (`services.py:92`), and the
  session stored first stays connected where neither `/disconnect` nor the
  watchdog finds it (the exception of `NoOtherLeak`);
* input to a command clears output that waits for the delayed publish
  (`session.py:218-223`), which is then never shown (`FlushedIsShown` speaks of
  what was printed since the last input);
* a `/save` in flight brings back a group that `/delgroup` deletes
  (`overlapped`), and `/connect` does not clear an abandoned dialogue's answers
  (`connect.py:61`), which old buttons and late secrets then use (`oldButton`,
  `late`);
* the beginning of an END marker is streamed as output, and a directory that
  was cut is taken for whole (`cutEnd`, `cutCwd`);
* the last line that has arrived is compared with the command although it is not
  complete (`asyncssh_runtime.py:283-285`): if `cat` prints `category` and it arrives
  as `ca`, `t`, `egory`, then `ca` is streamed, `cat` is dropped as an echo, and
  `category` is streamed behind it (`cutEcho`; `test_asyncssh_runtime.py:203` shows
  what is meant to be streamed, for other pieces);
* the result has a blank line between any two printed ones (`Output`): "\r\n" becomes
  two line ends (line 222).  The repository's tests feed the parser "\n" only
  (`test_asyncssh_runtime.py:170`), where the result is what was printed;
* a download that fails leaves its directory (`NoOtherDirLeft`);
* a watchdog that is cancelled while `close_shell` awaits the reader goes on
  (`asyncssh_runtime.py:451-454`), and `on_shutdown` waits for it for ever
  (`cancelLost`); a watchdog that has died, or a session whose shell has ended,
  makes `on_shutdown` raise before the other sessions are closed (`raised`).

## Fairness

InteractiveShell: the event loop runs every task that is ready, so each
reader, each runner or prober whose future is done or whose lock is free, each
opener and each closer inside its call has weak fairness; timers expire, and
output callbacks return (they call Telegram with the client's own timeouts).
Nothing is assumed of the remote shell or the user: no fairness on commands
ending, on `/cancel` or on closing.

ConnectionService: weak fairness of the watchdog only: its sleep ends, and the
disconnection and the database operation it awaits end.  `CloseReturns` is the
justification for the former on the shell's side.

Lifecycle: the same, and the awaits of `on_shutdown` end: the watchdog's when the
watchdog has ended, `close_all`'s as disconnecting has time limits.  Nothing says
that the bot is ever stopped.

OutputStream: Telegram's requests return and delayed publishes run (their
sleep ends, the lock's next waiter runs): the requests have the client's
timeouts and the tasks are only waiting for each other.  Nothing is assumed of
the command, the user or the network beyond that; requests may raise.

## Proofs

The theorems hold for any sets of tasks, messages, sessions and documents and
any bounds: every constant is arbitrary but for the named `ASSUME`s, which say
that the sets of tasks that the code keeps apart are disjoint, that `None` is
none of the values it stands beside (`NoneAssumption`: CommandText's is no result), that the bounds are naturals (and a page
not empty), and, for ConnectionService, that there are names enough for the
sessions.  Most properties are not inductive.  For each component
there is one invariant, a conjunction of named parts, that is: the initial
states satisfy it, each action keeps it, and the properties are parts of it or
follow from it.  TLC finds each of these invariants true on the instance of the
component's run.

**InteractiveShellProofs**, without assuming that openings and closings do not
overlap:

* `IndInvHolds`; `TypeCorrect`, `WaitersAreInstalled`, `LocksAreReleased`
  (`TypeOK`, `NoOrphanFuture`, `LocksAreHeldByWaiters`), its parts;
* `PendingIsKept`: the action property `PendingIsNeverDropped`;
* `ShellImplementsQueue`: `Spec => QueueSpec`, the refinement of CommandQueue.

`NoOrphanFuture` needs `LocksAreHeldByWaiters` (nobody else installs a command
while one waits) and `InstalledByHolder` (the resets act on whatever is
installed, and this says it is the caller's own or nothing).  `ReadsAProcess`
(a suspended `read()` belongs to a process) is what typing the channel needs.
For the refinement every step is mapped to one step of the queue or to a
stutter, by the stage of each runner; `AnswersAreResults` adds that a result is
there only when the future has been resolved with it, that a command which has
returned it was answered so, and that one which waits for the lock was not.

**ShellAnswersProofs**, for ~`Overlap`, as the properties are stated:

* `SingleReaderHolds`, `ShellIsServedHolds`: from `Served`, which says where the
  reader is for each position of the one call that opens or closes;
* `ResultIsolationHolds`: a marker of a command is in one place only (`Once`), a
  command that has not written its line has left no trace (`NewIsFresh`), the
  installed command is the last in the channel (`InstalledIsLast`), so the
  buffer holds its output only (`BufferIsOwn`).  `Answers` follows what the
  reader holds while it awaits the callback: the output of one command, which
  has ended and was told something else if it is not installed any more;
* `CompleteOutputHolds`: as long as no probe was made, what a command has printed
  behind its BEGIN marker is divided between the buffer and the channel
  (`WholeInChannel`, `WholeInBuffer`) until END is read, and then is with the
  reader (`WholeInReader`).

**ConnectionServiceProofs**: `TypeOKHolds`, `SingleOwnerHolds`, `NoOtherLeakHolds`,
`LiveRowsHolds`.  That two calls never disconnect one session rests on the
registry forgetting it first, so the invariant says that a session which is not
connected yet is neither listed nor being closed (`Unconnected`), and that a
call which deactivates a name has taken a session of that name out, and it
stays out (`TookOut`).  `Kept` is what no step of a shutdown disturbs either.

The same module, of Lifecycle: `BotInvHolds`, `ShutdownClosesHolds`.  `Stages` ties
each stage of `on_shutdown` to what it has taken out of the registry and to the watchdog
being over; `NoneForgotten` says that before `close_all` a connected session is
listed and afterwards is still to be closed, unless it has one of the excuses.
`NoOtherLeak` and `LiveRows` are left out of `BotInv`: a watchdog that is cut off
breaks them, which is why `CutOff` is an excuse.

**OutputStreamProofs**:

* `EarlierStaysHolds`, `QuietAfterEndHolds`, the action properties;
* `ShownOnceInOrderHolds`, `FlushedIsShownHolds`, `TypeOKHolds`.

The key is that the stream's lock is held over an `await` by the publishing
worker only (`LockIsPublish`), so the buffer does not change under a publish
(`SendsTheBuffer`): a message that is edited shows a beginning of its page
(`PostedIsShown`), the buffer is a run of chunks without a gap up to the last
(`BufferRuns`), the messages of the pages are in the order of the pages and what
the publisher knows of them is true (`PostedInOrder`), and the messages from
before a rotation are above and hold earlier chunks (`OlderIsAbove`).  `Holders` says who holds the shell's lock, and
`FlushSettles` why nothing is left to send once the handler is done.  The
lemmas about `Pages` say that pages tile the text and that longer texts extend
them.

**UserCommandsProofs**: `TypeOKHolds`, `NoOtherDirLeftHolds`, `GroupsExistHolds`,
`OwnCredentialsHolds` and the action property `SaveKeepsGroupHolds`.  `CallControl`
types what each suspended call has read; `RegistryRows` says that a document is
created once per connection and that a listed session's is the last of its name;
`OneAtATime` that at most one call is in flight while the user waits for answers.
Then what a call has read is still so when it writes (`ReadsAreFresh`), for the
groups and for the newest document of a name.

**ConnectFormProofs**: `TypeOKHolds`, `OneDialogueHolds`, `ConnectsOnceHolds`,
`NothingLeftHolds`, `SecretIsUsedHolds`.  `UsedUp` says that answers which were used
are not kept and that a later question belongs to a later dialogue;
`InOneDialogue` that everything before the open question was answered in this
dialogue; `LateIsHurried` and `InTurn` that a user who waits for each secret has
one handler at most, at the question that is open.

**CommandTextProofs**: `IsAnsweredHolds`, `ResultIsOutputHolds`,
`StreamIsOutputHolds`, `PagesAreWholeHolds`, for every output, every division into
pieces and every page size.  First what the recursive functions are: each
satisfies its equations, and `NaturalSets!SetInduction`, applied to the set of
lengths for which a statement holds, goes along the text (the library's
induction theorems take operators).

* `split("\n")` gives the texts between the breaks (`Cuts`, `Between`), and these
  trimmed and joined are the text from its first symbol that is no break to its
  last (`Core`).  So `Cleaned` of a text that has no marker and no line like the
  command is its `Core` (`CleanedText`).  A piece that is taken for having such a
  line, though the output has none, ends with it (`EchoIsCut`).
* `replace("\r", "\n")` goes symbol by symbol, so that it does not matter where
  a "\r\n" was cut: what is in the buffer is the text so far, converted
  (`NormalConcat`, `NormalPiece`, `ArrivedIs`).
* The text behind BEGIN (`Full`) is known but for what the command prints, and no
  symbol of the markers is in that; so END is found where it was written, and
  only when all of it has come (`EndStarts`).
* `ParserInv` is the inductive invariant: there is no BEGIN yet, and buffer and
  channel are the whole text cut in two (`NotBegun`); or the buffer is what was
  read of `Full`, blank lines in front dropped, END is not complete with its
  status, and what was streamed is the `Core` of something that was read
  (`Begun`); or there is an answer, and it is `Core` of the output (`Answered`).
  The properties are not inductive: `Core`s of longer and longer texts extend one
  another, which is why the delta is right, but only while nothing of END is
  taken for output (`cutEnd`) and no line for the echo of the command (`cutEcho`,
  `HasEcho`).  In the end the whole output was streamed in any case, as what was
  streamed last is at the end of what is shown (`ShownLast`).
* The pages: each step takes a page, and its newline if the page ends at one,
  from the front of what remains (`OnePageMore`), at least one symbol, so that
  the recursion reaches the end of the text.

**NaturalSets**: a nonempty set of naturals has a smallest element and a bounded
one a largest, and a set of naturals that holds 0 and every successor is all of
them; from the well-foundedness of their order.  The proofs about the last
document of a name and about pages use the first two, those about texts the
third.

Only model-checked:

* liveness, as the prover does not treat fairness: `EndIsDelivered`, `CwdReturns`,
  `CloseReturns`, `IdleIsDisconnected`, `ShutdownReturns`, `BufferIsShown`;
* the two violations, which are behaviours that TLC exhibits.

Every invariant of the passing runs is the statement of a theorem, and so is
every action property that is not about fairness.

## Not modelled

Modelled: every part whose steps can meet those of another.  Nothing that the
runs check is left to prove but what is named above.

Not modelled, and why:

* Macros: every operation is one operation of MongoDB on one document.
* The one-shot path's streaming: `execute` reads the two streams of a process of
  its own and appends what it reads to a stream context like the one in
  OutputStream; its effect on the registry is in ConnectionService.
* Monitor parsing, text formatting, validators, encryption, settings, logging
  and the handlers that only format answers: they keep no state.
