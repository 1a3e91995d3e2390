------------------------------ MODULE Lifecycle ------------------------------
(***************************************************************************)
(* How the bot stops (BotApp.on_shutdown, app/bot_app.py): the watchdog is *)
(* cancelled and awaited, then every session is disconnected.  Polling has *)
(* stopped by then, so no new call begins, but the calls that are suspended*)
(* go on meanwhile; when on_shutdown has returned or raised, the process   *)
(* ends.  ConnectionService goes on around it; of the users there is one.  *)
(***************************************************************************)
EXTENDS ConnectionService

VARIABLES
  bot,         \* where on_shutdown is
  closing,     \* the session that close_all awaits the disconnection of
  left,        \* those it has still to disconnect
  known,       \* history: the sessions connected before close_all took them
  cancelLost   \* history: has the watchdog swallowed its cancellation?

shutdown == <<bot, closing, left, known>>
botVars  == <<vars, shutdown, cancelLost>>

Over == bot \in {"done", "raised"}

-----------------------------------------------------------------------------
(* Cancelling the watchdog, by where it is suspended.  A definition marked *)
(* "fault" is a mistake the properties are tested against.                 *)

(* sleep or send_message: `except Exception` does not catch the error.     *)
SleepSurvives == pc[Watchdog] = "idle" /\ UNCHANGED <<link, row, pc, cancelLost>>  \* fault
SleepEnds     == /\ pc[Watchdog] = "idle" /\ Goto(Watchdog, "ended")
                 /\ UNCHANGED <<link, row, cancelLost>>

(* update_many: MongoDB may have got it.                                   *)
DeactivatingEnds ==
  /\ pc[Watchdog] = "deactivating" /\ Goto(Watchdog, "ended")
  /\ UNCHANGED row \/ Deactivated({name[Watchdog]})
  /\ UNCHANGED <<link, cancelLost>>

(* close_shell awaits the reader, which it has cancelled itself: it takes  *)
(* the error for the reader's, and the watchdog goes on as if nothing had  *)
(* happened (asyncssh_runtime.py:451-454).                                 *)
JoinSwallows ==
  /\ pc[Watchdog] = "closing" /\ shell[held[Watchdog]] # "none"
  /\ cancelLost' = TRUE
  /\ UNCHANGED <<link, row, pc>>

(* The remote shell's end, or the connection's, is awaited.                *)
DisconnectionEnds ==
  /\ pc[Watchdog] = "closing" /\ Goto(Watchdog, "ended")
  /\ CloseEnds(held[Watchdog]) \/ (~CloseRaises(held[Watchdog]) /\ UNCHANGED link)
  /\ UNCHANGED <<row, cancelLost>>

Cancelled == SleepEnds \/ DeactivatingEnds \/ JoinSwallows \/ DisconnectionEnds

ShutdownBegins ==
  /\ bot = "running" /\ pc[Watchdog] # "raised"
  /\ Cancelled /\ bot' = "waiting"
  /\ UNCHANGED <<registry, idle, name, held, cleared, listed, storedOver, closing, left, known>>

(* The watchdog died before or dies now: on_shutdown raises its exception, *)
(* as it catches CancelledError only.                                      *)
ShutdownRaises ==
  /\ bot \in {"running", "waiting"} /\ pc[Watchdog] = "raised"
  /\ bot' = "raised"
  /\ UNCHANGED <<vars, closing, left, known, cancelLost>>

-----------------------------------------------------------------------------
(* close_all: remove_all of the user.                                      *)

Takes(sessions) ==
  /\ bot = "waiting" /\ pc[Watchdog] = "ended"
  /\ sessions = {reg[n] : n \in Listed}
  /\ reg' = Without(Names) /\ Replaced(Listed)
  /\ known' = {s \in Sessions : conn[s] # "none"}

CloseAllNothing ==
  /\ Takes({}) /\ active' = None
  /\ bot' = "done"
  /\ UNCHANGED <<link, idle, row, pc, name, held, cleared, listed, storedOver, closing, left, cancelLost>>

CloseAllStart(s) ==
  /\ \E sessions \in SUBSET Sessions :
       s \in sessions /\ Takes(sessions) /\ left' = sessions \ {s}
  /\ closing' = s /\ CloseBegins(s)
  /\ bot' = "closing"
  /\ UNCHANGED <<active, shell, idle, row, pc, name, held, cleared, listed, storedOver, cancelLost>>

CloseAllGoesOn(s) ==
  /\ bot = "closing" /\ s \in left /\ ~CloseRaises(closing)
  /\ closing' = s /\ left' = left \ {s}
  /\ conn' = [conn EXCEPT ![closing] = "closed", ![s] = IF shell[s] = "none" THEN "closed" ELSE @]
  /\ shell' = [shell EXCEPT ![closing] = "none"]
  /\ UNCHANGED <<registry, idle, row, pc, name, held, cleared, listed, storedOver, bot, known, cancelLost>>

CloseAllRaises ==
  /\ bot = "closing" /\ CloseRaises(closing)
  /\ bot' = "raised"
  /\ UNCHANGED <<vars, closing, left, known, cancelLost>>

Stops      == bot = "closing" /\ CloseEnds(closing)                       \* fault: the rest stay
ClosesLast == left = {} /\ bot = "closing" /\ CloseEnds(closing)
CloseAllEnds ==
  /\ ClosesLast
  /\ active' = None
  /\ closing' = None /\ bot' = "done"
  /\ UNCHANGED <<reg, snap, idle, row, pc, name, held, cleared, listed, storedOver, left, known, cancelLost>>

CloseAll == CloseAllNothing \/ CloseAllRaises \/ CloseAllEnds
            \/ \E s \in Sessions : CloseAllStart(s) \/ CloseAllGoesOn(s)

-----------------------------------------------------------------------------
BotInit == /\ Init
           /\ bot = "running" /\ closing = None /\ left = {} /\ known = {} /\ cancelLost = FALSE

(* Updates are not polled any more.                                        *)
NoNewCall == \A t \in Tasks \ {Watchdog} : pc[t] = "idle" => pc'[t] = "idle"
CallsGoOn == /\ ~Over /\ Next /\ (bot = "running" \/ NoNewCall)
             /\ UNCHANGED <<shutdown, cancelLost>>
BotNext   == CallsGoOn \/ ShutdownBegins \/ ShutdownRaises \/ CloseAll
BotSpec   == BotInit /\ [][BotNext]_botVars

(* The watchdog's awaits end, and so do those of on_shutdown: disconnecting*)
(* has time limits.  Nothing says that the bot is ever stopped.            *)
FairBotSpec ==
  /\ BotSpec
  /\ WF_botVars(~Over /\ TimeoutWatchdog /\ UNCHANGED <<shutdown, cancelLost>>)
  /\ WF_botVars(ShutdownRaises /\ bot = "waiting") /\ WF_botVars(CloseAll)

-----------------------------------------------------------------------------
(* Correctness.                                                            *)

(* The session timeout watchdog, with shells and a failing database: an    *)
(* idle session is disconnected, unless an exception has ended the watchdog*)
(* (bot_app.py:134-151) or the bot stops.                                  *)
IdleIsDisconnected ==
  \A s \in Sessions : \A n \in Names :
    (reg[n] = s /\ s \in idle)
      ~> \/ reg[n] # s \/ s \notin idle \/ ~Connected(s)
         \/ pc[Watchdog] = "raised" \/ bot # "running"

(* A shutdown returns or raises, wherever the watchdog is when it is       *)
(* cancelled and whatever calls are suspended: unless the watchdog has     *)
(* swallowed its cancellation in close_shell (bot_app.py:122-132).         *)
ShutdownReturns == bot = "waiting" ~> Over \/ cancelLost

(* When a shutdown has returned, a session that was connected before       *)
(* close_all took the registry's sessions is closed.  The exceptions: a    *)
(* call is still disconnecting it or has raised, another session was stored*)
(* over it, or the watchdog was cancelled in the middle of it.             *)
ShutdownCloses ==
  bot = "done" => \A s \in known : Connected(s) =>
    \/ \E t \in Closers : s \in Closing(t) \cup Abandoned(t)
    \/ Overwritten(s) \/ s = held[Watchdog]
=============================================================================
