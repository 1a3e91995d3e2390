-------------------------- MODULE ConnectionService --------------------------
(***************************************************************************)
(* The SSH sessions of one Telegram user: SessionRegistry                  *)
(* (app/infrastructure/ssh/asyncssh_runtime.py) and the calls that change  *)
(* it (app/application/services.py), with the handlers of                  *)
(* app/interfaces/telegram/handlers/connect.py around them.                *)
(*                                                                         *)
(* As in InteractiveShell each action is what one asyncio task does between*)
(* two awaits.  A task makes one call:                                     *)
(*   Wizards        /connect, at the end of its dialogue                   *)
(*   Quicks         /connect <saved> (quick_connect, then open_shell)      *)
(*   Disconnectors  /disconnect [name]      Clearers  /disconnect all      *)
(*   Executors      CommandService.execute                                 *)
(*   Watchdog       _timeout_watchdog, for ever                            *)
(* /status and /switch never suspend; each call of them is one action.     *)
(* A session is named by the task that connected it.  Session name 1 stands*)
(* for the saved server's name, k for "name-k".                            *)
(***************************************************************************)
EXTENDS Naturals, FiniteSets

CONSTANTS Wizards, Quicks, Disconnectors, Clearers, Executors, Watchdog,
          None,        \* Python's None
          MaxName,     \* bound: session names
          Shells,      \* do the servers grant interactive shells?
          DbFails      \* may an operation on MongoDB raise?

Sessions == Wizards \cup Quicks
Removers == Disconnectors \cup Executors \cup {Watchdog}
Closers  == Removers \cup Clearers
Tasks    == Sessions \cup Closers
Names    == 1..MaxName
Ref(S)   == S \cup {None}

ASSUME TasksAssumption ==
  /\ None \notin Tasks /\ None \notin Names
  /\ Watchdog \notin Sessions \cup Disconnectors \cup Executors \cup Clearers
  /\ Wizards \cap Quicks = {} /\ Sessions \cap Closers = {}
  /\ Disconnectors \cap Executors = {} /\ Clearers \cap (Disconnectors \cup Executors) = {}
ASSUME BoundsAssumption ==
  /\ MaxName \in Nat /\ Shells \in BOOLEAN /\ DbFails \in BOOLEAN
  /\ IsFiniteSet(Sessions) /\ Cardinality(Sessions) <= MaxName

VARIABLES
  reg,       \* _sessions[user]: the session under each name, or None
  active,    \* _active[user]
  conn,      \* each session's connection
  shell,     \* its interactive shell; "dead" when its remote process has ended
  idle,      \* the sessions whose last_activity is before the cutoff
  row,       \* its document in ssh_sessions
  pc,        \* where each task is suspended
  name,      \* session.name of a connector's session; the name a remover removes
  held,      \* the session a task awaits something of
  snap,      \* the `sessions` of a suspended remove(): None while it is the
             \* registry's own dict, then the names left in the replaced dict
  cleared,   \* what remove_all has left to disconnect, per clearer
  listed,    \* what timeout_cleanup has left to look at
  storedOver \* history: the sessions that were listed when another session
             \* was stored under their name

registry == <<reg, active, snap>>
link     == <<conn, shell>>
vars     == <<registry, link, idle, row, pc, name, held, cleared, listed, storedOver>>

Goto(t, where) == pc' = [pc EXCEPT ![t] = where]

-----------------------------------------------------------------------------
(* SessionRegistry.  A definition marked "fault" is a mistake the          *)
(* properties are tested against; no specification uses it.                *)

Connected(s)  == conn[s] = "up"                               \* is_connected
Listed        == {n \in Names : reg[n] # None}
Alive         == {n \in Listed : Connected(reg[n])}
Found(n)      == n \in Alive
Heirs(names)  == IF names = {} THEN {None} ELSE names   \* next(iter(...)), any order

Without(names)        == [n \in Names |-> IF n \in names THEN None ELSE reg[n]]
HeirOf(names, rest)   == IF active \in names THEN Heirs(rest) ELSE {active}

(* get() of names that are not connected: it forgets them.                 *)
Forget(names) ==
  /\ reg' = Without(names)
  /\ active' \in HeirOf(names, Listed \ names)

(* get() that finds nothing; n is None when no session is active.          *)
GetFails(n) == ~Found(n) /\ Forget({n} \cap Names) /\ UNCHANGED snap

(* A dict that the registry replaces stays as it is for the remove() calls *)
(* that hold it.                                                           *)
Replaced(names) ==
  snap' = [t \in Removers |-> IF pc[t] = "closing" /\ snap[t] = None THEN names ELSE snap[t]]

GetAll ==
  /\ reg' = Without(Names \ Alive)
  /\ active' \in IF active \in Alive THEN {active} ELSE Heirs(Alive)
  /\ Replaced(Listed)

StoreObject(s) == reg' = [reg EXCEPT ![name[s]] = s] /\ active' = s /\ UNCHANGED snap \* fault
Store(s) == reg' = [reg EXCEPT ![name[s]] = s] /\ active' = name[s] /\ UNCHANGED snap

(* disconnect() of a session without a shell closes the connection at once;*)
(* with a shell, close_shell comes first.                                  *)
CloseBegins(s) == conn' = [conn EXCEPT ![s] = IF shell[s] = "none" THEN "closed" ELSE @]
CloseRaises(s) == conn[s] # "closed" /\ (shell[s] = "dead" \/ conn[s] = "lost")
CloseShellOnly(s) == ~CloseRaises(s) /\ UNCHANGED conn        \* fault
                                     /\ shell' = [shell EXCEPT ![s] = "none"]
CloseEnds(s)   == ~CloseRaises(s) /\ conn' = [conn EXCEPT ![s] = "closed"]
                                  /\ shell' = [shell EXCEPT ![s] = "none"]

(* remove(n) up to its await, for a name that is listed.                   *)
PoppedLate(n) == UNCHANGED reg                 \* fault: popped after the await
Popped(n)     == reg' = Without({n})
RemoveBegins(t, n) ==
  /\ Popped(n)
  /\ name' = [name EXCEPT ![t] = n] /\ held' = [held EXCEPT ![t] = reg[n]]
  /\ snap' = [snap EXCEPT ![t] = None]
  /\ CloseBegins(reg[n])
  /\ Goto(t, "closing")

(* What remove() does last; `sessions` is the dict it took at the start.   *)
Relisted(t) == HeirOf({name[t]}, IF snap[t] = None THEN Listed ELSE snap[t])

-----------------------------------------------------------------------------
(* connect and quick_connect                                               *)

ConnectRefused(c, n) ==
  /\ pc[c] = "idle" /\ Found(n)
  /\ Goto(c, "failed")
  /\ UNCHANGED <<registry, link, idle, row, name, held, cleared, listed, storedOver>>

ConnectStart(c, n) ==
  /\ pc[c] = "idle" /\ GetFails(n)
  /\ name' = [name EXCEPT ![c] = n]
  /\ Goto(c, "connecting")
  /\ UNCHANGED <<link, idle, row, held, cleared, listed, storedOver>>

QuickStart(q) ==
  /\ pc[q] = "idle" /\ Goto(q, "lookup")
  /\ UNCHANGED <<registry, link, idle, row, name, held, cleared, listed, storedOver>>

(* _next_session_name: the first of "name", "name-2", ... that is free.    *)
NextSessionName(n) == n \notin Alive /\ \A m \in Names : m < n => m \in Alive

QuickNamed(q, n) ==
  /\ pc[q] = "lookup" /\ NextSessionName(n)
  /\ GetAll
  /\ name' = [name EXCEPT ![q] = n]
  /\ Goto(q, "connecting")
  /\ UNCHANGED <<link, idle, row, held, cleared, listed, storedOver>>

(* No such saved server; the connection is refused or times out.           *)
ConnectFails(c) ==
  /\ pc[c] \in {"lookup", "connecting"}
  /\ Goto(c, "failed")
  /\ UNCHANGED <<registry, link, idle, row, name, held, cleared, listed, storedOver>>

ConnectStored(c) ==
  /\ pc[c] = "connecting"
  /\ conn' = [conn EXCEPT ![c] = "up"]
  /\ Store(c)
  /\ storedOver' = storedOver \cup ({reg[name[c]]} \ {None})
  /\ Goto(c, "saving")
  /\ UNCHANGED <<shell, idle, row, name, held, cleared, listed>>

(* save_session raises: the caller sees an error, the session is stored.   *)
SaveFails(c) ==
  /\ DbFails /\ pc[c] = "saving"
  /\ Goto(c, "failed")
  /\ UNCHANGED <<registry, link, idle, row, name, held, cleared, listed, storedOver>>

RowInserted(c) == pc[c] = "saving" /\ row' = [row EXCEPT ![c] = "active"]

(* The handler counts the sessions with get_all (connect.py:306).          *)
ConnectSaved(c) ==
  /\ RowInserted(c) /\ c \in Wizards
  /\ GetAll
  /\ Goto(c, "done")
  /\ UNCHANGED <<link, idle, name, held, cleared, listed, storedOver>>

(* _open_shell gets the session by its name again.                         *)
QuickOpens(q) ==
  /\ RowInserted(q) /\ q \in Quicks
  /\ Found(name[q]) /\ shell[reg[name[q]]] = "none"
  /\ held' = [held EXCEPT ![q] = reg[name[q]]]
  /\ Goto(q, "opening")
  /\ UNCHANGED <<registry, link, idle, name, cleared, listed, storedOver>>

(* It is gone, or has a shell.  get() forgets it before get_all lists.     *)
QuickNoShell(q) ==
  /\ RowInserted(q) /\ q \in Quicks
  /\ Found(name[q]) => shell[reg[name[q]]] # "none"
  /\ reg' = Without(Names \ Alive)
  /\ active' \in IF active \in Alive THEN {active} ELSE Heirs(Alive)
  /\ Replaced(IF Found(name[q]) THEN Listed ELSE Listed \ {name[q]})
  /\ Goto(q, "done")
  /\ UNCHANGED <<link, idle, name, held, cleared, listed, storedOver>>

QuickOpened(q) ==
  /\ pc[q] = "opening"
  /\ \/ /\ Shells /\ Connected(held[q])
        /\ shell' = [shell EXCEPT ![held[q]] = "open"] /\ idle' = idle \ {held[q]}
     \/ UNCHANGED <<shell, idle>>                       \* create_process raises
  /\ GetAll
  /\ held' = [held EXCEPT ![q] = None]
  /\ Goto(q, "done")
  /\ UNCHANGED <<conn, row, name, cleared, listed, storedOver>>

-----------------------------------------------------------------------------
(* disconnect                                                              *)

DisconnectNothing(d, n) ==
  /\ pc[d] = "idle" /\ GetFails(n)
  /\ Goto(d, "done")
  /\ UNCHANGED <<link, idle, row, name, held, cleared, listed, storedOver>>

Disconnect(d, n) ==
  /\ pc[d] = "idle" /\ Found(n)
  /\ RemoveBegins(d, n)
  /\ UNCHANGED <<active, shell, idle, row, cleared, listed, storedOver>>

RemoveEnds(t) ==
  /\ pc[t] = "closing" /\ CloseEnds(held[t])
  /\ active' \in Relisted(t)
  /\ held' = [held EXCEPT ![t] = None]
  /\ Goto(t, "deactivating")
  /\ UNCHANGED <<reg, snap, idle, row, name, cleared, listed, storedOver>>

(* close_shell raises: remove() and its caller end there.                  *)
RemoveRaises(t) ==
  /\ pc[t] = "closing" /\ CloseRaises(held[t])
  /\ Goto(t, "raised")
  /\ UNCHANGED <<registry, link, idle, row, name, held, cleared, listed, storedOver>>

DeactivatedAll(names) ==                       \* fault: the name is not in the query
  row' = [s \in Sessions |-> IF row[s] = "active" THEN "inactive" ELSE row[s]]
(* deactivate_sessions: update_many of the active rows of that name.       *)
Deactivated(names) ==
  row' = [s \in Sessions |-> IF row[s] = "active" /\ name[s] \in names THEN "inactive" ELSE row[s]]

DeactivateEnds(t) ==
  /\ pc[t] = "deactivating" /\ t # Watchdog
  /\ Deactivated(IF t \in Clearers THEN Names ELSE {name[t]})
  /\ Goto(t, "done")
  /\ UNCHANGED <<registry, link, idle, name, held, cleared, listed, storedOver>>

DeactivateRaises(t) ==
  /\ DbFails /\ pc[t] = "deactivating"
  /\ Goto(t, "raised")
  /\ UNCHANGED <<registry, link, idle, row, name, held, cleared, listed, storedOver>>

-----------------------------------------------------------------------------
(* disconnect_all: get_all, then remove_all, which takes the user's dict   *)
(* out of the registry and disconnects its sessions one by one.            *)

ClearNothing(a) ==
  /\ pc[a] = "idle" /\ Alive = {} /\ GetAll
  /\ Goto(a, "done")
  /\ UNCHANGED <<link, idle, row, name, held, cleared, listed, storedOver>>

ClearNext(a, s, rest) ==
  /\ held' = [held EXCEPT ![a] = s]
  /\ cleared' = [cleared EXCEPT ![a] = rest \ {s}]

ClearStart(a, s) ==
  /\ pc[a] = "idle" /\ s \in {reg[n] : n \in Alive}
  /\ ClearNext(a, s, {reg[n] : n \in Alive})
  /\ reg' = Without(Names)
  /\ active' \in IF active \in Alive THEN {active} ELSE Alive
  /\ Replaced(Listed)
  /\ CloseBegins(s)
  /\ Goto(a, "closing")
  /\ UNCHANGED <<shell, idle, row, name, listed, storedOver>>

ClearGoesOn(a, s) ==
  /\ pc[a] = "closing" /\ s \in cleared[a]
  /\ ~CloseRaises(held[a])
  /\ ClearNext(a, s, cleared[a])
  /\ conn' = [conn EXCEPT ![held[a]] = "closed", ![s] = IF shell[s] = "none" THEN "closed" ELSE @]
  /\ shell' = [shell EXCEPT ![held[a]] = "none"]
  /\ UNCHANGED <<registry, idle, row, pc, name, listed, storedOver>>

ClearEnds(a) ==
  /\ pc[a] = "closing" /\ cleared[a] = {}
  /\ CloseEnds(held[a])
  /\ active' = None
  /\ held' = [held EXCEPT ![a] = None]
  /\ Goto(a, "deactivating")
  /\ UNCHANGED <<reg, snap, idle, row, name, cleared, listed, storedOver>>

-----------------------------------------------------------------------------
(* CommandService.execute                                                  *)

ExecuteRefused(e) ==
  /\ pc[e] = "idle" /\ GetFails(active)
  /\ Goto(e, "failed")
  /\ UNCHANGED <<link, idle, row, name, held, cleared, listed, storedOver>>

ExecuteStart(e) ==
  /\ pc[e] = "idle" /\ Found(active)
  /\ held' = [held EXCEPT ![e] = reg[active]]
  /\ name' = [name EXCEPT ![e] = active]
  /\ idle' = idle \ {reg[active]}
  /\ Goto(e, "executing")
  /\ UNCHANGED <<registry, link, row, cleared, listed, storedOver>>

(* The command ended, or it raised while the session is connected; only    *)
(* the end of a command counts as activity.                                *)
ExecuteEnds(e) ==
  /\ pc[e] = "executing"
  /\ idle' \in {idle \ {held[e]}} \cup {i \in {idle} : Connected(held[e])}
  /\ held' = [held EXCEPT ![e] = None]
  /\ Goto(e, "done")
  /\ UNCHANGED <<registry, link, row, name, cleared, listed, storedOver>>

(* It raised and the session is not connected: whatever session has its    *)
(* name now is removed.                                                    *)
ExecuteLost(e) ==
  /\ pc[e] = "executing" /\ ~Connected(held[e])
  /\ name[e] \in Listed
  /\ RemoveBegins(e, name[e])
  /\ UNCHANGED <<active, shell, idle, row, cleared, listed, storedOver>>

ExecuteLostUnlisted(e) ==
  /\ pc[e] = "executing" /\ ~Connected(held[e])
  /\ name[e] \notin Listed
  /\ active' \in HeirOf({name[e]}, Listed)
  /\ held' = [held EXCEPT ![e] = None]
  /\ Goto(e, "deactivating")
  /\ UNCHANGED <<reg, snap, link, idle, row, name, cleared, listed, storedOver>>

-----------------------------------------------------------------------------
(* The watchdog: check_timeouts lists, then each listed name is looked up  *)
(* again and removed.                                                      *)

Recent   == {n \in Listed : reg[n] \notin idle}       \* fault: "<" the wrong way round
TimedOut == {n \in Listed : reg[n] \in idle}

(* The next names, in any order: the ones get() does not find are forgotten*)
(* until one is found and removed, or none is left.                        *)
CleanupNext(names, gone) ==
  \E n \in {m \in names : Found(m)} :
    /\ active' \in HeirOf(gone, Listed \ gone)
    /\ reg' = Without(gone \cup {n})
    /\ listed' = names \ (gone \cup {n})
    /\ name' = [name EXCEPT ![Watchdog] = n] /\ held' = [held EXCEPT ![Watchdog] = reg[n]]
    /\ snap' = [snap EXCEPT ![Watchdog] = None]
    /\ CloseBegins(reg[n])
    /\ Goto(Watchdog, "closing")
CleanupOver(names) ==
  /\ \A n \in names : ~Found(n)
  /\ Forget(names)
  /\ listed' = {}
  /\ Goto(Watchdog, "idle")
  /\ UNCHANGED <<snap, conn, name, held>>
Cleanup(names) ==
  CleanupOver(names) \/ \E gone \in SUBSET {n \in names : ~Found(n)} : CleanupNext(names, gone)

WatchdogWakes ==
  /\ pc[Watchdog] = "idle" /\ TimedOut # {}
  /\ Cleanup(TimedOut)
  /\ UNCHANGED <<shell, idle, row, cleared, storedOver>>

WatchdogGoesOn ==
  /\ pc[Watchdog] = "deactivating"
  /\ Deactivated({name[Watchdog]})
  /\ Cleanup(listed)
  /\ UNCHANGED <<shell, idle, cleared, storedOver>>

-----------------------------------------------------------------------------
(* Calls that never suspend.                                               *)

Status ==
  /\ GetAll
  /\ UNCHANGED <<link, idle, row, pc, name, held, cleared, listed, storedOver>>

(* /switch: get_all for the handler, then get, then the name is active.    *)
Switch(n) ==
  /\ Found(n)
  /\ reg' = Without(Names \ Alive) /\ active' = n
  /\ Replaced(Listed)
  /\ UNCHANGED <<link, idle, row, pc, name, held, cleared, listed, storedOver>>

(* External: time passes without activity on a session; a remote shell     *)
(* ends; a connection is lost.  Of a session that is being disconnected    *)
(* the last two are the same as before or after the disconnection.         *)
BeingClosed(s) == \E t \in Closers : pc[t] = "closing" /\ (held[t] = s)

(* A connection that is lost may be listed and read from a while longer;   *)
(* of a session that is not listed any more nobody looks at the clock.     *)
TimePasses(s) ==
  /\ conn[s] \in {"up", "lost"} /\ s \notin idle
  /\ idle' = idle \cup {s}
  /\ UNCHANGED <<registry, link, row, pc, name, held, cleared, listed, storedOver>>

(* The shell reads or is written to, a file is transferred.                *)
Activity(s) ==
  /\ conn[s] \in {"up", "lost"} /\ s \in idle
  /\ idle' = idle \ {s}
  /\ UNCHANGED <<registry, link, row, pc, name, held, cleared, listed, storedOver>>

ShellDies(s) ==
  /\ shell[s] = "open" /\ ~BeingClosed(s)
  /\ shell' = [shell EXCEPT ![s] = "dead"]
  /\ UNCHANGED <<registry, conn, idle, row, pc, name, held, cleared, listed, storedOver>>

ConnectionLost(s) ==
  /\ Connected(s) /\ ~BeingClosed(s)
  /\ conn' = [conn EXCEPT ![s] = "lost"]
  /\ UNCHANGED <<registry, shell, idle, row, pc, name, held, cleared, listed, storedOver>>

-----------------------------------------------------------------------------
Init ==
  /\ reg = [n \in Names |-> None] /\ active = None
  /\ conn = [s \in Sessions |-> "none"] /\ shell = [s \in Sessions |-> "none"]
  /\ idle = {} /\ row = [s \in Sessions |-> "none"]
  /\ pc = [t \in Tasks |-> "idle"]
  /\ name = [t \in Tasks |-> None] /\ held = [t \in Tasks |-> None]
  /\ snap = [t \in Removers |-> None]
  /\ cleared = [a \in Clearers |-> {}] /\ listed = {} /\ storedOver = {}

Connect(c) == \/ \E n \in Names : ConnectRefused(c, n) \/ ConnectStart(c, n)
              \/ ConnectFails(c) \/ ConnectStored(c) \/ SaveFails(c) \/ ConnectSaved(c)

QuickConnect(q) == \/ QuickStart(q) \/ \E n \in Names : QuickNamed(q, n)
                   \/ ConnectFails(q) \/ ConnectStored(q) \/ SaveFails(q)
                   \/ QuickOpens(q) \/ QuickNoShell(q) \/ QuickOpened(q)

Deactivate(t) == DeactivateEnds(t) \/ DeactivateRaises(t)
Remove(t)     == RemoveEnds(t) \/ RemoveRaises(t)

(* /disconnect with a name, or without one: the active session.            *)
DisconnectCall(d) == \/ \E n \in Names \cup {active} : DisconnectNothing(d, n) \/ Disconnect(d, n)
                     \/ Remove(d) \/ Deactivate(d)

DisconnectAll(a) == \/ ClearNothing(a)
                    \/ \E s \in Sessions : ClearStart(a, s) \/ ClearGoesOn(a, s)
                    \/ ClearEnds(a) \/ RemoveRaises(a) \/ Deactivate(a)

Execute(e) == \/ ExecuteRefused(e) \/ ExecuteStart(e) \/ ExecuteEnds(e)
              \/ ExecuteLost(e) \/ ExecuteLostUnlisted(e) \/ Remove(e) \/ Deactivate(e)

TimeoutWatchdog == \/ WatchdogWakes \/ WatchdogGoesOn
                   \/ Remove(Watchdog) \/ DeactivateRaises(Watchdog)

Elsewhere(s) == TimePasses(s) \/ Activity(s) \/ ShellDies(s) \/ ConnectionLost(s)

Next == \/ \E c \in Wizards : Connect(c)
        \/ \E q \in Quicks : QuickConnect(q)
        \/ \E d \in Disconnectors : DisconnectCall(d)
        \/ \E a \in Clearers : DisconnectAll(a)
        \/ \E e \in Executors : Execute(e)
        \/ TimeoutWatchdog
        \/ Status \/ \E n \in Names : Switch(n)
        \/ \E s \in Sessions : Elsewhere(s)

Spec == Init /\ [][Next]_vars

-----------------------------------------------------------------------------
(* Correctness.                                                            *)

(* Every variable of the registry, the calls and the sessions has its type.*)
TypeOK ==
  /\ reg \in [Names -> Ref(Sessions)] /\ active \in Ref(Names)
  /\ conn \in [Sessions -> {"none", "up", "lost", "closed"}]
  /\ shell \in [Sessions -> {"none", "open", "dead"}]
  /\ idle \in SUBSET Sessions /\ row \in [Sessions -> {"none", "active", "inactive"}]
  /\ pc \in [Tasks -> {"idle", "lookup", "connecting", "saving", "opening", "executing",
                       "closing", "deactivating", "done", "failed", "raised", "ended"}]
  /\ name \in [Tasks -> Ref(Names)] /\ held \in [Tasks -> Ref(Sessions)]
  /\ snap \in [Removers -> Ref(SUBSET Names)]
  /\ cleared \in [Clearers -> SUBSET Sessions] /\ listed \in SUBSET Names
  /\ storedOver \in SUBSET Sessions

(* The sessions a call is disconnecting or has still to disconnect.        *)
Closing(t) ==
  {s \in Sessions : pc[t] = "closing" /\ (held[t] = s \/ (t \in Clearers /\ s \in cleared[t]))}

(* Whatever calls overlap, a session is disconnected by one of them only,  *)
(* and by then the registry has forgotten it: nothing can be started on a  *)
(* session that is going down (remove, remove_all: the pop before the      *)
(* await, asyncssh_runtime.py:548-550, 559-561).                           *)
SingleOwner ==
  /\ \A t, u \in Closers : t # u => Closing(t) \cap Closing(u) = {}
  /\ \A t \in Closers, n \in Names : reg[n] \notin Closing(t)
  /\ \A n, m \in Names : reg[n] # None /\ reg[n] = reg[m] => n = m

(* A connected session that no call is working on is in the registry,      *)
(* where /disconnect and the watchdog can reach it.  The only exceptions   *)
(* are a connect that stored another session over it while it was listed   *)
(* (services.py:66-71, 92-105), and a disconnection that raised            *)
(* (asyncssh_runtime.py:458).                                              *)
Abandoned(t) ==
  {s \in Sessions : pc[t] = "raised" /\ (held[t] = s \/ (t \in Clearers /\ s \in cleared[t]))}
Overwritten(s) == s \in storedOver
Reachable(s)   == \/ \E n \in Names : reg[n] = s
                  \/ \E t \in Closers : s \in Closing(t)
NoOtherLeak ==
  \A s \in Sessions : Connected(s) =>
    Reachable(s) \/ Overwritten(s) \/ \E t \in Closers : s \in Abandoned(t)

(* /save takes the credentials from the active row of the session          *)
(* (services.py:303).  The row of a connected session in the registry is   *)
(* deactivated only by a call that meant another session of that name, or  *)
(* by a disconnect_all that began before (services.py:140, 148, 191, 218). *)
LiveRows ==
  \A n \in Names : LET s == reg[n] IN
    s # None /\ Connected(s) /\ row[s] = "inactive" =>
      \/ \E u \in Sessions \ {s} : name[u] = n /\ conn[u] # "none"
      \/ \E a \in Clearers : pc[a] # "idle"

-----------------------------------------------------------------------------
(* Fairness: the watchdog's sleep ends, and so do the disconnection and the*)
(* database operation it awaits.                                           *)
FairSpec == Spec /\ WF_vars(TimeoutWatchdog)

(* The session timeout watchdog: a session that stays idle is disconnected.*)
TimeoutIsEnforced ==
  \A s \in Sessions : \A n \in Names :
    (reg[n] = s /\ s \in idle) ~> (reg[n] # s \/ s \notin idle \/ ~Connected(s))

=============================================================================
