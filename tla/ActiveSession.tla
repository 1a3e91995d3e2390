--------------------------- MODULE ActiveSession ---------------------------
(***************************************************************************)
(* The SSH sessions of one user as the commands see them that work on the  *)
(* active one: the registry, and the documents in ssh_sessions that hold   *)
(* the credentials (app/application/services.py, connect and quick_connect;*)
(* app/infrastructure/db/mongo.py).  How the registry gets from one state  *)
(* to the next is ConnectionService's subject; here a session leaves it in *)
(* one step, for whatever reason.  A session is named by its connection,   *)
(* which stands for its host and its credentials too.                      *)
(***************************************************************************)
EXTENDS Naturals, Sequences, FiniteSets

CONSTANTS Connections, SessionNames, None

ASSUME NoneAssumption == None \notin Connections \cup SessionNames

VARIABLES
  reg,      \* the session under each name, or None
  active,   \* the active name, or None
  named,    \* session.name of each connection
  row,      \* its document: being written, active, inactive, or never written
  created,  \* the connections by the created_at of their documents
  shells    \* the sessions that are interactive

sessions == <<reg, active, named, row, created, shells>>

Ref(S)    == S \cup {None}
GetActive == IF active = None THEN None ELSE reg[active]
Writing   == \E c \in Connections : row[c] = "writing"

(* get_active_session: the newest active document of that session name.  A *)
(* definition marked "fault" is a mistake the properties are tested        *)
(* against; no specification uses it.                                      *)
ActiveRows(n) == {i \in 1..Len(created) : row[created[i]] = "active" /\ named[created[i]] = n}
OldestRow(n) ==                                               \* fault: sort +1
  IF ActiveRows(n) = {} THEN None
  ELSE created[CHOOSE i \in ActiveRows(n) : \A j \in ActiveRows(n) : i <= j]
NewestRow(n) ==
  IF ActiveRows(n) = {} THEN None
  ELSE created[CHOOSE i \in ActiveRows(n) : \A j \in ActiveRows(n) : j <= i]

ActivatesSession(c, n) == active' = c                         \* fault
Activates(c, n)        == active' = n

(* store, and save_session up to its await: created_at is taken there.  The*)
(* name may be in use: two connects at once may take the same name.        *)
Connected(c, n) ==
  /\ row[c] = "none"
  /\ reg' = [reg EXCEPT ![n] = c] /\ Activates(c, n)
  /\ named' = [named EXCEPT ![c] = n]
  /\ row' = [row EXCEPT ![c] = "writing"] /\ created' = Append(created, c)
  /\ UNCHANGED shells

RowWritten(c) ==
  /\ row[c] = "writing"
  /\ row' = [row EXCEPT ![c] = "active"]
  /\ UNCHANGED <<reg, active, named, created, shells>>

(* insert_one raises: the session stays in the registry.                   *)
RowFails(c) ==
  /\ row[c] = "writing"
  /\ row' = [row EXCEPT ![c] = "failed"]
  /\ UNCHANGED <<reg, active, named, created, shells>>

(* /disconnect, the watchdog, or a lost connection that get() forgets: only*)
(* the first two deactivate the documents, if the database lets them.      *)
Leaves(n) ==
  /\ reg[n] # None
  /\ reg' = [reg EXCEPT ![n] = None]
  /\ active' \in IF active # n THEN {active}
                 ELSE IF \A m \in SessionNames \ {n} : reg[m] = None THEN {None}
                 ELSE {m \in SessionNames \ {n} : reg[m] # None}
  /\ \/ row' = [c \in Connections |-> IF row[c] = "active" /\ named[c] = n THEN "inactive" ELSE row[c]]
     \/ UNCHANGED row
  /\ UNCHANGED <<named, created, shells>>

Switch(n) ==
  /\ reg[n] # None /\ active # n
  /\ active' = n /\ UNCHANGED <<reg, named, row, created, shells>>

(* /shell and /exit.                                                       *)
ShellToggles ==
  /\ GetActive # None
  /\ shells' = IF GetActive \in shells THEN shells \ {GetActive} ELSE shells \cup {GetActive}
  /\ UNCHANGED <<reg, active, named, row, created>>

(* The bot stops and starts again: the registry is empty, the documents are*)
(* as they were; what was being written may or may not have arrived.       *)
Restarted ==
  /\ reg' = [n \in SessionNames |-> None] /\ active' = None /\ shells' = {}
  /\ \E arrived \in SUBSET {c \in Connections : row[c] = "writing"} :
       row' = [c \in Connections |->
                 IF row[c] # "writing" THEN row[c] ELSE IF c \in arrived THEN "active" ELSE "failed"]
  /\ UNCHANGED <<named, created>>

SessionsInit ==
  /\ reg = [n \in SessionNames |-> None] /\ active = None
  /\ named = [c \in Connections |-> None] /\ row = [c \in Connections |-> "none"]
  /\ created = <<>> /\ shells = {}

SessionsTypeOK ==
  /\ reg \in [SessionNames -> Ref(Connections)] /\ active \in Ref(SessionNames)
  /\ named \in [Connections -> Ref(SessionNames)]
  /\ row \in [Connections -> {"none", "writing", "active", "inactive", "failed"}]
  /\ created \in Seq(Connections) /\ shells \in SUBSET Connections
=============================================================================
