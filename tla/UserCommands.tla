---------------------------- MODULE UserCommands ----------------------------
(***************************************************************************)
(* The commands of one user side by side: ServerStore and FileTransfer     *)
(* work on the same active session, while connections come and go, and the *)
(* bot may stop and start again at any moment.  What is in memory is gone  *)
(* then; MongoDB's documents and the directories on disk stay.             *)
(***************************************************************************)
EXTENDS ServerStore, FileTransfer

CONSTANTS MaxCommands,     \* bound: commands of the user
          MaxRestarts      \* bound: restarts of the bot

ASSUME BoundsAssumption == MaxCommands \in Nat /\ MaxRestarts \in Nat

VARIABLES
  commands, restarts,      \* so far, for the bounds
  overlapped   \* history: has a command been given before the last was answered?

counts == <<commands, restarts, overlapped>>
vars   == <<sessions, store, transfers, counts>>

(* A command that works on the database is in flight.                      *)
Busy == CallInFlight \/ Writing
Command == /\ commands < MaxCommands /\ commands' = commands + 1
           /\ UNCHANGED restarts
DatabaseCommand == Command /\ overlapped' = (overlapped \/ Busy)

SessionStep ==
  /\ \/ \E c \in Connections : \E n \in SessionNames : Connected(c, n) /\ DatabaseCommand
     \/ /\ ShellToggles \/ \E n \in SessionNames : Switch(n)
        /\ Command /\ UNCHANGED overlapped
     \/ /\ \/ \E c \in Connections : RowWritten(c) \/ RowFails(c)
           \/ \E n \in SessionNames : Leaves(n)
        /\ UNCHANGED counts
  /\ UNCHANGED <<store, transfers>>

StoreStep ==
  /\ \/ \E k \in Callers : StartCall(k) /\ DatabaseCommand
     \/ \E k \in Callers : ContinueCall(k) /\ UNCHANGED counts
  /\ UNCHANGED <<sessions, transfers>>

TransferStep ==
  /\ \/ \E t \in Transfers : StartTransfer(t) /\ Command /\ UNCHANGED overlapped
     \/ \E t \in Transfers : ContinueTransfer(t) /\ UNCHANGED counts
  /\ UNCHANGED <<sessions, store>>

(* Every task ends where it is suspended.                                  *)
Restart ==
  /\ restarts < MaxRestarts /\ restarts' = restarts + 1
  /\ Restarted
  /\ call' = [k \in Callers |-> IF At(k, "idle") THEN call[k] ELSE [NoCall EXCEPT !.pc = "done"]]
  /\ step' = [t \in Transfers |-> IF step[t] \in {"idle", "done", "lost"} THEN step[t] ELSE "stopped"]
  /\ session' = [t \in Transfers |-> None]
  /\ UNCHANGED <<servers, groups, dirs, commands, overlapped>>

Init == /\ SessionsInit /\ StoreInit /\ TransfersInit
        /\ commands = 0 /\ restarts = 0 /\ overlapped = FALSE
Next == SessionStep \/ StoreStep \/ TransferStep \/ Restart
Spec == Init /\ [][Next]_vars

-----------------------------------------------------------------------------
(* Correctness.                                                            *)

(* Every variable of the sessions, the store and the transfers has its     *)
(* type.                                                                   *)
TypeOK == /\ SessionsTypeOK /\ StoreTypeOK /\ TransfersTypeOK
          /\ commands \in Nat /\ restarts \in Nat /\ overlapped \in BOOLEAN

(* As long as the user waits for each answer, a server's group is a group  *)
(* that exists, wherever the database raises and wherever the bot stops:   *)
(* /group makes the group before it assigns, /delgroup clears before it    *)
(* deletes (services.py:353-365, mongo.py:254-260).                        *)
GroupsExist ==
  ~overlapped => \A v \in Servers : servers[v] # None => servers[v].group \in groups \cup {None}

(* And /save leaves the group of a server that it saves again as it was    *)
(* (services.py:307-308).                                                  *)
SaveKeepsGroup ==
  [][\A k \in Savers : LET v == call[k].server IN
       ~overlapped' /\ At(k, "write") /\ servers[v] # None /\ servers'[v] # None
         => servers'[v].group = servers[v].group]_vars

(* And a saved server has the credentials of its own connection or none,   *)
(* although documents of lost connections, of earlier runs and of sessions *)
(* of the same name stay active: unless the session's own document could   *)
(* not be written (services.py:303, mongo.py:105-109).                     *)
OwnCredentials ==
  ~overlapped => \A v \in Servers : servers[v] # None =>
    LET h == servers[v].host IN
    servers[v].cred \in {None, h} \/ (h \in Connections /\ row[h] = "failed")

(* A transfer that has ended has left no directory on the bot's disk,      *)
(* unless it was a download whose SFTP request raised (services.py:408-410)*)
(* or the bot stopped in the middle of it.                                 *)
NoOtherDirLeft == \A t \in dirs : step[t] \notin {"idle", "announcing", "done"}
=============================================================================
