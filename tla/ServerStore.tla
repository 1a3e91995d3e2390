---------------------------- MODULE ServerStore ----------------------------
(***************************************************************************)
(* Saved servers and groups: SavedServerService and GroupService           *)
(* (app/application/services.py) over the collections saved_servers and    *)
(* server_groups (app/infrastructure/db/mongo.py), called by /save, /group,*)
(* /delgroup and /delserver.  MongoDB changes each document atomically, but*)
(* a call changes several, with an await at each operation: an action is   *)
(* one operation on one document and what the call does up to the next.    *)
(*   Savers /save   Assigners /group   Droppers /delgroup  Deleters ...    *)
(***************************************************************************)
EXTENDS ActiveSession

CONSTANTS Savers, Assigners, Droppers, Deleters, Servers, Groups,
          Earlier      \* a connection of an earlier run of the bot

ASSUME GroupsAssumption == None \notin Groups

Callers == Savers \cup Assigners \cup Droppers \cup Deleters

VARIABLES
  servers,   \* saved_servers: a document or None under each name
  groups,    \* server_groups
  call       \* each call: where it is suspended, and what it has read so far

store == <<servers, groups, call>>

(* host, cred: the connections whose address and whose credentials it has. *)
Document ==
  [host : Connections \cup {Earlier}, cred : Ref(Connections \cup {Earlier}), group : Ref(Groups)]

NoCall == [pc |-> "idle", session |-> None, server |-> None, cred |-> None,
           group |-> None, left |-> {}]
At(k, where)     == call[k].pc = where
Ends(k)          == call' = [call EXCEPT ![k] = [NoCall EXCEPT !.pc = "done"]]
CallInFlight     == \E k \in Callers : ~At(k, "idle") /\ ~At(k, "done")
In(g)            == {v \in Servers : servers[v] # None /\ servers[v].group = g}
Regroup(vs, g)   == servers' = [v \in Servers |-> IF v \in vs THEN [servers[v] EXCEPT !.group = g]
                                                             ELSE servers[v]]

-----------------------------------------------------------------------------
(* save_current_as                                                         *)

SaveRefused(k) == At(k, "idle") /\ GetActive = None /\ Ends(k) /\ UNCHANGED <<servers, groups>>

SaveStarts(k, v) ==
  /\ At(k, "idle") /\ GetActive # None
  /\ call' = [call EXCEPT ![k].pc = "row", ![k].session = GetActive, ![k].server = v]
  /\ UNCHANGED <<servers, groups>>

SaveReadsRow(k) ==
  /\ At(k, "row")
  /\ call' = [call EXCEPT ![k].pc = "server", ![k].cred = NewestRow(named[call[k].session])]
  /\ UNCHANGED <<servers, groups>>

(* The group of the document there is.  Without a given directory the call *)
(* asks the shell of the session, if it has one.                           *)
NoGroup(v)      == None                                       \* fault: existing is not looked at
GroupOf(v)      == IF servers[v] = None THEN None ELSE servers[v].group
SaveReadsServer(k, next) ==
  /\ At(k, "server")
  /\ next = "write" \/ (next = "cwd" /\ call[k].session \in shells)
  /\ call' = [call EXCEPT ![k].pc = next, ![k].group = GroupOf(call[k].server)]
  /\ UNCHANGED <<servers, groups>>

(* get_shell_cwd answers or raises, which is caught.                       *)
SaveHasCwd(k) ==
  /\ At(k, "cwd")
  /\ call' = [call EXCEPT ![k].pc = "write"]
  /\ UNCHANGED <<servers, groups>>

SaveWrites(k) ==
  /\ At(k, "write")
  /\ servers' = [servers EXCEPT ![call[k].server] =
       [host |-> call[k].session, cred |-> call[k].cred, group |-> call[k].group]]
  /\ Ends(k) /\ UNCHANGED groups

-----------------------------------------------------------------------------
(* upsert_and_assign: the group, then its servers one by one, in the order *)
(* of the command; a server that is not there is reported as missing.      *)

Unregistered(g) == UNCHANGED groups                           \* fault: the group is not made
Registered(g)   == groups' = groups \cup {g}
GroupUpserted(k, g, vs) ==
  /\ At(k, "idle") /\ vs # {}
  /\ Registered(g)
  /\ call' = [call EXCEPT ![k].pc = "assign", ![k].group = g, ![k].left = vs]
  /\ UNCHANGED servers

ServerAssigned(k, v) ==
  /\ At(k, "assign") /\ v \in call[k].left
  /\ Regroup({v} \cap {u \in Servers : servers[u] # None}, call[k].group)
  /\ IF call[k].left = {v} THEN Ends(k) ELSE call' = [call EXCEPT ![k].left = @ \ {v}]
  /\ UNCHANGED groups

-----------------------------------------------------------------------------
(* delete_group: update_many takes the servers out of it first, document by*)
(* document; a document it has passed, it does not come back to.           *)
Cleared(g, v) == Regroup({v} \cap In(g), None)
GroupClearing(k, g) ==
  /\ At(k, "idle")
  /\ call' = [call EXCEPT ![k].pc = "drop", ![k].group = g, ![k].left = Servers]
  /\ UNCHANGED <<servers, groups>>

ServerCleared(k, v) ==
  /\ At(k, "drop") /\ v \in call[k].left
  /\ Cleared(call[k].group, v)
  /\ call' = [call EXCEPT ![k].left = @ \ {v}]
  /\ UNCHANGED groups

GroupDeleted(k) ==
  /\ At(k, "drop") /\ call[k].left = {}
  /\ groups' = groups \ {call[k].group}
  /\ Ends(k) /\ UNCHANGED servers

(* delete_server                                                           *)
ServerDeleted(k, v) ==
  /\ At(k, "idle")
  /\ servers' = [servers EXCEPT ![v] = None]
  /\ Ends(k) /\ UNCHANGED groups

(* A database operation raises: the call ends there.                       *)
CallRaises(k) ==
  /\ call[k].pc \in {"row", "server", "write", "assign", "drop"}
  /\ Ends(k) /\ UNCHANGED <<servers, groups>>

-----------------------------------------------------------------------------
(* Any documents that earlier runs of the bot may have left.               *)
StoreInit ==
  /\ groups \in SUBSET Groups
  /\ servers \in [Servers -> {None} \cup
       {[host |-> Earlier, cred |-> Earlier, group |-> g] : g \in groups \cup {None}}]
  /\ call = [k \in Callers |-> NoCall]

StartCall(k) ==
  \/ k \in Savers    /\ (SaveRefused(k) \/ \E v \in Servers : SaveStarts(k, v))
  \/ k \in Assigners /\ \E g \in Groups : \E vs \in SUBSET Servers : GroupUpserted(k, g, vs)
  \/ k \in Droppers  /\ \E g \in Groups : GroupClearing(k, g)
  \/ k \in Deleters  /\ \E v \in Servers : ServerDeleted(k, v)

ContinueCall(k) ==
  \/ SaveReadsRow(k) \/ \E next \in {"cwd", "write"} : SaveReadsServer(k, next)
  \/ SaveHasCwd(k) \/ SaveWrites(k)
  \/ \E v \in Servers : ServerAssigned(k, v) \/ ServerCleared(k, v)
  \/ GroupDeleted(k) \/ CallRaises(k)

StoreTypeOK ==
  /\ servers \in [Servers -> Ref(Document)] /\ groups \in SUBSET Groups
  /\ call \in [Callers -> [pc : {"idle", "row", "server", "cwd", "write", "assign", "drop", "done"},
                           session : Ref(Connections), server : Ref(Servers), cred : Ref(Connections),
                           group : Ref(Groups), left : SUBSET Servers]]
=============================================================================
