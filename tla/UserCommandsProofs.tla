-------------------------- MODULE UserCommandsProofs --------------------------
(***************************************************************************)
(* Proofs about UserCommands.  IndInv says what a suspended call may rely  *)
(* on: as long as each command is answered before the next is given, what  *)
(* it has read is still so when it writes.                                 *)
(***************************************************************************)
EXTENDS UserCommands, NaturalSets, TLAPS

InFlight(k) == call[k].pc \notin {"idle", "done"}

(* What each position of a call implies about what the call has read.      *)
CallControl ==
  \A k \in Callers :
    /\ call[k].pc \in {"row", "server", "cwd", "write"} =>
         call[k].session \in Connections /\ call[k].server \in Servers
    /\ call[k].pc \in {"assign", "drop"} => call[k].group \in Groups

(* A document is created once per connection; a session in the registry is *)
(* under its own name, and the last of that name.                          *)
LastOfItsName(h) ==
  \A i, j \in 1..Len(created) : created[i] = h /\ i < j => named[created[j]] # named[h]

RegistryRows ==
  /\ \A i \in 1..Len(created) : row[created[i]] # "none"
  /\ \A c \in Connections : row[c] # "none" => \E i \in 1..Len(created) : created[i] = c
  /\ \A i, j \in 1..Len(created) : created[i] = created[j] => i = j
  /\ \A n \in SessionNames : reg[n] # None =>
       /\ named[reg[n]] = n /\ row[reg[n]] \in {"writing", "active", "failed"}
       /\ LastOfItsName(reg[n])

(* One command at a time.                                                  *)
OneAtATime ==
  ~overlapped => /\ \A j, k \in Callers : InFlight(j) /\ InFlight(k) => j = k
                 /\ Writing => ~CallInFlight

(* The newest document of the session that is being saved is its own.      *)
OwnRow(h) ==
  \/ row[h] = "failed"
  \/ row[h] = "active" /\ LastOfItsName(h)
  \/ ActiveRows(named[h]) = {}

OwnCred(h, cred) == cred \in {None, h} \/ (h \in Connections /\ row[h] = "failed")

(* What a suspended call has read, or done, is still so.                   *)
Fresh(k) ==
  /\ At(k, "row") => OwnRow(call[k].session)
  /\ call[k].pc \in {"server", "cwd", "write"} => OwnCred(call[k].session, call[k].cred)
  /\ call[k].pc \in {"cwd", "write"} =>
       /\ call[k].group \in groups \cup {None}
       /\ servers[call[k].server] # None => call[k].group = servers[call[k].server].group
  /\ At(k, "assign") => call[k].group \in groups
  /\ At(k, "drop") => In(call[k].group) \subseteq call[k].left

ReadsAreFresh == ~overlapped => \A k \in Callers : Fresh(k)

IndInv == /\ TypeOK /\ CallControl /\ RegistryRows /\ OneAtATime
          /\ ReadsAreFresh /\ GroupsExist /\ OwnCredentials

-----------------------------------------------------------------------------
(* The documents of one session name.                                      *)

LEMMA NewestIsLast ==
  ASSUME SessionsTypeOK, NEW n
  PROVE  \/ ActiveRows(n) = {} /\ NewestRow(n) = None
         \/ \E i \in ActiveRows(n) : /\ NewestRow(n) = created[i]
                                     /\ \A j \in ActiveRows(n) : j <= i
<1> DEFINE Last(i) == \A j \in ActiveRows(n) : j <= i
<1>1. CASE ActiveRows(n) = {}
  BY <1>1 DEF NewestRow
<1>2. CASE ActiveRows(n) # {}
  <2>1. Len(created) \in Nat /\ ActiveRows(n) \in SUBSET (1..Len(created))
    BY DEF SessionsTypeOK, ActiveRows
  <2>2. \E i \in ActiveRows(n) : Last(i)
    BY <1>2, <2>1, LargestUpTo
  <2>3. (CHOOSE i \in ActiveRows(n) : Last(i)) \in ActiveRows(n)
        /\ Last(CHOOSE i \in ActiveRows(n) : Last(i))
    BY <2>2
  <2> QED BY <1>2, <2>3 DEF NewestRow
<1> QED BY <1>1, <1>2

LEMMA NewestType ==
  ASSUME SessionsTypeOK, NEW n
  PROVE  NewestRow(n) \in Ref(Connections)
<1>1. \A i \in ActiveRows(n) : created[i] \in Connections
  BY DEF SessionsTypeOK, ActiveRows
<1> QED BY <1>1, NewestIsLast DEF Ref

LEMMA ActiveType ==
  ASSUME SessionsTypeOK
  PROVE  GetActive \in Ref(Connections)
BY DEF SessionsTypeOK, GetActive, Ref

-----------------------------------------------------------------------------
(* Types and what each position of a call implies.                         *)

LEMMA InitTypes == Init => TypeOK /\ CallControl
<1> SUFFICES ASSUME Init PROVE TypeOK /\ CallControl
  OBVIOUS
<1>1. SessionsTypeOK /\ TransfersTypeOK
  BY DEF Init, SessionsInit, TransfersInit, SessionsTypeOK, TransfersTypeOK, Ref
<1>2. StoreTypeOK /\ CallControl
  BY DEF Init, StoreInit, StoreTypeOK, CallControl, NoCall, Document, Ref
<1> QED BY <1>1, <1>2 DEF Init, TypeOK

LEMMA SessionTypes ==
  ASSUME TypeOK, SessionStep
  PROVE  SessionsTypeOK'
<1>1. ASSUME NEW c \in Connections, NEW n \in SessionNames, Connected(c, n)
      PROVE  SessionsTypeOK'
  BY <1>1 DEF TypeOK, SessionsTypeOK, Connected, Activates, Ref
<1>2. ASSUME NEW c \in Connections, RowWritten(c) \/ RowFails(c)
      PROVE  SessionsTypeOK'
  BY <1>2 DEF TypeOK, SessionsTypeOK, RowWritten, RowFails
<1>3. ASSUME NEW n \in SessionNames, Leaves(n)
      PROVE  SessionsTypeOK'
  BY <1>3 DEF TypeOK, SessionsTypeOK, Leaves, Ref
<1>4. ASSUME NEW n \in SessionNames, Switch(n)
      PROVE  SessionsTypeOK'
  BY <1>4 DEF TypeOK, SessionsTypeOK, Switch, Ref
<1>5. CASE ShellToggles
  BY <1>5 DEF TypeOK, SessionsTypeOK, ShellToggles, GetActive, Ref
<1> QED BY <1>1, <1>2, <1>3, <1>4, <1>5 DEF SessionStep

LEMMA StoreTypes ==
  ASSUME TypeOK, CallControl, StoreStep
  PROVE  StoreTypeOK' /\ CallControl'
<1> DEFINE CallRecord == [pc : {"idle", "row", "server", "cwd", "write", "assign", "drop", "done"},
                          session : Ref(Connections), server : Ref(Servers),
                          cred : Ref(Connections), group : Ref(Groups), left : SUBSET Servers]
<1>0. ASSUME NEW f \in [Callers -> CallRecord], NEW k \in Callers
      PROVE  /\ \A x \in {"row", "assign", "drop"} : [f EXCEPT ![k].pc = x] \in [Callers -> CallRecord]
             /\ \A x \in Ref(Connections) : [f EXCEPT ![k].session = x] \in [Callers -> CallRecord]
             /\ \A x \in Ref(Servers) : [f EXCEPT ![k].server = x] \in [Callers -> CallRecord]
             /\ \A x \in Ref(Groups) : [f EXCEPT ![k].group = x] \in [Callers -> CallRecord]
             /\ \A x \in SUBSET Servers : [f EXCEPT ![k].left = x] \in [Callers -> CallRecord]
  OBVIOUS
<1>1. /\ SessionsTypeOK /\ StoreTypeOK /\ GetActive \in Ref(Connections)
      /\ \A n : NewestRow(n) \in Ref(Connections)
  BY ActiveType, NewestType DEF TypeOK
<1>2. ASSUME NEW k \in Callers, NEW v \in Servers, SaveStarts(k, v)
      PROVE  StoreTypeOK' /\ CallControl'
  <2>1. /\ GetActive \in Connections /\ UNCHANGED <<servers, groups>>
        /\ call' = [call EXCEPT ![k].pc = "row", ![k].session = GetActive, ![k].server = v]
    BY <1>1, <1>2 DEF SaveStarts, Ref
  <2>2. call' \in [Callers -> CallRecord]
    BY <1>1, <1>0, <2>1 DEF StoreTypeOK, Ref
  <2> QED BY <1>1, <2>1, <2>2 DEF StoreTypeOK, CallControl
<1>3. ASSUME NEW k \in Callers, SaveReadsRow(k)
      PROVE  StoreTypeOK' /\ CallControl'
  BY <1>1, <1>3 DEF StoreTypeOK, CallControl, SaveReadsRow, At
<1>4. ASSUME NEW k \in Callers, NEW next \in {"cwd", "write"}, SaveReadsServer(k, next)
      PROVE  StoreTypeOK' /\ CallControl'
  <2>1. GroupOf(call[k].server) \in Ref(Groups)
    BY <1>1, <1>4 DEF StoreTypeOK, CallControl, SaveReadsServer, At, GroupOf, Ref, Document
  <2> QED BY <1>1, <1>4, <2>1 DEF StoreTypeOK, CallControl, SaveReadsServer, At
<1>5. ASSUME NEW k \in Callers, SaveHasCwd(k)
      PROVE  StoreTypeOK' /\ CallControl'
  BY <1>1, <1>5 DEF StoreTypeOK, CallControl, SaveHasCwd, At
<1>6. ASSUME NEW k \in Callers, Ends(k)
      PROVE  call' \in [Callers -> CallRecord] /\ CallControl'
  BY <1>1, <1>6 DEF StoreTypeOK, CallControl, Ends, NoCall, Ref
<1>7. ASSUME NEW k \in Callers, SaveRefused(k) \/ CallRaises(k)
      PROVE  StoreTypeOK' /\ CallControl'
  BY <1>1, <1>6, <1>7 DEF StoreTypeOK, SaveRefused, CallRaises
<1>8. ASSUME NEW k \in Callers, SaveWrites(k)
      PROVE  StoreTypeOK' /\ CallControl'
  <2>1. [host |-> call[k].session, cred |-> call[k].cred, group |-> call[k].group] \in Document
    BY <1>1, <1>8 DEF StoreTypeOK, CallControl, SaveWrites, At, Document, Ref
  <2> QED BY <1>1, <1>6, <1>8, <2>1 DEF StoreTypeOK, SaveWrites, Ref
<1>9. ASSUME NEW vs \in SUBSET Servers, NEW g \in Ref(Groups), Regroup(vs, g),
             \A v \in vs : servers[v] # None
      PROVE  servers' \in [Servers -> Ref(Document)]
  BY <1>1, <1>9 DEF StoreTypeOK, Regroup, Document, Ref
<1>10. ASSUME NEW k \in Callers, NEW g \in Groups, NEW vs \in SUBSET Servers,
              GroupUpserted(k, g, vs)
       PROVE  StoreTypeOK' /\ CallControl'
  <2>1. /\ groups' \in SUBSET Groups /\ UNCHANGED servers
        /\ call' = [call EXCEPT ![k].pc = "assign", ![k].group = g, ![k].left = vs]
    BY <1>1, <1>10 DEF GroupUpserted, Registered, StoreTypeOK
  <2>2. call' \in [Callers -> CallRecord]
    BY <1>1, <1>0, <2>1 DEF StoreTypeOK, Ref
  <2> QED BY <1>1, <2>1, <2>2 DEF StoreTypeOK, CallControl
<1>11. ASSUME NEW k \in Callers, NEW v \in Servers, ServerAssigned(k, v)
       PROVE  StoreTypeOK' /\ CallControl'
  <2>1. call[k].group \in Groups
    BY <1>11 DEF ServerAssigned, CallControl, At
  <2>2. servers' \in [Servers -> Ref(Document)]
    BY <1>9, <1>11, <2>1 DEF ServerAssigned, Ref
  <2>3. CASE Ends(k)
    BY <1>1, <1>6, <1>11, <2>2, <2>3 DEF StoreTypeOK, ServerAssigned
  <2>4. CASE call' = [call EXCEPT ![k].left = @ \ {v}]
    BY <1>1, <1>11, <2>2, <2>4 DEF StoreTypeOK, ServerAssigned, CallControl
  <2> QED BY <1>11, <2>3, <2>4 DEF ServerAssigned
<1>12. ASSUME NEW k \in Callers, NEW g \in Groups, GroupClearing(k, g)
       PROVE  StoreTypeOK' /\ CallControl'
  <2>1. /\ call' = [call EXCEPT ![k].pc = "drop", ![k].group = g, ![k].left = Servers]
        /\ UNCHANGED <<servers, groups>>
    BY <1>12 DEF GroupClearing
  <2>2. call' \in [Callers -> CallRecord]
    <3>1. call \in [Callers -> CallRecord] /\ g \in Ref(Groups) /\ Servers \in SUBSET Servers
      BY <1>1 DEF StoreTypeOK, Ref
    <3> HIDE DEF CallRecord
    <3> QED BY <1>0, <2>1, <3>1
  <2> QED BY <1>1, <2>1, <2>2 DEF StoreTypeOK, CallControl
<1>13. ASSUME NEW k \in Callers, GroupDeleted(k)
       PROVE  StoreTypeOK' /\ CallControl'
  BY <1>1, <1>6, <1>13 DEF StoreTypeOK, GroupDeleted
<1>14. ASSUME NEW k \in Callers, NEW v \in Servers, ServerDeleted(k, v)
       PROVE  StoreTypeOK' /\ CallControl'
  BY <1>1, <1>6, <1>14 DEF StoreTypeOK, ServerDeleted, Ref
<1>15. ASSUME NEW k \in Callers, NEW v \in Servers, ServerCleared(k, v)
       PROVE  StoreTypeOK' /\ CallControl'
  <2>1. servers' \in [Servers -> Ref(Document)]
    BY <1>9, <1>15 DEF ServerCleared, Cleared, In, Ref
  <2>2. call' = [call EXCEPT ![k].left = @ \ {v}] /\ UNCHANGED groups
    BY <1>15 DEF ServerCleared
  <2> QED BY <1>1, <2>1, <2>2 DEF StoreTypeOK, CallControl
<1> QED BY <1>2, <1>3, <1>4, <1>5, <1>7, <1>8, <1>10, <1>11, <1>12, <1>13, <1>14, <1>15
        DEF StoreStep, StartCall, ContinueCall

LEMMA TransferTypes ==
  ASSUME TypeOK, TransferStep
  PROVE  TransfersTypeOK'
<1>1. TransfersTypeOK /\ GetActive \in Ref(Connections)
  BY ActiveType DEF TypeOK
<1>2. ASSUME NEW t \in Transfers, StartTransfer(t) \/ ContinueTransfer(t)
      PROVE  /\ \E where : step' = [step EXCEPT ![t] = where]
             /\ session' = session \/ \E c \in Ref(Connections) : session' = [session EXCEPT ![t] = c]
             /\ dirs' \in {dirs, dirs \cup {t}, dirs \ {t}}
  BY <1>1, <1>2 DEF StartTransfer, UploadStarts, DownloadStarts, ContinueTransfer, TransferRefused,
       UploadFetches, UploadFetched, UploadProbed, UploadPut, UploadRaises, UploadReported,
       DownloadGets, DownloadRaises, DownloadGot, DownloadEnds, Goto, Forgets, MakesDir, RemovesDir,
       Finally, Ref
<1>3. ASSUME NEW t \in Transfers, StartTransfer(t) \/ ContinueTransfer(t)
      PROVE  TransfersTypeOK'
  <2>1. step' \in [Transfers -> {"idle", "announcing", "fetching", "probing", "putting", "reporting",
                                "getting", "sending", "lost", "done", "stopped"}]
    BY <1>1, <1>3 DEF StartTransfer, UploadStarts, DownloadStarts, ContinueTransfer, TransferRefused,
       UploadFetches, UploadFetched, UploadProbed, UploadPut, UploadRaises, UploadReported,
       DownloadGets, DownloadRaises, DownloadGot, DownloadEnds, Goto, TransfersTypeOK, Destination
  <2> QED BY <1>1, <1>2, <1>3, <2>1 DEF TransfersTypeOK
<1> QED BY <1>3 DEF TransferStep

LEMMA CountTypes ==
  ASSUME TypeOK, Next
  PROVE  commands' \in Nat /\ restarts' \in Nat /\ overlapped' \in BOOLEAN
<1>1. commands \in Nat /\ restarts \in Nat /\ overlapped \in BOOLEAN
  BY DEF TypeOK
<1>2. CASE (Command /\ UNCHANGED overlapped) \/ DatabaseCommand \/ UNCHANGED counts
  <2>1. overlapped' \in {overlapped, overlapped \/ Busy}
    BY <1>2 DEF DatabaseCommand, counts
  <2>2. overlapped' \in BOOLEAN
    BY <1>1, <2>1
  <2>3. commands' \in {commands, commands + 1} /\ restarts' = restarts
    BY <1>2 DEF DatabaseCommand, Command, counts
  <2> QED BY <1>1, <2>2, <2>3
<1>3. CASE Restart
  BY <1>1, <1>3 DEF Restart
<1> QED BY <1>2, <1>3 DEF Next, SessionStep, StoreStep, TransferStep

LEMMA RestartTypes ==
  ASSUME TypeOK, CallControl, Restart
  PROVE  SessionsTypeOK' /\ StoreTypeOK' /\ TransfersTypeOK' /\ CallControl'
<1>1. SessionsTypeOK'
  BY DEF TypeOK, Restart, Restarted, SessionsTypeOK, Ref
<1>2. TransfersTypeOK'
  BY DEF TypeOK, Restart, TransfersTypeOK, Ref
<1>3. StoreTypeOK' /\ CallControl'
  BY DEF TypeOK, Restart, StoreTypeOK, CallControl, NoCall, At, Ref
<1> QED BY <1>1, <1>2, <1>3

LEMMA TypesStep ==
  ASSUME TypeOK, CallControl, [Next]_vars
  PROVE  TypeOK' /\ CallControl'
<1>1. CASE SessionStep
  <2>1. StoreTypeOK' /\ TransfersTypeOK' /\ CallControl'
    BY <1>1 DEF SessionStep, TypeOK, StoreTypeOK, TransfersTypeOK, CallControl, store, transfers
  <2> QED BY <1>1, <2>1, SessionTypes, CountTypes DEF TypeOK, Next
<1>2. CASE StoreStep
  <2>1. SessionsTypeOK' /\ TransfersTypeOK'
    BY <1>2 DEF StoreStep, TypeOK, SessionsTypeOK, TransfersTypeOK, sessions, transfers
  <2> QED BY <1>2, <2>1, StoreTypes, CountTypes DEF TypeOK, Next
<1>3. CASE TransferStep
  <2>1. SessionsTypeOK' /\ StoreTypeOK' /\ CallControl'
    BY <1>3 DEF TransferStep, TypeOK, SessionsTypeOK, StoreTypeOK, CallControl, sessions, store
  <2> QED BY <1>3, <2>1, TransferTypes, CountTypes DEF TypeOK, Next
<1>4. CASE Restart
  BY <1>4, RestartTypes, CountTypes DEF TypeOK, Next
<1>5. CASE UNCHANGED vars
  BY <1>5 DEF vars, sessions, store, transfers, counts, TypeOK, SessionsTypeOK, StoreTypeOK,
     TransfersTypeOK, CallControl
<1> QED BY <1>1, <1>2, <1>3, <1>4, <1>5 DEF Next

(* Every variable keeps its type, whatever the user and the bot do.        *)
THEOREM TypeOKHolds == Spec => []TypeOK
<1>1. TypeOK /\ CallControl /\ [Next]_vars => TypeOK' /\ CallControl'
  BY TypesStep
<1> QED BY <1>1, InitTypes, PTL DEF Spec

-----------------------------------------------------------------------------
(* The bot's disk.                                                         *)

LEMMA DirsStep == TypeOK /\ NoOtherDirLeft /\ [Next]_vars => NoOtherDirLeft'
<1> SUFFICES ASSUME TypeOK, NoOtherDirLeft, [Next]_vars PROVE NoOtherDirLeft'
  OBVIOUS
<1>1. TransfersTypeOK
  BY DEF TypeOK
<1>2. ASSUME NEW t \in Transfers, StartTransfer(t) \/ ContinueTransfer(t)
      PROVE  NoOtherDirLeft'
  BY <1>1, <1>2 DEF StartTransfer, UploadStarts, DownloadStarts, ContinueTransfer, TransferRefused,
       UploadFetches, UploadFetched, UploadProbed, UploadPut, UploadRaises, UploadReported,
       DownloadGets, DownloadRaises, DownloadGot, DownloadEnds, Goto, Waits, TransfersTypeOK,
       Destination, MakesDir, RemovesDir, Finally, NoOtherDirLeft
<1>3. CASE Restart
  BY <1>1, <1>3 DEF Restart, TransfersTypeOK, NoOtherDirLeft
<1>4. CASE UNCHANGED transfers
  BY <1>4 DEF transfers, NoOtherDirLeft
<1> QED BY <1>2, <1>3, <1>4 DEF Next, SessionStep, StoreStep, TransferStep, vars

(* A transfer that has ended leaves no directory, unless it was a download *)
(* whose SFTP request raised, or the bot stopped in the middle of it: the  *)
(* finally clauses of files.py reach every other end.                      *)
THEOREM NoOtherDirLeftHolds == Spec => []NoOtherDirLeft
<1>1. Init => NoOtherDirLeft
  BY DEF Init, TransfersInit, NoOtherDirLeft
<1> QED BY <1>1, DirsStep, TypeOKHolds, PTL DEF Spec

-----------------------------------------------------------------------------
(* The registry and the documents.                                         *)

(* What a step may do to a document.                                       *)
LEMMA RowsStep ==
  ASSUME TypeOK, [Next]_vars, NEW c \in Connections
  PROVE  /\ row[c] = "failed" => row'[c] = "failed"
         /\ row[c] # "none" => row'[c] # "none"
<1>1. SessionsTypeOK
  BY DEF TypeOK
<1>2. CASE SessionStep
  BY <1>1, <1>2 DEF SessionStep, SessionsTypeOK, Connected, ShellToggles, Switch, RowWritten,
     RowFails, Leaves
<1>3. CASE UNCHANGED sessions
  BY <1>3 DEF sessions
<1>4. CASE Restart
  BY <1>1, <1>4 DEF Restart, Restarted, SessionsTypeOK
<1> QED BY <1>2, <1>3, <1>4 DEF Next, StoreStep, TransferStep, vars

LEMMA RegistryInit == Init => RegistryRows
BY DEF Init, SessionsInit, RegistryRows

LEMMA RegistryStep ==
  ASSUME TypeOK, RegistryRows, [Next]_vars
  PROVE  RegistryRows'
<1>1. SessionsTypeOK
  BY DEF TypeOK
<1>2. ASSUME NEW c \in Connections, NEW n \in SessionNames, Connected(c, n)
      PROVE  RegistryRows'
  <2> DEFINE N == Len(created)
  <2>1. /\ N \in Nat /\ Len(created') = N + 1 /\ created'[N + 1] = c
        /\ \A i \in 1..N : created'[i] = created[i] /\ created[i] \in Connections /\ created[i] # c
    BY <1>1, <1>2 DEF Connected, SessionsTypeOK, RegistryRows
  <2>2. /\ reg' = [reg EXCEPT ![n] = c] /\ named' = [named EXCEPT ![c] = n]
        /\ row' = [row EXCEPT ![c] = "writing"] /\ row[c] = "none"
    BY <1>2 DEF Connected
  <2>3. /\ \A i \in 1..N : named'[created[i]] = named[created[i]] /\ row'[created[i]] = row[created[i]]
        /\ named'[c] = n /\ row'[c] = "writing" /\ c # None
    BY <1>1, <2>1, <2>2, NoneAssumption DEF SessionsTypeOK
  <2>4. \A i \in 1..(N + 1) : i \in 1..N \/ i = N + 1
    BY <2>1
  <2> HIDE DEF N
  <2>5. \A i \in 1..(N + 1) : row'[created'[i]] # "none"
    BY <2>1, <2>3, <2>4 DEF RegistryRows, N
  <2>6. \A d \in Connections : row'[d] # "none" => \E i \in 1..(N + 1) : created'[i] = d
    <3> SUFFICES ASSUME NEW d \in Connections, row'[d] # "none"
                 PROVE  \E i \in 1..(N + 1) : created'[i] = d
      OBVIOUS
    <3>1. CASE d = c
      BY <2>1, <3>1
    <3>2. CASE d # c
      <4>1. \E i \in 1..N : created[i] = d
        BY <1>1, <2>2, <3>2 DEF RegistryRows, SessionsTypeOK, N
      <4> QED BY <2>1, <4>1
    <3> QED BY <3>1, <3>2
  <2>7. \A i, j \in 1..(N + 1) : created'[i] = created'[j] => i = j
    BY <2>1, <2>4 DEF RegistryRows, N
  <2>8. ASSUME NEW m \in SessionNames, reg'[m] # None
        PROVE  named'[reg'[m]] = m /\ row'[reg'[m]] \in {"writing", "active", "failed"}
    BY <1>1, <2>2, <2>3, <2>8 DEF RegistryRows, SessionsTypeOK, Ref
  <2>9. ASSUME NEW m \in SessionNames, reg'[m] # None,
               NEW i \in 1..(N + 1), NEW j \in 1..(N + 1), created'[i] = reg'[m], i < j
        PROVE  named'[created'[j]] # m
    <3>1. i \in 1..N
      BY <2>1, <2>4, <2>9
    <3>2. m # n /\ reg'[m] = reg[m] /\ reg[m] # None
      BY <1>1, <2>1, <2>2, <2>9, <3>1 DEF SessionsTypeOK
    <3>3. CASE j = N + 1
      BY <2>1, <2>3, <3>2, <3>3
    <3>4. CASE j \in 1..N
      <4>1. LastOfItsName(reg[m]) /\ named[reg[m]] = m
        BY <3>2 DEF RegistryRows
      <4>2. named[created[j]] # m
        BY <2>1, <2>9, <3>1, <3>2, <3>4, <4>1 DEF LastOfItsName, N
      <4> QED BY <2>1, <2>3, <3>4, <4>2
    <3> QED BY <2>4, <3>3, <3>4
  <2> QED BY <2>1, <2>5, <2>6, <2>7, <2>8, <2>9 DEF RegistryRows, LastOfItsName
<1>3. CASE /\ UNCHANGED <<created, named>>
           /\ \A c \in Connections : row[c] = "none" <=> row'[c] = "none"
           /\ \A n \in SessionNames : reg'[n] # None =>
                reg'[n] = reg[n] /\ row'[reg[n]] \in {"writing", "active", "failed"}
  <2>1. \A i \in 1..Len(created) : created[i] \in Connections
    BY <1>1 DEF SessionsTypeOK
  <2>2. \A n \in SessionNames : reg'[n] # None =>
          /\ named'[reg'[n]] = n /\ row'[reg'[n]] \in {"writing", "active", "failed"}
          /\ LastOfItsName(reg[n])
    BY <1>3 DEF RegistryRows
  <2> QED BY <1>3, <2>1, <2>2 DEF RegistryRows, LastOfItsName
<1>4. ASSUME NEW c \in Connections, RowWritten(c) \/ RowFails(c)
      PROVE  RegistryRows'
  <2>1. /\ row[c] = "writing" /\ UNCHANGED <<reg, named, created>>
        /\ row' = [row EXCEPT ![c] = "active"] \/ row' = [row EXCEPT ![c] = "failed"]
    BY <1>4 DEF RowWritten, RowFails
  <2>2. \A d \in Connections : row'[d] = row[d] \/ (d = c /\ row'[d] \in {"active", "failed"})
    BY <1>1, <2>1 DEF SessionsTypeOK
  <2>3. \A n \in SessionNames : reg[n] # None =>
          reg[n] \in Connections /\ row[reg[n]] \in {"writing", "active", "failed"}
    BY <1>1 DEF SessionsTypeOK, Ref, RegistryRows
  <2> QED BY <1>3, <2>1, <2>2, <2>3
<1>5. ASSUME NEW n \in SessionNames, Leaves(n)
      PROVE  RegistryRows'
  <2>1. \A c \in Connections :
          row'[c] = row[c] \/ (row'[c] = "inactive" /\ row[c] = "active" /\ named[c] = n)
    BY <1>5 DEF Leaves
  <2>2. \A m \in SessionNames : reg'[m] # None =>
          m # n /\ reg'[m] = reg[m] /\ reg[m] \in Connections /\ named[reg[m]] = m
    BY <1>1, <1>5 DEF Leaves, SessionsTypeOK, Ref, RegistryRows
  <2>3. \A m \in SessionNames : reg'[m] # None => row'[reg[m]] \in {"writing", "active", "failed"}
    BY <2>1, <2>2 DEF RegistryRows
  <2> QED BY <1>3, <1>5, <2>1, <2>2, <2>3 DEF Leaves
<1>6. ASSUME ShellToggles \/ (\E n \in SessionNames : Switch(n)) \/ UNCHANGED sessions
      PROVE  RegistryRows'
  BY <1>6, <1>3 DEF ShellToggles, Switch, sessions, RegistryRows
<1>7. CASE Restart
  <2>1. \A n \in SessionNames : reg'[n] = None
    BY <1>7 DEF Restart, Restarted
  <2>2. \A c \in Connections : row[c] = "none" <=> row'[c] = "none"
    BY <1>7 DEF Restart, Restarted
  <2> QED BY <1>3, <1>7, <2>1, <2>2 DEF Restart, Restarted
<1> QED BY <1>2, <1>4, <1>5, <1>6, <1>7 DEF Next, SessionStep, StoreStep, TransferStep, vars

-----------------------------------------------------------------------------
(* One command at a time.                                                  *)

LEMMA OneAtATimeInit == Init => OneAtATime
BY DEF Init, StoreInit, OneAtATime, InFlight, NoCall, SessionsInit, Writing

LEMMA OverlapStays ==
  ASSUME TypeOK, [Next]_vars, ~overlapped'
  PROVE  ~overlapped
<1>1. CASE overlapped' = (overlapped \/ Busy)
  BY <1>1
<1>2. CASE UNCHANGED overlapped
  BY <1>2
<1> QED BY <1>1, <1>2 DEF Next, SessionStep, StoreStep, TransferStep, Restart, vars, counts,
     DatabaseCommand

(* A call that starts while ~overlapped' is the only one in flight; one    *)
(* that continues is, too.                                                 *)
LEMMA StartsAlone ==
  ASSUME TypeOK, NEW k \in Callers, StartCall(k), DatabaseCommand, ~overlapped'
  PROVE  /\ ~Writing /\ \A j \in Callers : ~InFlight(j)
         /\ \A j \in Callers \ {k} : call'[j] = call[j]
<1>1. ~Busy
  BY DEF DatabaseCommand
<1>2. ~Writing /\ \A j \in Callers : ~InFlight(j)
  BY <1>1 DEF Busy, CallInFlight, InFlight, At
<1>3. \A j \in Callers \ {k} : call'[j] = call[j]
  BY DEF StartCall, SaveRefused, SaveStarts, GroupUpserted, GroupClearing, ServerDeleted, Ends,
     TypeOK, StoreTypeOK
<1> QED BY <1>2, <1>3

LEMMA ContinuesAlone ==
  ASSUME TypeOK, OneAtATime, NEW k \in Callers, ContinueCall(k), ~overlapped
  PROVE  /\ InFlight(k) /\ ~Writing /\ \A j \in Callers \ {k} : ~InFlight(j)
         /\ \A j \in Callers \ {k} : call'[j] = call[j]
<1>1. InFlight(k)
  BY DEF ContinueCall, SaveReadsRow, SaveReadsServer, SaveHasCwd, SaveWrites, ServerAssigned,
     ServerCleared, GroupDeleted, CallRaises, At, InFlight
<1>2. ~Writing /\ \A j \in Callers \ {k} : ~InFlight(j)
  BY <1>1 DEF OneAtATime, CallInFlight, InFlight, At
<1>3. \A j \in Callers \ {k} : call'[j] = call[j]
  BY DEF ContinueCall, SaveReadsRow, SaveReadsServer, SaveHasCwd, SaveWrites, ServerAssigned,
     ServerCleared, GroupDeleted, CallRaises, Ends, TypeOK, StoreTypeOK
<1> QED BY <1>1, <1>2, <1>3

LEMMA OneAtATimeStep ==
  ASSUME TypeOK, OneAtATime, [Next]_vars
  PROVE  OneAtATime'
<1> SUFFICES ASSUME ~overlapped'
             PROVE  /\ \A j, k \in Callers : InFlight(j)' /\ InFlight(k)' => j = k
                    /\ Writing' => ~CallInFlight'
  BY DEF OneAtATime
<1>1. ~overlapped
  BY OverlapStays
<1>2. ASSUME NEW k \in Callers, UNCHANGED row, ~Writing,
             \A j \in Callers \ {k} : ~InFlight(j) /\ call'[j] = call[j]
      PROVE  /\ \A i, j \in Callers : InFlight(i)' /\ InFlight(j)' => i = j
             /\ ~Writing'
  BY <1>2 DEF InFlight, Writing
<1>3. ASSUME NEW k \in Callers, StartCall(k), DatabaseCommand, UNCHANGED sessions
      PROVE  OneAtATime'
  BY <1>2, <1>3, StartsAlone DEF OneAtATime, sessions
<1>4. ASSUME NEW k \in Callers, ContinueCall(k), UNCHANGED sessions
      PROVE  OneAtATime'
  BY <1>1, <1>2, <1>4, ContinuesAlone DEF OneAtATime, sessions
<1>5. ASSUME NEW c \in Connections, NEW n \in SessionNames, Connected(c, n), DatabaseCommand,
             UNCHANGED store
      PROVE  OneAtATime'
  <2>1. ~CallInFlight
    BY <1>5 DEF DatabaseCommand, Busy
  <2> QED BY <1>1, <1>5, <2>1 DEF OneAtATime, CallInFlight, InFlight, At, store
<1>6. CASE UNCHANGED call /\ (Writing' => Writing)
  BY <1>1, <1>6 DEF OneAtATime, CallInFlight, InFlight, At
<1>7. CASE Restart
  <2>1. \A k \in Callers : ~InFlight(k)'
    BY <1>7 DEF Restart, InFlight, NoCall, At, TypeOK, StoreTypeOK
  <2> QED BY <2>1 DEF OneAtATime, CallInFlight, InFlight, At
<1>8. ASSUME \/ ShellToggles \/ \E n \in SessionNames : Switch(n) \/ Leaves(n)
             \/ \E c \in Connections : RowWritten(c) \/ RowFails(c),
             UNCHANGED store
      PROVE  UNCHANGED call /\ (Writing' => Writing)
  BY <1>8 DEF ShellToggles, Switch, RowWritten, RowFails, Leaves, Writing, store,
     TypeOK, SessionsTypeOK
<1>9. CASE SessionStep
  BY <1>5, <1>6, <1>8, <1>9 DEF SessionStep, OneAtATime
<1>10. CASE StoreStep
  BY <1>3, <1>4, <1>10 DEF StoreStep, OneAtATime
<1>11. CASE TransferStep \/ UNCHANGED vars
  BY <1>6, <1>11 DEF TransferStep, vars, sessions, store, Writing
<1> QED BY <1>7, <1>9, <1>10, <1>11 DEF Next, OneAtATime

-----------------------------------------------------------------------------
(* What a suspended call has read.                                         *)

LEMMA FreshInit == Init => ReadsAreFresh /\ GroupsExist /\ OwnCredentials
<1> SUFFICES ASSUME Init PROVE ReadsAreFresh /\ GroupsExist /\ OwnCredentials
  OBVIOUS
<1>1. ReadsAreFresh
  BY DEF Init, StoreInit, NoCall, ReadsAreFresh, Fresh, At
<1>2. GroupsExist /\ OwnCredentials
  BY DEF Init, StoreInit, GroupsExist, OwnCredentials
<1> QED BY <1>1, <1>2

(* A session that leaves takes the documents of its name with it, or leaves*)
(* them all alone: what is read of them stays the session's own.           *)
LEMMA OwnRowStays ==
  ASSUME TypeOK, NEW h \in Connections, OwnRow(h),
         \/ UNCHANGED <<row, named, created>>
         \/ \E n \in SessionNames : Leaves(n)
  PROVE  OwnRow(h)'
<1>1. SessionsTypeOK
  BY DEF TypeOK
<1>2. CASE UNCHANGED <<row, named, created>>
  BY <1>2 DEF OwnRow, LastOfItsName, ActiveRows
<1>3. ASSUME NEW n \in SessionNames, UNCHANGED <<named, created>>,
             row' = [c \in Connections |-> IF row[c] = "active" /\ named[c] = n
                                             THEN "inactive" ELSE row[c]]
      PROVE  OwnRow(h)'
  <2>1. row[h] = "failed" => row'[h] = "failed"
    BY <1>1, <1>3 DEF SessionsTypeOK
  <2>2. \A i \in 1..Len(created) : created[i] \in Connections
    BY <1>1 DEF SessionsTypeOK
  <2>3. ActiveRows(named[h])' \subseteq ActiveRows(named[h])
    BY <1>3, <2>2 DEF ActiveRows
  <2>4. named[h] = n => ActiveRows(named[h])' = {}
    BY <1>3, <2>2 DEF ActiveRows
  <2>5. named[h] # n => row'[h] = row[h]
    BY <1>3
  <2>6. LastOfItsName(h)' <=> LastOfItsName(h)
    BY <1>3 DEF LastOfItsName
  <2> QED BY <1>3, <2>1, <2>3, <2>4, <2>5, <2>6 DEF OwnRow
<1> QED BY <1>2, <1>3 DEF Leaves

(* The credentials that save_current_as reads.                             *)
LEMMA ReadsOwnRow ==
  ASSUME TypeOK, RegistryRows, NEW h \in Connections, OwnRow(h)
  PROVE  OwnCred(h, NewestRow(named[h]))
<1> DEFINE n == named[h]
<1>1. SessionsTypeOK
  BY DEF TypeOK
<1>2. CASE row[h] = "failed" \/ ActiveRows(n) = {}
  BY <1>2 DEF OwnCred, NewestRow
<1>3. CASE row[h] = "active" /\ LastOfItsName(h)
  <2>1. PICK i \in 1..Len(created) : created[i] = h
    BY <1>3 DEF RegistryRows
  <2>2. i \in ActiveRows(n)
    BY <1>3, <2>1 DEF ActiveRows
  <2>3. PICK j \in ActiveRows(n) : NewestRow(n) = created[j] /\ i <= j
    BY <1>1, <2>2, NewestIsLast
  <2>4. i \in Nat /\ j \in 1..Len(created) /\ named[created[j]] = n
    BY <2>1, <2>3 DEF ActiveRows
  <2>5. ~(i < j)
    BY <1>3, <2>1, <2>4 DEF LastOfItsName
  <2>6. i = j
    BY <2>3, <2>4, <2>5
  <2> QED BY <2>1, <2>3, <2>6 DEF OwnCred
<1> QED BY <1>2, <1>3 DEF OwnRow

LEMMA OwnCredStays ==
  ASSUME TypeOK, [Next]_vars, NEW h, NEW cred, OwnCred(h, cred)
  PROVE  OwnCred(h, cred)'
BY RowsStep DEF OwnCred

(* The session that is active now has its own row.                         *)
LEMMA ActiveOwnsRow ==
  ASSUME TypeOK, RegistryRows, ~Writing, GetActive # None
  PROVE  OwnRow(GetActive)
<1>1. /\ active \in SessionNames /\ reg[active] # None /\ GetActive = reg[active]
      /\ reg[active] \in Connections
  BY DEF TypeOK, SessionsTypeOK, GetActive, Ref
<1>2. row[reg[active]] \in {"active", "failed"} /\ LastOfItsName(reg[active])
  BY <1>1 DEF RegistryRows, Writing
<1> QED BY <1>1, <1>2 DEF OwnRow

-----------------------------------------------------------------------------
(* The documents.                                                          *)

GroupsOK == \A v \in Servers : servers[v] # None => servers[v].group \in groups \cup {None}
CredsOK  == \A v \in Servers : servers[v] # None => OwnCred(servers[v].host, servers[v].cred)

LEMMA NotInFlightIsFresh == \A k : ~InFlight(k) => Fresh(k)
BY DEF InFlight, Fresh, At

(* Groups and credentials when documents get another group.                *)
LEMMA RegroupKeeps ==
  ASSUME TypeOK, NEW vs \in SUBSET Servers, NEW g, Regroup(vs, g), \A v \in vs : servers[v] # None
  PROVE  \A v \in Servers :
           /\ servers[v] = None => servers'[v] = None
           /\ servers[v] # None => /\ servers'[v].host = servers[v].host
                                  /\ servers'[v].cred = servers[v].cred
                                  /\ servers'[v].group = IF v \in vs THEN g ELSE servers[v].group
BY DEF TypeOK, StoreTypeOK, Document, Ref, Regroup

LEMMA StartKeeps ==
  ASSUME TypeOK, CallControl, RegistryRows, NEW k \in Callers, StartCall(k), UNCHANGED sessions,
         ~Writing, GroupsOK, CredsOK
  PROVE  Fresh(k)' /\ GroupsOK' /\ CredsOK'
<1> USE DEF sessions
<1>1. StoreTypeOK
  BY DEF TypeOK
<1>2. \A h, cred : OwnCred(h, cred) => OwnCred(h, cred)'
  BY DEF OwnCred
<1>3. CASE SaveRefused(k)
  <2>1. ~InFlight(k)' /\ UNCHANGED <<servers, groups>>
    BY <1>1, <1>3 DEF SaveRefused, Ends, NoCall, InFlight, StoreTypeOK
  <2> QED BY <1>2, <2>1 DEF GroupsOK, CredsOK, Fresh, InFlight, At
<1>4. ASSUME NEW v \in Servers, SaveStarts(k, v)
      PROVE  Fresh(k)' /\ GroupsOK' /\ CredsOK'
  <2>1. GetActive \in Connections /\ OwnRow(GetActive)
    BY <1>4, ActiveType, ActiveOwnsRow DEF SaveStarts, TypeOK, Ref
  <2>2. call'[k].pc = "row" /\ call'[k].session = GetActive /\ UNCHANGED <<servers, groups>>
    BY <1>1, <1>4 DEF SaveStarts, StoreTypeOK
  <2>3. \A h : OwnRow(h) => OwnRow(h)'
    BY DEF OwnRow, LastOfItsName, ActiveRows
  <2>4. OwnRow(call[k].session)'
    BY <2>1, <2>2, <2>3
  <2> QED BY <1>2, <2>2, <2>4 DEF GroupsOK, CredsOK, Fresh, At
<1>5. ASSUME NEW g \in Groups, NEW vs \in SUBSET Servers, GroupUpserted(k, g, vs)
      PROVE  Fresh(k)' /\ GroupsOK' /\ CredsOK'
  <2>1. /\ call'[k].pc = "assign" /\ call'[k].group = g
        /\ groups' = groups \cup {g} /\ UNCHANGED servers
    BY <1>1, <1>5 DEF GroupUpserted, Registered, StoreTypeOK
  <2> QED BY <1>2, <2>1 DEF GroupsOK, CredsOK, Fresh, At
<1>6. ASSUME NEW g \in Groups, GroupClearing(k, g)
      PROVE  Fresh(k)' /\ GroupsOK' /\ CredsOK'
  <2>1. /\ call'[k].pc = "drop" /\ call'[k].left = Servers /\ UNCHANGED <<servers, groups>>
    BY <1>1, <1>6 DEF GroupClearing, StoreTypeOK
  <2> QED BY <1>2, <2>1 DEF GroupsOK, CredsOK, Fresh, At, In
<1>7. ASSUME NEW v \in Servers, ServerDeleted(k, v)
      PROVE  Fresh(k)' /\ GroupsOK' /\ CredsOK'
  <2>1. ~InFlight(k)' /\ UNCHANGED groups
    BY <1>1, <1>7 DEF ServerDeleted, Ends, NoCall, InFlight, StoreTypeOK
  <2>2. \A u \in Servers : servers'[u] = IF u = v THEN None ELSE servers[u]
    BY <1>1, <1>7 DEF ServerDeleted, StoreTypeOK
  <2>3. GroupsOK' /\ CredsOK'
    BY <1>2, <2>1, <2>2 DEF GroupsOK, CredsOK
  <2> QED BY <2>1, <2>3 DEF Fresh, InFlight, At
<1> QED BY <1>3, <1>4, <1>5, <1>6, <1>7 DEF StartCall

LEMMA ContinueKeeps ==
  ASSUME TypeOK, CallControl, RegistryRows, NEW k \in Callers, ContinueCall(k), UNCHANGED sessions,
         Fresh(k), GroupsOK, CredsOK
  PROVE  Fresh(k)' /\ GroupsOK' /\ CredsOK'
<1> USE DEF sessions
<1>1. StoreTypeOK
  BY DEF TypeOK
<1>2. \A h, cred : OwnCred(h, cred) => OwnCred(h, cred)'
  BY DEF OwnCred
<1>3. CASE SaveReadsRow(k)
  <2>1. call[k].session \in Connections /\ OwnRow(call[k].session)
    BY <1>3 DEF SaveReadsRow, CallControl, Fresh, At
  <2>2. OwnCred(call[k].session, NewestRow(named[call[k].session]))
    BY <2>1, ReadsOwnRow
  <2>3. /\ call'[k].pc = "server" /\ call'[k].session = call[k].session
        /\ call'[k].cred = NewestRow(named[call[k].session]) /\ UNCHANGED <<servers, groups>>
    BY <1>1, <1>3 DEF SaveReadsRow, StoreTypeOK
  <2> QED BY <1>2, <2>2, <2>3 DEF Fresh, GroupsOK, CredsOK, At
<1>4. ASSUME NEW next \in {"cwd", "write"}, SaveReadsServer(k, next)
      PROVE  Fresh(k)' /\ GroupsOK' /\ CredsOK'
  <2>1. /\ call'[k].pc = next /\ call'[k].session = call[k].session
        /\ call'[k].cred = call[k].cred /\ call'[k].server = call[k].server
        /\ call'[k].group = GroupOf(call[k].server) /\ UNCHANGED <<servers, groups>>
    BY <1>1, <1>4 DEF SaveReadsServer, StoreTypeOK
  <2>2. call[k].server \in Servers /\ OwnCred(call[k].session, call[k].cred)
    BY <1>4 DEF SaveReadsServer, CallControl, Fresh, At
  <2>3. /\ GroupOf(call[k].server) \in groups \cup {None}
        /\ servers[call[k].server] # None => GroupOf(call[k].server) = servers[call[k].server].group
    BY <2>2 DEF GroupOf, GroupsOK
  <2> QED BY <1>2, <2>1, <2>2, <2>3 DEF Fresh, GroupsOK, CredsOK, At
<1>5. CASE SaveHasCwd(k)
  <2>1. /\ call[k].pc = "cwd" /\ call'[k].pc = "write" /\ call'[k].session = call[k].session
        /\ call'[k].cred = call[k].cred /\ call'[k].server = call[k].server
        /\ call'[k].group = call[k].group /\ UNCHANGED <<servers, groups>>
    BY <1>1, <1>5 DEF SaveHasCwd, StoreTypeOK, At
  <2> QED BY <1>2, <2>1 DEF Fresh, GroupsOK, CredsOK, At
<1>6. ASSUME Ends(k), UNCHANGED servers,
             \/ groups' = groups
             \/ At(k, "drop") /\ call[k].left = {} /\ groups' = groups \ {call[k].group}
      PROVE  Fresh(k)' /\ GroupsOK' /\ CredsOK'
  <2>1. ~InFlight(k)'
    BY <1>1, <1>6 DEF Ends, NoCall, InFlight, StoreTypeOK
  <2>2. \A v \in Servers : servers[v] # None => servers[v].group \in groups' \cup {None}
    BY <1>6 DEF GroupsOK, Fresh, In
  <2> QED BY <1>2, <1>6, <2>1, <2>2 DEF Fresh, InFlight, GroupsOK, CredsOK, At
<1>7. CASE SaveWrites(k)
  <2>1. /\ call[k].pc = "write" /\ call[k].server \in Servers /\ UNCHANGED groups
        /\ \A v \in Servers : servers'[v] =
             IF v = call[k].server
               THEN [host |-> call[k].session, cred |-> call[k].cred, group |-> call[k].group]
               ELSE servers[v]
    BY <1>1, <1>7 DEF SaveWrites, CallControl, StoreTypeOK, At
  <2>2. ~InFlight(k)'
    BY <1>1, <1>7 DEF SaveWrites, Ends, NoCall, InFlight, StoreTypeOK
  <2>3. OwnCred(call[k].session, call[k].cred) /\ call[k].group \in groups \cup {None}
    BY <2>1 DEF Fresh
  <2>4. GroupsOK' /\ CredsOK'
    BY <1>2, <2>1, <2>3 DEF GroupsOK, CredsOK
  <2> QED BY <2>2, <2>4 DEF Fresh, InFlight, At
<1>8. ASSUME NEW v \in Servers, ServerAssigned(k, v)
      PROVE  Fresh(k)' /\ GroupsOK' /\ CredsOK'
  <2> DEFINE vs == {v} \cap {u \in Servers : servers[u] # None}
  <2>1. /\ Regroup(vs, call[k].group) /\ UNCHANGED groups /\ call[k].group \in groups
        /\ call[k].pc = "assign"
    BY <1>8 DEF ServerAssigned, Fresh, At
  <2>2. \A u \in Servers :
           /\ servers[u] = None => servers'[u] = None
           /\ servers[u] # None => /\ servers'[u].host = servers[u].host
                                  /\ servers'[u].cred = servers[u].cred
                                  /\ servers'[u].group = IF u \in vs THEN call[k].group
                                                                   ELSE servers[u].group
    BY <2>1, RegroupKeeps
  <2>3. GroupsOK' /\ CredsOK'
    BY <1>2, <2>1, <2>2 DEF GroupsOK, CredsOK
  <2>4. ~InFlight(k)' \/ (call'[k].pc = "assign" /\ call'[k].group = call[k].group)
    BY <1>1, <1>8, <2>1 DEF ServerAssigned, Ends, NoCall, InFlight, StoreTypeOK
  <2> QED BY <2>1, <2>3, <2>4 DEF Fresh, InFlight, At
<1>9. CASE GroupDeleted(k) \/ CallRaises(k)
  BY <1>6, <1>9 DEF GroupDeleted, CallRaises
<1>10. ASSUME NEW v \in Servers, ServerCleared(k, v)
       PROVE  Fresh(k)' /\ GroupsOK' /\ CredsOK'
  <2> DEFINE g  == call[k].group
             vs == {v} \cap In(g)
  <2>1. /\ Regroup(vs, None) /\ UNCHANGED groups /\ vs \in SUBSET Servers
        /\ \A u \in vs : servers[u] # None
        /\ call[k].pc = "drop" /\ In(g) \subseteq call[k].left
    BY <1>10 DEF ServerCleared, Cleared, Fresh, At, In
  <2>2. \A u \in Servers :
           /\ servers[u] = None => servers'[u] = None
           /\ servers[u] # None => /\ servers'[u].host = servers[u].host
                                  /\ servers'[u].cred = servers[u].cred
                                  /\ servers'[u].group = IF u \in vs THEN None ELSE servers[u].group
    BY <2>1, RegroupKeeps
  <2>3. GroupsOK' /\ CredsOK'
    BY <1>2, <2>1, <2>2 DEF GroupsOK, CredsOK
  <2>4. call'[k].pc = "drop" /\ call'[k].group = g /\ call'[k].left = call[k].left \ {v}
    BY <1>1, <1>10, <2>1 DEF ServerCleared, StoreTypeOK
  <2>5. g # None
    BY <2>1, GroupsAssumption DEF CallControl
  <2>6. \A u \in Servers : servers'[u] # None /\ servers'[u].group = g => u \in In(g) /\ u # v
    BY <2>2, <2>5 DEF In
  <2>7. {u \in Servers : servers'[u] # None /\ servers'[u].group = call'[k].group}
          \subseteq call'[k].left
    BY <2>1, <2>4, <2>6
  <2> QED BY <2>3, <2>4, <2>7 DEF Fresh, At, In
<1> QED BY <1>3, <1>4, <1>5, <1>7, <1>8, <1>9, <1>10 DEF ContinueCall

LEMMA FreshStep ==
  ASSUME IndInv, [Next]_vars, ~overlapped'
  PROVE  (\A k \in Callers : Fresh(k)') /\ GroupsOK' /\ CredsOK'
<1> USE DEF IndInv
<1>1. ~overlapped /\ (\A k \in Callers : Fresh(k)) /\ GroupsOK /\ CredsOK
  BY OverlapStays DEF ReadsAreFresh, GroupsExist, OwnCredentials, GroupsOK, CredsOK, OwnCred
<1>2. \A h, cred : OwnCred(h, cred) => OwnCred(h, cred)'
  BY OwnCredStays
<1>3. UNCHANGED <<servers, groups>> => GroupsOK' /\ CredsOK'
  BY <1>1, <1>2 DEF GroupsOK, CredsOK
<1>4. \A j \in Callers : ~InFlight(j) /\ call'[j] = call[j] => Fresh(j)'
  BY DEF InFlight, Fresh, At
<1>5. ASSUME NEW k \in Callers, StartCall(k), DatabaseCommand, UNCHANGED sessions
      PROVE  (\A j \in Callers : Fresh(j)') /\ GroupsOK' /\ CredsOK'
  BY <1>1, <1>4, <1>5, StartKeeps, StartsAlone
<1>6. ASSUME NEW k \in Callers, ContinueCall(k), UNCHANGED sessions
      PROVE  (\A j \in Callers : Fresh(j)') /\ GroupsOK' /\ CredsOK'
  BY <1>1, <1>4, <1>6, ContinueKeeps, ContinuesAlone
<1>7. CASE StoreStep
  BY <1>5, <1>6, <1>7 DEF StoreStep
<1>8. ASSUME UNCHANGED store, ~CallInFlight
      PROVE  \A k \in Callers : Fresh(k)'
  BY <1>4, <1>8 DEF store, CallInFlight, InFlight, At
<1>9. ASSUME UNCHANGED store,
             UNCHANGED <<row, named, created>> \/ \E n \in SessionNames : Leaves(n)
      PROVE  \A k \in Callers : Fresh(k)'
  <2>1. ASSUME NEW h \in Connections, OwnRow(h) PROVE OwnRow(h)'
    BY <1>9, <2>1, OwnRowStays
  <2>2. \A k \in Callers : At(k, "row") => call[k].session \in Connections
    BY DEF CallControl, At
  <2> QED BY <1>1, <1>2, <1>9, <2>1, <2>2 DEF Fresh, store, At, In
<1>10. CASE SessionStep
  <2>1. ASSUME NEW c \in Connections, NEW n \in SessionNames, Connected(c, n), DatabaseCommand
        PROVE  ~CallInFlight
    BY <2>1 DEF DatabaseCommand, Busy
  <2>2. ASSUME NEW c \in Connections, RowWritten(c) \/ RowFails(c)
        PROVE  ~CallInFlight
    BY <1>1, <2>2 DEF RowWritten, RowFails, Writing, OneAtATime
  <2>3. ASSUME ShellToggles \/ \E n \in SessionNames : Switch(n)
        PROVE  UNCHANGED <<row, named, created>>
    BY <2>3 DEF ShellToggles, Switch
  <2> QED BY <1>3, <1>8, <1>9, <1>10, <2>1, <2>2, <2>3 DEF SessionStep, store
<1>11. CASE TransferStep \/ UNCHANGED vars
  BY <1>3, <1>9, <1>11 DEF TransferStep, vars, sessions, store
<1>12. CASE Restart
  <2>1. \A k \in Callers : ~InFlight(k)'
    BY <1>12 DEF Restart, InFlight, NoCall, At, TypeOK, StoreTypeOK
  <2> QED BY <1>3, <1>12, <2>1 DEF Restart, Fresh, InFlight, At
<1> QED BY <1>7, <1>10, <1>11, <1>12 DEF Next

(* IndInv is inductive.                                                    *)
THEOREM IndInvHolds == Spec => []IndInv
<1>1. Init => IndInv
  BY InitTypes, RegistryInit, OneAtATimeInit, FreshInit DEF IndInv
<1>2. IndInv /\ [Next]_vars => IndInv'
  <2> SUFFICES ASSUME IndInv, [Next]_vars PROVE IndInv'
    OBVIOUS
  <2>1. TypeOK' /\ CallControl' /\ RegistryRows' /\ OneAtATime'
    BY TypesStep, RegistryStep, OneAtATimeStep DEF IndInv
  <2>2. ReadsAreFresh' /\ GroupsExist' /\ OwnCredentials'
    BY FreshStep DEF ReadsAreFresh, GroupsExist, OwnCredentials, GroupsOK, CredsOK, OwnCred
  <2> QED BY <2>1, <2>2 DEF IndInv
<1> QED BY <1>1, <1>2, PTL DEF Spec

(* A server's group exists, as long as the user waits for each answer:     *)
(* wherever the database raises and wherever the bot stops.                *)
THEOREM GroupsExistHolds == Spec => []GroupsExist
<1>1. IndInv => GroupsExist
  BY DEF IndInv
<1> QED BY <1>1, IndInvHolds, PTL

(* A saved server has its own connection's credentials or none, unless the *)
(* document of that connection could not be written.                       *)
THEOREM OwnCredentialsHolds == Spec => []OwnCredentials
<1>1. IndInv => OwnCredentials
  BY DEF IndInv
<1> QED BY <1>1, IndInvHolds, PTL

(* What /save has read of a server's group is still its group when it      *)
(* writes the document.                                                    *)
THEOREM SaveKeepsGroupHolds == Spec => SaveKeepsGroup
<1>1. ASSUME IndInv, [Next]_vars, NEW k \in Savers, ~overlapped', At(k, "write"),
             servers[call[k].server] # None, servers'[call[k].server] # None
      PROVE  servers'[call[k].server].group = servers[call[k].server].group
  <2> DEFINE v == call[k].server
  <2>1. TypeOK /\ CallControl /\ OneAtATime /\ StoreTypeOK /\ ~overlapped
    BY <1>1, OverlapStays DEF IndInv, TypeOK
  <2>2. k \in Callers /\ InFlight(k) /\ v \in Servers /\ call[k].group = servers[v].group
    BY <1>1, <2>1 DEF Callers, InFlight, At, CallControl, IndInv, ReadsAreFresh, Fresh
  <2>3. ASSUME NEW j \in Callers, StartCall(j), DatabaseCommand
        PROVE  FALSE
    BY <1>1, <2>1, <2>2, <2>3, StartsAlone
  <2>4. ASSUME NEW j \in Callers, ContinueCall(j)
        PROVE  servers'[v].group = servers[v].group
    <3>1. j = k /\ call[j].pc = "write"
      BY <1>1, <2>1, <2>2, <2>4, ContinuesAlone DEF At
    <3>2. CASE SaveWrites(k)
      BY <2>1, <2>2, <3>2 DEF SaveWrites, StoreTypeOK
    <3>3. CASE UNCHANGED servers
      BY <3>3
    <3> QED BY <2>4, <3>1, <3>2, <3>3 DEF ContinueCall, SaveReadsRow, SaveReadsServer, SaveHasCwd,
             ServerAssigned, ServerCleared, GroupDeleted, CallRaises, At
  <2>5. CASE StoreStep
    BY <2>3, <2>4, <2>5 DEF StoreStep
  <2>6. CASE UNCHANGED servers
    BY <2>6
  <2> QED BY <1>1, <2>5, <2>6 DEF Next, SessionStep, TransferStep, Restart, vars, store
<1>2. IndInv /\ [Next]_vars =>
        [\A k \in Savers : LET v == call[k].server IN
           ~overlapped' /\ At(k, "write") /\ servers[v] # None /\ servers'[v] # None
             => servers'[v].group = servers[v].group]_vars
  BY <1>1
<1> QED BY <1>2, IndInvHolds, PTL DEF Spec, SaveKeepsGroup
===============================================================================
