------------------------ MODULE ConnectionServiceProofs ------------------------
(***************************************************************************)
(* Proofs about ConnectionService: the registry, the sessions that calls   *)
(* disconnect and the documents stay consistent, however calls overlap.    *)
(***************************************************************************)
EXTENDS Lifecycle, TLAPS

(* What each position of a task implies about what it holds.               *)
Control ==
  /\ \A c \in Sessions :
       /\ pc[c] \in {"connecting", "saving", "opening"} => name[c] \in Names
       /\ pc[c] = "opening" => held[c] \in Sessions
  /\ \A t \in Closers : pc[t] \in {"closing", "executing"} => held[t] \in Sessions
  /\ \A t \in Removers : pc[t] \in {"closing", "executing", "deactivating"} => name[t] \in Names

(* Before its connection is there a session is nowhere, and has no         *)
(* document; and it is listed under its own name.                          *)
Unconnected ==
  /\ \A c \in Sessions :
       /\ pc[c] \in {"idle", "lookup", "connecting"} => conn[c] = "none" /\ row[c] = "none"
       /\ conn[c] = "none" => \A t \in Closers : c \notin Closing(t)
  /\ \A n \in Names : reg[n] # None => conn[reg[n]] # "none" /\ name[reg[n]] = n

(* A call that removes a name has taken a session of that name out of the  *)
(* registry, which stays out.                                              *)
TookOut ==
  /\ \A t \in Removers : pc[t] \in {"closing", "deactivating"} =>
       \E u \in Sessions : name[u] = name[t] /\ conn[u] # "none" /\ reg[name[t]] # u
  /\ \A e \in Executors : pc[e] = "executing" =>
       name[held[e]] = name[e] /\ conn[held[e]] # "none"

(* What no step disturbs, a shutdown's neither.                            *)
Kept   == TypeOK /\ Control /\ Unconnected /\ SingleOwner /\ TookOut
IndInv == Kept /\ NoOtherLeak /\ LiveRows

-----------------------------------------------------------------------------
(* Types.                                                                  *)

RegistryTypeOK == reg \in [Names -> Ref(Sessions)] /\ active \in Ref(Names)
                  /\ snap \in [Removers -> Ref(SUBSET Names)]
LinkTypeOK == /\ conn \in [Sessions -> {"none", "up", "lost", "closed"}]
              /\ shell \in [Sessions -> {"none", "open", "dead"}]
              /\ idle \in SUBSET Sessions
              /\ row \in [Sessions -> {"none", "active", "inactive"}]
TaskTypeOK == /\ pc \in [Tasks -> {"idle", "lookup", "connecting", "saving", "opening", "executing",
                                   "closing", "deactivating", "done", "failed", "raised", "ended"}]
              /\ name \in [Tasks -> Ref(Names)] /\ held \in [Tasks -> Ref(Sessions)]
              /\ cleared \in [Clearers -> SUBSET Sessions] /\ listed \in SUBSET Names
              /\ storedOver \in SUBSET Sessions

LEMMA TypeParts == TypeOK <=> RegistryTypeOK /\ LinkTypeOK /\ TaskTypeOK
BY DEF TypeOK, RegistryTypeOK, LinkTypeOK, TaskTypeOK

LEMMA InitTypes == Init => TypeOK /\ Control
BY DEF Init, TypeOK, Control, Ref, Tasks, Sessions, Closers, Removers

LEMMA ListedNames ==
  ASSUME RegistryTypeOK
  PROVE  /\ Alive \subseteq Listed /\ Listed \subseteq Names
         /\ \A n \in Listed : reg[n] \in Sessions
         /\ \A n : Found(n) => n \in Names /\ reg[n] \in Sessions
BY DEF RegistryTypeOK, Alive, Listed, Found, Ref

LEMMA HeirTypes ==
  ASSUME RegistryTypeOK, NEW names, NEW rest \in SUBSET Names
  PROVE  HeirOf(names, rest) \subseteq Ref(Names) /\ Heirs(rest) \subseteq Ref(Names)
BY DEF RegistryTypeOK, HeirOf, Heirs, Ref

LEMMA WithoutTypes ==
  ASSUME RegistryTypeOK, NEW names
  PROVE  Without(names) \in [Names -> Ref(Sessions)]
BY DEF RegistryTypeOK, Without, Ref

LEMMA ReplacedTypes ==
  ASSUME RegistryTypeOK, NEW names \in SUBSET Names, Replaced(names)
  PROVE  snap' \in [Removers -> Ref(SUBSET Names)]
BY DEF RegistryTypeOK, Replaced, Ref

LEMMA GetFailsTypes ==
  ASSUME RegistryTypeOK, NEW n, GetFails(n)
  PROVE  RegistryTypeOK'
<1>1. reg' = Without({n} \cap Names) /\ active' \in HeirOf({n} \cap Names, Listed \ ({n} \cap Names))
      /\ UNCHANGED snap
  BY DEF GetFails, Forget
<1>2. Listed \ ({n} \cap Names) \in SUBSET Names
  BY ListedNames
<1> QED BY <1>1, <1>2, WithoutTypes, HeirTypes DEF RegistryTypeOK

LEMMA GetAllTypes ==
  ASSUME RegistryTypeOK, NEW heard, reg' = Without(Names \ Alive),
         active' \in IF active \in Alive THEN {active} ELSE Heirs(Alive),
         Replaced(heard), heard \subseteq Listed
  PROVE  RegistryTypeOK'
<1>1. Alive \in SUBSET Names /\ heard \in SUBSET Names
  BY ListedNames
<1>2. active' \in Ref(Names)
  BY <1>1, HeirTypes DEF RegistryTypeOK
<1> QED BY <1>1, <1>2, WithoutTypes, ReplacedTypes DEF RegistryTypeOK

LEMMA GetAllIs ==
  ASSUME RegistryTypeOK, GetAll
  PROVE  RegistryTypeOK'
BY GetAllTypes DEF GetAll

(* remove() up to its await.                                               *)
LEMMA RemoveBeginsTypes ==
  ASSUME TypeOK, NEW t \in Removers, NEW n \in Listed, RemoveBegins(t, n)
  PROVE  /\ reg' \in [Names -> Ref(Sessions)] /\ snap' \in [Removers -> Ref(SUBSET Names)]
         /\ conn' \in [Sessions -> {"none", "up", "lost", "closed"}]
         /\ pc' = [pc EXCEPT ![t] = "closing"]
         /\ name' = [name EXCEPT ![t] = n] /\ n \in Names
         /\ held' = [held EXCEPT ![t] = reg[n]] /\ reg[n] \in Sessions
<1>1. reg[n] \in Sessions /\ n \in Names
  BY TypeParts, ListedNames
<1>2. conn' \in [Sessions -> {"none", "up", "lost", "closed"}]
  BY <1>1 DEF TypeOK, RemoveBegins, CloseBegins
<1>3. reg' \in [Names -> Ref(Sessions)]
  BY TypeParts, WithoutTypes DEF RemoveBegins, Popped
<1>4. snap' \in [Removers -> Ref(SUBSET Names)]
  BY DEF TypeOK, RemoveBegins, Ref
<1> QED BY <1>1, <1>2, <1>3, <1>4 DEF RemoveBegins, Goto

(* The connectors keep the types.                                          *)
LEMMA ConnectTypes ==
  ASSUME TypeOK, Control, NEW c \in Wizards, Connect(c)
  PROVE  TypeOK' /\ Control'
<1>0. c \in Sessions /\ c \in Tasks /\ c \notin Closers /\ RegistryTypeOK /\ LinkTypeOK /\ TaskTypeOK /\ Names \subseteq Ref(Names)
      /\ None \in Ref(Names) /\ None \in Ref(Sessions) /\ Sessions \subseteq Ref(Sessions)
  BY TypeParts, TasksAssumption DEF Tasks, Sessions, Closers, Removers, Ref
<1>1. ASSUME NEW n \in Names, ConnectRefused(c, n) PROVE TypeOK' /\ Control'
  <2>1. RegistryTypeOK'
    BY <1>0, <1>1 DEF ConnectRefused, registry, RegistryTypeOK
  <2>2. LinkTypeOK' /\ TaskTypeOK' /\ Control'
    BY <1>0, <1>1 DEF ConnectRefused, link, LinkTypeOK, TaskTypeOK, Control, Goto, Closers
  <2> QED BY <2>1, <2>2 DEF TypeOK, RegistryTypeOK, LinkTypeOK, TaskTypeOK
<1>2. ASSUME NEW n \in Names, ConnectStart(c, n) PROVE TypeOK' /\ Control'
  <2>1. RegistryTypeOK'
    BY <1>0, <1>2, GetFailsTypes DEF ConnectStart, RegistryTypeOK
  <2>2. LinkTypeOK' /\ TaskTypeOK' /\ Control'
    BY <1>0, <1>2 DEF ConnectStart, link, LinkTypeOK, TaskTypeOK, Control, Goto, Closers
  <2> QED BY <2>1, <2>2 DEF TypeOK, RegistryTypeOK, LinkTypeOK, TaskTypeOK
<1>3. ASSUME ConnectFails(c) PROVE TypeOK' /\ Control'
  <2>1. RegistryTypeOK'
    BY <1>0, <1>3 DEF ConnectFails, registry, RegistryTypeOK
  <2>2. LinkTypeOK' /\ TaskTypeOK' /\ Control'
    BY <1>0, <1>3 DEF ConnectFails, link, LinkTypeOK, TaskTypeOK, Control, Goto, Closers
  <2> QED BY <2>1, <2>2 DEF TypeOK, RegistryTypeOK, LinkTypeOK, TaskTypeOK
<1>4. ASSUME ConnectStored(c) PROVE TypeOK' /\ Control'
  <2>1. RegistryTypeOK'
    BY <1>0, <1>4 DEF ConnectStored, Store, Ref, Control, RegistryTypeOK
  <2>2. LinkTypeOK' /\ TaskTypeOK' /\ Control'
    BY <1>0, <1>4 DEF ConnectStored, LinkTypeOK, TaskTypeOK, RegistryTypeOK, Ref, Control, Goto, Closers
  <2> QED BY <2>1, <2>2 DEF TypeOK, RegistryTypeOK, LinkTypeOK, TaskTypeOK
<1>5. ASSUME SaveFails(c) PROVE TypeOK' /\ Control'
  <2>1. RegistryTypeOK'
    BY <1>0, <1>5 DEF SaveFails, registry, RegistryTypeOK
  <2>2. LinkTypeOK' /\ TaskTypeOK' /\ Control'
    BY <1>0, <1>5 DEF SaveFails, link, LinkTypeOK, TaskTypeOK, Control, Goto, Closers
  <2> QED BY <2>1, <2>2 DEF TypeOK, RegistryTypeOK, LinkTypeOK, TaskTypeOK
<1>6. ASSUME ConnectSaved(c) PROVE TypeOK' /\ Control'
  <2>1. RegistryTypeOK'
    BY <1>0, <1>6, GetAllIs DEF ConnectSaved, RegistryTypeOK
  <2>2. LinkTypeOK' /\ TaskTypeOK' /\ Control'
    BY <1>0, <1>6 DEF ConnectSaved, RowInserted, link, LinkTypeOK, TaskTypeOK, Control, Goto, Closers
  <2> QED BY <2>1, <2>2 DEF TypeOK, RegistryTypeOK, LinkTypeOK, TaskTypeOK
<1> QED BY <1>1, <1>2, <1>3, <1>4, <1>5, <1>6 DEF Connect

(* quick_connect keeps the types.                                          *)
LEMMA QuickConnectTypes ==
  ASSUME TypeOK, Control, NEW q \in Quicks, QuickConnect(q)
  PROVE  TypeOK' /\ Control'
<1>0. q \in Sessions /\ q \in Tasks /\ q \notin Closers /\ RegistryTypeOK /\ LinkTypeOK /\ TaskTypeOK /\ Names \subseteq Ref(Names)
      /\ None \in Ref(Names) /\ None \in Ref(Sessions) /\ Sessions \subseteq Ref(Sessions)
  BY TypeParts, TasksAssumption DEF Tasks, Sessions, Closers, Removers, Ref
<1>1. ASSUME QuickStart(q) PROVE TypeOK' /\ Control'
  <2>1. RegistryTypeOK'
    BY <1>0, <1>1 DEF QuickStart, registry, RegistryTypeOK
  <2>2. LinkTypeOK' /\ TaskTypeOK' /\ Control'
    BY <1>0, <1>1 DEF QuickStart, link, LinkTypeOK, TaskTypeOK, Control, Goto, Closers
  <2> QED BY <2>1, <2>2 DEF TypeOK, RegistryTypeOK, LinkTypeOK, TaskTypeOK
<1>2. ASSUME NEW n \in Names, QuickNamed(q, n) PROVE TypeOK' /\ Control'
  <2>1. RegistryTypeOK'
    BY <1>0, <1>2, GetAllIs DEF QuickNamed, RegistryTypeOK
  <2>2. LinkTypeOK' /\ TaskTypeOK' /\ Control'
    BY <1>0, <1>2 DEF QuickNamed, link, LinkTypeOK, TaskTypeOK, Control, Goto, Closers
  <2> QED BY <2>1, <2>2 DEF TypeOK, RegistryTypeOK, LinkTypeOK, TaskTypeOK
<1>3. ASSUME ConnectFails(q) PROVE TypeOK' /\ Control'
  <2>1. RegistryTypeOK'
    BY <1>0, <1>3 DEF ConnectFails, registry, RegistryTypeOK
  <2>2. LinkTypeOK' /\ TaskTypeOK' /\ Control'
    BY <1>0, <1>3 DEF ConnectFails, link, LinkTypeOK, TaskTypeOK, Control, Goto, Closers
  <2> QED BY <2>1, <2>2 DEF TypeOK, RegistryTypeOK, LinkTypeOK, TaskTypeOK
<1>4. ASSUME ConnectStored(q) PROVE TypeOK' /\ Control'
  <2>1. RegistryTypeOK'
    BY <1>0, <1>4 DEF ConnectStored, Store, Ref, Control, RegistryTypeOK
  <2>2. LinkTypeOK' /\ TaskTypeOK' /\ Control'
    BY <1>0, <1>4 DEF ConnectStored, LinkTypeOK, TaskTypeOK, RegistryTypeOK, Ref, Control, Goto, Closers
  <2> QED BY <2>1, <2>2 DEF TypeOK, RegistryTypeOK, LinkTypeOK, TaskTypeOK
<1>5. ASSUME SaveFails(q) PROVE TypeOK' /\ Control'
  <2>1. RegistryTypeOK'
    BY <1>0, <1>5 DEF SaveFails, registry, RegistryTypeOK
  <2>2. LinkTypeOK' /\ TaskTypeOK' /\ Control'
    BY <1>0, <1>5 DEF SaveFails, link, LinkTypeOK, TaskTypeOK, Control, Goto, Closers
  <2> QED BY <2>1, <2>2 DEF TypeOK, RegistryTypeOK, LinkTypeOK, TaskTypeOK
<1>6. ASSUME QuickOpens(q) PROVE TypeOK' /\ Control'
  <2>1. RegistryTypeOK'
    BY <1>0, <1>6 DEF QuickOpens, registry, RegistryTypeOK
  <2>2. LinkTypeOK' /\ TaskTypeOK' /\ Control'
    BY <1>0, <1>6, ListedNames DEF QuickOpens, RowInserted, link, LinkTypeOK, TaskTypeOK, Control, Goto, Closers
  <2> QED BY <2>1, <2>2 DEF TypeOK, RegistryTypeOK, LinkTypeOK, TaskTypeOK
<1>7. ASSUME QuickNoShell(q) PROVE TypeOK' /\ Control'
  <2>1. RegistryTypeOK'
    BY <1>0, <1>7, GetAllTypes DEF QuickNoShell, RegistryTypeOK
  <2>2. LinkTypeOK' /\ TaskTypeOK' /\ Control'
    BY <1>0, <1>7 DEF QuickNoShell, RowInserted, link, LinkTypeOK, TaskTypeOK, Control, Goto, Closers
  <2> QED BY <2>1, <2>2 DEF TypeOK, RegistryTypeOK, LinkTypeOK, TaskTypeOK
<1>8. ASSUME QuickOpened(q) PROVE TypeOK' /\ Control'
  <2>1. RegistryTypeOK'
    BY <1>0, <1>8, GetAllIs DEF QuickOpened, RegistryTypeOK
  <2>2. LinkTypeOK' /\ TaskTypeOK' /\ Control'
    BY <1>0, <1>8 DEF QuickOpened, LinkTypeOK, TaskTypeOK, Control, Goto, Closers
  <2> QED BY <2>1, <2>2 DEF TypeOK, RegistryTypeOK, LinkTypeOK, TaskTypeOK
<1> QED BY <1>1, <1>2, <1>3, <1>4, <1>5, <1>6, <1>7, <1>8 DEF QuickConnect

LEMMA RelistedTypes ==
  ASSUME RegistryTypeOK, NEW t \in Removers
  PROVE  Relisted(t) \subseteq Ref(Names)
<1>1. (IF snap[t] = None THEN Listed ELSE snap[t]) \in SUBSET Names
  BY ListedNames DEF RegistryTypeOK, Ref
<1> QED BY <1>1, HeirTypes DEF Relisted

LEMMA RemovalTypes ==
  ASSUME TypeOK, Control, NEW t \in Removers, NEW n \in Listed, RemoveBegins(t, n),
         UNCHANGED <<active, shell, idle, row, cleared, listed, storedOver>>
  PROVE  TypeOK' /\ Control'
<1>0. t \in Closers /\ t \in Tasks /\ t \notin Sessions
  BY TasksAssumption DEF Tasks, Closers
<1>1. /\ reg' \in [Names -> Ref(Sessions)] /\ snap' \in [Removers -> Ref(SUBSET Names)]
      /\ conn' \in [Sessions -> {"none", "up", "lost", "closed"}]
      /\ pc' = [pc EXCEPT ![t] = "closing"]
      /\ name' = [name EXCEPT ![t] = n] /\ n \in Names
      /\ held' = [held EXCEPT ![t] = reg[n]] /\ reg[n] \in Sessions
  BY RemoveBeginsTypes
<1>2. TypeOK'
  BY <1>0, <1>1 DEF TypeOK, Ref
<1>3. Control'
  BY <1>0, <1>1 DEF TypeOK, Control, Closers
<1> QED BY <1>2, <1>3

(* /disconnect keeps the types.                                            *)
LEMMA DisconnectTypes ==
  ASSUME TypeOK, Control, NEW d \in Disconnectors, DisconnectCall(d)
  PROVE  TypeOK' /\ Control'
<1>0. d \in Removers /\ d \in Closers /\ d \in Tasks /\ d \notin Sessions /\ RegistryTypeOK /\ LinkTypeOK /\ TaskTypeOK /\ Names \subseteq Ref(Names)
      /\ None \in Ref(Names) /\ None \in Ref(Sessions) /\ Sessions \subseteq Ref(Sessions)
  BY TypeParts, TasksAssumption DEF Tasks, Sessions, Closers, Removers, Ref
<1>1. ASSUME NEW n, DisconnectNothing(d, n) PROVE TypeOK' /\ Control'
  <2>1. RegistryTypeOK'
    BY <1>0, <1>1, GetFailsTypes DEF DisconnectNothing, RegistryTypeOK
  <2>2. LinkTypeOK' /\ TaskTypeOK' /\ Control'
    BY <1>0, <1>1 DEF DisconnectNothing, link, LinkTypeOK, TaskTypeOK, Control, Goto, Closers
  <2> QED BY <2>1, <2>2 DEF TypeOK, RegistryTypeOK, LinkTypeOK, TaskTypeOK
<1>2. ASSUME NEW n, Disconnect(d, n) PROVE TypeOK' /\ Control'
  BY <1>0, <1>2, RemovalTypes, ListedNames DEF Disconnect, Found
<1>3. ASSUME RemoveEnds(d) PROVE TypeOK' /\ Control'
  <2>1. RegistryTypeOK'
    BY <1>0, <1>3, RelistedTypes DEF RemoveEnds, RegistryTypeOK
  <2>2. LinkTypeOK' /\ TaskTypeOK' /\ Control'
    BY <1>0, <1>3 DEF RemoveEnds, CloseEnds, LinkTypeOK, TaskTypeOK, Control, Goto, Closers
  <2> QED BY <2>1, <2>2 DEF TypeOK, RegistryTypeOK, LinkTypeOK, TaskTypeOK
<1>4. ASSUME RemoveRaises(d) PROVE TypeOK' /\ Control'
  <2>1. RegistryTypeOK'
    BY <1>0, <1>4 DEF RemoveRaises, registry, RegistryTypeOK
  <2>2. LinkTypeOK' /\ TaskTypeOK' /\ Control'
    BY <1>0, <1>4 DEF RemoveRaises, link, LinkTypeOK, TaskTypeOK, Control, Goto, Closers
  <2> QED BY <2>1, <2>2 DEF TypeOK, RegistryTypeOK, LinkTypeOK, TaskTypeOK
<1>5. ASSUME DeactivateEnds(d) PROVE TypeOK' /\ Control'
  <2>1. RegistryTypeOK'
    BY <1>0, <1>5 DEF DeactivateEnds, registry, RegistryTypeOK
  <2>2. LinkTypeOK' /\ TaskTypeOK' /\ Control'
    BY <1>0, <1>5 DEF DeactivateEnds, Deactivated, link, LinkTypeOK, TaskTypeOK, Control, Goto, Closers
  <2> QED BY <2>1, <2>2 DEF TypeOK, RegistryTypeOK, LinkTypeOK, TaskTypeOK
<1>6. ASSUME DeactivateRaises(d) PROVE TypeOK' /\ Control'
  <2>1. RegistryTypeOK'
    BY <1>0, <1>6 DEF DeactivateRaises, registry, RegistryTypeOK
  <2>2. LinkTypeOK' /\ TaskTypeOK' /\ Control'
    BY <1>0, <1>6 DEF DeactivateRaises, link, LinkTypeOK, TaskTypeOK, Control, Goto, Closers
  <2> QED BY <2>1, <2>2 DEF TypeOK, RegistryTypeOK, LinkTypeOK, TaskTypeOK
<1> QED BY <1>1, <1>2, <1>3, <1>4, <1>5, <1>6 DEF DisconnectCall, Remove, Deactivate

(* /disconnect all keeps the types.                                        *)
LEMMA DisconnectAllTypes ==
  ASSUME TypeOK, Control, NEW a \in Clearers, DisconnectAll(a)
  PROVE  TypeOK' /\ Control'
<1>0. a \in Closers /\ a \in Tasks /\ a \notin Sessions /\ a \notin Removers /\ RegistryTypeOK /\ LinkTypeOK /\ TaskTypeOK /\ Names \subseteq Ref(Names)
      /\ None \in Ref(Names) /\ None \in Ref(Sessions) /\ Sessions \subseteq Ref(Sessions)
  BY TypeParts, TasksAssumption DEF Tasks, Sessions, Closers, Removers, Ref
<1>1. ASSUME ClearNothing(a) PROVE TypeOK' /\ Control'
  <2>1. RegistryTypeOK'
    BY <1>0, <1>1, GetAllIs DEF ClearNothing, RegistryTypeOK
  <2>2. LinkTypeOK' /\ TaskTypeOK' /\ Control'
    BY <1>0, <1>1 DEF ClearNothing, link, LinkTypeOK, TaskTypeOK, Control, Goto, Closers
  <2> QED BY <2>1, <2>2 DEF TypeOK, RegistryTypeOK, LinkTypeOK, TaskTypeOK
<1>2. ASSUME NEW s \in Sessions, ClearStart(a, s) PROVE TypeOK' /\ Control'
  <2>1. RegistryTypeOK'
    BY <1>0, <1>2, WithoutTypes, ReplacedTypes, ListedNames DEF ClearStart, RegistryTypeOK
  <2>2. LinkTypeOK' /\ TaskTypeOK' /\ Control'
    BY <1>0, <1>2, ListedNames DEF ClearStart, ClearNext, CloseBegins, LinkTypeOK, TaskTypeOK, Control, Goto, Closers
  <2> QED BY <2>1, <2>2 DEF TypeOK, RegistryTypeOK, LinkTypeOK, TaskTypeOK
<1>3. ASSUME NEW s \in Sessions, ClearGoesOn(a, s) PROVE TypeOK' /\ Control'
  <2>1. RegistryTypeOK'
    BY <1>0, <1>3 DEF ClearGoesOn, registry, RegistryTypeOK
  <2>2. LinkTypeOK' /\ TaskTypeOK' /\ Control'
    BY <1>0, <1>3 DEF ClearGoesOn, ClearNext, LinkTypeOK, TaskTypeOK, Control, Goto, Closers
  <2> QED BY <2>1, <2>2 DEF TypeOK, RegistryTypeOK, LinkTypeOK, TaskTypeOK
<1>4. ASSUME ClearEnds(a) PROVE TypeOK' /\ Control'
  <2>1. RegistryTypeOK'
    BY <1>0, <1>4 DEF ClearEnds, RegistryTypeOK
  <2>2. LinkTypeOK' /\ TaskTypeOK' /\ Control'
    BY <1>0, <1>4 DEF ClearEnds, CloseEnds, LinkTypeOK, TaskTypeOK, Control, Goto, Closers
  <2> QED BY <2>1, <2>2 DEF TypeOK, RegistryTypeOK, LinkTypeOK, TaskTypeOK
<1>5. ASSUME RemoveRaises(a) PROVE TypeOK' /\ Control'
  <2>1. RegistryTypeOK'
    BY <1>0, <1>5 DEF RemoveRaises, registry, RegistryTypeOK
  <2>2. LinkTypeOK' /\ TaskTypeOK' /\ Control'
    BY <1>0, <1>5 DEF RemoveRaises, link, LinkTypeOK, TaskTypeOK, Control, Goto, Closers
  <2> QED BY <2>1, <2>2 DEF TypeOK, RegistryTypeOK, LinkTypeOK, TaskTypeOK
<1>6. ASSUME DeactivateEnds(a) PROVE TypeOK' /\ Control'
  <2>1. RegistryTypeOK'
    BY <1>0, <1>6 DEF DeactivateEnds, registry, RegistryTypeOK
  <2>2. LinkTypeOK' /\ TaskTypeOK' /\ Control'
    BY <1>0, <1>6 DEF DeactivateEnds, Deactivated, link, LinkTypeOK, TaskTypeOK, Control, Goto, Closers
  <2> QED BY <2>1, <2>2 DEF TypeOK, RegistryTypeOK, LinkTypeOK, TaskTypeOK
<1>7. ASSUME DeactivateRaises(a) PROVE TypeOK' /\ Control'
  <2>1. RegistryTypeOK'
    BY <1>0, <1>7 DEF DeactivateRaises, registry, RegistryTypeOK
  <2>2. LinkTypeOK' /\ TaskTypeOK' /\ Control'
    BY <1>0, <1>7 DEF DeactivateRaises, link, LinkTypeOK, TaskTypeOK, Control, Goto, Closers
  <2> QED BY <2>1, <2>2 DEF TypeOK, RegistryTypeOK, LinkTypeOK, TaskTypeOK
<1> QED BY <1>1, <1>2, <1>3, <1>4, <1>5, <1>6, <1>7 DEF DisconnectAll, Deactivate

(* CommandService.execute keeps the types.                                 *)
LEMMA ExecuteTypes ==
  ASSUME TypeOK, Control, NEW e \in Executors, Execute(e)
  PROVE  TypeOK' /\ Control'
<1>0. e \in Removers /\ e \in Closers /\ e \in Tasks /\ e \notin Sessions /\ RegistryTypeOK /\ LinkTypeOK /\ TaskTypeOK /\ Names \subseteq Ref(Names)
      /\ None \in Ref(Names) /\ None \in Ref(Sessions) /\ Sessions \subseteq Ref(Sessions)
  BY TypeParts, TasksAssumption DEF Tasks, Sessions, Closers, Removers, Ref
<1>1. ASSUME ExecuteRefused(e) PROVE TypeOK' /\ Control'
  <2>1. RegistryTypeOK'
    BY <1>0, <1>1, GetFailsTypes DEF ExecuteRefused, RegistryTypeOK
  <2>2. LinkTypeOK' /\ TaskTypeOK' /\ Control'
    BY <1>0, <1>1 DEF ExecuteRefused, link, LinkTypeOK, TaskTypeOK, Control, Goto, Closers
  <2> QED BY <2>1, <2>2 DEF TypeOK, RegistryTypeOK, LinkTypeOK, TaskTypeOK
<1>2. ASSUME ExecuteStart(e) PROVE TypeOK' /\ Control'
  <2>1. RegistryTypeOK'
    BY <1>0, <1>2 DEF ExecuteStart, registry, RegistryTypeOK
  <2>2. LinkTypeOK' /\ TaskTypeOK' /\ Control'
    BY <1>0, <1>2, ListedNames DEF ExecuteStart, link, LinkTypeOK, TaskTypeOK, Control, Goto, Closers
  <2> QED BY <2>1, <2>2 DEF TypeOK, RegistryTypeOK, LinkTypeOK, TaskTypeOK
<1>3. ASSUME ExecuteEnds(e) PROVE TypeOK' /\ Control'
  <2>1. RegistryTypeOK'
    BY <1>0, <1>3 DEF ExecuteEnds, registry, RegistryTypeOK
  <2>2. LinkTypeOK' /\ TaskTypeOK' /\ Control'
    BY <1>0, <1>3 DEF ExecuteEnds, link, LinkTypeOK, TaskTypeOK, Control, Goto, Closers
  <2> QED BY <2>1, <2>2 DEF TypeOK, RegistryTypeOK, LinkTypeOK, TaskTypeOK
<1>4. ASSUME ExecuteLost(e) PROVE TypeOK' /\ Control'
  BY <1>0, <1>4, RemovalTypes DEF ExecuteLost
<1>5. ASSUME ExecuteLostUnlisted(e) PROVE TypeOK' /\ Control'
  <2>1. RegistryTypeOK'
    BY <1>0, <1>5, HeirTypes, ListedNames DEF ExecuteLostUnlisted, RegistryTypeOK
  <2>2. LinkTypeOK' /\ TaskTypeOK' /\ Control'
    BY <1>0, <1>5 DEF ExecuteLostUnlisted, link, LinkTypeOK, TaskTypeOK, Control, Goto, Closers
  <2> QED BY <2>1, <2>2 DEF TypeOK, RegistryTypeOK, LinkTypeOK, TaskTypeOK
<1>6. ASSUME RemoveEnds(e) PROVE TypeOK' /\ Control'
  <2>1. RegistryTypeOK'
    BY <1>0, <1>6, RelistedTypes DEF RemoveEnds, RegistryTypeOK
  <2>2. LinkTypeOK' /\ TaskTypeOK' /\ Control'
    BY <1>0, <1>6 DEF RemoveEnds, CloseEnds, LinkTypeOK, TaskTypeOK, Control, Goto, Closers
  <2> QED BY <2>1, <2>2 DEF TypeOK, RegistryTypeOK, LinkTypeOK, TaskTypeOK
<1>7. ASSUME RemoveRaises(e) PROVE TypeOK' /\ Control'
  <2>1. RegistryTypeOK'
    BY <1>0, <1>7 DEF RemoveRaises, registry, RegistryTypeOK
  <2>2. LinkTypeOK' /\ TaskTypeOK' /\ Control'
    BY <1>0, <1>7 DEF RemoveRaises, link, LinkTypeOK, TaskTypeOK, Control, Goto, Closers
  <2> QED BY <2>1, <2>2 DEF TypeOK, RegistryTypeOK, LinkTypeOK, TaskTypeOK
<1>8. ASSUME DeactivateEnds(e) PROVE TypeOK' /\ Control'
  <2>1. RegistryTypeOK'
    BY <1>0, <1>8 DEF DeactivateEnds, registry, RegistryTypeOK
  <2>2. LinkTypeOK' /\ TaskTypeOK' /\ Control'
    BY <1>0, <1>8 DEF DeactivateEnds, Deactivated, link, LinkTypeOK, TaskTypeOK, Control, Goto, Closers
  <2> QED BY <2>1, <2>2 DEF TypeOK, RegistryTypeOK, LinkTypeOK, TaskTypeOK
<1>9. ASSUME DeactivateRaises(e) PROVE TypeOK' /\ Control'
  <2>1. RegistryTypeOK'
    BY <1>0, <1>9 DEF DeactivateRaises, registry, RegistryTypeOK
  <2>2. LinkTypeOK' /\ TaskTypeOK' /\ Control'
    BY <1>0, <1>9 DEF DeactivateRaises, link, LinkTypeOK, TaskTypeOK, Control, Goto, Closers
  <2> QED BY <2>1, <2>2 DEF TypeOK, RegistryTypeOK, LinkTypeOK, TaskTypeOK
<1> QED BY <1>1, <1>2, <1>3, <1>4, <1>5, <1>6, <1>7, <1>8, <1>9 DEF Execute, Remove, Deactivate

(* The names that the watchdog looks at, up to its next await.             *)
LEMMA CleanupTypes ==
  ASSUME TypeOK, Control, NEW names \in SUBSET Names, Cleanup(names),
         row' \in [Sessions -> {"none", "active", "inactive"}],
         UNCHANGED <<shell, idle, cleared, storedOver>>
  PROVE  TypeOK' /\ Control'
<1>0. Watchdog \in Removers /\ Watchdog \in Closers /\ Watchdog \in Tasks /\ Watchdog \notin Sessions
      /\ RegistryTypeOK /\ LinkTypeOK /\ TaskTypeOK /\ Names \subseteq Ref(Names)
      /\ None \in Ref(Names) /\ None \in Ref(Sessions) /\ Sessions \subseteq Ref(Sessions)
  BY TypeParts, TasksAssumption DEF Tasks, Sessions, Closers, Removers, Ref
<1>1. CASE CleanupOver(names)
  <2>1. RegistryTypeOK'
    BY <1>0, <1>1, HeirTypes, WithoutTypes, ListedNames DEF CleanupOver, Forget, RegistryTypeOK
  <2>2. LinkTypeOK' /\ TaskTypeOK' /\ Control'
    BY <1>0, <1>1 DEF CleanupOver, LinkTypeOK, TaskTypeOK, Control, Goto, Closers
  <2> QED BY <2>1, <2>2 DEF TypeOK, RegistryTypeOK, LinkTypeOK, TaskTypeOK
<1>2. ASSUME NEW gone \in SUBSET {n \in names : ~Found(n)}, CleanupNext(names, gone)
      PROVE  TypeOK' /\ Control'
  <2>1. PICK n \in {m \in names : Found(m)} :
          /\ active' \in HeirOf(gone, Listed \ gone)
          /\ reg' = Without(gone \cup {n})
          /\ listed' = names \ (gone \cup {n})
          /\ name' = [name EXCEPT ![Watchdog] = n] /\ held' = [held EXCEPT ![Watchdog] = reg[n]]
          /\ snap' = [snap EXCEPT ![Watchdog] = None]
          /\ CloseBegins(reg[n])
          /\ Goto(Watchdog, "closing")
    BY <1>2 DEF CleanupNext
  <2>2. n \in Names /\ reg[n] \in Sessions /\ Listed \ gone \in SUBSET Names
    BY <1>0, ListedNames
  <2>3. RegistryTypeOK'
    <3>1. active' \in Ref(Names)
      BY <1>0, <2>1, <2>2, HeirTypes
    <3> QED BY <1>0, <2>1, <3>1, WithoutTypes DEF RegistryTypeOK, Ref
  <2>4. LinkTypeOK' /\ TaskTypeOK' /\ Control'
    BY <1>0, <2>1, <2>2 DEF CloseBegins, LinkTypeOK, TaskTypeOK, Control, Goto, Closers
  <2> QED BY <2>3, <2>4 DEF TypeOK, RegistryTypeOK, LinkTypeOK, TaskTypeOK
<1> QED BY <1>1, <1>2 DEF Cleanup

(* The watchdog keeps the types.                                           *)
LEMMA WatchdogTypes ==
  ASSUME TypeOK, Control, TimeoutWatchdog
  PROVE  TypeOK' /\ Control'
<1>0. Watchdog \in Removers /\ Watchdog \in Closers /\ Watchdog \in Tasks /\ Watchdog \notin Sessions
      /\ RegistryTypeOK /\ LinkTypeOK /\ TaskTypeOK /\ Names \subseteq Ref(Names)
      /\ None \in Ref(Names) /\ None \in Ref(Sessions) /\ Sessions \subseteq Ref(Sessions)
  BY TypeParts, TasksAssumption DEF Tasks, Sessions, Closers, Removers, Ref
<1>1. ASSUME RemoveEnds(Watchdog) PROVE TypeOK' /\ Control'
  <2>1. RegistryTypeOK'
    BY <1>0, <1>1, RelistedTypes DEF RemoveEnds, RegistryTypeOK
  <2>2. LinkTypeOK' /\ TaskTypeOK' /\ Control'
    BY <1>0, <1>1 DEF RemoveEnds, CloseEnds, LinkTypeOK, TaskTypeOK, Control, Goto, Closers
  <2> QED BY <2>1, <2>2 DEF TypeOK, RegistryTypeOK, LinkTypeOK, TaskTypeOK
<1>2. ASSUME RemoveRaises(Watchdog) PROVE TypeOK' /\ Control'
  <2>1. RegistryTypeOK'
    BY <1>0, <1>2 DEF RemoveRaises, registry, RegistryTypeOK
  <2>2. LinkTypeOK' /\ TaskTypeOK' /\ Control'
    BY <1>0, <1>2 DEF RemoveRaises, link, LinkTypeOK, TaskTypeOK, Control, Goto, Closers
  <2> QED BY <2>1, <2>2 DEF TypeOK, RegistryTypeOK, LinkTypeOK, TaskTypeOK
<1>3. ASSUME DeactivateRaises(Watchdog) PROVE TypeOK' /\ Control'
  <2>1. RegistryTypeOK'
    BY <1>0, <1>3 DEF DeactivateRaises, registry, RegistryTypeOK
  <2>2. LinkTypeOK' /\ TaskTypeOK' /\ Control'
    BY <1>0, <1>3 DEF DeactivateRaises, link, LinkTypeOK, TaskTypeOK, Control, Goto, Closers
  <2> QED BY <2>1, <2>2 DEF TypeOK, RegistryTypeOK, LinkTypeOK, TaskTypeOK
<1>4. CASE WatchdogWakes
  <2>1. TimedOut \in SUBSET Names
    BY <1>0, ListedNames DEF TimedOut
  <2> QED BY <1>0, <1>4, <2>1, CleanupTypes DEF WatchdogWakes, LinkTypeOK
<1>5. CASE WatchdogGoesOn
  <2>1. listed \in SUBSET Names /\ row' \in [Sessions -> {"none", "active", "inactive"}]
    BY <1>0, <1>5 DEF TaskTypeOK, LinkTypeOK, WatchdogGoesOn, Deactivated
  <2> QED BY <1>5, <2>1, CleanupTypes DEF WatchdogGoesOn
<1> QED BY <1>1, <1>2, <1>3, <1>4, <1>5 DEF TimeoutWatchdog, Remove

LEMMA TypeStep == TypeOK /\ Control /\ [Next]_vars => TypeOK' /\ Control'
<1> SUFFICES ASSUME TypeOK, Control, [Next]_vars PROVE TypeOK' /\ Control'
  OBVIOUS
<1>0. RegistryTypeOK /\ LinkTypeOK /\ TaskTypeOK
  BY TypeParts
<1>1. CASE Status
  <2>1. RegistryTypeOK'
    BY <1>0, <1>1, GetAllIs DEF Status
  <2> QED BY <1>0, <1>1, <2>1
          DEF Status, link, Control, TypeOK, Closing, RegistryTypeOK, LinkTypeOK, TaskTypeOK
<1>2. ASSUME NEW n \in Names, Switch(n) PROVE TypeOK' /\ Control'
  <2>1. RegistryTypeOK'
    BY <1>0, <1>2, WithoutTypes, ReplacedTypes, ListedNames DEF Switch, RegistryTypeOK, Ref
  <2> QED BY <1>0, <1>2, <2>1 DEF Switch, link, Control, TypeOK, RegistryTypeOK, LinkTypeOK, TaskTypeOK
<1>3. ASSUME NEW s \in Sessions, Elsewhere(s) PROVE TypeOK' /\ Control'
  BY <1>3 DEF Elsewhere, TimePasses, Activity, ShellDies, ConnectionLost, registry, link, TypeOK, Control
<1>4. CASE UNCHANGED vars
  BY <1>4 DEF vars, registry, link, TypeOK, Control
<1> QED BY <1>1, <1>2, <1>3, <1>4, ConnectTypes, QuickConnectTypes, DisconnectTypes,
           DisconnectAllTypes, ExecuteTypes, WatchdogTypes DEF Next

-----------------------------------------------------------------------------
(* What a step may do to the registry, the connections and the calls: every*)
(* step but the one that stores a new session makes such moves.            *)

Early == {"idle", "lookup", "connecting"}

(* The registry only forgets; a connection comes to no session.            *)
RegistryMoves ==
  /\ \A n \in Names : reg'[n] \in {reg[n], None}
  /\ \A s \in Sessions : conn'[s] = "none" <=> conn[s] = "none"
  /\ \A s \in Sessions : conn'[s] = "up" => conn[s] = "up"
  /\ \A s \in Sessions : conn[s] # "none" => name'[s] = name[s]
  /\ \A s \in Sessions : pc'[s] \in Early => pc[s] \in Early /\ row'[s] = row[s]

(* One call may take sessions out of the registry, to disconnect them.     *)
(* What is to be disconnected remains so until it is closed or abandoned.  *)
ClosingMoves ==
  /\ \A n \in Names, s \in Sessions : reg[n] = s /\ conn'[s] = "up" =>
       reg'[n] = s \/ \E t \in Closers : s \in Closing(t)'
  /\ \A t \in Closers : \A s \in Closing(t) : conn'[s] = "up" => s \in Closing(t)' \cup Abandoned(t)'
  /\ \A t \in Closers : Abandoned(t) \subseteq Abandoned(t)'
  /\ \A t \in Closers : \A s \in Closing(t)' :
       s \in Closing(t) \/ \E n \in Names : reg[n] = s /\ reg'[n] = None
  /\ \A t, u \in Closers : t # u => Closing(t)' \subseteq Closing(t) \/ Closing(u)' \subseteq Closing(u)

(* What a call removes it took out, and what it executes on was listed.    *)
CallMoves ==
  /\ \A t \in Removers : pc'[t] \in {"closing", "deactivating"} =>
       \/ pc[t] \in {"closing", "deactivating"} /\ name'[t] = name[t]
       \/ \E n \in Names : reg[n] # None /\ reg'[n] = None /\ name'[t] = n
       \/ /\ t \in Executors /\ pc[t] = "executing" /\ name'[t] = name[t]
          /\ reg'[name[t]] = None
  /\ \A e \in Executors : pc'[e] = "executing" =>
       \/ pc[e] = "executing" /\ held'[e] = held[e] /\ name'[e] = name[e]
       \/ \E n \in Names : reg[n] # None /\ held'[e] = reg[n] /\ name'[e] = n

(* A document is deactivated by the name of a session taken out, or by     *)
(* /disconnect all.                                                        *)
RowMoves ==
  /\ \A s \in Sessions : row'[s] = "inactive" =>
       \/ row[s] = "inactive"
       \/ \E t \in Removers : pc[t] = "deactivating" /\ name[t] = name[s]
       \/ \E a \in Clearers : pc[a] # "idle"
  /\ \A a \in Clearers : pc[a] # "idle" => pc'[a] # "idle"

Moves == RegistryMoves /\ ClosingMoves /\ CallMoves /\ RowMoves

LEMMA Sorts ==
  /\ Removers \subseteq Closers /\ Clearers \subseteq Closers /\ Executors \subseteq Removers
  /\ Disconnectors \subseteq Removers /\ Watchdog \in Removers
  /\ Closers \subseteq Tasks /\ Sessions \subseteq Tasks
  /\ Sessions \cap Closers = {} /\ Removers \cap Clearers = {}
  /\ Wizards \subseteq Sessions /\ Quicks \subseteq Sessions
  /\ Watchdog \notin Executors /\ Disconnectors \cap Executors = {}
  /\ None \notin Sessions /\ None \notin Names
BY TasksAssumption DEF Tasks, Sessions, Closers, Removers

(* No session is in two places.                                            *)
LEMMA SingleOwnerMoves ==
  ASSUME TypeOK, SingleOwner, RegistryMoves, ClosingMoves
  PROVE  SingleOwner'
<1>0. /\ \A n \in Names : reg'[n] \in {reg[n], None}
      /\ \A t \in Closers : Closing(t) \subseteq Sessions /\ Closing(t)' \subseteq Sessions
      /\ None \notin Sessions
  BY Sorts DEF RegistryMoves, Closing
<1>1. \A t \in Closers, n \in Names : reg'[n] \notin Closing(t)'
  <2> SUFFICES ASSUME NEW t \in Closers, NEW n \in Names, reg'[n] \in Closing(t)'
               PROVE  FALSE
    OBVIOUS
  <2>1. reg'[n] = reg[n] /\ reg[n] \in Sessions
    BY <1>0
  <2>2. reg[n] \notin Closing(t)
    BY DEF SingleOwner
  <2>3. PICK m \in Names : reg[m] = reg[n] /\ reg'[m] = None
    BY <2>1, <2>2 DEF ClosingMoves
  <2> QED BY <1>0, <2>1, <2>3 DEF SingleOwner
<1>2. ASSUME NEW t \in Closers, NEW u \in Closers, t # u, NEW s \in Closing(t)',
             s \in Closing(u)', Closing(t)' \subseteq Closing(t)
      PROVE  FALSE
  <2>1. s \in Closing(t) /\ s \notin Closing(u)
    BY <1>2 DEF SingleOwner
  <2>2. PICK m \in Names : reg[m] = s
    BY <1>2, <2>1 DEF ClosingMoves
  <2> QED BY <2>1, <2>2 DEF SingleOwner
<1>3. \A t, u \in Closers : t # u => Closing(t)' \cap Closing(u)' = {}
  BY <1>2 DEF ClosingMoves
<1>4. \A n, m \in Names : reg'[n] # None /\ reg'[n] = reg'[m] => n = m
  BY <1>0 DEF SingleOwner
<1> QED BY <1>1, <1>3, <1>4 DEF SingleOwner

(* No connected session is lost sight of.                                  *)
Tracked(s) == Reachable(s) \/ Overwritten(s) \/ \E t \in Closers : s \in Abandoned(t)

LEMMA TrackedMoves ==
  ASSUME ClosingMoves, storedOver \subseteq storedOver', NEW s \in Sessions, conn'[s] = "up",
         Tracked(s)
  PROVE  Tracked(s)'
<1>1. CASE \E n \in Names : reg[n] = s
  BY <1>1 DEF ClosingMoves, Reachable, Tracked
<1>2. CASE \E t \in Closers : s \in Closing(t)
  BY <1>2 DEF ClosingMoves, Reachable, Tracked
<1>3. CASE Overwritten(s)
  BY <1>3 DEF Overwritten, Tracked
<1>4. CASE \E t \in Closers : s \in Abandoned(t)
  BY <1>4 DEF ClosingMoves, Tracked
<1> QED BY <1>1, <1>2, <1>3, <1>4 DEF Tracked, Reachable

LEMMA NoOtherLeakMoves ==
  ASSUME NoOtherLeak, RegistryMoves, ClosingMoves, storedOver \subseteq storedOver'
  PROVE  NoOtherLeak'
<1> SUFFICES ASSUME NEW s \in Sessions, conn'[s] = "up" PROVE Tracked(s)'
  BY DEF NoOtherLeak, Connected, Tracked
<1>1. conn[s] = "up"
  BY DEF RegistryMoves
<1> QED BY <1>1, TrackedMoves DEF NoOtherLeak, Connected, Tracked

LEMMA UnconnectedMoves ==
  ASSUME TypeOK, Unconnected, RegistryMoves, ClosingMoves
  PROVE  Unconnected'
<1>1. ASSUME NEW n \in Names, reg'[n] # None
      PROVE  conn'[reg'[n]] # "none" /\ name'[reg'[n]] = n
  <2>1. reg'[n] = reg[n] /\ reg[n] \in Sessions
    BY <1>1 DEF RegistryMoves, TypeOK, Ref
  <2> QED BY <1>1, <2>1 DEF RegistryMoves, Unconnected
<1>2. ASSUME NEW c \in Sessions, pc'[c] \in Early PROVE conn'[c] = "none" /\ row'[c] = "none"
  BY <1>2 DEF RegistryMoves, Unconnected, Early
<1>3. ASSUME NEW c \in Sessions, conn'[c] = "none", NEW t \in Closers, c \in Closing(t)'
      PROVE  FALSE
  <2>1. conn[c] = "none" /\ c \notin Closing(t)
    BY <1>3 DEF RegistryMoves, Unconnected
  <2>2. PICK n \in Names : reg[n] = c
    BY <1>3, <2>1 DEF ClosingMoves
  <2> QED BY <2>1, <2>2, Sorts DEF Unconnected
<1> QED BY <1>1, <1>2, <1>3 DEF Unconnected, Early

LEMMA TookOutMoves ==
  ASSUME TypeOK, Control, Unconnected, TookOut, RegistryMoves, CallMoves
  PROVE  TookOut'
<1>0. \A n \in Names : reg[n] # None => /\ reg[n] \in Sessions /\ name[reg[n]] = n
                                        /\ name'[reg[n]] = n /\ conn'[reg[n]] # "none"
  BY DEF TypeOK, Ref, Unconnected, RegistryMoves
<1>1. ASSUME NEW t \in Removers, pc'[t] \in {"closing", "deactivating"}
      PROVE  \E u \in Sessions : name'[u] = name'[t] /\ conn'[u] # "none" /\ reg'[name'[t]] # u
  <2>1. CASE pc[t] \in {"closing", "deactivating"} /\ name'[t] = name[t]
    <3>1. PICK u \in Sessions : name[u] = name[t] /\ conn[u] # "none" /\ reg[name[t]] # u
      BY <2>1 DEF TookOut
    <3>2. name[t] \in Names
      BY <2>1 DEF Control
    <3> QED BY <2>1, <3>1, <3>2, Sorts DEF RegistryMoves
  <2>2. CASE \E n \in Names : reg[n] # None /\ reg'[n] = None /\ name'[t] = n
    BY <2>2, <1>0, Sorts
  <2>3. CASE /\ t \in Executors /\ pc[t] = "executing" /\ name'[t] = name[t]
             /\ reg'[name[t]] = None
    <3>1. held[t] \in Sessions /\ name[held[t]] = name[t] /\ conn[held[t]] # "none"
      BY <2>3, Sorts DEF TookOut, Control
    <3> QED BY <2>3, <3>1, Sorts DEF RegistryMoves
  <2> QED BY <1>1, <2>1, <2>2, <2>3 DEF CallMoves
<1>2. ASSUME NEW e \in Executors, pc'[e] = "executing"
      PROVE  name'[held'[e]] = name'[e] /\ conn'[held'[e]] # "none"
  <2>1. CASE pc[e] = "executing" /\ held'[e] = held[e] /\ name'[e] = name[e]
    <3>1. held[e] \in Sessions /\ name[held[e]] = name[e] /\ conn[held[e]] # "none"
      BY <2>1, Sorts DEF TookOut, Control
    <3> QED BY <2>1, <3>1 DEF RegistryMoves
  <2> QED BY <1>0, <1>2, <2>1 DEF CallMoves
<1> QED BY <1>1, <1>2 DEF TookOut

LEMMA LiveRowsMoves ==
  ASSUME TypeOK, Unconnected, TookOut, LiveRows, RegistryMoves, RowMoves
  PROVE  LiveRows'
<1> SUFFICES ASSUME NEW n \in Names, NEW s, s = reg'[n], s # None, conn'[s] = "up",
                    row'[s] = "inactive"
             PROVE  \/ \E u \in Sessions \ {s} : name'[u] = n /\ conn'[u] # "none"
                    \/ \E a \in Clearers : pc'[a] # "idle"
  BY DEF LiveRows, Connected
<1>1. s = reg[n] /\ s \in Sessions /\ conn[s] = "up" /\ name[s] = n
  BY DEF RegistryMoves, TypeOK, Ref, Unconnected
<1>2. (\E a \in Clearers : pc[a] # "idle") => \E a \in Clearers : pc'[a] # "idle"
  BY DEF RowMoves
<1>3. (\E u \in Sessions \ {s} : name[u] = n /\ conn[u] # "none") =>
         \E u \in Sessions \ {s} : name'[u] = n /\ conn'[u] # "none"
  BY DEF RegistryMoves
<1>4. CASE row[s] = "inactive"
  BY <1>1, <1>2, <1>3, <1>4 DEF LiveRows, Connected
<1>5. ASSUME NEW t \in Removers, pc[t] = "deactivating", name[t] = name[s]
      PROVE  \E u \in Sessions \ {s} : name[u] = n /\ conn[u] # "none"
  BY <1>1, <1>5 DEF TookOut
<1> QED BY <1>2, <1>3, <1>4, <1>5, <1>1 DEF RowMoves

LEMMA KeptMoves ==
  ASSUME Kept, TypeOK', Control', Moves
  PROVE  Kept'
BY SingleOwnerMoves, UnconnectedMoves, TookOutMoves DEF Kept, Moves

LEMMA InvMoves ==
  ASSUME IndInv, TypeOK', Control', Moves, storedOver \subseteq storedOver'
  PROVE  IndInv'
BY KeptMoves, NoOtherLeakMoves, LiveRowsMoves DEF IndInv, Kept, Moves

(* A new session is stored: what was there under its name is overwritten.  *)
LEMMA StoredIs ==
  ASSUME Kept, NEW c \in Sessions, ConnectStored(c)
  PROVE  /\ name[c] \in Names /\ conn[c] = "none" /\ row[c] = "none"
         /\ \A t \in Closers : c \notin Closing(t)
         /\ \A n \in Names : reg[n] # c
         /\ name' = name /\ held' = held /\ row' = row /\ cleared' = cleared
         /\ storedOver' = storedOver \cup ({reg[name[c]]} \ {None})
         /\ reg'[name[c]] = c /\ \A n \in Names \ {name[c]} : reg'[n] = reg[n]
         /\ conn'[c] = "up" /\ \A s \in Sessions \ {c} : conn'[s] = conn[s]
         /\ pc'[c] = "saving" /\ \A t \in Tasks \ {c} : pc'[t] = pc[t]
         /\ \A t \in Closers : pc'[t] = pc[t] /\ Closing(t)' = Closing(t) /\ Abandoned(t)' = Abandoned(t)
<1> DEFINE m == name[c]
<1>1. /\ pc[c] = "connecting" /\ conn[c] = "none" /\ row[c] = "none" /\ m \in Names
      /\ \A t \in Closers : c \notin Closing(t)
      /\ \A n \in Names : reg[n] # c
  BY Sorts DEF Kept, Control, Unconnected, ConnectStored
<1>2. /\ reg' = [reg EXCEPT ![m] = c] /\ conn' = [conn EXCEPT ![c] = "up"]
      /\ pc' = [pc EXCEPT ![c] = "saving"] /\ name' = name /\ held' = held /\ row' = row
      /\ cleared' = cleared /\ storedOver' = storedOver \cup ({reg[name[c]]} \ {None})
  BY DEF ConnectStored, Store, Goto
<1>3. /\ reg'[m] = c /\ \A n \in Names \ {m} : reg'[n] = reg[n]
      /\ conn'[c] = "up" /\ \A s \in Sessions \ {c} : conn'[s] = conn[s]
      /\ pc'[c] = "saving" /\ \A t \in Tasks \ {c} : pc'[t] = pc[t]
  BY <1>1, <1>2, Sorts DEF Kept, TypeOK
<1>4. \A t \in Closers : pc'[t] = pc[t] /\ Closing(t)' = Closing(t) /\ Abandoned(t)' = Abandoned(t)
  BY <1>2, <1>3, Sorts DEF Closing, Abandoned
<1> QED BY <1>1, <1>2, <1>3, <1>4

LEMMA StoredTracked ==
  ASSUME Kept, NEW c \in Sessions, ConnectStored(c), NEW s \in Sessions \ {c}
  PROVE  /\ Overwritten(s) => Overwritten(s)'
         /\ Tracked(s) => Tracked(s)'
<1> USE StoredIs
<1>1. ASSUME Overwritten(s) PROVE Overwritten(s)'
  BY <1>1 DEF Overwritten
<1>2. CASE reg[name[c]] = s
  BY <1>2, Sorts DEF Overwritten, Tracked
<1>3. ASSUME NEW n \in Names \ {name[c]}, reg[n] = s PROVE Reachable(s)'
  BY <1>3 DEF Reachable
<1>4. ASSUME NEW t \in Closers, s \in Closing(t) PROVE Reachable(s)'
  BY <1>4 DEF Reachable
<1>5. CASE \E t \in Closers : s \in Abandoned(t)
  BY <1>1, <1>5 DEF Tracked
<1> QED BY <1>1, <1>2, <1>3, <1>4, <1>5 DEF Tracked, Reachable

LEMMA StoredKeeps ==
  ASSUME Kept, TypeOK', Control', NEW c \in Sessions, ConnectStored(c)
  PROVE  Kept'
<1> USE StoredIs
<1>1. SingleOwner'
  BY Sorts DEF Kept, SingleOwner
<1>2. Unconnected'
  <2>1. \A s \in Sessions : pc'[s] \in Early => conn'[s] = "none" /\ row'[s] = "none"
    BY Sorts DEF Kept, Unconnected, Early
  <2>2. \A s \in Sessions : conn'[s] = "none" => \A t \in Closers : s \notin Closing(t)'
    BY DEF Kept, Unconnected
  <2>3. ASSUME NEW n \in Names, reg'[n] # None
        PROVE  conn'[reg'[n]] # "none" /\ name'[reg'[n]] = n
    BY <2>3 DEF Kept, Unconnected, TypeOK, Ref
  <2> QED BY <2>1, <2>2, <2>3 DEF Unconnected, Early
<1>3. TookOut'
  <2>1. ASSUME NEW t \in Removers, pc'[t] \in {"closing", "deactivating"}
        PROVE  \E u \in Sessions : name'[u] = name'[t] /\ conn'[u] # "none" /\ reg'[name'[t]] # u
    <3>1. pc'[t] = pc[t] /\ name[t] \in Names
      BY <2>1, Sorts DEF Kept, Control
    <3>2. PICK u \in Sessions : name[u] = name[t] /\ conn[u] # "none" /\ reg[name[t]] # u
      BY <2>1, <3>1 DEF Kept, TookOut
    <3> QED BY <3>1, <3>2
  <2>2. ASSUME NEW e \in Executors, pc'[e] = "executing"
        PROVE  name'[held'[e]] = name'[e] /\ conn'[held'[e]] # "none"
    BY <2>2, Sorts DEF Kept, TookOut, Control
  <2> QED BY <2>1, <2>2 DEF TookOut
<1> QED BY <1>1, <1>2, <1>3 DEF Kept

LEMMA StoredStep ==
  ASSUME IndInv, TypeOK', Control', NEW c \in Sessions, ConnectStored(c)
  PROVE  IndInv'
<1>0. Kept /\ Kept'
  BY StoredKeeps DEF IndInv
<1>1. NoOtherLeak'
  <2> SUFFICES ASSUME NEW s \in Sessions, conn'[s] = "up" PROVE Tracked(s)'
    BY DEF NoOtherLeak, Connected, Tracked
  <2>1. CASE s = c
    BY <1>0, <2>1, StoredIs DEF Reachable, Tracked
  <2>2. CASE s # c
    BY <1>0, <2>2, StoredIs, StoredTracked DEF IndInv, NoOtherLeak, Connected, Tracked
  <2> QED BY <2>1, <2>2
<1>2. LiveRows'
  <2> SUFFICES ASSUME NEW n \in Names, NEW s, s = reg'[n], s # None, conn'[s] = "up",
                      row'[s] = "inactive"
               PROVE  \/ \E u \in Sessions \ {s} : name'[u] = n /\ conn'[u] # "none"
                      \/ \E a \in Clearers : pc'[a] # "idle"
    BY DEF LiveRows, Connected
  <2>1. s # c /\ s \in Sessions
    BY <1>0, StoredIs DEF Kept, TypeOK, Ref
  <2>2. s = reg[n] /\ conn[s] = "up" /\ row[s] = "inactive"
    BY <1>0, <2>1, StoredIs
  <2> QED BY <1>0, <2>2, StoredIs, Sorts DEF IndInv, LiveRows, Connected
<1> QED BY <1>0, <1>1, <1>2 DEF IndInv

-----------------------------------------------------------------------------
(* Every step but ConnectStored makes such moves.                          *)

(* What a look-up leaves of the registry: every connected session.         *)
Forgotten == \A n \in Names : /\ reg'[n] \in {reg[n], None}
                              /\ n \in Alive => reg'[n] = reg[n]

LEMMA GetForgets ==
  ASSUME RegistryTypeOK, NEW names, names \cap Alive = {}, reg' = Without(names)
  PROVE  Forgotten
BY DEF Forgotten, Without, RegistryTypeOK

LEMMA GetFailsForgets ==
  ASSUME RegistryTypeOK, NEW n, GetFails(n)
  PROVE  Forgotten
BY GetForgets DEF GetFails, Forget, Found

LEMMA GetAllForgets ==
  ASSUME RegistryTypeOK, reg' = Without(Names \ Alive)
  PROVE  Forgotten
BY GetForgets

(* Calls other than t stay as they are.                                    *)
Others(t) == /\ \A u \in Tasks \ {t} : pc'[u] = pc[u] /\ held'[u] = held[u]
             /\ \A u \in Clearers \ {t} : cleared'[u] = cleared[u]

LEMMA OthersClosing ==
  ASSUME NEW t, Others(t)
  PROVE  \A u \in Closers \ {t} : Closing(u)' = Closing(u) /\ Abandoned(u)' = Abandoned(u)
BY Sorts DEF Others, Closing, Abandoned

LEMMA QuietClosing ==
  ASSUME TypeOK, NEW t \in Tasks, Others(t), pc[t] \notin {"closing", "raised"},
         pc'[t] # "closing", Forgotten, \A s \in Sessions : conn'[s] = "up" => conn[s] = "up"
  PROVE  ClosingMoves
<1>1. Closing(t)' = {} /\ Closing(t) = {} /\ Abandoned(t) = {}
  BY DEF Closing, Abandoned
<1>2. ASSUME NEW n \in Names, NEW s \in Sessions, reg[n] = s, conn'[s] = "up" PROVE reg'[n] = s
  BY <1>2, Sorts DEF Forgotten, Alive, Listed, Connected
<1> QED BY <1>1, <1>2, OthersClosing DEF ClosingMoves

LEMMA StillClosing ==
  ASSUME UNCHANGED <<pc, held, cleared>>, Forgotten,
         \A s \in Sessions : conn'[s] = "up" => conn[s] = "up"
  PROVE  ClosingMoves
<1>1. \A t \in Closers : Closing(t)' = Closing(t) /\ Abandoned(t)' = Abandoned(t)
  BY DEF Closing, Abandoned
<1>2. ASSUME NEW n \in Names, NEW s \in Sessions, reg[n] = s, conn'[s] = "up" PROVE reg'[n] = s
  BY <1>2, Sorts DEF Forgotten, Alive, Listed, Connected
<1> QED BY <1>1, <1>2 DEF ClosingMoves

(* A call takes sessions out of the registry.                              *)
LEMMA TakesOut ==
  ASSUME NEW t \in Closers, Others(t), pc[t] \notin {"closing", "raised"},
         \A s \in Sessions : conn'[s] = "up" => conn[s] = "up",
         \A n \in Alive : reg'[n] = reg[n] \/ reg[n] \in Closing(t)',
         \A s \in Closing(t)' : \E n \in Names : reg[n] = s /\ reg'[n] = None
  PROVE  ClosingMoves
<1>1. Closing(t) = {} /\ Abandoned(t) = {}
  BY DEF Closing, Abandoned
<1>2. ASSUME NEW n \in Names, NEW s \in Sessions, reg[n] = s, conn'[s] = "up"
      PROVE  reg'[n] = s \/ s \in Closing(t)'
  BY <1>2, Sorts DEF Alive, Listed, Connected
<1> QED BY <1>1, <1>2, OthersClosing DEF ClosingMoves

(* A call has closed one of its sessions, or leaves them.                  *)
LEMMA GoesOnClosing ==
  ASSUME NEW t \in Closers, Others(t), pc[t] = "closing", reg' = reg,
         Closing(t)' \subseteq Closing(t),
         \A s \in Closing(t) : conn'[s] = "up" => s \in Closing(t)' \cup Abandoned(t)'
  PROVE  ClosingMoves
<1>1. Abandoned(t) = {}
  BY DEF Abandoned
<1> QED BY <1>1, OthersClosing DEF ClosingMoves

(* Nothing is taken out or closed: only the position of t changes.         *)
RowOf(t, s) ==
  \/ row'[s] = row[s]
  \/ s = t /\ row'[s] = "active" /\ pc'[t] \notin Early
  \/ /\ row[s] = "active" /\ row'[s] = "inactive" /\ pc[t] = "deactivating"
     /\ t \in Clearers \/ (t \in Removers /\ name[t] = name[s])

LEMMA RowsOf ==
  ASSUME Kept, NEW t \in Tasks, Others(t), \A s \in Sessions : RowOf(t, s),
         t \in Clearers /\ pc[t] # "idle" => pc'[t] # "idle",
         t \in Sessions /\ pc'[t] \in Early => pc[t] \in Early
  PROVE  /\ RowMoves
         /\ \A s \in Sessions : pc'[s] \in Early => pc[s] \in Early /\ row'[s] = row[s]
<1>1. ASSUME NEW s \in Sessions, pc'[s] \in Early PROVE pc[s] \in Early /\ row'[s] = row[s]
  <2>1. pc[s] \in Early
    BY <1>1, Sorts DEF Others
  <2>2. row[s] = "none"
    BY <2>1 DEF Kept, Unconnected, Early
  <2> QED BY <1>1, <2>1, <2>2 DEF RowOf
<1>2. ASSUME NEW s \in Sessions, row'[s] = "inactive", row[s] # "inactive"
      PROVE  \/ \E u \in Removers : pc[u] = "deactivating" /\ name[u] = name[s]
             \/ \E a \in Clearers : pc[a] # "idle"
  BY <1>2 DEF RowOf
<1>3. \A a \in Clearers : pc[a] # "idle" => pc'[a] # "idle"
  BY Sorts DEF Others
<1> QED BY <1>1, <1>2, <1>3 DEF RowMoves

LEMMA QuietMoves ==
  ASSUME Kept, NEW t \in Tasks, Others(t), pc[t] \notin {"closing", "raised"},
         pc'[t] \notin {"closing", "deactivating", "executing"}, t \in Clearers => pc'[t] # "idle",
         t \in Sessions /\ pc'[t] \in Early => pc[t] \in Early,
         Forgotten, conn' = conn, \A s \in Sessions : RowOf(t, s),
         \A u \in Tasks \ {t} : name'[u] = name[u],
         t \in Sessions /\ conn[t] # "none" => name'[t] = name[t]
  PROVE  Moves
<1>1. ClosingMoves
  BY QuietClosing DEF Kept
<1>2. RegistryMoves
  BY RowsOf, Sorts DEF RegistryMoves, Forgotten
<1>3. CallMoves
  BY Sorts DEF CallMoves, Others
<1> QED BY <1>1, <1>2, <1>3, RowsOf DEF Moves

(* Nothing happens to a call or to a document.                             *)
LEMMA StillMoves ==
  ASSUME Kept, UNCHANGED <<pc, held, cleared, name, row>>, Forgotten,
         \A s \in Sessions : /\ conn'[s] = "none" <=> conn[s] = "none"
                             /\ conn'[s] = "up" => conn[s] = "up"
  PROVE  Moves
<1>1. ClosingMoves
  BY StillClosing
<1> QED BY <1>1 DEF Moves, RegistryMoves, CallMoves, RowMoves, Forgotten

(* remove() up to its await, after look-ups that found nothing.            *)
LEMMA RemovalMoves ==
  ASSUME Kept, NEW t \in Removers, pc[t] \notin {"closing", "raised"}, NEW n \in Listed,
         NEW gone, gone \cap Alive = {}, reg' = Without(gone \cup {n}),
         name' = [name EXCEPT ![t] = n], held' = [held EXCEPT ![t] = reg[n]],
         pc' = [pc EXCEPT ![t] = "closing"], CloseBegins(reg[n]), cleared' = cleared,
         \A s \in Sessions : RowOf(t, s)
  PROVE  Moves
<1>0. /\ t \in Tasks /\ t \in Closers /\ t \notin Sessions /\ t \notin Clearers
      /\ n \in Names /\ reg[n] \in Sessions /\ reg[n] # None
      /\ conn[reg[n]] # "none"
  BY Sorts, TypeParts, ListedNames DEF Kept, Unconnected, Listed
<1>1. /\ Others(t) /\ pc'[t] = "closing" /\ held'[t] = reg[n] /\ name'[t] = n
      /\ \A u \in Tasks \ {t} : name'[u] = name[u]
  BY <1>0 DEF Others, Kept, TypeOK
<1>2. /\ reg'[n] = None /\ \A m \in Names : reg'[m] \in {reg[m], None}
      /\ \A m \in Alive : m # n => reg'[m] = reg[m]
  BY <1>0, TypeParts, ListedNames DEF Without, Kept
<1>3. \A s \in Sessions : /\ conn'[s] = "none" <=> conn[s] = "none"
                          /\ conn'[s] = "up" => conn[s] = "up"
  BY <1>0 DEF CloseBegins, Kept, TypeOK
<1>4. Closing(t)' = {reg[n]}
  BY <1>0, <1>1 DEF Closing
<1>5. ClosingMoves
  <2>1. \A m \in Alive : reg'[m] = reg[m] \/ reg[m] \in Closing(t)'
    BY <1>2, <1>4
  <2>2. \A s \in Closing(t)' : \E m \in Names : reg[m] = s /\ reg'[m] = None
    BY <1>0, <1>2, <1>4
  <2> QED BY <1>0, <1>1, <1>3, <2>1, <2>2, TakesOut
<1>6. RegistryMoves
  BY <1>0, <1>1, <1>2, <1>3, RowsOf, Sorts DEF RegistryMoves
<1>7. CallMoves
  BY <1>0, <1>1, <1>2, Sorts DEF CallMoves, Others
<1> QED BY <1>0, <1>1, <1>5, <1>6, <1>7, RowsOf DEF Moves

(* connect.                                                                *)
LEMMA ConnectMoves ==
  ASSUME Kept, NEW c \in Wizards, Connect(c), ~ConnectStored(c)
  PROVE  Moves
<1>0. c \in Sessions /\ c \in Tasks /\ c \notin Closers /\ c \notin Clearers
      /\ TypeOK /\ Control /\ RegistryTypeOK /\ LinkTypeOK /\ TaskTypeOK
      /\ (pc[c] = "idle" => conn[c] = "none")
  BY TypeParts, Sorts DEF Kept, Unconnected
<1>1. ASSUME NEW n \in Names, ConnectRefused(c, n) PROVE Moves
  <2>1. Forgotten
    BY <1>0, <1>1 DEF ConnectRefused, registry, Forgotten
  <2>2. /\ Others(c) /\ pc[c] \notin {"closing", "raised"} /\ conn' = conn
        /\ pc'[c] \notin {"closing", "deactivating", "executing"}
        /\ c \in Clearers => pc'[c] # "idle"
        /\ c \in Sessions /\ pc'[c] \in Early => pc[c] \in Early
        /\ \A s \in Sessions : RowOf(c, s)
        /\ \A u \in Tasks \ {c} : name'[u] = name[u]
        /\ c \in Sessions /\ conn[c] # "none" => name'[c] = name[c]
    BY <1>0, <1>1 DEF ConnectRefused, Goto, Others, RowOf, link, Early, TaskTypeOK, LinkTypeOK
  <2> QED BY <1>0, <2>1, <2>2, QuietMoves
<1>2. ASSUME NEW n \in Names, ConnectStart(c, n) PROVE Moves
  <2>1. Forgotten
    BY <1>0, <1>2, GetFailsForgets DEF ConnectStart
  <2>2. /\ Others(c) /\ pc[c] \notin {"closing", "raised"} /\ conn' = conn
        /\ pc'[c] \notin {"closing", "deactivating", "executing"}
        /\ c \in Clearers => pc'[c] # "idle"
        /\ c \in Sessions /\ pc'[c] \in Early => pc[c] \in Early
        /\ \A s \in Sessions : RowOf(c, s)
        /\ \A u \in Tasks \ {c} : name'[u] = name[u]
        /\ c \in Sessions /\ conn[c] # "none" => name'[c] = name[c]
    BY <1>0, <1>2 DEF ConnectStart, Goto, Others, RowOf, link, Early, TaskTypeOK, LinkTypeOK
  <2> QED BY <1>0, <2>1, <2>2, QuietMoves
<1>3. ASSUME ConnectFails(c) PROVE Moves
  <2>1. Forgotten
    BY <1>0, <1>3 DEF ConnectFails, registry, Forgotten
  <2>2. /\ Others(c) /\ pc[c] \notin {"closing", "raised"} /\ conn' = conn
        /\ pc'[c] \notin {"closing", "deactivating", "executing"}
        /\ c \in Clearers => pc'[c] # "idle"
        /\ c \in Sessions /\ pc'[c] \in Early => pc[c] \in Early
        /\ \A s \in Sessions : RowOf(c, s)
        /\ \A u \in Tasks \ {c} : name'[u] = name[u]
        /\ c \in Sessions /\ conn[c] # "none" => name'[c] = name[c]
    BY <1>0, <1>3 DEF ConnectFails, Goto, Others, RowOf, link, Early, TaskTypeOK, LinkTypeOK
  <2> QED BY <1>0, <2>1, <2>2, QuietMoves
<1>4. ASSUME SaveFails(c) PROVE Moves
  <2>1. Forgotten
    BY <1>0, <1>4 DEF SaveFails, registry, Forgotten
  <2>2. /\ Others(c) /\ pc[c] \notin {"closing", "raised"} /\ conn' = conn
        /\ pc'[c] \notin {"closing", "deactivating", "executing"}
        /\ c \in Clearers => pc'[c] # "idle"
        /\ c \in Sessions /\ pc'[c] \in Early => pc[c] \in Early
        /\ \A s \in Sessions : RowOf(c, s)
        /\ \A u \in Tasks \ {c} : name'[u] = name[u]
        /\ c \in Sessions /\ conn[c] # "none" => name'[c] = name[c]
    BY <1>0, <1>4 DEF SaveFails, Goto, Others, RowOf, link, Early, TaskTypeOK, LinkTypeOK
  <2> QED BY <1>0, <2>1, <2>2, QuietMoves
<1>5. ASSUME ConnectSaved(c) PROVE Moves
  <2>1. Forgotten
    BY <1>0, <1>5, GetAllForgets DEF GetAll, ConnectSaved
  <2>2. /\ Others(c) /\ pc[c] \notin {"closing", "raised"} /\ conn' = conn
        /\ pc'[c] \notin {"closing", "deactivating", "executing"}
        /\ c \in Clearers => pc'[c] # "idle"
        /\ c \in Sessions /\ pc'[c] \in Early => pc[c] \in Early
        /\ \A s \in Sessions : RowOf(c, s)
        /\ \A u \in Tasks \ {c} : name'[u] = name[u]
        /\ c \in Sessions /\ conn[c] # "none" => name'[c] = name[c]
    BY <1>0, <1>5 DEF ConnectSaved, RowInserted, Goto, Others, RowOf, link, Early, TaskTypeOK, LinkTypeOK
  <2> QED BY <1>0, <2>1, <2>2, QuietMoves
<1> QED BY <1>1, <1>2, <1>3, <1>4, <1>5 DEF Connect

(* quick_connect.                                                          *)
LEMMA QuickConnectMoves ==
  ASSUME Kept, NEW q \in Quicks, QuickConnect(q), ~ConnectStored(q)
  PROVE  Moves
<1>0. q \in Sessions /\ q \in Tasks /\ q \notin Closers /\ q \notin Clearers
      /\ TypeOK /\ Control /\ RegistryTypeOK /\ LinkTypeOK /\ TaskTypeOK
      /\ (pc[q] \in {"idle", "lookup"} => conn[q] = "none")
  BY TypeParts, Sorts DEF Kept, Unconnected
<1>1. ASSUME QuickStart(q) PROVE Moves
  <2>1. Forgotten
    BY <1>0, <1>1 DEF QuickStart, registry, Forgotten
  <2>2. /\ Others(q) /\ pc[q] \notin {"closing", "raised"} /\ conn' = conn
        /\ pc'[q] \notin {"closing", "deactivating", "executing"}
        /\ q \in Clearers => pc'[q] # "idle"
        /\ q \in Sessions /\ pc'[q] \in Early => pc[q] \in Early
        /\ \A s \in Sessions : RowOf(q, s)
        /\ \A u \in Tasks \ {q} : name'[u] = name[u]
        /\ q \in Sessions /\ conn[q] # "none" => name'[q] = name[q]
    BY <1>0, <1>1 DEF QuickStart, Goto, Others, RowOf, link, Early, TaskTypeOK, LinkTypeOK
  <2> QED BY <1>0, <2>1, <2>2, QuietMoves
<1>2. ASSUME NEW n \in Names, QuickNamed(q, n) PROVE Moves
  <2>1. Forgotten
    BY <1>0, <1>2, GetAllForgets DEF GetAll, QuickNamed
  <2>2. /\ Others(q) /\ pc[q] \notin {"closing", "raised"} /\ conn' = conn
        /\ pc'[q] \notin {"closing", "deactivating", "executing"}
        /\ q \in Clearers => pc'[q] # "idle"
        /\ q \in Sessions /\ pc'[q] \in Early => pc[q] \in Early
        /\ \A s \in Sessions : RowOf(q, s)
        /\ \A u \in Tasks \ {q} : name'[u] = name[u]
        /\ q \in Sessions /\ conn[q] # "none" => name'[q] = name[q]
    BY <1>0, <1>2 DEF QuickNamed, Goto, Others, RowOf, link, Early, TaskTypeOK, LinkTypeOK
  <2> QED BY <1>0, <2>1, <2>2, QuietMoves
<1>3. ASSUME ConnectFails(q) PROVE Moves
  <2>1. Forgotten
    BY <1>0, <1>3 DEF ConnectFails, registry, Forgotten
  <2>2. /\ Others(q) /\ pc[q] \notin {"closing", "raised"} /\ conn' = conn
        /\ pc'[q] \notin {"closing", "deactivating", "executing"}
        /\ q \in Clearers => pc'[q] # "idle"
        /\ q \in Sessions /\ pc'[q] \in Early => pc[q] \in Early
        /\ \A s \in Sessions : RowOf(q, s)
        /\ \A u \in Tasks \ {q} : name'[u] = name[u]
        /\ q \in Sessions /\ conn[q] # "none" => name'[q] = name[q]
    BY <1>0, <1>3 DEF ConnectFails, Goto, Others, RowOf, link, Early, TaskTypeOK, LinkTypeOK
  <2> QED BY <1>0, <2>1, <2>2, QuietMoves
<1>4. ASSUME SaveFails(q) PROVE Moves
  <2>1. Forgotten
    BY <1>0, <1>4 DEF SaveFails, registry, Forgotten
  <2>2. /\ Others(q) /\ pc[q] \notin {"closing", "raised"} /\ conn' = conn
        /\ pc'[q] \notin {"closing", "deactivating", "executing"}
        /\ q \in Clearers => pc'[q] # "idle"
        /\ q \in Sessions /\ pc'[q] \in Early => pc[q] \in Early
        /\ \A s \in Sessions : RowOf(q, s)
        /\ \A u \in Tasks \ {q} : name'[u] = name[u]
        /\ q \in Sessions /\ conn[q] # "none" => name'[q] = name[q]
    BY <1>0, <1>4 DEF SaveFails, Goto, Others, RowOf, link, Early, TaskTypeOK, LinkTypeOK
  <2> QED BY <1>0, <2>1, <2>2, QuietMoves
<1>5. ASSUME QuickOpens(q) PROVE Moves
  <2>1. Forgotten
    BY <1>0, <1>5 DEF QuickOpens, registry, Forgotten
  <2>2. /\ Others(q) /\ pc[q] \notin {"closing", "raised"} /\ conn' = conn
        /\ pc'[q] \notin {"closing", "deactivating", "executing"}
        /\ q \in Clearers => pc'[q] # "idle"
        /\ q \in Sessions /\ pc'[q] \in Early => pc[q] \in Early
        /\ \A s \in Sessions : RowOf(q, s)
        /\ \A u \in Tasks \ {q} : name'[u] = name[u]
        /\ q \in Sessions /\ conn[q] # "none" => name'[q] = name[q]
    BY <1>0, <1>5 DEF QuickOpens, RowInserted, Goto, Others, RowOf, link, Early, TaskTypeOK, LinkTypeOK
  <2> QED BY <1>0, <2>1, <2>2, QuietMoves
<1>6. ASSUME QuickNoShell(q) PROVE Moves
  <2>1. Forgotten
    BY <1>0, <1>6, GetAllForgets DEF QuickNoShell
  <2>2. /\ Others(q) /\ pc[q] \notin {"closing", "raised"} /\ conn' = conn
        /\ pc'[q] \notin {"closing", "deactivating", "executing"}
        /\ q \in Clearers => pc'[q] # "idle"
        /\ q \in Sessions /\ pc'[q] \in Early => pc[q] \in Early
        /\ \A s \in Sessions : RowOf(q, s)
        /\ \A u \in Tasks \ {q} : name'[u] = name[u]
        /\ q \in Sessions /\ conn[q] # "none" => name'[q] = name[q]
    BY <1>0, <1>6 DEF QuickNoShell, RowInserted, Goto, Others, RowOf, link, Early, TaskTypeOK, LinkTypeOK
  <2> QED BY <1>0, <2>1, <2>2, QuietMoves
<1>7. ASSUME QuickOpened(q) PROVE Moves
  <2>1. Forgotten
    BY <1>0, <1>7, GetAllForgets DEF GetAll, QuickOpened
  <2>2. /\ Others(q) /\ pc[q] \notin {"closing", "raised"} /\ conn' = conn
        /\ pc'[q] \notin {"closing", "deactivating", "executing"}
        /\ q \in Clearers => pc'[q] # "idle"
        /\ q \in Sessions /\ pc'[q] \in Early => pc[q] \in Early
        /\ \A s \in Sessions : RowOf(q, s)
        /\ \A u \in Tasks \ {q} : name'[u] = name[u]
        /\ q \in Sessions /\ conn[q] # "none" => name'[q] = name[q]
    BY <1>0, <1>7 DEF QuickOpened, Goto, Others, RowOf, link, Early, TaskTypeOK, LinkTypeOK
  <2> QED BY <1>0, <2>1, <2>2, QuietMoves
<1> QED BY <1>1, <1>2, <1>3, <1>4, <1>5, <1>6, <1>7 DEF QuickConnect

(* The end of a disconnection, and its failure.                            *)
LEMMA CloseMoves ==
  ASSUME Kept, NEW t \in Closers, pc[t] = "closing", Others(t),
         reg' = reg, name' = name, row' = row, pc'[t] \in {"closing", "deactivating", "raised"},
         \A s \in Sessions : conn'[s] = conn[s] \/ (s \in Closing(t) /\ conn'[s] = "closed"),
         Closing(t)' \subseteq Closing(t),
         \A s \in Closing(t) : conn'[s] = "up" => s \in Closing(t)' \cup Abandoned(t)'
  PROVE  Moves
<1>1. ClosingMoves
  BY GoesOnClosing
<1>2. \A s \in Sessions : /\ conn'[s] = "none" <=> conn[s] = "none"
                          /\ conn'[s] = "up" => conn[s] = "up"
  BY DEF Kept, Unconnected
<1>3. RegistryMoves
  BY <1>2, Sorts DEF RegistryMoves, Others, Early
<1>4. CallMoves
  BY Sorts DEF CallMoves, Others
<1>5. RowMoves
  BY Sorts DEF RowMoves, Others
<1> QED BY <1>1, <1>3, <1>4, <1>5 DEF Moves

LEMMA RemoveMoves ==
  ASSUME Kept, NEW t \in Removers, Remove(t)
  PROVE  Moves
<1>0. t \in Closers /\ t \notin Clearers /\ t \in Tasks /\ LinkTypeOK /\ TaskTypeOK
  BY Sorts, TypeParts DEF Kept
<1>1. pc[t] = "closing" /\ held[t] \in Sessions /\ Closing(t) = {held[t]}
  BY <1>0 DEF Remove, RemoveEnds, RemoveRaises, Kept, Control, Closing
<1>2. CASE RemoveEnds(t)
  <2>1. Others(t) /\ pc'[t] = "deactivating" /\ Closing(t)' = {}
    BY <1>0, <1>2 DEF RemoveEnds, Others, Goto, TaskTypeOK, Closing
  <2>2. conn' = [conn EXCEPT ![held[t]] = "closed"]
    BY <1>2 DEF RemoveEnds, CloseEnds
  <2> QED BY <1>0, <1>1, <1>2, <2>1, <2>2, CloseMoves DEF RemoveEnds, LinkTypeOK
<1>3. CASE RemoveRaises(t)
  <2>1. Others(t) /\ pc'[t] = "raised" /\ Closing(t)' = {} /\ held[t] \in Abandoned(t)'
    BY <1>0, <1>1, <1>3 DEF RemoveRaises, Others, Goto, TaskTypeOK, Closing, Abandoned
  <2> QED BY <1>0, <1>1, <1>3, <2>1, CloseMoves DEF RemoveRaises, registry, link
<1> QED BY <1>2, <1>3 DEF Remove

LEMMA DeactivateMoves ==
  ASSUME Kept, NEW t \in Closers, Deactivate(t)
  PROVE  Moves
<1>0. t \notin Sessions /\ t \in Tasks /\ t \in Removers \cup Clearers
      /\ TypeOK /\ Control /\ RegistryTypeOK /\ LinkTypeOK /\ TaskTypeOK
  BY TypeParts, Sorts DEF Kept, Closers
<1>1. ASSUME DeactivateEnds(t) PROVE Moves
  <2>1. Forgotten
    BY <1>0, <1>1 DEF DeactivateEnds, registry, Forgotten
  <2>2. /\ Others(t) /\ pc[t] \notin {"closing", "raised"} /\ conn' = conn
        /\ pc'[t] \notin {"closing", "deactivating", "executing"}
        /\ t \in Clearers => pc'[t] # "idle"
        /\ t \in Sessions /\ pc'[t] \in Early => pc[t] \in Early
        /\ \A s \in Sessions : RowOf(t, s)
        /\ \A u \in Tasks \ {t} : name'[u] = name[u]
        /\ t \in Sessions /\ conn[t] # "none" => name'[t] = name[t]
    BY <1>0, <1>1 DEF DeactivateEnds, Deactivated, Goto, Others, RowOf, link, Early, TaskTypeOK, LinkTypeOK
  <2> QED BY <1>0, <2>1, <2>2, QuietMoves
<1>2. ASSUME DeactivateRaises(t) PROVE Moves
  <2>1. Forgotten
    BY <1>0, <1>2 DEF DeactivateRaises, registry, Forgotten
  <2>2. /\ Others(t) /\ pc[t] \notin {"closing", "raised"} /\ conn' = conn
        /\ pc'[t] \notin {"closing", "deactivating", "executing"}
        /\ t \in Clearers => pc'[t] # "idle"
        /\ t \in Sessions /\ pc'[t] \in Early => pc[t] \in Early
        /\ \A s \in Sessions : RowOf(t, s)
        /\ \A u \in Tasks \ {t} : name'[u] = name[u]
        /\ t \in Sessions /\ conn[t] # "none" => name'[t] = name[t]
    BY <1>0, <1>2 DEF DeactivateRaises, Goto, Others, RowOf, link, Early, TaskTypeOK, LinkTypeOK
  <2> QED BY <1>0, <2>1, <2>2, QuietMoves
<1> QED BY <1>1, <1>2 DEF Deactivate

(* /disconnect.                                                            *)
LEMMA DisconnectMoves ==
  ASSUME Kept, NEW d \in Disconnectors, DisconnectCall(d)
  PROVE  Moves
<1>0. d \notin Sessions /\ d \in Removers /\ d \in Closers /\ d \in Tasks /\ d \notin Clearers
      /\ TypeOK /\ Control /\ RegistryTypeOK /\ LinkTypeOK /\ TaskTypeOK
  BY TypeParts, Sorts DEF Kept
<1>1. ASSUME NEW n, DisconnectNothing(d, n) PROVE Moves
  <2>1. Forgotten
    BY <1>0, <1>1, GetFailsForgets DEF DisconnectNothing
  <2>2. /\ Others(d) /\ pc[d] \notin {"closing", "raised"} /\ conn' = conn
        /\ pc'[d] \notin {"closing", "deactivating", "executing"}
        /\ d \in Clearers => pc'[d] # "idle"
        /\ d \in Sessions /\ pc'[d] \in Early => pc[d] \in Early
        /\ \A s \in Sessions : RowOf(d, s)
        /\ \A u \in Tasks \ {d} : name'[u] = name[u]
        /\ d \in Sessions /\ conn[d] # "none" => name'[d] = name[d]
    BY <1>0, <1>1 DEF DisconnectNothing, Goto, Others, RowOf, link, Early, TaskTypeOK, LinkTypeOK
  <2> QED BY <1>0, <2>1, <2>2, QuietMoves
<1>2. ASSUME NEW n, Disconnect(d, n) PROVE Moves
  <2>1. n \in Listed /\ pc[d] = "idle" /\ \A s \in Sessions : RowOf(d, s)
    BY <1>0, <1>2, ListedNames DEF Disconnect, Found, RowOf
  <2>2. /\ reg' = Without({} \cup {n}) /\ name' = [name EXCEPT ![d] = n]
        /\ held' = [held EXCEPT ![d] = reg[n]] /\ pc' = [pc EXCEPT ![d] = "closing"]
        /\ CloseBegins(reg[n]) /\ cleared' = cleared /\ {} \cap Alive = {}
    BY <1>2 DEF Disconnect, RemoveBegins, Popped, Goto
  <2> QED BY <1>0, <2>1, <2>2, RemovalMoves
<1> QED BY <1>0, <1>1, <1>2, RemoveMoves, DeactivateMoves DEF DisconnectCall

(* /disconnect all.                                                        *)
LEMMA DisconnectAllMoves ==
  ASSUME Kept, NEW a \in Clearers, DisconnectAll(a)
  PROVE  Moves
<1>0. a \notin Sessions /\ a \notin Removers /\ a \in Closers /\ a \in Tasks
      /\ TypeOK /\ Control /\ RegistryTypeOK /\ LinkTypeOK /\ TaskTypeOK
  BY TypeParts, Sorts DEF Kept
<1>1. ASSUME ClearNothing(a) PROVE Moves
  <2>1. Forgotten
    BY <1>0, <1>1, GetAllForgets DEF GetAll, ClearNothing
  <2>2. /\ Others(a) /\ pc[a] \notin {"closing", "raised"} /\ conn' = conn
        /\ pc'[a] \notin {"closing", "deactivating", "executing"}
        /\ a \in Clearers => pc'[a] # "idle"
        /\ a \in Sessions /\ pc'[a] \in Early => pc[a] \in Early
        /\ \A s \in Sessions : RowOf(a, s)
        /\ \A u \in Tasks \ {a} : name'[u] = name[u]
        /\ a \in Sessions /\ conn[a] # "none" => name'[a] = name[a]
    BY <1>0, <1>1 DEF ClearNothing, Goto, Others, RowOf, link, Early, TaskTypeOK, LinkTypeOK
  <2> QED BY <1>0, <2>1, <2>2, QuietMoves
<1>2. ASSUME NEW s \in Sessions, ClearStart(a, s) PROVE Moves
  <2>1. /\ pc[a] = "idle" /\ pc'[a] = "closing" /\ Others(a) /\ name' = name /\ row' = row
        /\ Closing(a)' = {reg[n] : n \in Alive}
    BY <1>0, <1>2, ListedNames
       DEF ClearStart, ClearNext, Goto, Others, TaskTypeOK, Closing
  <2>2. /\ \A n \in Names : reg'[n] = None
        /\ conn[s] = "up" /\ \A u \in Sessions : conn'[u] = conn[u] \/ (u = s /\ conn'[u] = "closed")
    BY <1>0, <1>2 DEF ClearStart, Without, CloseBegins, LinkTypeOK, Alive, Connected
  <2>3. \A u \in Sessions : /\ conn'[u] = "none" <=> conn[u] = "none"
                            /\ conn'[u] = "up" => conn[u] = "up"
    BY <2>2
  <2>4. ClosingMoves
    <3>1. \A n \in Alive : reg'[n] = reg[n] \/ reg[n] \in Closing(a)'
      BY <2>1
    <3>2. \A u \in Closing(a)' : \E n \in Names : reg[n] = u /\ reg'[n] = None
      BY <1>0, <2>1, <2>2, ListedNames
    <3> QED BY <1>0, <2>1, <2>3, <3>1, <3>2, TakesOut
  <2>5. RegistryMoves
    BY <1>0, <2>1, <2>2, <2>3, Sorts DEF RegistryMoves, Others
  <2>6. CallMoves /\ RowMoves
    BY <1>0, <2>1, Sorts DEF CallMoves, RowMoves, Others
  <2> QED BY <2>4, <2>5, <2>6 DEF Moves
<1>3. ASSUME NEW s \in Sessions, ClearGoesOn(a, s) PROVE Moves
  <2>1. /\ pc[a] = "closing" /\ held[a] \in Sessions /\ pc' = pc /\ Others(a)
        /\ held'[a] = s /\ cleared'[a] = cleared[a] \ {s} /\ s \in cleared[a]
    BY <1>0, <1>3 DEF ClearGoesOn, ClearNext, Control, TaskTypeOK, Others
  <2>2. \A u \in Sessions : \/ conn'[u] = conn[u] /\ u # held[a]
                            \/ u \in {held[a], s} /\ conn'[u] = "closed"
                            \/ u = held[a] /\ u = s
    BY <1>0, <1>3, <2>1 DEF ClearGoesOn, LinkTypeOK
  <2>3. conn'[held[a]] = conn[held[a]] \/ conn'[held[a]] = "closed"
    BY <1>0, <1>3, <2>1 DEF ClearGoesOn, LinkTypeOK
  <2>4. Closing(a) = {held[a]} \cup cleared[a] /\ Closing(a)' = cleared[a]
    BY <1>0, <2>1 DEF Closing, TaskTypeOK
  <2>5. \A u \in Sessions : conn'[u] = conn[u] \/ (u \in Closing(a) /\ conn'[u] = "closed")
    BY <2>1, <2>2, <2>3, <2>4
  <2>6. \A u \in Closing(a) : conn'[u] = "up" => u \in Closing(a)'
    BY <1>0, <2>1, <2>2, <2>4 DEF TaskTypeOK
  <2> QED BY <1>0, <1>3, <2>1, <2>4, <2>5, <2>6, CloseMoves DEF ClearGoesOn, registry
<1>4. CASE ClearEnds(a)
  <2>1. /\ pc[a] = "closing" /\ held[a] \in Sessions /\ Others(a) /\ pc'[a] = "deactivating"
        /\ Closing(a) = {held[a]} /\ Closing(a)' = {}
    BY <1>0, <1>4 DEF ClearEnds, Control, Goto, TaskTypeOK, Others, Closing
  <2>2. conn' = [conn EXCEPT ![held[a]] = "closed"]
    BY <1>4 DEF ClearEnds, CloseEnds
  <2> QED BY <1>0, <1>4, <2>1, <2>2, CloseMoves DEF ClearEnds, LinkTypeOK
<1>5. CASE RemoveRaises(a)
  <2>1. Others(a) /\ pc[a] = "closing" /\ pc'[a] = "raised" /\ Closing(a)' = {}
        /\ Closing(a) = Abandoned(a)'
    BY <1>0, <1>5 DEF RemoveRaises, Others, Goto, TaskTypeOK, Closing, Abandoned
  <2> QED BY <1>0, <1>5, <2>1, CloseMoves DEF RemoveRaises, registry, link
<1> QED BY <1>0, <1>1, <1>2, <1>3, <1>4, <1>5, DeactivateMoves DEF DisconnectAll

(* CommandService.execute.                                                 *)
LEMMA ExecuteMoves ==
  ASSUME Kept, NEW e \in Executors, Execute(e)
  PROVE  Moves
<1>0. e \notin Sessions /\ e \in Removers /\ e \in Closers /\ e \in Tasks /\ e \notin Clearers
      /\ TypeOK /\ Control /\ RegistryTypeOK /\ LinkTypeOK /\ TaskTypeOK
  BY TypeParts, Sorts DEF Kept
<1>1. ASSUME ExecuteRefused(e) PROVE Moves
  <2>1. Forgotten
    BY <1>0, <1>1, GetFailsForgets DEF ExecuteRefused
  <2>2. /\ Others(e) /\ pc[e] \notin {"closing", "raised"} /\ conn' = conn
        /\ pc'[e] \notin {"closing", "deactivating", "executing"}
        /\ e \in Clearers => pc'[e] # "idle"
        /\ e \in Sessions /\ pc'[e] \in Early => pc[e] \in Early
        /\ \A s \in Sessions : RowOf(e, s)
        /\ \A u \in Tasks \ {e} : name'[u] = name[u]
        /\ e \in Sessions /\ conn[e] # "none" => name'[e] = name[e]
    BY <1>0, <1>1 DEF ExecuteRefused, Goto, Others, RowOf, link, Early, TaskTypeOK, LinkTypeOK
  <2> QED BY <1>0, <2>1, <2>2, QuietMoves
<1>2. ASSUME ExecuteEnds(e) PROVE Moves
  <2>1. Forgotten
    BY <1>0, <1>2 DEF ExecuteEnds, registry, Forgotten
  <2>2. /\ Others(e) /\ pc[e] \notin {"closing", "raised"} /\ conn' = conn
        /\ pc'[e] \notin {"closing", "deactivating", "executing"}
        /\ e \in Clearers => pc'[e] # "idle"
        /\ e \in Sessions /\ pc'[e] \in Early => pc[e] \in Early
        /\ \A s \in Sessions : RowOf(e, s)
        /\ \A u \in Tasks \ {e} : name'[u] = name[u]
        /\ e \in Sessions /\ conn[e] # "none" => name'[e] = name[e]
    BY <1>0, <1>2 DEF ExecuteEnds, Goto, Others, RowOf, link, Early, TaskTypeOK, LinkTypeOK
  <2> QED BY <1>0, <2>1, <2>2, QuietMoves
<1>3. CASE ExecuteStart(e)
  <2>1. Forgotten
    BY <1>3 DEF ExecuteStart, registry, Forgotten
  <2>2. /\ Others(e) /\ pc[e] = "idle" /\ pc'[e] = "executing" /\ conn' = conn /\ row' = row
        /\ name'[e] = active /\ held'[e] = reg[active] /\ reg' = reg
        /\ \A u \in Tasks \ {e} : name'[u] = name[u]
    BY <1>0, <1>3 DEF ExecuteStart, Goto, Others, TaskTypeOK, link, registry
  <2>3. active \in Names /\ reg[active] # None
    BY <1>0, <1>3, ListedNames, Sorts DEF ExecuteStart
  <2>4. ClosingMoves
    BY <1>0, <2>1, <2>2, QuietClosing
  <2>5. RegistryMoves /\ RowMoves
    BY <1>0, <2>2, Sorts DEF RegistryMoves, RowMoves, Others
  <2>6. CallMoves
    BY <1>0, <2>2, <2>3, Sorts DEF CallMoves, Others
  <2> QED BY <2>4, <2>5, <2>6 DEF Moves
<1>4. CASE ExecuteLost(e)
  <2>1. name[e] \in Listed /\ pc[e] = "executing" /\ \A s \in Sessions : RowOf(e, s)
    BY <1>4 DEF ExecuteLost, RowOf
  <2>2. /\ reg' = Without({} \cup {name[e]}) /\ name' = [name EXCEPT ![e] = name[e]]
        /\ held' = [held EXCEPT ![e] = reg[name[e]]] /\ pc' = [pc EXCEPT ![e] = "closing"]
        /\ CloseBegins(reg[name[e]]) /\ cleared' = cleared /\ {} \cap Alive = {}
    BY <1>4 DEF ExecuteLost, RemoveBegins, Popped, Goto
  <2> QED BY <1>0, <2>1, <2>2, RemovalMoves
<1>5. CASE ExecuteLostUnlisted(e)
  <2>1. Forgotten
    BY <1>5 DEF ExecuteLostUnlisted, Forgotten
  <2>2. /\ Others(e) /\ pc[e] = "executing" /\ pc'[e] = "deactivating" /\ conn' = conn
        /\ row' = row /\ name' = name /\ reg' = reg
    BY <1>0, <1>5 DEF ExecuteLostUnlisted, Goto, Others, TaskTypeOK, link
  <2>3. reg[name[e]] = None
    BY <1>0, <1>5 DEF ExecuteLostUnlisted, Listed, Control
  <2>4. ClosingMoves
    BY <1>0, <2>1, <2>2, QuietClosing
  <2>5. RegistryMoves /\ RowMoves
    BY <1>0, <2>2, Sorts DEF RegistryMoves, RowMoves, Others
  <2>6. CallMoves
    BY <1>0, <2>2, <2>3, Sorts DEF CallMoves, Others
  <2> QED BY <2>4, <2>5, <2>6 DEF Moves
<1> QED BY <1>0, <1>1, <1>2, <1>3, <1>4, <1>5, RemoveMoves, DeactivateMoves DEF Execute

(* The watchdog, up to its next await.                                     *)
LEMMA CleanupMoves ==
  ASSUME Kept, NEW names \in SUBSET Names, Cleanup(names), UNCHANGED cleared,
         pc[Watchdog] \in {"idle", "deactivating"}, \A s \in Sessions : RowOf(Watchdog, s)
  PROVE  Moves
<1>0. Watchdog \in Removers /\ Watchdog \in Tasks /\ Watchdog \notin Clearers
      /\ Watchdog \notin Sessions /\ RegistryTypeOK /\ TaskTypeOK
  BY Sorts, TypeParts DEF Kept
<1>1. CASE CleanupOver(names)
  <2>1. Forgotten
    BY <1>0, <1>1, GetForgets DEF CleanupOver, Forget, Found
  <2>2. Others(Watchdog) /\ pc'[Watchdog] = "idle" /\ conn' = conn /\ name' = name
    BY <1>0, <1>1 DEF CleanupOver, Goto, Others, TaskTypeOK
  <2> QED BY <1>0, <2>1, <2>2, QuietMoves
<1>2. ASSUME NEW gone \in SUBSET {n \in names : ~Found(n)}, CleanupNext(names, gone) PROVE Moves
  <2>1. PICK n \in {m \in names : Found(m)} :
          /\ reg' = Without(gone \cup {n})
          /\ name' = [name EXCEPT ![Watchdog] = n] /\ held' = [held EXCEPT ![Watchdog] = reg[n]]
          /\ CloseBegins(reg[n])
          /\ pc' = [pc EXCEPT ![Watchdog] = "closing"]
    BY <1>2 DEF CleanupNext, Goto
  <2>2. n \in Listed /\ gone \cap Alive = {}
    BY <1>0, ListedNames DEF Found
  <2> QED BY <1>0, <2>1, <2>2, RemovalMoves
<1> QED BY <1>1, <1>2 DEF Cleanup

LEMMA WatchdogMoves ==
  ASSUME Kept, TimeoutWatchdog
  PROVE  Moves
<1>0. Watchdog \in Removers /\ Watchdog \in Closers /\ RegistryTypeOK /\ LinkTypeOK /\ TaskTypeOK
  BY Sorts, TypeParts DEF Kept
<1>1. CASE WatchdogWakes
  <2>1. TimedOut \in SUBSET Names /\ \A s \in Sessions : RowOf(Watchdog, s)
    BY <1>0, <1>1, ListedNames DEF TimedOut, WatchdogWakes, RowOf
  <2> QED BY <1>1, <2>1, CleanupMoves DEF WatchdogWakes
<1>2. CASE WatchdogGoesOn
  <2>1. listed \in SUBSET Names /\ \A s \in Sessions : RowOf(Watchdog, s)
    BY <1>0, <1>2 DEF TaskTypeOK, WatchdogGoesOn, Deactivated, RowOf, LinkTypeOK
  <2> QED BY <1>2, <2>1, CleanupMoves DEF WatchdogGoesOn
<1>3. CASE DeactivateRaises(Watchdog)
  BY <1>0, <1>3, DeactivateMoves DEF Deactivate
<1> QED BY <1>0, <1>1, <1>2, <1>3, RemoveMoves DEF TimeoutWatchdog

(* The calls that never suspend, and what happens elsewhere.               *)
LEMMA OtherMoves ==
  ASSUME Kept, Status \/ (\E n \in Names : Switch(n)) \/ (\E s \in Sessions : Elsewhere(s))
                 \/ UNCHANGED vars
  PROVE  Moves
<1>0. RegistryTypeOK /\ LinkTypeOK
  BY TypeParts DEF Kept
<1>1. CASE Status
  <2>1. Forgotten
    BY <1>0, <1>1, GetAllForgets DEF Status, GetAll
  <2> QED BY <1>1, <2>1, StillMoves DEF Status, link
<1>2. ASSUME NEW n \in Names, Switch(n) PROVE Moves
  <2>1. Forgotten
    BY <1>0, <1>2, GetAllForgets DEF Switch
  <2> QED BY <1>2, <2>1, StillMoves DEF Switch, link
<1>3. ASSUME NEW s \in Sessions, Elsewhere(s) PROVE Moves
  <2>1. Forgotten
    BY <1>3 DEF Elsewhere, TimePasses, Activity, ShellDies, ConnectionLost, registry, Forgotten
  <2>2. UNCHANGED <<pc, held, cleared, name, row>>
    BY <1>3 DEF Elsewhere, TimePasses, Activity, ShellDies, ConnectionLost
  <2>3. \A u \in Sessions : conn'[u] = conn[u] \/ (conn[u] = "up" /\ conn'[u] = "lost")
    <3>1. CASE TimePasses(s) \/ Activity(s) \/ ShellDies(s)
      BY <3>1 DEF TimePasses, Activity, ShellDies, link
    <3>2. CASE ConnectionLost(s)
      BY <1>0, <3>2 DEF ConnectionLost, Connected, LinkTypeOK
    <3> QED BY <1>3, <3>1, <3>2 DEF Elsewhere
  <2> QED BY <2>1, <2>2, <2>3, StillMoves
<1>4. CASE UNCHANGED vars
  BY <1>4, StillMoves DEF vars, registry, link, Forgotten
<1> QED BY <1>1, <1>2, <1>3, <1>4

(* What was stored over remains so.                                        *)
LEMMA StoredOverStays ==
  ASSUME [Next]_vars
  PROVE  storedOver \subseteq storedOver'
<1>1. ASSUME NEW c \in Wizards, Connect(c) PROVE storedOver \subseteq storedOver'
  BY <1>1
     DEF Connect, ConnectRefused, ConnectStart, ConnectFails, ConnectStored, SaveFails, ConnectSaved
<1>2. ASSUME NEW q \in Quicks, QuickConnect(q) PROVE storedOver \subseteq storedOver'
  BY <1>2
     DEF QuickConnect, QuickStart, QuickNamed, ConnectFails, ConnectStored, SaveFails, QuickOpens,
         QuickNoShell, QuickOpened
<1>3. ASSUME NEW d \in Disconnectors, DisconnectCall(d) PROVE storedOver \subseteq storedOver'
  BY <1>3 DEF DisconnectCall, DisconnectNothing, Disconnect, Remove, RemoveEnds, RemoveRaises,
              Deactivate, DeactivateEnds, DeactivateRaises
<1>4. ASSUME NEW a \in Clearers, DisconnectAll(a) PROVE storedOver \subseteq storedOver'
  BY <1>4 DEF DisconnectAll, ClearNothing, ClearStart, ClearGoesOn, ClearEnds, RemoveRaises,
              Deactivate, DeactivateEnds, DeactivateRaises
<1>5. ASSUME NEW e \in Executors, Execute(e) PROVE storedOver \subseteq storedOver'
  BY <1>5 DEF Execute, ExecuteRefused, ExecuteStart, ExecuteEnds, ExecuteLost, ExecuteLostUnlisted,
              Remove, RemoveEnds, RemoveRaises, Deactivate, DeactivateEnds, DeactivateRaises
<1>6. CASE TimeoutWatchdog
  BY <1>6 DEF TimeoutWatchdog, WatchdogWakes, WatchdogGoesOn, Remove, RemoveEnds, RemoveRaises,
              DeactivateRaises
<1>7. CASE Status \/ (\E n \in Names : Switch(n)) \/ (\E s \in Sessions : Elsewhere(s)) \/ UNCHANGED vars
  BY <1>7 DEF Status, Switch, Elsewhere, TimePasses, Activity, ShellDies, ConnectionLost, vars
<1> QED BY <1>1, <1>2, <1>3, <1>4, <1>5, <1>6, <1>7 DEF Next

LEMMA InvStep == IndInv /\ [Next]_vars => IndInv'
<1> SUFFICES ASSUME IndInv, [Next]_vars PROVE IndInv'
  OBVIOUS
<1>1. TypeOK' /\ Control' /\ Kept
  BY TypeStep DEF IndInv, Kept
<1>2. ASSUME NEW c \in Sessions, ConnectStored(c) PROVE IndInv'
  BY <1>1, <1>2, StoredStep
<1>3. CASE Moves
  BY <1>1, <1>3, InvMoves, StoredOverStays
<1>4. ASSUME NEW c \in Wizards, Connect(c) PROVE IndInv'
  BY <1>1, <1>2, <1>3, <1>4, ConnectMoves, Sorts
<1>5. ASSUME NEW q \in Quicks, QuickConnect(q) PROVE IndInv'
  BY <1>1, <1>2, <1>3, <1>5, QuickConnectMoves, Sorts
<1> QED BY <1>1, <1>3, <1>4, <1>5, DisconnectMoves, DisconnectAllMoves, ExecuteMoves,
           WatchdogMoves, OtherMoves DEF Next

-----------------------------------------------------------------------------
(* What holds in every state.                                              *)

LEMMA InitInv == Init => IndInv
<1> SUFFICES ASSUME Init PROVE IndInv
  OBVIOUS
<1>1. TypeOK /\ Control
  BY InitTypes
<1>2. \A t \in Tasks : pc[t] = "idle"
  BY DEF Init
<1>3. \A t \in Closers : Closing(t) = {}
  BY <1>2, Sorts DEF Closing
<1>4. Unconnected /\ TookOut /\ LiveRows
  BY <1>2, <1>3, Sorts DEF Init, Unconnected, TookOut, LiveRows
<1>5. SingleOwner /\ NoOtherLeak
  BY <1>3 DEF Init, SingleOwner, NoOtherLeak, Connected
<1> QED BY <1>1, <1>4, <1>5 DEF IndInv, Kept

(* The types, where every call stands, and how the registry, the           *)
(* connections, the calls that disconnect and the documents agree.         *)
THEOREM IndInvHolds == Spec => []IndInv
BY InitInv, InvStep, PTL DEF Spec

(* Every variable keeps its type.                                          *)
THEOREM TypeOKHolds == Spec => []TypeOK
BY IndInvHolds, PTL DEF IndInv, Kept

(* However calls overlap, a session is disconnected by one call only, and  *)
(* the registry has forgotten it by then (remove, remove_all).             *)
THEOREM SingleOwnerHolds == Spec => []SingleOwner
BY IndInvHolds, PTL DEF IndInv, Kept

(* A connected session that no call works on is in the registry, but for   *)
(* one that was listed when another session was stored under its name, or  *)
(* whose disconnection raised.                                             *)
THEOREM NoOtherLeakHolds == Spec => []NoOtherLeak
BY IndInvHolds, PTL DEF IndInv, Kept

(* The document of a connected session of the registry is deactivated only *)
(* for another session of its name, or by a /disconnect all.               *)
THEOREM LiveRowsHolds == Spec => []LiveRows
BY IndInvHolds, PTL DEF IndInv, Kept

-----------------------------------------------------------------------------
(* Lifecycle: a shutdown that returns has closed what was connected,       *)
(* whatever it meets in the middle of disconnecting.                       *)

(* What close_all has taken out and not closed yet, and why a session may  *)
(* stay open.                                                              *)
Going      == left \cup {s \in {closing} : bot = "closing"}
CutOff(s)  == pc[Watchdog] = "ended" /\ s = held[Watchdog]
Excused(s) == Overwritten(s) \/ CutOff(s) \/ \E t \in Closers : s \in Abandoned(t)
InHand(s)  == \E t \in Closers : s \in Closing(t)

(* What each stage of on_shutdown implies.                                 *)
Stages ==
  /\ left \in SUBSET Sessions /\ known \in SUBSET Sessions
  /\ bot = "closing" => closing \in Sessions
  /\ bot \in {"running", "waiting", "done"} => left = {}
  /\ bot \in {"closing", "done"} => pc[Watchdog] = "ended"
  /\ \A s \in Going \cup known : conn[s] # "none"

(* Before close_all a connected session is in the registry, afterwards it  *)
(* is still to be closed; or it has an excuse.                             *)
NoneForgotten ==
  /\ bot \in {"running", "waiting"} =>
       \A s \in Sessions : Connected(s) => Reachable(s) \/ Excused(s)
  /\ bot \in {"closing", "done"} =>
       \A s \in known : Connected(s) => s \in Going \/ InHand(s) \/ Excused(s)

BotInv == Kept /\ Stages /\ NoneForgotten

-----------------------------------------------------------------------------
(* The calls that go on.                                                   *)

(* A watchdog that was cancelled does nothing any more.                    *)
LEMMA WatchdogStays ==
  ASSUME TypeOK, [Next]_vars, pc[Watchdog] = "ended"
  PROVE  pc'[Watchdog] = "ended" /\ held'[Watchdog] = held[Watchdog]
<1>0. TaskTypeOK /\ Watchdog \in Tasks
  BY TypeParts, Sorts
<1>2. ASSUME NEW c \in Wizards, Connect(c) PROVE pc'[Watchdog] = "ended" /\ held'[Watchdog] = held[Watchdog]
  BY <1>0, <1>2, Sorts
     DEF Connect, ConnectRefused, ConnectStart, ConnectFails, ConnectStored, SaveFails, ConnectSaved,
         Goto, TaskTypeOK
<1>3. ASSUME NEW q \in Quicks, QuickConnect(q)
      PROVE pc'[Watchdog] = "ended" /\ held'[Watchdog] = held[Watchdog]
  BY <1>0, <1>3, Sorts
     DEF QuickConnect, QuickStart, QuickNamed, ConnectFails, ConnectStored, SaveFails, QuickOpens,
         QuickNoShell, QuickOpened, Goto, TaskTypeOK
<1>4. ASSUME NEW d \in Disconnectors, DisconnectCall(d)
      PROVE pc'[Watchdog] = "ended" /\ held'[Watchdog] = held[Watchdog]
  <2>1. d # Watchdog
    BY TasksAssumption
  <2> QED
    BY <1>0, <1>4, <2>1
       DEF DisconnectCall, DisconnectNothing, Disconnect, RemoveBegins, Remove, RemoveEnds, RemoveRaises,
           Deactivate, DeactivateEnds, DeactivateRaises, Goto, TaskTypeOK
<1>5. ASSUME NEW a \in Clearers, DisconnectAll(a)
      PROVE pc'[Watchdog] = "ended" /\ held'[Watchdog] = held[Watchdog]
  <2>1. a # Watchdog
    BY TasksAssumption
  <2> QED
    BY <1>0, <1>5, <2>1
       DEF DisconnectAll, ClearNothing, ClearStart, ClearGoesOn, ClearNext, ClearEnds, RemoveRaises,
           Deactivate, DeactivateEnds, DeactivateRaises, Goto, TaskTypeOK
<1>6. ASSUME NEW e \in Executors, Execute(e)
      PROVE pc'[Watchdog] = "ended" /\ held'[Watchdog] = held[Watchdog]
  BY <1>0, <1>6, Sorts
     DEF Execute, ExecuteRefused, ExecuteStart, ExecuteEnds, ExecuteLost, ExecuteLostUnlisted,
         RemoveBegins, Remove, RemoveEnds, RemoveRaises,
         Deactivate, DeactivateEnds, DeactivateRaises, Goto, TaskTypeOK
<1>7. ~TimeoutWatchdog
  BY DEF TimeoutWatchdog, WatchdogWakes, WatchdogGoesOn, Remove, RemoveEnds, RemoveRaises, DeactivateRaises
<1>8. CASE Status \/ (\E n \in Names : Switch(n)) \/ (\E s \in Sessions : Elsewhere(s)) \/ UNCHANGED vars
  BY <1>8 DEF Status, Switch, Elsewhere, TimePasses, Activity, ShellDies, ConnectionLost, vars
<1> QED BY <1>2, <1>3, <1>4, <1>5, <1>6, <1>7, <1>8 DEF Next

(* A step of the calls keeps what they rely on, and loses sight of no      *)
(* session.                                                                *)
LEMMA CallsKeep ==
  ASSUME Kept, [Next]_vars
  PROVE  /\ Kept'
         /\ \/ Moves
            \/ \E c \in Sessions : ConnectStored(c)
<1>1. TypeOK' /\ Control'
  BY TypeStep DEF Kept
<1>2. Moves \/ \E c \in Sessions : ConnectStored(c)
  BY ConnectMoves, QuickConnectMoves, DisconnectMoves, DisconnectAllMoves, ExecuteMoves,
     WatchdogMoves, OtherMoves, Sorts DEF Next
<1> QED BY <1>1, <1>2, KeptMoves, StoredKeeps

(* What is connected afterwards was, and is as well looked after.          *)
LEMMA CallsLose ==
  ASSUME Kept, [Next]_vars, NEW s \in Sessions, conn[s] # "none", conn'[s] = "up"
  PROVE  /\ conn[s] = "up"
         /\ Reachable(s) \/ Excused(s) => Reachable(s)' \/ Excused(s)'
         /\ InHand(s) \/ Excused(s) => InHand(s)' \/ Excused(s)'
<1>1. CutOff(s) => CutOff(s)'
  BY WatchdogStays DEF CutOff, Kept
<1>2. CASE Moves
  <2>1. conn[s] = "up"
    BY <1>2 DEF Moves, RegistryMoves
  <2>2. Tracked(s) => Tracked(s)'
    BY <1>2, TrackedMoves, StoredOverStays DEF Moves
  <2>3. Overwritten(s) => Overwritten(s)'
    BY StoredOverStays DEF Overwritten
  <2>4. InHand(s) \/ (\E t \in Closers : s \in Abandoned(t)) =>
          InHand(s)' \/ \E t \in Closers : s \in Abandoned(t)'
    BY <1>2 DEF Moves, ClosingMoves, InHand
  <2> QED BY <1>1, <2>1, <2>2, <2>3, <2>4 DEF Excused, Tracked
<1>3. ASSUME NEW c \in Sessions, ConnectStored(c)
      PROVE  /\ conn[s] = "up"
             /\ Reachable(s) \/ Excused(s) => Reachable(s)' \/ Excused(s)'
             /\ InHand(s) \/ Excused(s) => InHand(s)' \/ Excused(s)'
  <2>1. s # c /\ conn[s] = "up"
    BY <1>3, StoredIs
  <2>2. (Overwritten(s) => Overwritten(s)') /\ (Tracked(s) => Tracked(s)')
    BY <1>3, <2>1, StoredTracked
  <2>3. \A t \in Closers : Closing(t)' = Closing(t) /\ Abandoned(t)' = Abandoned(t)
    BY <1>3, StoredIs
  <2> QED BY <1>1, <2>1, <2>2, <2>3 DEF Excused, Tracked, InHand
<1> QED BY <1>2, <1>3, CallsKeep

(* So the calls that go on keep the invariant in every stage.              *)
LEMMA CallsGoOnKeeps ==
  ASSUME BotInv, CallsGoOn \/ UNCHANGED botVars
  PROVE  BotInv'
<1>1. Kept /\ [Next]_vars /\ UNCHANGED shutdown
  BY DEF BotInv, CallsGoOn, botVars
<1>2. Kept'
  BY <1>1, CallsKeep
<1>3. ASSUME NEW s \in Sessions, conn[s] # "none" PROVE conn'[s] # "none"
  <2>1. CASE Moves
    BY <1>3, <2>1 DEF Moves, RegistryMoves
  <2>2. ASSUME NEW c \in Sessions, ConnectStored(c) PROVE conn'[s] # "none"
    BY <1>1, <1>3, <2>2, StoredIs
  <2> QED BY <1>1, <2>1, <2>2, CallsKeep
<1>4. Going' = Going /\ Going \subseteq Sessions /\ known' = known /\ bot' = bot
  BY <1>1 DEF shutdown, Going, BotInv, Stages
<1>5. Stages'
  <2>1. pc[Watchdog] = "ended" => pc'[Watchdog] = "ended"
    BY <1>1, WatchdogStays DEF Kept
  <2>2. \A s \in (Going \cup known)' : conn'[s] # "none"
    BY <1>3, <1>4 DEF BotInv, Stages
  <2> QED BY <1>1, <2>1, <2>2 DEF shutdown, BotInv, Stages
<1>6. CASE bot \in {"running", "waiting"}
  <2>1. ASSUME NEW s \in Sessions, conn'[s] = "up" PROVE Reachable(s)' \/ Excused(s)'
    <3>1. CASE conn[s] = "none"
      <4>1. PICK c \in Sessions : ConnectStored(c)
        BY <1>1, <2>1, <3>1, CallsKeep DEF Moves, RegistryMoves
      <4>2. s = c
        BY <1>1, <2>1, <3>1, <4>1, StoredIs
      <4> QED BY <1>1, <4>1, <4>2, StoredIs DEF Reachable
    <3>2. CASE conn[s] # "none"
      BY <1>1, <1>6, <2>1, <3>2, CallsLose DEF BotInv, NoneForgotten, Connected
    <3> QED BY <3>1, <3>2
  <2> QED BY <1>2, <1>4, <1>5, <1>6, <2>1 DEF BotInv, NoneForgotten, Connected
<1>7. CASE bot \in {"closing", "done"}
  <2>1. ASSUME NEW s \in known, conn'[s] = "up" PROVE s \in Going' \/ InHand(s)' \/ Excused(s)'
    <3>1. s \in Sessions /\ conn[s] # "none"
      BY DEF BotInv, Stages
    <3> QED BY <1>1, <1>4, <1>7, <2>1, <3>1, CallsLose DEF BotInv, NoneForgotten, Connected
  <2> QED BY <1>2, <1>4, <1>5, <1>7, <2>1 DEF BotInv, NoneForgotten, Connected
<1> QED BY <1>2, <1>4, <1>5, <1>6, <1>7 DEF BotInv, NoneForgotten

-----------------------------------------------------------------------------
(* on_shutdown.                                                            *)

(* It takes names out of the registry, closes connections and ends the     *)
(* watchdog: what the calls rely on stays so.                              *)
LEMMA ShutdownKeeps ==
  ASSUME Kept, TypeOK', UNCHANGED <<name, held, cleared>>,
         pc' = pc \/ pc' = [pc EXCEPT ![Watchdog] = "ended"],
         \A n \in Names : reg'[n] \in {reg[n], None},
         \A s \in Sessions : /\ conn'[s] = "none" <=> conn[s] = "none"
                             /\ row[s] = "none" => row'[s] = "none"
  PROVE  Kept'
<1>1. /\ \A t \in Tasks : pc'[t] = pc[t] \/ (t = Watchdog /\ pc'[t] = "ended")
      /\ Watchdog \notin Sessions
  BY Sorts DEF Kept, TypeOK
<1>2. \A t \in Closers : Closing(t)' \subseteq Closing(t)
  BY <1>1, Sorts DEF Closing
<1>3. Control'
  BY <1>1, Sorts DEF Kept, Control
<1>4. Unconnected'
  <2>1. ASSUME NEW c \in Sessions
        PROVE  /\ pc'[c] \in {"idle", "lookup", "connecting"} => conn'[c] = "none" /\ row'[c] = "none"
               /\ conn'[c] = "none" => \A t \in Closers : c \notin Closing(t)'
    BY <1>1, <1>2, Sorts DEF Kept, Unconnected
  <2>2. ASSUME NEW n \in Names, reg'[n] # None
        PROVE  conn'[reg'[n]] # "none" /\ name'[reg'[n]] = n
    <3>1. reg'[n] = reg[n] /\ reg[n] \in Sessions
      BY <2>2 DEF Kept, TypeOK, Ref
    <3> QED BY <2>2, <3>1 DEF Kept, Unconnected
  <2> QED BY <2>1, <2>2 DEF Unconnected
<1>5. SingleOwner'
  <2>1. \A t, u \in Closers : t # u => Closing(t)' \cap Closing(u)' = {}
    BY <1>2 DEF Kept, SingleOwner
  <2>2. \A t \in Closers, n \in Names : reg'[n] \notin Closing(t)'
    <3>1. \A t \in Closers : None \notin Closing(t)
      BY Sorts DEF Closing
    <3> QED BY <1>2, <3>1 DEF Kept, SingleOwner
  <2>3. \A n, m \in Names : reg'[n] # None /\ reg'[n] = reg'[m] => n = m
    BY DEF Kept, SingleOwner
  <2> QED BY <2>1, <2>2, <2>3 DEF SingleOwner
<1>6. TookOut'
  <2>1. ASSUME NEW t \in Removers, pc'[t] \in {"closing", "deactivating"}
        PROVE  \E u \in Sessions : name[u] = name[t] /\ conn'[u] # "none" /\ reg'[name[t]] # u
    <3>1. pc[t] \in {"closing", "deactivating"} /\ name[t] \in Names
      BY <1>1, <2>1, Sorts DEF Kept, Control
    <3>2. PICK u \in Sessions : name[u] = name[t] /\ conn[u] # "none" /\ reg[name[t]] # u
      BY <3>1 DEF Kept, TookOut
    <3> QED BY <3>1, <3>2, Sorts
  <2>2. ASSUME NEW e \in Executors, pc'[e] = "executing"
        PROVE  name[held[e]] = name[e] /\ conn'[held[e]] # "none"
    <3>1. pc[e] = "executing" /\ held[e] \in Sessions
      BY <1>1, <2>2, Sorts DEF Kept, Control
    <3> QED BY <3>1 DEF Kept, TookOut
  <2> QED BY <2>1, <2>2 DEF TookOut
<1> QED BY <1>3, <1>4, <1>5, <1>6 DEF Kept

(* The watchdog is cancelled wherever it is.                               *)
LEMMA ShutdownBeginsKeeps ==
  ASSUME BotInv, ShutdownBegins
  PROVE  BotInv'
<1>0. /\ Kept /\ LinkTypeOK /\ TaskTypeOK /\ Watchdog \in Removers /\ Watchdog \in Closers
      /\ Watchdog \in Tasks /\ Watchdog \notin Clearers
  BY TypeParts, Sorts DEF BotInv, Kept
<1>1. UNCHANGED <<registry, idle, name, held, cleared, listed, storedOver, closing, left, known>>
      /\ bot = "running" /\ bot' = "waiting"
  BY DEF ShutdownBegins
<1>2. pc[Watchdog] = "closing" => held[Watchdog] \in Sessions /\ conn[held[Watchdog]] # "none"
  BY <1>0 DEF Kept, Control, Unconnected, Closing
<1>3. /\ pc' = pc \/ pc' = [pc EXCEPT ![Watchdog] = "ended"]
      /\ \/ conn' = conn /\ shell' = shell
         \/ /\ held[Watchdog] \in Sessions /\ conn[held[Watchdog]] # "none"
            /\ conn' = [conn EXCEPT ![held[Watchdog]] = "closed"]
            /\ shell' = [shell EXCEPT ![held[Watchdog]] = "none"]
      /\ row' \in [Sessions -> {"none", "active", "inactive"}]
      /\ \A s \in Sessions : row[s] = "none" => row'[s] = "none"
  <2>1. CASE SleepEnds
    BY <1>0, <2>1 DEF SleepEnds, Goto, link, LinkTypeOK
  <2>2. CASE DeactivatingEnds
    BY <1>0, <2>2 DEF DeactivatingEnds, Deactivated, Goto, link, LinkTypeOK
  <2>3. CASE JoinSwallows
    BY <1>0, <2>3 DEF JoinSwallows, link, LinkTypeOK
  <2>4. CASE DisconnectionEnds
    BY <1>0, <1>2, <2>4 DEF DisconnectionEnds, CloseEnds, Goto, link, LinkTypeOK
  <2> QED BY <2>1, <2>2, <2>3, <2>4 DEF ShutdownBegins, Cancelled
<1>4. /\ \A s \in Sessions : conn'[s] = "none" <=> conn[s] = "none"
      /\ \A s \in Sessions : conn'[s] = "up" => conn[s] = "up"
  BY <1>0, <1>3 DEF LinkTypeOK
<1>5. TypeOK'
  <2>1. pc' \in [Tasks -> {"idle", "lookup", "connecting", "saving", "opening", "executing",
                           "closing", "deactivating", "done", "failed", "raised", "ended"}]
    BY <1>0, <1>3 DEF TaskTypeOK
  <2>2. conn' \in [Sessions -> {"none", "up", "lost", "closed"}]
        /\ shell' \in [Sessions -> {"none", "open", "dead"}]
    BY <1>0, <1>3 DEF LinkTypeOK
  <2> QED BY <1>0, <1>1, <1>3, <2>1, <2>2 DEF registry, Kept, TypeOK
<1>6. Kept'
  BY <1>0, <1>1, <1>3, <1>4, <1>5, ShutdownKeeps DEF registry
<1>7. Stages'
  BY <1>1, <1>4 DEF BotInv, Stages, Going
<1>8. ASSUME NEW s \in Sessions, conn'[s] = "up" PROVE Reachable(s)' \/ Excused(s)'
  <2>1. Reachable(s) \/ Excused(s)
    BY <1>1, <1>4, <1>8 DEF BotInv, NoneForgotten, Connected
  <2>2. \A t \in Closers \ {Watchdog} : Closing(t)' = Closing(t) /\ Abandoned(t)' = Abandoned(t)
    BY <1>0, <1>1, <1>3, Sorts DEF TaskTypeOK, Closing, Abandoned
  <2>3. s \in Closing(Watchdog) => s \in Closing(Watchdog)' \/ CutOff(s)'
    BY <1>0, <1>1, <1>3, Sorts DEF TaskTypeOK, Closing, CutOff
  <2>4. Abandoned(Watchdog) = {}
    BY DEF ShutdownBegins, Abandoned
  <2>5. CutOff(s) => CutOff(s)'
    BY <1>0, <1>1, <1>3 DEF TaskTypeOK, CutOff
  <2>6. Overwritten(s) => Overwritten(s)'
    BY <1>1, <1>4 DEF Overwritten
  <2>7. (\E n \in Names : reg[n] = s) => Reachable(s)'
    BY <1>1 DEF registry, Reachable
  <2> QED BY <1>0, <2>1, <2>2, <2>3, <2>4, <2>5, <2>6, <2>7 DEF Reachable, Excused
<1> QED BY <1>1, <1>6, <1>7, <1>8 DEF BotInv, NoneForgotten, Connected

(* close_all takes the sessions out of the registry: whoever was there is  *)
(* now to be closed.                                                       *)
LEMMA TakesKeeps ==
  ASSUME BotInv, NEW sessions \in SUBSET Sessions, Takes(sessions), active' \in Ref(Names),
         UNCHANGED <<shell, idle, row, pc, name, held, cleared, listed, storedOver>>,
         \A s \in Sessions : conn'[s] \in {conn[s]} \cup {c \in {"closed"} : conn[s] # "none"},
         conn' \in [Sessions -> {"none", "up", "lost", "closed"}],
         Going' = sessions, left' \subseteq sessions,
         \/ bot' = "closing" /\ closing' \in sessions
         \/ bot' = "done" /\ sessions = {}
  PROVE  BotInv'
<1>0. Kept /\ RegistryTypeOK /\ LinkTypeOK
  BY TypeParts DEF BotInv, Kept
<1>1. /\ bot = "waiting" /\ pc[Watchdog] = "ended" /\ sessions = {reg[n] : n \in Listed}
      /\ reg' = Without(Names) /\ Replaced(Listed) /\ known' = {s \in Sessions : conn[s] # "none"}
  BY DEF Takes
<1>2. TypeOK'
  <2>1. reg' \in [Names -> Ref(Sessions)] /\ snap' \in [Removers -> Ref(SUBSET Names)]
    BY <1>0, <1>1, WithoutTypes, ReplacedTypes, ListedNames
  <2> QED BY <1>0, <2>1 DEF Kept, TypeOK
<1>3. \A n \in Names : reg'[n] = None
  BY <1>1 DEF Without
<1>4. \A s \in Sessions : /\ conn'[s] = "none" <=> conn[s] = "none"
                          /\ conn'[s] = "up" => conn[s] = "up"
  BY <1>0 DEF LinkTypeOK
<1>5. Kept'
  BY <1>0, <1>2, <1>3, <1>4, ShutdownKeeps
<1>6. \A s \in sessions : conn[s] # "none"
  BY <1>0, <1>1 DEF Kept, Unconnected, Listed
<1>7. Stages'
  BY <1>1, <1>4, <1>6 DEF Stages
<1>8. ASSUME NEW s \in Sessions, conn'[s] = "up" PROVE s \in Going' \/ InHand(s)' \/ Excused(s)'
  <2>1. Reachable(s) \/ Excused(s)
    BY <1>1, <1>4, <1>8 DEF BotInv, NoneForgotten, Connected
  <2>2. \A t \in Closers : Closing(t)' = Closing(t) /\ Abandoned(t)' = Abandoned(t)
    BY DEF Closing, Abandoned
  <2>3. Excused(s) => Excused(s)'
    BY <1>4, <2>2 DEF Excused, Overwritten, CutOff
  <2>4. ASSUME NEW n \in Names, reg[n] = s PROVE s \in Going'
    BY <1>1, <2>4, Sorts DEF Listed
  <2> QED BY <2>1, <2>2, <2>3, <2>4 DEF Reachable, InHand
<1> QED BY <1>1, <1>5, <1>7, <1>8 DEF BotInv, NoneForgotten, Connected

LEMMA CloseAllStarts ==
  ASSUME BotInv, CloseAllNothing \/ \E s \in Sessions : CloseAllStart(s)
  PROVE  BotInv'
<1>0. RegistryTypeOK /\ LinkTypeOK
  BY TypeParts DEF BotInv, Kept
<1>1. CASE CloseAllNothing
  <2>1. /\ Takes({}) /\ active' = None /\ bot' = "done" /\ left' = left
        /\ UNCHANGED <<shell, idle, row, pc, name, held, cleared, listed, storedOver>> /\ conn' = conn
    BY <1>1 DEF CloseAllNothing, link
  <2>2. left = {}
    BY <2>1 DEF Takes, BotInv, Stages
  <2>3. Going' = {} /\ active' \in Ref(Names)
    BY <2>1, <2>2 DEF Going, Ref
  <2> QED BY <1>0, <2>1, <2>2, <2>3, TakesKeeps DEF LinkTypeOK
<1>2. ASSUME NEW s \in Sessions, CloseAllStart(s) PROVE BotInv'
  <2>1. PICK sessions \in SUBSET Sessions : s \in sessions /\ Takes(sessions) /\ left' = sessions \ {s}
    BY <1>2 DEF CloseAllStart
  <2>2. /\ closing' = s /\ bot' = "closing" /\ active' = active
        /\ conn' = [conn EXCEPT ![s] = IF shell[s] = "none" THEN "closed" ELSE @]
        /\ UNCHANGED <<shell, idle, row, pc, name, held, cleared, listed, storedOver>>
    BY <1>2 DEF CloseAllStart, CloseBegins
  <2>3. Going' = sessions
    BY <2>1, <2>2 DEF Going
  <2>4. conn[s] # "none"
    BY <2>1, Sorts DEF Takes, BotInv, Kept, Unconnected, Listed
  <2>5. /\ conn' \in [Sessions -> {"none", "up", "lost", "closed"}]
        /\ \A u \in Sessions : conn'[u] \in {conn[u]} \cup {c \in {"closed"} : conn[u] # "none"}
    BY <1>0, <2>2, <2>4 DEF LinkTypeOK
  <2>6. active' \in Ref(Names)
    BY <1>0, <2>2 DEF RegistryTypeOK
  <2> QED BY <2>1, <2>2, <2>3, <2>5, <2>6, TakesKeeps
<1> QED BY <1>1, <1>2

(* What is closed is closed; the others are still to be.                   *)
LEMMA ClosesKeeps ==
  ASSUME BotInv, bot = "closing", bot' \in {"closing", "done"}, TypeOK',
         UNCHANGED <<reg, row, pc, name, held, cleared, storedOver, known>>,
         \A s \in Sessions : conn'[s] = conn[s] \/ (s \in Going /\ conn'[s] = "closed"),
         Going' \subseteq Going, \A s \in Going : s \in Going' \/ conn'[s] = "closed",
         left' \subseteq left, bot' = "done" => left' = {},
         bot' = "closing" => closing' \in Sessions
  PROVE  BotInv'
<1>0. Kept /\ \A s \in Going \cup known : s \in Sessions /\ conn[s] # "none"
  BY DEF BotInv, Stages, Going
<1>1. \A s \in Sessions : /\ conn'[s] = "none" <=> conn[s] = "none"
                          /\ conn'[s] = "up" => conn[s] = "up"
  BY <1>0
<1>2. Kept'
  BY <1>0, <1>1, ShutdownKeeps
<1>3. Stages'
  BY <1>0, <1>1 DEF BotInv, Stages
<1>4. ASSUME NEW s \in known, conn'[s] = "up" PROVE s \in Going' \/ InHand(s)' \/ Excused(s)'
  <2>1. s \in Going \/ InHand(s) \/ Excused(s)
    BY <1>0, <1>1, <1>4 DEF BotInv, NoneForgotten, Connected
  <2>2. \A t \in Closers : Closing(t)' = Closing(t) /\ Abandoned(t)' = Abandoned(t)
    BY DEF Closing, Abandoned
  <2>3. Excused(s) => Excused(s)'
    BY <1>1, <2>2 DEF Excused, Overwritten, CutOff
  <2> QED BY <1>4, <2>1, <2>2, <2>3 DEF InHand
<1> QED BY <1>2, <1>3, <1>4 DEF BotInv, NoneForgotten, Connected

(* The next session, and the last one.                                    *)
LEMMA CloseAllGoesOnKeeps ==
  ASSUME BotInv, NEW s \in Sessions, CloseAllGoesOn(s)
  PROVE  BotInv'
<1>0. LinkTypeOK /\ bot = "closing" /\ closing \in Sessions /\ s \in left
  BY TypeParts DEF BotInv, Kept, Stages, CloseAllGoesOn
<1>1. /\ closing' = s /\ left' = left \ {s} /\ bot' = bot
      /\ conn' = [conn EXCEPT ![closing] = "closed", ![s] = IF shell[s] = "none" THEN "closed" ELSE @]
      /\ shell' = [shell EXCEPT ![closing] = "none"]
      /\ UNCHANGED <<registry, idle, row, pc, name, held, cleared, listed, storedOver, known>>
  BY DEF CloseAllGoesOn
<1>2. /\ conn' \in [Sessions -> {"none", "up", "lost", "closed"}]
      /\ shell' \in [Sessions -> {"none", "open", "dead"}]
  BY <1>0, <1>1 DEF LinkTypeOK
<1>3. \A u \in Sessions : \/ conn'[u] = conn[u] /\ u # closing
                          \/ u \in {closing, s} /\ conn'[u] = "closed"
  BY <1>0, <1>1 DEF LinkTypeOK
<1>4. Going = left \cup {closing} /\ Going' = left
  BY <1>0, <1>1 DEF Going
<1>5. TypeOK'
  BY <1>1, <1>2 DEF BotInv, Kept, TypeOK, registry
<1> QED BY <1>0, <1>1, <1>3, <1>4, <1>5, ClosesKeeps DEF registry

LEMMA CloseAllEndsKeeps ==
  ASSUME BotInv, CloseAllEnds
  PROVE  BotInv'
<1>0. LinkTypeOK /\ bot = "closing" /\ closing \in Sessions /\ left = {}
  BY TypeParts DEF BotInv, Kept, Stages, CloseAllEnds, ClosesLast
<1>1. /\ active' = None /\ bot' = "done" /\ left' = left
      /\ conn' = [conn EXCEPT ![closing] = "closed"] /\ shell' = [shell EXCEPT ![closing] = "none"]
      /\ UNCHANGED <<reg, snap, idle, row, pc, name, held, cleared, listed, storedOver, known>>
  BY DEF CloseAllEnds, ClosesLast, CloseEnds
<1>2. Going = {closing} /\ Going' = {}
  BY <1>0, <1>1 DEF Going
<1>3. TypeOK'
  BY <1>0, <1>1 DEF BotInv, Kept, TypeOK, LinkTypeOK, Ref
<1>4. /\ conn'[closing] = "closed"
      /\ \A u \in Sessions : conn'[u] = conn[u] \/ u = closing
  BY <1>0, <1>1 DEF LinkTypeOK
<1> QED BY <1>0, <1>1, <1>2, <1>3, <1>4, ClosesKeeps

(* on_shutdown raises: nothing is promised of the sessions any more.       *)
LEMMA RaisesKeeps ==
  ASSUME BotInv, ShutdownRaises \/ CloseAllRaises
  PROVE  BotInv'
<1>1. UNCHANGED <<vars, closing, left, known>> /\ bot' = "raised"
  BY DEF ShutdownRaises, CloseAllRaises
<1>2. Kept'
  <2>1. TypeOK'
    BY <1>1 DEF BotInv, Kept, TypeOK, vars, registry, link
  <2> QED BY <1>1, <2>1, ShutdownKeeps DEF BotInv, vars, registry, link
<1>3. Stages'
  BY <1>1 DEF BotInv, Stages, Going, vars, link
<1> QED BY <1>1, <1>2, <1>3 DEF BotInv, NoneForgotten

-----------------------------------------------------------------------------
(* What holds in every state.                                              *)

LEMMA BotInvStep == BotInv /\ [BotNext]_botVars => BotInv'
BY CallsGoOnKeeps, ShutdownBeginsKeeps, RaisesKeeps, CloseAllStarts, CloseAllGoesOnKeeps,
   CloseAllEndsKeeps DEF BotNext, CloseAll

(* What the calls rely on holds during a shutdown too, and no connected    *)
(* session is forgotten by close_all.                                      *)
THEOREM BotInvHolds == BotSpec => []BotInv
<1>1. BotInit => BotInv
  <2> SUFFICES ASSUME BotInit PROVE BotInv
    OBVIOUS
  <2>1. IndInv
    BY InitInv DEF BotInit
  <2>2. Stages /\ \A s \in Sessions : ~Connected(s)
    BY DEF BotInit, Init, Stages, Going, Connected
  <2> QED BY <2>1, <2>2 DEF BotInit, BotInv, IndInv, NoneForgotten
<1> QED BY <1>1, BotInvStep, PTL DEF BotSpec

(* When a shutdown has returned, every session that was connected before   *)
(* close_all is closed, but for those that another call was disconnecting  *)
(* or had failed to, that were stored over, or that the watchdog was       *)
(* disconnecting when it was cancelled (bot_app.py:122-132).               *)
THEOREM ShutdownClosesHolds == BotSpec => []ShutdownCloses
<1>1. BotInv => ShutdownCloses
  BY DEF BotInv, Stages, NoneForgotten, Going, Excused, CutOff, InHand, ShutdownCloses
<1> QED BY <1>1, BotInvHolds, PTL
=============================================================================
