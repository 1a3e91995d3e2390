--------------------------- MODULE ConnectFormProofs ---------------------------
(***************************************************************************)
(* Proofs about ConnectForm: what the open question, the answers that are  *)
(* kept and the handlers that are suspended say about one another.         *)
(***************************************************************************)
EXTENDS ConnectForm, TLAPS

Waits(m) == handler[m].pc \in Waiting

(* A question is open, or a secret is handled, in a dialogue only.         *)
Begun ==
  /\ state # None => dialogue # 0
  /\ \A m \in Secrets : Waits(m) =>
       handler[m].typed \in 1..dialogue /\ handler[m].key \in 1..dialogue \cup {None}

(* The answers that have been used are not kept, and are of an earlier     *)
(* dialogue than the one that asks.                                        *)
UsedUp ==
  \A m \in Secrets : made[m] # None =>
    \A q \in Asked : /\ made[m].answers[q] # data[q]
                     /\ state \in Asked => made[m].answers[q] < dialogue

(* What the dialogue has been told: everything before the open question.   *)
ToldSoFar ==
  \A i, j \in DOMAIN Questions : state = Questions[i] /\ j < i => data[Questions[j]] = dialogue

ToldAll     == \A q \in Asked : data[q] = dialogue
ToldNothing == \A q \in Asked : data[q] = None

(* As long as no dialogue begins while a secret is handled and no old      *)
(* button is pressed: a dialogue that signs in has been told everything, or*)
(* its answers were taken; and its secrets are its own.                    *)
InOneDialogue ==
  ~late /\ ~oldButton =>
    /\ ToldSoFar
    /\ state \in Sign_in => ToldAll \/ ToldNothing
    /\ state = "key_passphrase" => data["key"] = dialogue
    /\ \A m \in Secrets : Waits(m) =>
         /\ state \notin Asked /\ handler[m].typed = dialogue
         /\ handler[m].key \in {None, dialogue}

(* As long as the user waits for each secret: one is handled at a time, and*)
(* the answers stay until it is used.                                      *)
InTurn ==
  ~hurried /\ ~oldButton =>
    /\ state \in Sign_in => ToldAll
    /\ \A m \in Secrets : Waits(m) => state \in Sign_in
    /\ \A m, n \in Secrets : Waits(m) /\ Waits(n) => m = n

LateIsHurried == late => hurried

IndInv == /\ TypeOK /\ Begun /\ NothingLeft /\ UsedUp /\ ConnectsOnce
          /\ InOneDialogue /\ OneDialogue /\ LateIsHurried /\ InTurn /\ SecretIsUsed

-----------------------------------------------------------------------------
(* The questions.                                                          *)

LEMMA AskedAre == Asked = {"name", "host", "port", "username"}
BY DEF Asked, Questions

LEMMA Follows ==
  ASSUME NEW i \in 1..4
  PROVE  /\ After(Questions[i]) = IF i < 4 THEN Questions[i + 1] ELSE "auth_type"
         /\ Questions[i] \in Asked
         /\ \A j \in 1..4 : Questions[j] = Questions[i] => j = i
<1>1. \A j \in 1..4 : Questions[j] = Questions[i] => j = i
  BY DEF Questions
<1>2. DOMAIN Questions = 1..4 /\ Len(Questions) = 4
  BY DEF Questions
<1>3. (CHOOSE j \in DOMAIN Questions : Questions[j] = Questions[i]) = i
  BY <1>1, <1>2
<1> QED BY <1>1, <1>2, <1>3 DEF After, Asked

LEMMA Numbered == DOMAIN Questions = 1..4 /\ \A q \in Asked : \E i \in 1..4 : q = Questions[i]
BY DEF Questions, Asked

LEMMA AfterAsked ==
  ASSUME NEW q \in Asked
  PROVE  After(q) \in Asked \cup {"auth_type"}
BY Follows, Numbered

LEMMA Apart == Asked \cap Sign_in = {} /\ None \notin Asked \cup Sign_in /\ "key" \notin Asked
BY AskedAre, NoneAssumption DEF Sign_in

-----------------------------------------------------------------------------
(* Types.                                                                  *)

HandlerRecord == [pc : Waiting \cup {"idle", "done", "raised"}, typed : Answers, key : Answers]

LEMMA InitInd == Init => IndInv
<1> SUFFICES ASSUME Init PROVE IndInv
  OBVIOUS
<1>1. TypeOK
  <2>1. handler \in [Secrets -> HandlerRecord]
    BY DEF Init, Idle, HandlerRecord, Answers
  <2>2. data \in [Fields -> Answers] /\ \A f \in Fields : data[f] = None
    BY DEF Init, NoData, Answers
  <2>3. dialogue \in 0..MaxDialogues /\ keyboards \subseteq 1..dialogue
    BY DialoguesAssumption DEF Init
  <2> QED BY <2>1, <2>2, <2>3 DEF Init, TypeOK, HandlerRecord
<1>2. Begun /\ NothingLeft /\ UsedUp /\ ConnectsOnce /\ OneDialogue /\ LateIsHurried /\ SecretIsUsed
  BY NoneAssumption DEF Init, Begun, Waits, NothingLeft, UsedUp, ConnectsOnce, OneDialogue,
     LateIsHurried, SecretIsUsed, Idle, Waiting, Sign_in
<1>3. InOneDialogue /\ InTurn
  BY Apart, Numbered, Follows DEF Init, InOneDialogue, InTurn, ToldSoFar, Idle, Waits, Waiting, Sign_in
<1> QED BY <1>1, <1>2, <1>3 DEF IndInv

(* What _do_connect does with the answers and with its secret's handler.   *)
LEMMA DoConnectType ==
  ASSUME TypeOK, NEW m \in Secrets, NEW typed \in 1..dialogue, NEW key \in 1..dialogue \cup {None},
         DoConnect(m, typed, key), made[m] = None, UNCHANGED dialogue
  PROVE  /\ handler' \in [Secrets -> HandlerRecord]
         /\ \A n \in Secrets : made'[n] # None =>
               /\ handler'[n].pc = "done"
               /\ made'[n].answers \in [Asked -> 1..dialogue']
               /\ made'[n].secrets \subseteq 1..dialogue' /\ made'[n].secrets # {}
<1>1. handler' \in [Secrets -> HandlerRecord]
      /\ \A n \in Secrets \ {m} : handler'[n] = handler[n]
  BY DEF DoConnect, TypeOK, HandlerRecord
<1>2. CASE UNCHANGED made
  BY <1>1, <1>2 DEF TypeOK
<1>3. CASE /\ made' = [made EXCEPT ![m] = Taken(typed, key)] /\ handler'[m].pc = "done"
           /\ \A q \in Asked : data[q] # None
  <2>1. Taken(typed, key).answers \in [Asked -> 1..dialogue]
    BY <1>3, DialoguesAssumption DEF TypeOK, Taken, Answers, Fields
  <2>2. Taken(typed, key).secrets \subseteq 1..dialogue /\ Taken(typed, key).secrets # {}
    BY NoneAssumption DEF Taken
  <2> QED BY <1>1, <1>3, <2>1, <2>2 DEF TypeOK
<1> QED BY <1>2, <1>3 DEF DoConnect, TypeOK

LEMMA HistoryStep ==
  ASSUME TypeOK, Next
  PROVE  /\ late' \in BOOLEAN /\ oldButton' \in BOOLEAN /\ hurried' \in BOOLEAN
         /\ ~late' => ~late
         /\ ~oldButton' => ~oldButton
         /\ ~hurried' => ~hurried
<1>1. late \in BOOLEAN /\ oldButton \in BOOLEAN /\ hurried \in BOOLEAN
  BY DEF TypeOK
<1>2. late' \in {late, late \/ Pending}
  BY DEF Next, Begin, Leave, Restart, Answer, Press, Password, KeyFile, Receives, Downloaded,
     Passphrase, Deleted, history
<1>3. oldButton' \in {oldButton, oldButton \/ state \notin Sign_in}
  BY DEF Next, Begin, Leave, Restart, Answer, Press, Password, KeyFile, Receives, Downloaded,
     Passphrase, Deleted, history
<1>4. hurried' \in {hurried, hurried \/ Pending}
  BY DEF Next, Begin, Leave, Restart, Answer, Press, Password, KeyFile, Receives, Downloaded,
     Passphrase, Deleted, history, Hurry
<1> QED BY <1>1, <1>2, <1>3, <1>4

LEMMA TypeStep ==
  ASSUME TypeOK, Begun, NothingLeft, [Next]_vars
  PROVE  TypeOK' /\ Begun' /\ NothingLeft'
<1> USE DEF form, history
<1>1. /\ data \in [Fields -> Answers] /\ \A f \in Fields : data[f] # None => data[f] <= dialogue
      /\ dialogue \in 0..MaxDialogues /\ MaxDialogues \in Nat
      /\ handler \in [Secrets -> HandlerRecord]
      /\ state \in Asked \cup Sign_in \cup {None}
  BY DialoguesAssumption DEF TypeOK, HandlerRecord
<1>2. NoData \in [Fields -> Answers] /\ \A f \in Fields : NoData[f] = None
  BY DEF NoData, Answers
<1>3. CASE Begin
  <2>1. /\ dialogue' = dialogue + 1 /\ dialogue' \in 0..MaxDialogues /\ state' = "name"
        /\ UNCHANGED <<data, keyboards, handler, made>>
    BY <1>1, <1>3 DEF Begin
  <2>2. TypeOK'
    <3>1. /\ \A f \in Fields : data'[f] # None => data'[f] <= dialogue'
          /\ 1..dialogue \subseteq 1..dialogue'
      BY <1>1, <2>1 DEF Answers
    <3>2. \A m \in Secrets : made'[m] # None =>
            /\ handler'[m].pc = "done"
            /\ made'[m].answers \in [Asked -> 1..dialogue']
            /\ made'[m].secrets \subseteq 1..dialogue' /\ made'[m].secrets # {}
      BY <2>1, <3>1 DEF TypeOK
    <3>3. late' \in BOOLEAN /\ oldButton' \in BOOLEAN /\ hurried' \in BOOLEAN
      BY <1>3, HistoryStep DEF Next
    <3> QED BY <1>1, <2>1, <3>1, <3>2, <3>3, AskedAre DEF TypeOK, HandlerRecord
  <2>3. Begun'
    BY <1>1, <2>1 DEF Begun, Waits
  <2> QED BY <2>1, <2>2, <2>3, NoneAssumption, AskedAre DEF NothingLeft
<1>4. ASSUME Next, UNCHANGED dialogue,
             state' \in Asked \cup Sign_in \cup {None}, state' # None => dialogue # 0,
             data' \in [Fields -> Answers], \A f \in Fields : data'[f] # None => data'[f] <= dialogue,
             keyboards' \subseteq 1..dialogue, handler' \in [Secrets -> HandlerRecord],
             \A m \in Secrets : made'[m] # None =>
               /\ handler'[m].pc = "done"
               /\ made'[m].answers \in [Asked -> 1..dialogue']
               /\ made'[m].secrets \subseteq 1..dialogue' /\ made'[m].secrets # {},
             \A m \in Secrets : Waits(m)' =>
               handler'[m].typed \in 1..dialogue /\ handler'[m].key \in 1..dialogue \cup {None}
      PROVE  TypeOK' /\ Begun'
  <2>1. late' \in BOOLEAN /\ oldButton' \in BOOLEAN /\ hurried' \in BOOLEAN
    BY <1>4, HistoryStep
  <2> QED BY <1>1, <1>4, <2>1 DEF TypeOK, Begun, HandlerRecord
<1>5. keyboards \subseteq 1..dialogue /\ (\A d \in keyboards : dialogue # 0)
  BY <1>1 DEF TypeOK
<1>6. \A m \in Secrets : made[m] # None =>
               /\ handler[m].pc = "done"
               /\ made[m].answers \in [Asked -> 1..dialogue]
               /\ made[m].secrets \subseteq 1..dialogue /\ made[m].secrets # {}
  BY DEF TypeOK
<1>7. /\ state # None => dialogue \in 1..MaxDialogues
      /\ \A m \in Secrets : Waits(m) =>
           handler[m].typed \in 1..dialogue /\ handler[m].key \in 1..dialogue \cup {None}
      /\ 1..dialogue \subseteq Answers /\ None \in Answers
  BY <1>1 DEF Begun, Answers
<1>8. CASE Leave
  <2>1. state' = None /\ data' = NoData /\ UNCHANGED <<dialogue, keyboards, handler, made>>
    BY <1>8 DEF Leave, Clear
  <2>2. NothingLeft'
    BY <2>1, Apart DEF NothingLeft, Sign_in
  <2> QED BY <1>1, <1>2, <1>4, <1>5, <1>6, <1>7, <1>8, <2>1, <2>2 DEF Next, Waits
<1>9. CASE Restart
  <2>1. /\ handler' \in [Secrets -> HandlerRecord]
        /\ \A m \in Secrets : ~Waits(m)' /\ (~Waits(m) => handler'[m] = handler[m])
    BY <1>1, <1>9 DEF Restart, HandlerRecord, Waits, Waiting
  <2>2. \A m \in Secrets : made[m] # None => ~Waits(m)
    BY <1>6 DEF Waits, Waiting
  <2>3. state' = None /\ data' = NoData /\ UNCHANGED <<dialogue, keyboards, made>>
    BY <1>9 DEF Restart, Clear
  <2>4. NothingLeft'
    BY <2>3, Apart DEF NothingLeft, Sign_in
  <2>5. \A m \in Secrets : made'[m] # None => handler'[m] = handler[m]
    BY <2>1, <2>2, <2>3
  <2> QED BY <1>1, <1>2, <1>4, <1>5, <1>6, <1>9, <2>1, <2>3, <2>4, <2>5 DEF Next
<1>10. ASSUME NEW q \in Asked, Answer(q)
       PROVE  TypeOK' /\ Begun' /\ NothingLeft'
  <2>1. /\ state = q /\ data' = [data EXCEPT ![q] = dialogue] /\ state' = After(q)
        /\ UNCHANGED <<dialogue, handler, made>> /\ q \in Fields
        /\ keyboards' \in {keyboards, keyboards \cup {dialogue}}
    BY <1>10 DEF Answer, Store, Fields
  <2>2. state # None /\ state' \in Asked \cup {"auth_type"} /\ state' # None
    BY <2>1, AfterAsked, Apart DEF Sign_in
  <2>3. dialogue \in 1..MaxDialogues /\ dialogue \in Answers
    BY <1>7, <2>2
  <2>4. data' \in [Fields -> Answers] /\ \A f \in Fields : data'[f] # None => data'[f] <= dialogue
    BY <1>1, <2>1, <2>3
  <2>5. keyboards' \subseteq 1..dialogue
    BY <1>5, <2>1, <2>3
  <2>6. NothingLeft'
    BY <2>2, AskedAre DEF NothingLeft
  <2>7. TypeOK' /\ Begun'
    BY <1>1, <1>4, <1>6, <1>7, <1>10, <2>1, <2>2, <2>3, <2>4, <2>5 DEF Next, Waits, Sign_in
  <2> QED BY <2>6, <2>7
<1>11. ASSUME NEW d \in keyboards, NEW next \in {"password", "key_file"}, Press(d, next)
       PROVE  TypeOK' /\ Begun' /\ NothingLeft'
  <2>1. /\ state' \in {"password", "key_file"} /\ state' \in Sign_in /\ dialogue # 0
        /\ keyboards' \subseteq 1..dialogue /\ UNCHANGED <<data, dialogue, handler, made>>
    BY <1>5, <1>11 DEF Press, Sign_in
  <2>2. NothingLeft'
    BY <2>1, Apart DEF NothingLeft
  <2> QED BY <1>1, <1>4, <1>6, <1>7, <1>11, <2>1, <2>2 DEF Next, Waits
<1>12. ASSUME NEW m \in Secrets, NEW pc \in {"deleting", "downloading", "deleting_passphrase"},
              NEW key \in 1..dialogue \cup {None}, handler[m].pc = "idle", state # None,
              handler' = [handler EXCEPT ![m] = [pc |-> pc, typed |-> dialogue, key |-> key]],
              UNCHANGED <<form, dialogue, keyboards, made>>, Next
       PROVE  TypeOK' /\ Begun' /\ NothingLeft'
  <2>1. handler' \in [Secrets -> HandlerRecord]
    BY <1>1, <1>7, <1>12 DEF HandlerRecord, Waiting
  <2>2. \A n \in Secrets : handler'[n] =
          IF n = m THEN [pc |-> pc, typed |-> dialogue, key |-> key] ELSE handler[n]
    BY <1>1, <1>12
  <2>3. made[m] = None
    BY <1>6, <1>12
  <2>4. NothingLeft'
    BY <1>12 DEF NothingLeft
  <2>5. \A n \in Secrets : Waits(n)' =>
          handler'[n].typed \in 1..dialogue /\ handler'[n].key \in 1..dialogue \cup {None}
    BY <1>7, <1>12, <2>2 DEF Waits
  <2> QED BY <1>1, <1>4, <1>5, <1>6, <1>7, <1>12, <2>1, <2>2, <2>3, <2>4, <2>5
<1>13. ASSUME NEW m \in Secrets, Password(m) \/ KeyFile(m)
       PROVE  TypeOK' /\ Begun' /\ NothingLeft'
  <2>1. PICK pc \in {"deleting", "downloading"} :
          /\ handler' = [handler EXCEPT ![m] = [pc |-> pc, typed |-> dialogue, key |-> None]]
          /\ state \in Sign_in /\ handler[m].pc = "idle"
          /\ UNCHANGED <<form, dialogue, keyboards, made>>
    BY <1>13 DEF Password, KeyFile, Receives, Sign_in
  <2> QED BY <1>12, <1>13, <2>1, Apart DEF Next
<1>14. ASSUME NEW m \in Secrets, Downloaded(m)
       PROVE  TypeOK' /\ Begun' /\ NothingLeft'
  <2>1. Waits(m) /\ handler[m].typed \in 1..dialogue /\ dialogue # 0 /\ made[m] = None
    BY <1>1, <1>6, <1>7, <1>14 DEF Downloaded, Waits, Waiting
  <2>2. /\ handler' \in [Secrets -> HandlerRecord]
        /\ \A n \in Secrets \ {m} : handler'[n] = handler[n]
        /\ ~Waits(m)' /\ UNCHANGED <<dialogue, keyboards, made>>
    BY <1>1, <1>14 DEF Downloaded, HandlerRecord, Waits, Waiting
  <2>3. \A n \in Secrets : Waits(n)' => Waits(n) /\ handler'[n] = handler[n]
    BY <2>2 DEF Waits
  <2>4. CASE UNCHANGED form
    BY <1>1, <1>4, <1>5, <1>6, <1>7, <1>14, <2>1, <2>2, <2>3, <2>4 DEF Next, NothingLeft
  <2>5. CASE data' = [data EXCEPT !["key"] = handler[m].typed] /\ state' = "key_passphrase"
    <3>1. /\ data' \in [Fields -> Answers] /\ \A f \in Fields : data'[f] # None => data'[f] <= dialogue
          /\ data'["key"] # None
      BY <1>1, <1>7, <2>1, <2>5, NoneAssumption DEF Fields
    <3>2. state' \in Sign_in /\ NothingLeft'
      BY <2>5, <3>1, Apart DEF Sign_in, NothingLeft
    <3> QED BY <1>1, <1>4, <1>5, <1>6, <1>7, <1>14, <2>1, <2>2, <2>3, <3>1, <3>2 DEF Next
  <2> QED BY <1>14, <2>4, <2>5 DEF Downloaded, Store
<1>15. ASSUME NEW m \in Secrets, NEW typed \in 1..dialogue, NEW key \in 1..dialogue \cup {None},
              DoConnect(m, typed, key), made[m] = None, UNCHANGED <<dialogue, keyboards>>, Next
       PROVE  TypeOK' /\ Begun' /\ NothingLeft'
  <2>1. /\ handler' \in [Secrets -> HandlerRecord]
        /\ \A n \in Secrets : made'[n] # None =>
              /\ handler'[n].pc = "done"
              /\ made'[n].answers \in [Asked -> 1..dialogue']
              /\ made'[n].secrets \subseteq 1..dialogue' /\ made'[n].secrets # {}
    BY <1>15, DoConnectType
  <2>2. /\ \A n \in Secrets \ {m} : handler'[n] = handler[n]
        /\ ~Waits(m)' /\ state' = None /\ data' = NoData
    BY <1>1, <1>15 DEF DoConnect, Clear, HandlerRecord, Waits, Waiting
  <2>3. \A n \in Secrets : Waits(n)' => Waits(n) /\ handler'[n] = handler[n]
    BY <2>2 DEF Waits
  <2>4. NothingLeft'
    BY <2>2, Apart DEF NothingLeft, Sign_in
  <2> QED BY <1>1, <1>2, <1>4, <1>5, <1>7, <1>15, <2>1, <2>2, <2>3, <2>4
<1>16. ASSUME NEW m \in Secrets, Passphrase(m)
       PROVE  TypeOK' /\ Begun' /\ NothingLeft'
  <2>1. /\ state # None /\ dialogue \in 1..dialogue /\ handler[m].pc = "idle" /\ made[m] = None
        /\ data["key"] \in 1..dialogue /\ UNCHANGED <<dialogue, keyboards>>
    BY <1>1, <1>6, <1>7, <1>16, Apart DEF Passphrase, NothingLeft, Sign_in, Fields, Answers
  <2>2. CASE DoConnect(m, dialogue, data["key"])
    BY <1>15, <1>16, <2>1, <2>2 DEF Next
  <2>3. CASE /\ handler' = [handler EXCEPT ![m] =
                  [pc |-> "deleting_passphrase", typed |-> dialogue, key |-> data["key"]]]
             /\ UNCHANGED <<form, made>>
    BY <1>12, <1>16, <2>1, <2>3 DEF Next
  <2> QED BY <1>16, <2>1, <2>2, <2>3, NoneAssumption DEF Passphrase
<1>17. ASSUME NEW m \in Secrets, Deleted(m)
       PROVE  TypeOK' /\ Begun' /\ NothingLeft'
  <2>1. /\ Waits(m) /\ handler[m].typed \in 1..dialogue /\ handler[m].key \in 1..dialogue \cup {None}
        /\ made[m] = None /\ UNCHANGED <<dialogue, keyboards>>
    BY <1>6, <1>7, <1>17 DEF Deleted, Waits, Waiting
  <2> QED BY <1>15, <1>17, <2>1 DEF Deleted, Next
<1>18. CASE UNCHANGED vars
  BY <1>18 DEF vars, TypeOK, Begun, Waits, NothingLeft
<1> QED BY <1>3, <1>8, <1>9, <1>10, <1>11, <1>13, <1>14, <1>16, <1>17, <1>18 DEF Next

(* How the dialogue, the answers and the connections change in a step.     *)
LEMMA FormSteps ==
  ASSUME TypeOK, Begun, [Next]_vars
  PROVE  \/ Begin
         \/ Clear(state', data') /\ UNCHANGED <<dialogue, made>> /\ (Leave \/ Restart)
         \/ \E q \in Asked : Answer(q)
         \/ \E d \in keyboards, next \in {"password", "key_file"} : Press(d, next)
         \/ \E m \in Secrets : Downloaded(m)
         \/ UNCHANGED <<form, dialogue, made>>
         \/ \E m \in Secrets, typed \in 1..dialogue, key \in 1..dialogue \cup {None} :
              /\ DoConnect(m, typed, key) /\ UNCHANGED dialogue
              /\ Passphrase(m) \/ Deleted(m)
         \/ \E m \in Secrets : Passphrase(m) /\ Clear(state', data') /\ UNCHANGED <<dialogue, made>>
<1>1. dialogue \in Nat /\ data \in [Fields -> Answers] /\ \A f \in Fields : data[f] # None => data[f] <= dialogue
  BY DialoguesAssumption DEF TypeOK
<1>2. ASSUME NEW m \in Secrets, Password(m) \/ KeyFile(m)
      PROVE  UNCHANGED <<form, dialogue, made>>
  BY <1>2 DEF Password, KeyFile, Receives
<1>3. ASSUME NEW m \in Secrets, Deleted(m)
      PROVE  \E typed \in 1..dialogue, key \in 1..dialogue \cup {None} :
               DoConnect(m, typed, key) /\ UNCHANGED dialogue
  BY <1>3 DEF Deleted, Begun, Waits, Waiting
<1>4. ASSUME NEW m \in Secrets, Passphrase(m)
      PROVE  \/ UNCHANGED <<form, dialogue, made>>
             \/ \E typed \in 1..dialogue, key \in 1..dialogue \cup {None} :
                  DoConnect(m, typed, key) /\ UNCHANGED dialogue
             \/ Clear(state', data') /\ UNCHANGED <<dialogue, made>>
  <2>1. dialogue \in 1..dialogue /\ data["key"] \in 1..dialogue \cup {None} /\ UNCHANGED dialogue
    BY <1>1, <1>4, Apart DEF Passphrase, Begun, Sign_in, Fields, Answers
  <2> QED BY <1>4, <2>1 DEF Passphrase
<1>5. ASSUME Leave \/ Restart
      PROVE  Clear(state', data') /\ UNCHANGED <<dialogue, made>>
  BY <1>5 DEF Leave, Restart
<1> QED BY <1>2, <1>3, <1>4, <1>5 DEF Next, vars

LEMMA UsedUpStep ==
  ASSUME TypeOK, Begun, UsedUp, ConnectsOnce, [Next]_vars
  PROVE  UsedUp' /\ ConnectsOnce'
<1>1. /\ data \in [Fields -> Answers] /\ dialogue \in Nat /\ Asked \subseteq Fields
      /\ \A m \in Secrets : made[m] # None => made[m].answers \in [Asked -> 1..dialogue]
      /\ \A f \in Fields : NoData[f] = None
  BY DialoguesAssumption DEF TypeOK, Fields, NoData
<1>2. CASE Begin
  BY <1>1, <1>2 DEF Begin, UsedUp, ConnectsOnce
<1>3. CASE Clear(state', data') /\ UNCHANGED made
  BY <1>1, <1>3, Apart, NoneAssumption DEF Clear, UsedUp, ConnectsOnce
<1>4. ASSUME NEW q \in Asked, Answer(q)
      PROVE  UsedUp' /\ ConnectsOnce'
  BY <1>1, <1>4 DEF Answer, Store, UsedUp, ConnectsOnce, history
<1>5. ASSUME NEW d \in keyboards, NEW next \in {"password", "key_file"}, Press(d, next)
      PROVE  UsedUp' /\ ConnectsOnce'
  BY <1>5, Apart DEF Press, UsedUp, ConnectsOnce, Sign_in
<1>6. ASSUME NEW m \in Secrets, Downloaded(m)
      PROVE  UsedUp' /\ ConnectsOnce'
  <2>1. /\ \A q \in Asked : data'[q] = data[q]
        /\ state' = state \/ state' \in Sign_in
        /\ UNCHANGED <<dialogue, made>>
    BY <1>1, <1>6, Apart DEF Downloaded, Store, form, Sign_in
  <2> QED BY <2>1, Apart DEF UsedUp, ConnectsOnce
<1>7. CASE UNCHANGED <<form, dialogue, made>>
  BY <1>7 DEF form, UsedUp, ConnectsOnce
<1>8. ASSUME NEW m \in Secrets, NEW typed, NEW key, DoConnect(m, typed, key)
      PROVE  UsedUp' /\ ConnectsOnce'
  <2>1. CASE UNCHANGED made
    BY <1>3, <1>8, <2>1 DEF DoConnect
  <2>2. CASE /\ made' = [made EXCEPT ![m] = Taken(typed, key)]
             /\ \A q \in Asked : data[q] # None
    <3>1. \A q \in Asked : /\ Taken(typed, key).answers[q] = data[q] /\ data[q] # None
                          /\ data'[q] = None /\ state' = None
      BY <1>1, <1>8, <2>2 DEF Taken, DoConnect, Clear
    <3>2. \A n \in Secrets \ {m} : made'[n] = made[n]
      BY <2>2
    <3>3. made'[m] = made[m] \/ made'[m] = Taken(typed, key)
      BY <2>2
    <3>4. \A n \in Secrets : made[n] # None =>
            \A q \in Asked : made[n].answers[q] # data[q] /\ made[n].answers[q] # None
      BY <1>1, NoneAssumption DEF UsedUp
    <3>5. UsedUp'
      BY <3>1, <3>2, <3>3, <3>4, Apart DEF UsedUp
    <3>6. ConnectsOnce'
      BY <3>1, <3>2, <3>3, <3>4 DEF ConnectsOnce
    <3> QED BY <3>5, <3>6
  <2> QED BY <1>8, <2>1, <2>2 DEF DoConnect
<1> QED BY <1>2, <1>3, <1>4, <1>5, <1>6, <1>7, <1>8, FormSteps

-----------------------------------------------------------------------------
(* One dialogue.                                                           *)

(* What a secret's handler does to the handlers.                           *)
LEMMA HandlersStep ==
  ASSUME TypeOK, NEW m \in Secrets, Downloaded(m) \/ Passphrase(m) \/ Deleted(m)
  PROVE  /\ \A n \in Secrets \ {m} : handler'[n] = handler[n]
         /\ \/ ~Waits(m)'
            \/ /\ Passphrase(m) /\ handler'[m].typed = dialogue /\ handler'[m].key = data["key"]
               /\ UNCHANGED <<form, dialogue, made>>
         /\ handler[m].pc \in {"downloading", "deleting", "deleting_passphrase"} => Waits(m)
BY DEF TypeOK, Downloaded, Passphrase, Deleted, DoConnect, Waits, Waiting

LEMMA AnswerTold ==
  ASSUME data \in [Fields -> Answers], NEW q \in Asked, Answer(q), ToldSoFar
  PROVE  /\ ToldSoFar'
         /\ state' \in Sign_in => ToldAll'
         /\ state' # "key_passphrase"
<1>1. PICK i \in 1..4 : q = Questions[i]
  BY Numbered
<1>2. /\ state = Questions[i] /\ data' = [data EXCEPT ![Questions[i]] = dialogue]
      /\ UNCHANGED dialogue /\ state' = IF i < 4 THEN Questions[i + 1] ELSE "auth_type"
  BY <1>1, Follows DEF Answer, Store
<1>3. \A j \in 1..4 : j <= i => data'[Questions[j]] = dialogue'
  BY <1>2, Numbered, Follows DEF ToldSoFar, Fields
<1>4. CASE i < 4
  <2>1. state' = Questions[i + 1] /\ i + 1 \in 1..4 /\ state' \in Asked
    BY <1>2, <1>4, Follows
  <2>2. ASSUME NEW a \in 1..4, NEW b \in 1..4, state' = Questions[a], b < a
        PROVE  data'[Questions[b]] = dialogue'
    <3>1. a = i + 1
      BY <2>1, <2>2, Follows
    <3> QED BY <1>3, <2>2, <3>1
  <2>3. ToldSoFar'
    BY <2>2, Numbered DEF ToldSoFar
  <2> QED BY <2>1, <2>3, Apart DEF Sign_in
<1>5. CASE ~(i < 4)
  <2>1. i = 4 /\ state' = "auth_type" /\ state' \notin Asked
    BY <1>2, <1>5, AskedAre
  <2>2. ToldSoFar'
    BY <2>1, Numbered, Follows DEF ToldSoFar
  <2>3. ToldAll'
    BY <1>3, <2>1, Numbered DEF ToldAll
  <2> QED BY <2>1, <2>2, <2>3
<1> QED BY <1>4, <1>5

LEMMA OneDialogueStep ==
  ASSUME TypeOK, Begun, NothingLeft, InOneDialogue, OneDialogue, [Next]_vars
  PROVE  InOneDialogue' /\ OneDialogue'
<1> SUFFICES ASSUME ~late', ~oldButton'
             PROVE  /\ InOneDialogue'
                    /\ \A m \in Secrets : made'[m] # None =>
                         \E d \in 1..dialogue' : /\ \A q \in Asked : made'[m].answers[q] = d
                                                /\ made'[m].secrets = {d}
  BY DEF InOneDialogue, OneDialogue
<1>1. /\ dialogue \in Nat /\ Asked \subseteq Fields /\ data \in [Fields -> Answers]
      /\ \A f \in Fields : NoData[f] = None
  BY DialoguesAssumption DEF TypeOK, Fields, NoData
<1>2. ~late /\ ~oldButton
  BY HistoryStep DEF vars, history
<1>3. /\ ToldSoFar
      /\ state \in Sign_in => ToldAll \/ ToldNothing
      /\ state = "key_passphrase" => data["key"] = dialogue
      /\ \A m \in Secrets : Waits(m) => /\ state \notin Asked /\ handler[m].typed = dialogue
                                       /\ handler[m].key \in {None, dialogue}
  BY <1>2 DEF InOneDialogue
<1> DEFINE OneDialogueEach == \A m \in Secrets : made[m] # None =>
             \E d \in 1..dialogue : /\ \A q \in Asked : made[m].answers[q] = d
                                   /\ made[m].secrets = {d}
<1>4. OneDialogueEach
  BY <1>2 DEF OneDialogue
<1>5. UNCHANGED <<dialogue, made>> => OneDialogueEach'
  BY <1>4
<1> HIDE DEF OneDialogueEach
<1>6. ASSUME Begin PROVE InOneDialogue' /\ OneDialogueEach'
  <2>1. /\ \A m \in Secrets : ~Waits(m)'
        /\ state' = "name" /\ dialogue' = dialogue + 1 /\ UNCHANGED made
    BY <1>6 DEF Begin, Pending, Waits
  <2>2. ToldSoFar'
    BY <2>1, Numbered, Follows DEF ToldSoFar, Questions
  <2>3. state' \notin Sign_in
    BY <2>1, AskedAre, Apart
  <2>4. OneDialogueEach'
    BY <1>1, <1>4, <2>1 DEF OneDialogueEach
  <2> QED BY <2>1, <2>2, <2>3, <2>4 DEF InOneDialogue, Sign_in
<1>7. ASSUME state' = None, UNCHANGED dialogue, \A m \in Secrets : Waits(m)' => Waits(m) /\ handler'[m] = handler[m]
      PROVE  InOneDialogue'
  <2>1. ToldSoFar'
    BY <1>7, Numbered, Follows, Apart DEF ToldSoFar
  <2> QED BY <1>3, <1>7, <2>1, Apart DEF InOneDialogue, Sign_in
<1>8. ASSUME Leave \/ Restart PROVE InOneDialogue' /\ OneDialogueEach'
  <2>1. \A m \in Secrets : Waits(m)' => Waits(m) /\ handler'[m] = handler[m]
    BY <1>8 DEF Leave, Restart, Waits, Waiting, TypeOK
  <2>2. state' = None /\ UNCHANGED <<dialogue, made>>
    BY <1>8 DEF Leave, Restart, Clear
  <2> QED BY <1>5, <1>7, <2>1, <2>2
<1>9. ASSUME NEW q \in Asked, Answer(q)
      PROVE  InOneDialogue' /\ OneDialogueEach'
  <2>1. state \in Asked /\ UNCHANGED <<dialogue, handler, made>>
    BY <1>9 DEF Answer
  <2>2. \A m \in Secrets : ~Waits(m)'
    BY <1>3, <2>1 DEF Waits
  <2> QED BY <1>1, <1>3, <1>5, <1>9, <2>1, <2>2, AnswerTold DEF InOneDialogue
<1>10. ASSUME NEW d \in keyboards, NEW next \in {"password", "key_file"}, Press(d, next)
       PROVE  InOneDialogue' /\ OneDialogueEach'
  <2>1. /\ state \in Sign_in /\ state' \in {"password", "key_file"} /\ state' \in Sign_in
        /\ UNCHANGED <<data, dialogue, handler, made>>
    BY <1>10 DEF Press, Sign_in
  <2>2. ToldSoFar'
    BY <2>1, Numbered, Follows, Apart DEF ToldSoFar
  <2> QED BY <1>3, <1>5, <2>1, <2>2, Apart DEF InOneDialogue, ToldAll, ToldNothing, Waits
<1>11. ASSUME NEW m \in Secrets, Downloaded(m)
       PROVE  InOneDialogue' /\ OneDialogueEach'
  <2>1. /\ Waits(m) /\ ~Waits(m)' /\ UNCHANGED <<dialogue, made>>
        /\ \A n \in Secrets : Waits(n)' => Waits(n) /\ handler'[n] = handler[n]
    BY <1>11, HandlersStep DEF Downloaded, Passphrase, Waits, Waiting
  <2>2. CASE UNCHANGED form
    BY <1>3, <1>5, <2>1, <2>2 DEF form, InOneDialogue, ToldSoFar, ToldAll, ToldNothing
  <2>3. CASE Store("key", handler[m].typed) /\ state' = "key_passphrase"
    <3>1. data'["key"] = dialogue' /\ \A q \in Asked : data'[q] = data[q]
      BY <1>1, <1>3, <2>1, <2>3, Apart DEF Store, Fields
    <3>2. state \in Sign_in \/ state = None
      BY <1>3, <2>1 DEF TypeOK
    <3>3. ToldAll \/ ToldNothing
      BY <1>1, <1>3, <3>2 DEF NothingLeft, ToldNothing
    <3>4. state' \in Sign_in /\ state' \notin Asked
      BY <2>3, Apart DEF Sign_in
    <3>5. ToldSoFar'
      BY <3>4, Numbered, Follows DEF ToldSoFar
    <3> QED BY <1>3, <1>5, <2>1, <3>1, <3>3, <3>4, <3>5 DEF InOneDialogue, ToldAll, ToldNothing
  <2> QED BY <1>11, <2>2, <2>3 DEF Downloaded
<1>12. ASSUME UNCHANGED <<form, dialogue, made>>,
              \A m \in Secrets : Waits(m)' =>
              \/ Waits(m) /\ handler'[m] = handler[m]
              \/ /\ state \notin Asked /\ handler'[m].typed = dialogue
                 /\ handler'[m].key \in {None, dialogue}
       PROVE  InOneDialogue' /\ OneDialogueEach'
  BY <1>3, <1>5, <1>12 DEF form, InOneDialogue, ToldSoFar, ToldAll, ToldNothing, OneDialogueEach
<1>13. ASSUME NEW m \in Secrets, Password(m) \/ KeyFile(m)
       PROVE  InOneDialogue' /\ OneDialogueEach'
  <2>1. /\ state \in Sign_in /\ UNCHANGED <<form, dialogue, made>>
        /\ \A n \in Secrets : handler'[n] = handler[n] \/
              (handler'[n].typed = dialogue /\ handler'[n].key = None)
    BY <1>13 DEF Password, KeyFile, Receives, Sign_in, TypeOK
  <2> QED BY <1>3, <1>5, <1>12, <2>1, Apart DEF Waits
<1>14. ASSUME NEW m \in Secrets, NEW typed \in 1..dialogue, NEW key \in 1..dialogue \cup {None},
              DoConnect(m, typed, key), UNCHANGED dialogue,
              typed = dialogue, key \in {None, dialogue}, state \notin Asked,
              \A n \in Secrets : Waits(n)' => Waits(n) /\ handler'[n] = handler[n]
       PROVE  InOneDialogue' /\ OneDialogueEach'
  <2>1. InOneDialogue'
    BY <1>7, <1>14 DEF DoConnect, Clear
  <2>2. CASE UNCHANGED made
    BY <1>5, <1>14, <2>1, <2>2
  <2>3. CASE /\ made' = [made EXCEPT ![m] = Taken(typed, key)]
             /\ \A q \in Asked : data[q] # None
    <3>1. state # None
      BY <1>1, <2>3, AskedAre DEF NothingLeft
    <3>2. ToldAll
      BY <1>3, <1>14, <2>3, <3>1, AskedAre DEF TypeOK, ToldNothing
    <3>3. Taken(typed, key).secrets = {dialogue} /\ \A q \in Asked : Taken(typed, key).answers[q] = dialogue
      BY <1>14, <3>2, NoneAssumption DEF Taken, ToldAll
    <3>4. \A n \in Secrets : made'[n] = made[n] \/ made'[n] = Taken(typed, key)
      BY <2>3
    <3> QED BY <1>4, <1>14, <2>1, <3>3, <3>4 DEF OneDialogueEach
  <2> QED BY <1>14, <2>2, <2>3 DEF DoConnect
<1>15. ASSUME NEW m \in Secrets, Passphrase(m)
       PROVE  InOneDialogue' /\ OneDialogueEach'
  <2>1. /\ state = "key_passphrase" /\ state \notin Asked /\ data["key"] = dialogue /\ dialogue # 0
        /\ handler[m].pc = "idle" /\ UNCHANGED dialogue /\ dialogue # None
    BY <1>1, <1>3, <1>15, Apart, NoneAssumption DEF Passphrase, Sign_in, Begun
  <2>2. \A n \in Secrets : Waits(n)' =>
              \/ Waits(n) /\ handler'[n] = handler[n]
              \/ /\ n = m /\ handler'[n].typed = dialogue /\ handler'[n].key = dialogue
                 /\ UNCHANGED <<form, dialogue, made>>
    BY <1>15, <2>1, HandlersStep DEF Waits
  <2>3. CASE DoConnect(m, dialogue, data["key"])
    <3>1. ~Waits(m)'
      BY <2>3 DEF DoConnect, Waits, Waiting, TypeOK
    <3>2. \A n \in Secrets : Waits(n)' => Waits(n) /\ handler'[n] = handler[n]
      BY <2>2, <3>1
    <3> QED BY <1>1, <1>14, <2>1, <2>3, <3>2
  <2>4. CASE UNCHANGED <<form, made>>
    BY <1>12, <2>1, <2>2, <2>4
  <2> QED BY <1>15, <2>1, <2>3, <2>4, NoneAssumption DEF Passphrase
<1>16. ASSUME NEW m \in Secrets, Deleted(m)
       PROVE  InOneDialogue' /\ OneDialogueEach'
  <2>1. /\ Waits(m) /\ ~Waits(m)' /\ DoConnect(m, handler[m].typed, handler[m].key)
        /\ UNCHANGED dialogue
    BY <1>16 DEF Deleted, DoConnect, Waits, Waiting, TypeOK
  <2>2. \A n \in Secrets : Waits(n)' => Waits(n) /\ handler'[n] = handler[n]
    BY <1>16, <2>1, HandlersStep DEF Waits
  <2>3. handler[m].typed \in 1..dialogue /\ handler[m].key \in 1..dialogue \cup {None}
    BY <2>1 DEF Begun
  <2> QED BY <1>3, <1>14, <2>1, <2>2, <2>3
<1>17. ASSUME UNCHANGED vars PROVE InOneDialogue' /\ OneDialogueEach'
  BY <1>12, <1>17 DEF vars, Waits
<1>18. InOneDialogue' /\ OneDialogueEach'
  BY <1>6, <1>8, <1>9, <1>10, <1>11, <1>13, <1>15, <1>16, <1>17 DEF Next
<1> QED BY <1>18 DEF OneDialogueEach

-----------------------------------------------------------------------------
(* No secret is lost.                                                      *)

LEMMA LateStep ==
  ASSUME TypeOK, LateIsHurried, [Next]_vars
  PROVE  LateIsHurried'
<1>1. CASE Begin
  BY <1>1 DEF Begin, Hurry, LateIsHurried
<1>2. CASE UNCHANGED late
  BY <1>2, HistoryStep DEF LateIsHurried, vars, history
<1> QED BY <1>1, <1>2 DEF Next, Leave, Restart, Answer, Press, Password, KeyFile, Receives,
        Downloaded, Passphrase, Deleted, history, vars

LEMMA InTurnStep ==
  ASSUME TypeOK, Begun, NothingLeft, InOneDialogue, LateIsHurried, InTurn, SecretIsUsed, [Next]_vars
  PROVE  InTurn' /\ SecretIsUsed'
<1> DEFINE InTurnEach == /\ state \in Sign_in => ToldAll
                         /\ \A m \in Secrets : Waits(m) => state \in Sign_in
                         /\ \A m, n \in Secrets : Waits(m) /\ Waits(n) => m = n
                         /\ \A m \in Secrets : handler[m].pc # "raised"
<1> SUFFICES ASSUME ~hurried', ~oldButton' PROVE InTurnEach'
  BY DEF InTurn, SecretIsUsed
<1>1. /\ dialogue \in Nat /\ Asked \subseteq Fields /\ data \in [Fields -> Answers]
      /\ \A f \in Fields : NoData[f] = None
  BY DialoguesAssumption DEF TypeOK, Fields, NoData
<1>2. ~hurried /\ ~oldButton /\ ~late
  BY HistoryStep DEF vars, history, LateIsHurried
<1>3. InTurnEach
  BY <1>2 DEF InTurn, SecretIsUsed
<1>4. ToldSoFar
  BY <1>2 DEF InOneDialogue
<1>5. Hurry => \A m \in Secrets : ~Waits(m)
  BY DEF Hurry, Pending, Waits
<1>6. \A m \in Secrets : Waits(m) => state \in Sign_in /\ ToldAll
  BY <1>3
<1>7. ASSUME Begin \/ Leave PROVE InTurnEach'
  <2>1. (\A m \in Secrets : ~Waits(m)) /\ UNCHANGED handler /\ state' \in {"name", None}
    BY <1>5, <1>7 DEF Begin, Leave, Clear
  <2> QED BY <1>3, <2>1, Apart, AskedAre DEF Waits
<1>8. ASSUME Restart PROVE InTurnEach'
  <2>1. state' = None /\ \A m \in Secrets : ~Waits(m)' /\ handler'[m].pc # "raised"
    BY <1>3, <1>8 DEF Restart, Clear, Waits, Waiting, TypeOK
  <2> QED BY <2>1, Apart
<1>9. ASSUME NEW q \in Asked, Answer(q) PROVE InTurnEach'
  <2>1. UNCHANGED handler /\ state \notin Sign_in
    BY <1>9, Apart DEF Answer
  <2>2. \A m \in Secrets : ~Waits(m)
    BY <1>3, <2>1
  <2>3. state' \in Sign_in => ToldAll'
    BY <1>1, <1>4, <1>9, AnswerTold
  <2> QED BY <1>3, <2>1, <2>2, <2>3 DEF Waits
<1>10. ASSUME NEW d \in keyboards, NEW next \in {"password", "key_file"}, Press(d, next)
       PROVE  InTurnEach'
  <2>1. /\ state \in Sign_in /\ state' \in Sign_in /\ UNCHANGED <<data, dialogue, handler>>
    BY <1>10 DEF Press, Sign_in
  <2> QED BY <1>3, <2>1 DEF ToldAll, Waits
<1>11. ASSUME NEW m \in Secrets, UNCHANGED <<form, dialogue>>, state \in Sign_in,
              \A n \in Secrets : ~Waits(n),
              \A n \in Secrets \ {m} : handler'[n] = handler[n], handler'[m].pc # "raised"
       PROVE  InTurnEach'
  BY <1>3, <1>11 DEF form, ToldAll, Waits
<1>12. ASSUME NEW m \in Secrets, Password(m) \/ KeyFile(m)
       PROVE  InTurnEach'
  <2>1. /\ state \in Sign_in /\ UNCHANGED <<form, dialogue>> /\ Hurry
        /\ \A n \in Secrets \ {m} : handler'[n] = handler[n]
        /\ handler'[m].pc # "raised"
    BY <1>12 DEF Password, KeyFile, Receives, Sign_in, TypeOK
  <2> QED BY <1>5, <1>11, <2>1
<1>13. ASSUME NEW m \in Secrets, Downloaded(m)
       PROVE  InTurnEach'
  <2>1. /\ Waits(m) /\ ~Waits(m)' /\ UNCHANGED dialogue /\ handler'[m].pc # "raised"
        /\ \A n \in Secrets \ {m} : handler'[n] = handler[n]
    BY <1>13 DEF Downloaded, Waits, Waiting, TypeOK
  <2>2. \A n \in Secrets : ~Waits(n)'
    BY <1>3, <2>1 DEF Waits
  <2>3. ToldAll'
    BY <1>1, <1>3, <1>13, <2>1, Apart DEF Downloaded, Store, form, ToldAll
  <2> QED BY <1>3, <2>1, <2>2, <2>3
<1>14. ASSUME NEW m \in Secrets, NEW typed, NEW key, DoConnect(m, typed, key), ToldAll, dialogue # None,
              \A n \in Secrets \ {m} : ~Waits(n)
       PROVE  InTurnEach'
  <2>1. /\ state' = None /\ handler'[m].pc = "done"
        /\ \A n \in Secrets \ {m} : handler'[n] = handler[n]
    BY <1>14 DEF DoConnect, Clear, ToldAll, TypeOK
  <2>2. \A n \in Secrets : ~Waits(n)'
    BY <1>14, <2>1 DEF Waits, Waiting
  <2> QED BY <1>3, <2>1, <2>2, Apart
<1>15. dialogue # None
  BY <1>1, NoneAssumption
<1>16. ASSUME NEW m \in Secrets, Deleted(m)
       PROVE  InTurnEach'
  <2>1. Waits(m) /\ DoConnect(m, handler[m].typed, handler[m].key)
    BY <1>16 DEF Deleted, Waits, Waiting
  <2>2. ToldAll /\ \A n \in Secrets \ {m} : ~Waits(n)
    BY <1>3, <2>1
  <2> QED BY <1>14, <1>15, <2>1, <2>2
<1>17. ASSUME NEW m \in Secrets, Passphrase(m)
       PROVE  InTurnEach'
  <2>1. /\ state \in Sign_in /\ UNCHANGED dialogue /\ data["key"] # None /\ ToldAll
        /\ \A n \in Secrets : ~Waits(n)
    BY <1>3, <1>5, <1>17 DEF Passphrase, NothingLeft, Sign_in
  <2>2. CASE DoConnect(m, dialogue, data["key"])
    BY <1>14, <1>15, <2>1, <2>2
  <2>3. CASE /\ UNCHANGED form
             /\ handler' = [handler EXCEPT ![m] =
                  [pc |-> "deleting_passphrase", typed |-> dialogue, key |-> data["key"]]]
    <3>1. (\A n \in Secrets \ {m} : handler'[n] = handler[n]) /\ handler'[m].pc # "raised"
      BY <2>3 DEF TypeOK
    <3> QED BY <1>11, <2>1, <2>3, <3>1
  <2> QED BY <1>17, <2>1, <2>2, <2>3 DEF Passphrase
<1>18. ASSUME UNCHANGED vars PROVE InTurnEach'
  BY <1>3, <1>18 DEF vars, form, ToldAll, Waits
<1> HIDE DEF InTurnEach
<1> QED BY <1>7, <1>8, <1>9, <1>10, <1>12, <1>13, <1>16, <1>17, <1>18 DEF Next

-----------------------------------------------------------------------------
(* IndInv is inductive.                                                    *)
THEOREM IndInvHolds == Spec => []IndInv
<1>1. IndInv /\ [Next]_vars => IndInv'
  BY TypeStep, UsedUpStep, OneDialogueStep, LateStep, InTurnStep DEF IndInv
<1> QED BY <1>1, InitInd, PTL DEF Spec

(* Questions, answers, handlers and connections keep their types.          *)
THEOREM TypeOKHolds == Spec => []TypeOK
<1>1. IndInv => TypeOK
  BY DEF IndInv
<1> QED BY <1>1, IndInvHolds, PTL

(* A connection is made of one dialogue's answers and secrets, unless a    *)
(* dialogue began while a secret was handled or an old button was pressed. *)
THEOREM OneDialogueHolds == Spec => []OneDialogue
<1>1. IndInv => OneDialogue
  BY DEF IndInv
<1> QED BY <1>1, IndInvHolds, PTL

(* However the user's messages, buttons and secrets interleave, no answer  *)
(* is used for two connections.                                            *)
THEOREM ConnectsOnceHolds == Spec => []ConnectsOnce
<1>1. IndInv => ConnectsOnce
  BY DEF IndInv
<1> QED BY <1>1, IndInvHolds, PTL

(* Nothing that was answered outlives the dialogue, and the passphrase is  *)
(* asked for only while the key is there.                                  *)
THEOREM NothingLeftHolds == Spec => []NothingLeft
<1>1. IndInv => NothingLeft
  BY DEF IndInv
<1> QED BY <1>1, IndInvHolds, PTL

(* A user who waits for each secret and presses what is asked for loses no *)
(* secret: _do_connect raises for nobody else.                             *)
THEOREM SecretIsUsedHolds == Spec => []SecretIsUsed
<1>1. IndInv => SecretIsUsed
  BY DEF IndInv
<1> QED BY <1>1, IndInvHolds, PTL
===============================================================================
