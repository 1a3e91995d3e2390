---------------------------- MODULE ConnectForm ----------------------------
(***************************************************************************)
(* The dialogue of /connect (connect.py, states.py): one question after    *)
(* another, the answers kept in the user's FSM data, and a connection made *)
(* of them at the end.  Every handler runs to its first real await without *)
(* interruption (the FSM storage is in memory and does not suspend); the   *)
(* awaits that matter are the deletion of a message with a secret and the  *)
(* download of a key, during which the user's other messages are handled.  *)
(*                                                                         *)
(* An answer stands for the number of the dialogue it was given in.        *)
(* Answers that a validator rejects change nothing and are left out.       *)
(***************************************************************************)
EXTENDS Naturals, Sequences

CONSTANTS
  None,
  Secrets,         \* messages with a password, a key file or a passphrase
  MaxDialogues     \* bound: /connect commands without a name

ASSUME DialoguesAssumption == MaxDialogues \in Nat

VARIABLES
  state,      \* the FSM state: the question that is open
  data,       \* the FSM data: the answers so far
  dialogue,   \* how many dialogues have begun
  keyboards,  \* dialogues whose authentication buttons are on the screen
  handler,    \* the handler of each secret: where it is and what it holds
  made,       \* the connection each secret was used for
  late,       \* history: a dialogue has begun during a secret's awaits
  oldButton,  \* history: a button was pressed that was not asked for
  hurried     \* history: the user did not wait while a secret was handled

form    == <<state, data>>
history == <<late, oldButton, hurried>>
vars    == <<form, dialogue, keyboards, handler, made, history>>

Questions == <<"name", "host", "port", "username">>
Asked     == {Questions[i] : i \in DOMAIN Questions}
Fields    == Asked \cup {"key"}
Sign_in   == {"auth_type", "password", "key_file", "key_passphrase"}
Answers   == 1..MaxDialogues \cup {None}

ASSUME NoneAssumption == None \notin Nat /\ None \notin Asked \cup Sign_in

NoData    == [f \in Fields |-> None]
Idle      == [pc |-> "idle", typed |-> None, key |-> None]
Waiting   == {"deleting", "downloading", "deleting_passphrase"}

(* fault: the port and the username are not asked for.                     *)
SkipsPort(q) == LET i == CHOOSE j \in DOMAIN Questions : Questions[j] = q
                IN  IF i < 2 THEN Questions[i + 1] ELSE "auth_type"
After(q) == LET i == CHOOSE j \in DOMAIN Questions : Questions[j] = q
            IN  IF i < Len(Questions) THEN Questions[i + 1] ELSE "auth_type"
Pending  == \E m \in Secrets : handler[m].pc \in Waiting
Hurry    == hurried' = (hurried \/ Pending)

Init ==
  /\ state = None /\ data = NoData
  /\ dialogue = 0 /\ keyboards = {}
  /\ handler = [m \in Secrets |-> Idle]
  /\ made = [m \in Secrets |-> None]
  /\ late = FALSE /\ oldButton = FALSE /\ hurried = FALSE

-----------------------------------------------------------------------------
(* fault: the question alone is cleared.                                   *)
ClearedState(s, d) == s = None /\ d = data
(* state.clear(): the question and the answers.                            *)
Clear(s, d) == s = None /\ d = NoData

(* /connect: the first question; the answers of an abandoned dialogue stay.*)
Begin ==
  /\ dialogue < MaxDialogues
  /\ dialogue' = dialogue + 1
  /\ state' = "name"
  /\ late' = (late \/ Pending)
  /\ Hurry
  /\ UNCHANGED <<data, keyboards, handler, made, oldButton>>

(* /disconnect, or /connect with the name of a saved server.               *)
Leave ==
  /\ Clear(state', data')
  /\ Hurry
  /\ UNCHANGED <<dialogue, keyboards, handler, made, late, oldButton>>

(* update_data.                                                            *)
StoreMissing(f, d) == data' = IF data[f] = None THEN [data EXCEPT ![f] = d] ELSE data   \* fault
Store(f, d)        == data' = [data EXCEPT ![f] = d]

(* process_name, process_host, process_port and process_username.          *)
Answer(q) ==
  /\ state = q
  /\ Store(q, dialogue)
  /\ state' = After(q)
  /\ keyboards' = IF state' = "auth_type" THEN keyboards \cup {dialogue} ELSE keyboards
  /\ UNCHANGED <<dialogue, handler, made, history>>

(* A button: its handler has no filter on the state.  The edit that takes  *)
(* the buttons off the screen comes later and may fail.                    *)
Press(d, next) ==
  /\ d \in keyboards
  /\ state' = next
  /\ keyboards' \in {keyboards, keyboards \ {d}}
  /\ oldButton' = (oldButton \/ state \notin Sign_in)
  /\ Hurry
  /\ UNCHANGED <<data, dialogue, handler, made, late>>

(* A secret arrives; its handler goes to its first await.                  *)
Receives(m, question, pc) ==
  /\ state = question /\ handler[m].pc = "idle"
  /\ handler' = [handler EXCEPT ![m] = [pc |-> pc, typed |-> dialogue, key |-> None]]
  /\ Hurry
  /\ UNCHANGED <<form, dialogue, keyboards, made, late, oldButton>>

Password(m) == Receives(m, "password", "deleting")
KeyFile(m)  == Receives(m, "key_file", "downloading")

(* The download: the answers may have been cleared meanwhile.              *)
Downloaded(m) ==
  /\ handler[m].pc = "downloading"
  /\ handler' = [handler EXCEPT ![m].pc = "done"]
  /\ \/ /\ Store("key", handler[m].typed)
        /\ state' = "key_passphrase"
     \/ UNCHANGED form            \* "Failed to read key file"
  /\ UNCHANGED <<dialogue, keyboards, made, history>>

(* What a connection is made of.                                           *)
Taken(typed, key) == [answers |-> [q \in Asked |-> data[q]], secrets |-> {typed, key} \ {None}]

(* fault: the dialogue stays open.                                         *)
StillOpen(m, typed, key) ==
  /\ UNCHANGED form
  /\ handler' = [handler EXCEPT ![m].pc = "done"]
  /\ made' = [made EXCEPT ![m] = Taken(typed, key)]

(* fault: a connection is made of whatever is there.                       *)
NeverRaises(m, typed, key) ==
  /\ Clear(state', data')
  /\ handler' = [handler EXCEPT ![m].pc = "done"]
  /\ made' = [made EXCEPT ![m] = Taken(typed, key)]

(* _do_connect: takes the answers and clears them; data["name"] and the    *)
(* like raise when one is missing.                                         *)
DoConnect(m, typed, key) ==
  /\ Clear(state', data')
  /\ IF \E q \in Asked : data[q] = None
     THEN /\ handler' = [handler EXCEPT ![m].pc = "raised"]
          /\ UNCHANGED made
     ELSE /\ handler' = [handler EXCEPT ![m].pc = "done"]
          /\ made' = [made EXCEPT ![m] = Taken(typed, key)]

(* A passphrase: the key is taken now, the rest of the answers when the    *)
(* message has been deleted.  "-" is not deleted.                          *)
Passphrase(m) ==
  /\ state = "key_passphrase" /\ handler[m].pc = "idle"
  /\ Hurry
  /\ IF data["key"] = None
     THEN /\ Clear(state', data')         \* "Key upload expired"
          /\ handler' = [handler EXCEPT ![m].pc = "done"]
          /\ UNCHANGED made
     ELSE \/ DoConnect(m, dialogue, data["key"])
          \/ /\ handler' = [handler EXCEPT ![m] =
                  [pc |-> "deleting_passphrase", typed |-> dialogue, key |-> data["key"]]]
             /\ UNCHANGED <<form, made>>
  /\ UNCHANGED <<dialogue, keyboards, late, oldButton>>

Deleted(m) ==
  /\ handler[m].pc \in {"deleting", "deleting_passphrase"}
  /\ DoConnect(m, handler[m].typed, handler[m].key)
  /\ UNCHANGED <<dialogue, keyboards, history>>

(* The bot stops and starts again: the storage is new, the buttons stay.   *)
Restart ==
  /\ Clear(state', data')
  /\ handler' = [m \in Secrets |-> IF handler[m].pc \in Waiting
                                  THEN [handler[m] EXCEPT !.pc = "done"] ELSE handler[m]]
  /\ UNCHANGED <<dialogue, keyboards, made, history>>

Next ==
  \/ Begin \/ Leave \/ Restart
  \/ \E q \in Asked : Answer(q)
  \/ \E d \in keyboards, next \in {"password", "key_file"} : Press(d, next)
  \/ \E m \in Secrets : \/ Password(m) \/ KeyFile(m) \/ Downloaded(m)
                        \/ Passphrase(m) \/ Deleted(m)
Spec == Init /\ [][Next]_vars

-----------------------------------------------------------------------------
(* Correctness.                                                            *)

(* The question is one of states.py or none, answers are of dialogues that *)
(* have begun, and a secret is handled, held and used as _do_connect does. *)
TypeOK ==
  /\ state \in Asked \cup Sign_in \cup {None}
  /\ data \in [Fields -> Answers] /\ \A f \in Fields : data[f] # None => data[f] <= dialogue
  /\ dialogue \in 0..MaxDialogues /\ keyboards \subseteq 1..dialogue
  /\ handler \in [Secrets -> [pc : Waiting \cup {"idle", "done", "raised"},
                              typed : Answers, key : Answers]]
  /\ \A m \in Secrets : made[m] # None =>
        /\ handler[m].pc = "done"
        /\ made[m].answers \in [Asked -> 1..dialogue]
        /\ made[m].secrets \subseteq 1..dialogue /\ made[m].secrets # {}
  /\ late \in BOOLEAN /\ oldButton \in BOOLEAN /\ hurried \in BOOLEAN

(* A connection is made of the answers and secrets of one dialogue,        *)
(* although /connect starts over without clearing what an abandoned        *)
(* dialogue was told (connect.py:61): unless a dialogue began while an     *)
(* earlier one's secret was handled, or an old button was pressed, which   *)
(* skips questions.                                                        *)
OneDialogue ==
  ~late /\ ~oldButton => \A m \in Secrets : made[m] # None =>
    \E d \in 1..dialogue : /\ \A q \in Asked : made[m].answers[q] = d
                          /\ made[m].secrets = {d}

(* No answer is used for two connections, whatever the user sends and      *)
(* presses and however long the secrets' awaits are: _do_connect takes and *)
(* clears the answers without an await in between (connect.py:257-258).    *)
ConnectsOnce ==
  \A m, n \in Secrets : m # n /\ made[m] # None /\ made[n] # None =>
    \A q \in Asked : made[m].answers[q] # made[n].answers[q]

(* When the dialogue is over nothing that was answered is left, the key    *)
(* least of all, also if a download ended after it; and the passphrase is  *)
(* asked for only while the key is there: "Key upload expired" never       *)
(* happens (connect.py:216-217, 230-233).                                  *)
NothingLeft == /\ state = None => data = NoData
               /\ state = "key_passphrase" => data["key"] # None

(* A password or passphrase that was asked for is used: its handler raises *)
(* KeyError, and the user is told nothing, only if the user did not wait   *)
(* for an earlier secret or pressed an old button (connect.py:260-263).    *)
SecretIsUsed == ~hurried /\ ~oldButton => \A m \in Secrets : handler[m].pc # "raised"
=============================================================================
