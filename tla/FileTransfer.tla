---------------------------- MODULE FileTransfer ----------------------------
(***************************************************************************)
(* /upload and /download: FileTransferService (app/application/services.py)*)
(* with the handlers of app/interfaces/telegram/handlers/files.py around   *)
(* it.  Each transfer has a temporary directory of its own on the bot's    *)
(* disk.  Actions are what runs between two awaits; Telegram, SFTP and the *)
(* remote shell may raise at each.                                         *)
(***************************************************************************)
EXTENDS ActiveSession

CONSTANTS Uploads, Downloads

Transfers == Uploads \cup Downloads

VARIABLES
  step,      \* where each transfer is suspended
  session,   \* the session it uses
  dirs       \* the transfers whose temporary directory exists

transfers == <<step, session, dirs>>

Waits(t, where) == step[t] = where
Goto(t, where) == step' = [step EXCEPT ![t] = where]
MakesDir(t)     == dirs' = dirs \cup {t}
RemovesDir(t)   == dirs' = dirs \ {t}
Forgets(t)      == session' = [session EXCEPT ![t] = None]   \* the handler's local variable

-----------------------------------------------------------------------------
(* cmd_upload, handle_caption_upload, _perform_upload and upload_local_file*)

(* The status message is on its way; a command without an attachment ends. *)
UploadStarts(u) ==
  /\ Waits(u, "idle") /\ Goto(u, "announcing")
  /\ UNCHANGED <<session, dirs>>

(* mkdtemp, outside the try; then the file is fetched from Telegram.       *)
UploadFetches(u) ==
  /\ u \in Uploads /\ Waits(u, "announcing")
  /\ MakesDir(u) /\ Goto(u, "fetching")
  /\ UNCHANGED session

(* The session that is active now; `given`: there is a remote path.        *)
Destination(u, given) ==
  IF given THEN "putting" ELSE IF GetActive \in shells THEN "probing" ELSE "reporting"
UploadFetched(u, given) ==
  /\ Waits(u, "fetching") /\ GetActive # None
  /\ Goto(u, Destination(u, given))
  /\ session' = [session EXCEPT ![u] = IF Destination(u, given) = "reporting" THEN None ELSE GetActive]
  /\ UNCHANGED dirs

UploadProbed(u) ==
  /\ Waits(u, "probing")
  /\ Goto(u, "putting")
  /\ UNCHANGED <<session, dirs>>

(* sftp_upload on that session; the finally clause comes before the answer.*)
UploadPut(u) ==
  /\ Waits(u, "putting")
  /\ RemovesDir(u) /\ Goto(u, "done") /\ Forgets(u)

(* Anything in the try raises, or no session is active: the except clause  *)
(* awaits its message first, and the finally clause follows it.            *)
UploadRaises(u) ==
  /\ step[u] \in {"fetching", "probing", "putting"} /\ u \in Uploads
  /\ Goto(u, "reporting") /\ Forgets(u)
  /\ UNCHANGED dirs

KeepsDir(u) == UNCHANGED dirs                                 \* fault: no finally
Finally(u)  == RemovesDir(u)
UploadReported(u) ==
  /\ u \in Uploads /\ Waits(u, "reporting")
  /\ Finally(u) /\ Goto(u, "done")
  /\ UNCHANGED session

-----------------------------------------------------------------------------
(* cmd_download and download_to_temp_file                                  *)

DownloadStarts(d) ==
  /\ Waits(d, "idle") /\ Goto(d, "announcing")
  /\ UNCHANGED <<session, dirs>>

DownloadGets(d) ==
  /\ d \in Downloads /\ Waits(d, "announcing") /\ GetActive # None
  /\ session' = [session EXCEPT ![d] = GetActive]
  /\ MakesDir(d) /\ Goto(d, "getting")

(* The status message, or the session, is not there: no directory yet.     *)
TransferRefused(t) ==
  /\ Waits(t, "announcing") /\ Goto(t, "done")
  /\ UNCHANGED <<session, dirs>>

(* sftp_download raises: nobody knows the directory.                       *)
DownloadRaises(d) ==
  /\ Waits(d, "getting") /\ Goto(d, "lost") /\ Forgets(d)
  /\ UNCHANGED dirs

(* The file is sent, or is too large, which is said instead.               *)
DownloadGot(d) ==
  /\ Waits(d, "getting") /\ Goto(d, "sending") /\ Forgets(d)
  /\ UNCHANGED dirs

DownloadEnds(d) ==
  /\ Waits(d, "sending")
  /\ Finally(d) /\ Goto(d, "done")
  /\ UNCHANGED session

-----------------------------------------------------------------------------
TransfersInit ==
  /\ step = [t \in Transfers |-> "idle"] /\ session = [t \in Transfers |-> None]
  /\ dirs = {}

StartTransfer(t) == (t \in Uploads /\ UploadStarts(t)) \/ (t \in Downloads /\ DownloadStarts(t))

ContinueTransfer(t) ==
  \/ TransferRefused(t)
  \/ UploadFetches(t) \/ \E given \in BOOLEAN : UploadFetched(t, given)
  \/ UploadProbed(t) \/ UploadPut(t) \/ UploadRaises(t) \/ UploadReported(t)
  \/ DownloadGets(t) \/ DownloadRaises(t) \/ DownloadGot(t) \/ DownloadEnds(t)

TransfersTypeOK ==
  /\ step \in [Transfers -> {"idle", "announcing", "fetching", "probing", "putting", "reporting",
                             "getting", "sending", "lost", "done", "stopped"}]
  /\ session \in [Transfers -> Ref(Connections)] /\ dirs \in SUBSET Transfers
=============================================================================
