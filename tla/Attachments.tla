---------------------------- MODULE Attachments ----------------------------
(***************************************************************************)
(* Files sent in the chat of a trade.  A spawned task encrypts a file,     *)
(* uploads it and sends its address in the chat; an upload whose chat      *)
(* message could not be sent is kept, to be sent again without another     *)
(* upload.  One trade at a time may be sending, and the terminal knows it  *)
(* by a flag that keys set and results clear.                              *)
(*                                                                         *)
(* The keys are in ListPanes, where the trade they are about is chosen.    *)
(***************************************************************************)
EXTENDS Naturals, FiniteSets

CONSTANTS
  Items,      \* trades (in ListPanes also listings and disputes)
  MaxFiles,   \* bound: files picked, numbered in the order they are picked
  None        \* no trade, no file

ASSUME AttachmentBounds == MaxFiles \in Nat /\ None \notin Items \cup (1 .. MaxFiles)

Files == 1 .. MaxFiles

VARIABLES
  sending,    \* sending_attachment_order_id
  pending,    \* pending_order_attachment_sends: of each trade, the file kept
  jobs,       \* tasks, and results not yet taken by the main loop
  picked,     \* the trade each file was picked for
  uploaded,   \* files on a Blossom server
  delivered   \* files whose address was sent in the chat

attachVars == <<sending, pending, jobs, picked, uploaded, delivered>>

Working == {"encrypting", "sending"}
Results == {"OrderChatAttachmentSent", "OrderChatAttachmentError",
            "OrderChatAttachmentSendFailed"}

Jobs == [order : Items, file : Files, stage : Working \cup Results]

NoAttachments ==
  /\ sending = None /\ jobs = {}
  /\ pending = [o \in Items |-> None]
  /\ picked = [f \in Files |-> None]
  /\ uploaded = {} /\ delivered = {}

-----------------------------------------------------------------------------
\* Enter on a file of the picker, whose trade is pinned in the popup.
FromPath(o) ==
  /\ \E f \in Files :
       /\ picked[f] = None /\ \A g \in 1 .. f - 1 : picked[g] # None
       /\ picked' = [picked EXCEPT ![f] = o]
       /\ jobs' = jobs \cup {[order |-> o, file |-> f, stage |-> "encrypting"]}
  /\ sending' = o
  /\ UNCHANGED <<pending, uploaded, delivered>>

MayRetry(o) == sending = None /\ pending[o] # None

\* Ctrl+Shift+O sends what was uploaded before.
RetryPrepared(o) ==
  /\ MayRetry(o)
  /\ jobs' = jobs \cup {[order |-> o, file |-> pending[o], stage |-> "sending"]}
  /\ sending' = o
  /\ UNCHANGED <<pending, picked, uploaded, delivered>>

Becomes(job, stage) == jobs' = (jobs \ {job}) \cup {[job EXCEPT !.stage = stage]}

\* The file is refused, the row is gone, or no server takes it.
UploadFails(job) ==
  /\ job.stage = "encrypting"
  /\ Becomes(job, "OrderChatAttachmentError")
  /\ UNCHANGED <<sending, pending, picked, uploaded, delivered>>

Uploaded(job) ==
  /\ job.stage = "encrypting"
  /\ Becomes(job, "sending")
  /\ uploaded' = uploaded \cup {job.file}
  /\ UNCHANGED <<sending, pending, picked, delivered>>

Sent(job) ==
  /\ job.stage = "sending"
  /\ Becomes(job, "OrderChatAttachmentSent")
  /\ delivered' = delivered \cup {job.file}
  /\ UNCHANGED <<sending, pending, picked, uploaded>>

\* Three attempts failed, or the row of a trade sent again is gone.
SendFails(job) ==
  /\ job.stage = "sending"
  /\ Becomes(job, "OrderChatAttachmentSendFailed")
  /\ UNCHANGED <<sending, pending, picked, uploaded, delivered>>

Task == \E job \in jobs : UploadFails(job) \/ Uploaded(job) \/ Sent(job) \/ SendFails(job)

\* Mutated: only a success clears the flag.
Cleared_success(job) ==
  IF sending = job.order /\ job.stage = "OrderChatAttachmentSent" THEN None ELSE sending

\* The flag after the result of a job.
Cleared(job) == IF sending = job.order THEN None ELSE sending

\* Mutated: any result drops what the trade kept.
Kept_dropping(job) ==
  IF job.stage = "OrderChatAttachmentSendFailed" /\ pending[job.order] = None
    THEN [pending EXCEPT ![job.order] = job.file]
    ELSE [pending EXCEPT ![job.order] = None]

\* What is kept after the result of a job: a success drops what the trade kept,
\* whichever file was sent, and a failure replaces it.
Kept(job) ==
  CASE job.stage = "OrderChatAttachmentSent" -> [pending EXCEPT ![job.order] = None]
    [] job.stage = "OrderChatAttachmentSendFailed" -> [pending EXCEPT ![job.order] = job.file]
    [] OTHER -> pending

\* The main loop takes the result of a job.
AttachmentResult(job) ==
  /\ job.stage \in Results
  /\ jobs' = jobs \ {job}
  /\ sending' = Cleared(job)
  /\ pending' = Kept(job)
  /\ UNCHANGED <<picked, uploaded, delivered>>

-----------------------------------------------------------------------------
(* Properties.                                                             *)

\* The flag is set exactly while one task is under way or has an answer that was
\* not taken yet, and names its trade: no second upload starts beside it, and
\* the flag is not left set when nothing will clear it.
OneUpload ==
  IF sending = None THEN jobs = {}
  ELSE \E job \in jobs : jobs = {job} /\ job.order = sending

\* A file that was uploaded and not delivered is being sent or kept to be sent
\* again, unless a later file of the same trade was uploaded.
UploadIsKept ==
  \A f \in uploaded \ delivered :
    \/ \E job \in jobs : job.file = f
    \/ pending[picked[f]] = f
    \/ \E g \in uploaded : g > f /\ picked[g] = picked[f]
=============================================================================
