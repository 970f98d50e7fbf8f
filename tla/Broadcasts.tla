------------------------------ MODULE Broadcasts ------------------------------
(***************************************************************************)
(* One broadcast: its creation, the change of its audience, cancelling,    *)
(* and the job that queues a message for each recipient                    *)
(* (src/broadcast/broadcast.service.ts and                                 *)
(* src/queues/processors/broadcast.processor.ts).  A job is tried three    *)
(* times; one whose worker falls silent is given to another.               *)
(***************************************************************************)
EXTENDS Integers, FiniteSets, Requests

CONSTANTS
    Recipients,
    Attempts,   \* tries of a job (DEFAULT_JOB_OPTIONS: 3)
    MaxMishaps  \* bound on the runs lost beside a message, or overlapped

ASSUME BroadcastAssumption ==
    /\ Attempts \in Nat \ {0} /\ MaxMishaps \in Nat
    /\ Procs # {} /\ None \notin Procs

VARIABLES
    broadcast, \* its status
    recipient, \* broadcast_recipients: "none", "pending", "sent" or "failed"
    message,   \* by recipient: messages put into the outbound queues
    sendJob,   \* broadcast-<id>
    due,       \* scheduled_at has passed
    mishaps,   \* history
    settled    \* history: it was cancelled when nothing could overwrite that any more

broadcastState == <<broadcast, recipient, message, sendJob, due, mishaps, req>>
broadcastVars == <<broadcastState, settled>>

NoJob == [state |-> "none", tries |-> 0, by |-> None]

BroadcastInit ==
    /\ broadcast = "none"
    /\ recipient = [r \in Recipients |-> "none"]
    /\ message = [r \in Recipients |-> 0]
    /\ sendJob = NoJob
    /\ due = FALSE
    /\ mishaps = 0
    /\ settled = FALSE
    /\ ReqInit

-----------------------------------------------------------------------------
(* Requests *)

(* create, after its checks: the row, then its recipients, then the job,   *)
(* and last the status.                                                    *)
CreateBroadcast(p, audience, later) ==
    /\ broadcast = "none"
    /\ broadcast' = IF later THEN "scheduled" ELSE "draft"
    /\ Begins(p, "recipients", None, audience)
    /\ UNCHANGED <<recipient, message, sendJob, due, mishaps>>

InsertRecipients(p) ==
    /\ At(p, "recipients")
    /\ recipient' = [r \in Recipients |-> IF r \in req[p].seen THEN "pending" ELSE "none"]
    /\ IF broadcast = "scheduled" THEN Ends(p) ELSE GoesTo(p, "add")
    /\ UNCHANGED <<broadcast, message, sendJob, due, mishaps>>

AddSendJob(p) ==
    /\ At(p, "add")
    /\ sendJob' = [NoJob EXCEPT !.state = "waiting"]
    /\ GoesTo(p, "started")
    /\ UNCHANGED <<broadcast, recipient, message, due, mishaps>>

MarkStarted(p) ==
    /\ At(p, "started")
    /\ broadcast' = "sending"
    /\ Ends(p)
    /\ UNCHANGED <<recipient, message, sendJob, due, mishaps>>

(* update: the audience is replaced while the broadcast is still waiting.  *)
UpdateBroadcast(audience) ==
    /\ broadcast = "scheduled" /\ ~due
    /\ recipient' = [r \in Recipients |-> IF r \in audience THEN "pending" ELSE "none"]
    /\ UNCHANGED <<broadcast, message, sendJob, due, mishaps, req>>

CancelBroadcast(p) ==
    /\ broadcast \notin {"none", "sent", "cancelled"}
    /\ Begins(p, "cancel", None, {})
    /\ UNCHANGED <<broadcast, recipient, message, sendJob, due, mishaps>>

MarkCancelled(p) ==
    /\ At(p, "cancel")
    /\ broadcast' = "cancelled"
    /\ Ends(p)
    /\ UNCHANGED <<recipient, message, sendJob, due, mishaps>>

FallDue ==
    /\ broadcast = "scheduled" /\ ~due
    /\ due' = TRUE
    /\ UNCHANGED <<broadcast, recipient, message, sendJob, mishaps, req>>

-----------------------------------------------------------------------------
(* The worker: processBroadcast *)

TakeSendJob(p) ==
    /\ sendJob.state = "waiting"
    /\ sendJob' = [state |-> "active", tries |-> sendJob.tries + 1, by |-> p]
    /\ Begins(p, "status", None, {})
    /\ UNCHANGED <<broadcast, recipient, message, due, mishaps>>

(* Only the run that holds the job settles it. *)
SettleJob(p, state) ==
    sendJob' = IF sendJob.by = p
               THEN [state |-> state, tries |-> sendJob.tries, by |-> None] ELSE sendJob

(* Slip: a cancelled broadcast is sent. *)
SlipStopped == broadcast = "sent"

Stopped == broadcast \in {"cancelled", "sent"}

ReadStatus(p) ==
    /\ At(p, "status")
    /\ IF Stopped
         THEN SettleJob(p, "done") /\ Ends(p)
         ELSE GoesTo(p, "mark") /\ UNCHANGED sendJob
    /\ UNCHANGED <<broadcast, recipient, message, due, mishaps>>

MarkSending(p) ==
    /\ At(p, "mark")
    /\ broadcast' = "sending"
    /\ GoesTo(p, "list")
    /\ UNCHANGED <<recipient, message, sendJob, due, mishaps>>

(* Slip: whoever is in the audience. *)
SlipToServe == {r \in Recipients : recipient[r] # "none"}

ToServe == {r \in Recipients : recipient[r] = "pending"}

ListRecipients(p) ==
    /\ At(p, "list")
    /\ req' = [req EXCEPT ![p] = [at |-> "each", row |-> None, seen |-> ToServe]]
    /\ UNCHANGED <<broadcast, recipient, message, sendJob, due, mishaps>>

EnqueueMessage(p, r) ==
    /\ At(p, "each") /\ r \in req[p].seen
    /\ message' = [message EXCEPT ![r] = @ + 1]
    /\ req' = [req EXCEPT ![p] = [at |-> "note", row |-> r, seen |-> @.seen \ {r}]]
    /\ UNCHANGED <<broadcast, recipient, sendJob, due, mishaps>>

(* The member cannot be read, or the queue refuses. *)
EnqueueFails(p, r) ==
    /\ At(p, "each") /\ r \in req[p].seen
    /\ req' = [req EXCEPT ![p] = [at |-> "fail", row |-> r, seen |-> @.seen \ {r}]]
    /\ UNCHANGED <<broadcast, recipient, message, sendJob, due, mishaps>>

(* Both write by the row's id; a note that fails is caught like the rest.  *)
Note(p) ==
    /\ At(p, "note") \/ At(p, "fail")
    /\ recipient' = [recipient EXCEPT ![req[p].row] = IF At(p, "note") THEN "sent" ELSE "failed"]
    /\ req' = [req EXCEPT ![p] = [at |-> "each", row |-> None, seen |-> @.seen]]
    /\ UNCHANGED <<broadcast, message, sendJob, due, mishaps>>

NoteFails(p) ==
    /\ At(p, "note")
    /\ GoesTo(p, "fail")
    /\ UNCHANGED <<broadcast, recipient, message, sendJob, due, mishaps>>

(* Slip: the broadcast is marked before its messages are queued. *)
SlipServed(seen) == TRUE

Served(seen) == seen = {}

MarkSent(p) ==
    /\ At(p, "each") /\ Served(req[p].seen)
    /\ broadcast' = "sent"
    /\ SettleJob(p, "done")
    /\ Ends(p)
    /\ UNCHANGED <<recipient, message, due, mishaps>>

Sending(p) == req[p].at \in {"status", "mark", "list", "each", "note", "fail"}
Retried == IF sendJob.tries < Attempts THEN "waiting" ELSE "failed"

(* No provider, or the database fails: the job is tried again. *)
SendThrows(p) ==
    /\ Sending(p) /\ ~At(p, "note")
    /\ At(p, "fail") => mishaps < MaxMishaps
    /\ mishaps' = IF At(p, "fail") THEN mishaps + 1 ELSE mishaps
    /\ SettleJob(p, Retried)
    /\ Ends(p)
    /\ UNCHANGED <<broadcast, recipient, message, due>>

(* The worker renews its lock too late, or has died: another run starts.   *)
StallSendJob ==
    /\ sendJob.state = "active"
    /\ mishaps < MaxMishaps
    /\ mishaps' = mishaps + 1
    /\ sendJob' = [state |-> Retried, tries |-> sendJob.tries, by |-> None]
    /\ UNCHANGED <<broadcast, recipient, message, due, req>>

BroadcastDies(p) ==
    Dies(p) /\ UNCHANGED <<broadcast, recipient, message, sendJob, due, mishaps>>

Audiences == SUBSET Recipients \ {{}}

Handle(p) ==
    \/ InsertRecipients(p) \/ AddSendJob(p) \/ MarkStarted(p)
    \/ MarkCancelled(p)
    \/ TakeSendJob(p) \/ ReadStatus(p) \/ MarkSending(p) \/ ListRecipients(p)
    \/ \E r \in Recipients : EnqueueMessage(p, r)
    \/ Note(p) \/ MarkSent(p)

(* The request that creates the broadcast, and a run past its check of the *)
(* status, overwrite a cancellation.                                       *)
Overwriting == {"recipients", "add", "started", "mark", "list", "each", "note", "fail"}
Settled == broadcast = "cancelled" /\ \A p \in Procs : req[p].at \notin Overwriting

BroadcastStep ==
    \/ FallDue \/ StallSendJob
    \/ \E audience \in Audiences : UpdateBroadcast(audience)
    \/ \E p \in Procs :
          \/ Handle(p) \/ CancelBroadcast(p) \/ NoteFails(p) \/ SendThrows(p) \/ BroadcastDies(p)
          \/ \E r \in Recipients : EnqueueFails(p, r)
          \/ \E audience \in Audiences, later \in BOOLEAN : CreateBroadcast(p, audience, later)

BroadcastNext == BroadcastStep /\ settled' = (settled \/ Settled')

BroadcastSpec == BroadcastInit /\ [][BroadcastNext]_broadcastVars

(* Handlers go on, jobs are taken, time passes. *)
BroadcastFairSpec ==
    /\ BroadcastSpec
    /\ WF_broadcastState(FallDue)
    /\ \A p \in Procs : WF_broadcastState(Handle(p))

-----------------------------------------------------------------------------
BroadcastTypeOK ==
    /\ broadcast \in {"none", "draft", "scheduled", "sending", "sent", "cancelled"}
    /\ recipient \in [Recipients -> {"none", "pending", "sent", "failed"}]
    /\ message \in [Recipients -> Nat]
    /\ sendJob.state \in {"none", "waiting", "active", "done", "failed"}
    /\ sendJob.tries \in 0..Attempts
    /\ due \in BOOLEAN /\ mishaps \in 0..MaxMishaps /\ settled \in BOOLEAN

(* A recipient gets the message once, however often the job is tried, save *)
(* for a second one where a run was lost between the message and its note, *)
(* or was overlapped by the next (processBroadcast).                       *)
MessagesFollowMishaps == \A r \in Recipients : message[r] <= 1 + mishaps

(* Once a broadcast is sent nobody of its audience is left out: a run that *)
(* ends stands for every recipient, and a list read too early for none     *)
(* (create, processBroadcast).                                             *)
SentLeavesNobodyOut ==
    broadcast = "sent" => \A r \in Recipients : recipient[r] # "pending"

(* Tries, deaths and overlapping runs of the job included, everybody of    *)
(* the audience is served, and nobody twice without a mishap               *)
(* (processBroadcast).                                                     *)
AudienceIsServed == MessagesFollowMishaps /\ SentLeavesNobodyOut

(* A cancellation stops the broadcast for good, also against the tries of  *)
(* its job that are still to come, unless it met the request that created  *)
(* the broadcast or a run past its check of the status (cancel,            *)
(* processBroadcast): those overwrite it.                                  *)
CancelStands ==
    [][settled => broadcast' = "cancelled" /\ message' = message]_broadcastVars

(* What the developer guide says of a scheduled broadcast: at its time it  *)
(* is sent, unless it was cancelled.  Nothing ever queues its job.         *)
ScheduledIsSent ==
    (broadcast = "scheduled" /\ due) ~> (broadcast \in {"sending", "sent", "cancelled"})
=============================================================================
