--------------------------- MODULE WebhookDelivery ---------------------------
(***************************************************************************)
(* Deliveries to one webhook subscription: the rows, their jobs and the    *)
(* endpoint (src/webhooks/webhooks.service.ts and                          *)
(* webhook-delivery.processor.ts).  A job is tried three times; after a    *)
(* try that threw the worker's "failed" event writes the row beside what   *)
(* comes next.                                                             *)
(***************************************************************************)
EXTENDS Integers, FiniteSets, Requests

CONSTANTS
    Deliveries,
    Tries,        \* of a job (3)
    MaxAccidents  \* bound on runs that were lost, stalled or overtaken

ASSUME WebhookAssumption ==
    /\ Tries \in Nat \ {0} /\ MaxAccidents \in Nat
    /\ IsFiniteSet(Procs) /\ None \notin Procs

VARIABLES
    subscription,
    allowed,   \* the plan has webhooks
    delivery,
    postJob,   \* by delivery: "none", "waiting", "active", "done" or "failed"; tries; holder
    endpoint,  \* by delivery: posts that reached it, and those it accepted
    accidents  \* history

webhookVars == <<subscription, allowed, delivery, postJob, endpoint, accidents, req>>

NoDelivery == [status |-> "none", attempts |-> 0]
NoPostJob == [state |-> "none", tries |-> 0, by |-> None]

WebhookInit ==
    /\ subscription = [active |-> TRUE, archived |-> FALSE]
    /\ allowed = TRUE
    /\ delivery = [d \in Deliveries |-> NoDelivery]
    /\ postJob = [d \in Deliveries |-> NoPostJob]
    /\ endpoint = [d \in Deliveries |-> [posts |-> 0, accepted |-> 0]]
    /\ accidents = 0
    /\ ReqInit

-----------------------------------------------------------------------------
(* The subscription.  There is no way back from deactivation.              *)

DeactivateSubscription ==
    /\ ~subscription.archived
    /\ subscription' = [subscription EXCEPT !.active = FALSE]
    /\ UNCHANGED <<allowed, delivery, postJob, endpoint, accidents, req>>

ArchiveOrRestore ==
    /\ subscription' = [subscription EXCEPT !.archived = ~@]
    /\ UNCHANGED <<allowed, delivery, postJob, endpoint, accidents, req>>

ChangePlan ==
    /\ allowed' = ~allowed
    /\ UNCHANGED <<subscription, delivery, postJob, endpoint, accidents, req>>

(* notifySubscribers reads the plan and the active subscriptions, archived *)
(* ones too; testDelivery asks for no plan.                                *)
Notify(p, d, test) ==
    /\ delivery[d] = NoDelivery
    /\ \A q \in Procs : req[q].row # d
    /\ subscription.active /\ (test \/ allowed)
    /\ Begins(p, "create", d, 0)
    /\ UNCHANGED <<subscription, allowed, delivery, postJob, endpoint, accidents>>

CreateDelivery(p) ==
    /\ At(p, "create")
    /\ delivery' = [delivery EXCEPT ![req[p].row].status = "pending"]
    /\ GoesTo(p, "queue")
    /\ UNCHANGED <<subscription, allowed, postJob, endpoint, accidents>>

QueueDelivery(p) ==
    /\ At(p, "queue")
    /\ postJob' = [postJob EXCEPT ![req[p].row].state = "waiting"]
    /\ Ends(p)
    /\ UNCHANGED <<subscription, allowed, delivery, endpoint, accidents>>

-----------------------------------------------------------------------------
(* The worker: process *)

Settles(p, d, state) ==
    postJob' = IF postJob[d].by = p
               THEN [postJob EXCEPT ![d].state = state, ![d].by = None] ELSE postJob
AfterFailure(d) == IF postJob[d].tries < Tries THEN "waiting" ELSE "failed"

(* The note of the last failure may still be under way. *)
Overtakes(d) == \E q \in Procs : req[q].at = "failed" /\ req[q].row = d

TakeDelivery(p, d) ==
    /\ postJob[d].state = "waiting"
    /\ Overtakes(d) => accidents < MaxAccidents
    /\ accidents' = IF Overtakes(d) THEN accidents + 1 ELSE accidents
    /\ postJob' = [postJob EXCEPT ![d] = [state |-> "active", tries |-> @.tries + 1, by |-> p]]
    /\ Begins(p, "read", d, 0)
    /\ UNCHANGED <<subscription, allowed, delivery, endpoint>>

ReadSubscription(p) ==
    /\ At(p, "read")
    /\ GoesTo(p, IF subscription.active /\ ~subscription.archived /\ allowed
                 THEN "count" ELSE "refuse")
    /\ UNCHANGED <<subscription, allowed, delivery, postJob, endpoint, accidents>>

Refuse(p) ==
    LET d == req[p].row IN
    /\ At(p, "refuse")
    /\ delivery' = [delivery EXCEPT ![d].status = "failed"]
    /\ Settles(p, d, "done")
    /\ Ends(p)
    /\ UNCHANGED <<subscription, allowed, endpoint, accidents>>

(* Slip: the attempt is not counted. *)
SlipCountAttempt(p) ==
    /\ At(p, "count")
    /\ GoesTo(p, "post")
    /\ UNCHANGED <<subscription, allowed, delivery, postJob, endpoint, accidents>>

CountAttempt(p) ==
    /\ At(p, "count")
    /\ delivery' = [delivery EXCEPT ![req[p].row].attempts = @ + 1]
    /\ GoesTo(p, "post")
    /\ UNCHANGED <<subscription, allowed, postJob, endpoint, accidents>>

(* sendWebhook: a 2xx; or another status, no answer within ten seconds, a  *)
(* post that never arrives - or one that was accepted all the same.        *)
Post(p, arrives, accepts, answers) ==
    LET d == req[p].row
        lost == accepts /\ ~answers IN
    /\ At(p, "post")
    /\ accepts => arrives
    /\ answers => arrives
    /\ lost => accidents < MaxAccidents
    /\ accidents' = IF lost THEN accidents + 1 ELSE accidents
    /\ endpoint' = [endpoint EXCEPT ![d] =
                      [posts |-> IF arrives THEN @.posts + 1 ELSE @.posts,
                       accepted |-> IF accepts THEN @.accepted + 1 ELSE @.accepted]]
    /\ IF accepts /\ answers
         THEN GoesTo(p, "success") /\ UNCHANGED postJob
         ELSE GoesTo(p, "failed") /\ Settles(p, d, AfterFailure(d))
    /\ UNCHANGED <<subscription, allowed, delivery>>

(* Slip: the row is not told. *)
SlipSucceeds(p) ==
    /\ At(p, "success")
    /\ Settles(p, req[p].row, "done")
    /\ Ends(p)
    /\ UNCHANGED <<subscription, allowed, delivery, endpoint, accidents>>

Succeeds(p) ==
    /\ At(p, "success")
    /\ delivery' = [delivery EXCEPT ![req[p].row].status = "success"]
    /\ Settles(p, req[p].row, "done")
    /\ Ends(p)
    /\ UNCHANGED <<subscription, allowed, endpoint, accidents>>

(* The database fails: after a success that is an accident. *)
PostThrows(p) ==
    LET d == req[p].row IN
    /\ req[p].at \in {"read", "refuse", "count", "success"}
    /\ At(p, "success") => accidents < MaxAccidents
    /\ accidents' = IF At(p, "success") THEN accidents + 1 ELSE accidents
    /\ GoesTo(p, "failed")
    /\ Settles(p, d, AfterFailure(d))
    /\ UNCHANGED <<subscription, allowed, delivery, endpoint>>

(* onFailed, whose own failure is only logged. *)
OnFailed(p) ==
    /\ At(p, "failed")
    /\ delivery' = [delivery EXCEPT ![req[p].row].status = "failed"]
    /\ Ends(p)
    /\ UNCHANGED <<subscription, allowed, postJob, endpoint, accidents>>

(* The worker is silent for too long, or dead: another run takes the job.  *)
StallDelivery(d) ==
    /\ postJob[d].state = "active"
    /\ accidents < MaxAccidents
    /\ accidents' = accidents + 1
    /\ postJob' = [postJob EXCEPT ![d] = [state |-> AfterFailure(d), tries |-> @.tries, by |-> None]]
    /\ UNCHANGED <<subscription, allowed, delivery, endpoint, req>>

WebhookDies(p) ==
    Dies(p) /\ UNCHANGED <<subscription, allowed, delivery, postJob, endpoint, accidents>>

WebhookNext ==
    \/ DeactivateSubscription \/ ArchiveOrRestore \/ ChangePlan
    \/ \E d \in Deliveries : StallDelivery(d)
    \/ \E p \in Procs :
          \/ CreateDelivery(p) \/ QueueDelivery(p) \/ ReadSubscription(p) \/ Refuse(p)
          \/ CountAttempt(p) \/ Succeeds(p) \/ PostThrows(p) \/ OnFailed(p) \/ WebhookDies(p)
          \/ \E arrives, accepts, answers \in BOOLEAN : Post(p, arrives, accepts, answers)
          \/ \E d \in Deliveries :
                TakeDelivery(p, d) \/ \E test \in BOOLEAN : Notify(p, d, test)

WebhookSpec == WebhookInit /\ [][WebhookNext]_webhookVars

-----------------------------------------------------------------------------
WebhookTypeOK ==
    /\ subscription \in [active : BOOLEAN, archived : BOOLEAN]
    /\ allowed \in BOOLEAN
    /\ \A d \in Deliveries :
          /\ delivery[d].status \in {"none", "pending", "success", "failed"}
          /\ endpoint[d].accepted <= endpoint[d].posts
          /\ endpoint[d].posts <= delivery[d].attempts
          /\ postJob[d].tries \in 0..Tries
    /\ accidents \in 0..MaxAccidents

(* A delivery that the endpoint has accepted is shown as a success once    *)
(* its job is over, and is posted to it only once: unless an answer or a   *)
(* note was lost, a run stalled, or a retry overtook the note of the       *)
(* failure before it (process, onFailed).                                  *)
ShownFollowsAccidents ==
    \A d \in Deliveries :
        /\ endpoint[d].accepted <= 1 + accidents
        /\ accidents = 0 /\ endpoint[d].accepted = 1 =>
              \/ delivery[d].status = "success"
              \/ \E p \in Procs : At(p, "success") /\ req[p].row = d
              \/ postJob[d].state = "active"
=============================================================================
