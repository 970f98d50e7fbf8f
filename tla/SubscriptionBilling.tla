------------------------- MODULE SubscriptionBilling -------------------------
(***************************************************************************)
(* The subscription ledger of one church: src/billing/billing.service.ts.  *)
(*                                                                         *)
(* Browsers ask for quotes and open checkouts; a checkout writes a payment *)
(* row under the church row lock, then talks to the payment provider       *)
(* outside the transaction.  The browser's verification call, the signed   *)
(* provider callback and the recovery worker all run reconcilePayment on a *)
(* payment row: they read the row, await the provider's answer, and then   *)
(* settle the row.  Every await is a step boundary, so any two of them may *)
(* interleave.  A transaction under the church lock is one step.           *)
(*                                                                         *)
(* Churches share no row, so one church is enough.  Amounts, currencies    *)
(* and the wording of conflicts are left out; a provider answer whose      *)
(* amount or currency does not match is the provider state "mismatch".     *)
(***************************************************************************)
EXTENDS Integers, FiniteSets

CONSTANTS
    Refs,           \* payment references a church can create
    Workers,        \* concurrent runs of reconcilePayment
    Recovery,       \* the one of them that is the recovery worker
    Plans,          \* plans a checkout can name
    Cycles,         \* billing cycles
    Rank,           \* PLAN_RANK
    Length,         \* length of a billing cycle, in ticks
    QuoteTTL,       \* life of a locked quote, in ticks
    InitGrace,      \* age at which a checkout without URL loses its slot
    RecoveryWindow, \* age at which the recovery worker gives up
    MaxNow,         \* bound on the clock
    MaxQuotes,      \* bound on the quotes alive at once
    Schedulable,    \* plans (or None) an administrator may schedule
    None

ASSUME BillingAssumption ==
    /\ Recovery \in Workers
    /\ Rank \in [Plans -> Nat]
    /\ \A p, q \in Plans : Rank[p] = Rank[q] => p = q
    /\ Length \in [Cycles -> Nat \ {0}]
    /\ {QuoteTTL, InitGrace, RecoveryWindow, MaxNow, MaxQuotes} \subseteq Nat
    /\ None \notin Plans \cup Cycles \cup Refs
    /\ Schedulable \subseteq Plans \cup {None}

VARIABLES
    now,       \* wall clock; 0 stands for a null date
    sub,       \* the church's platform_subscriptions row
    scheduled, \* its scheduled_plan column
    quotes,    \* locked quotes in Redis
    order,     \* subscription_payments: the immutable facts of each row
    status,    \* subscription_payments.status; "none" while there is no row
    outcome,   \* subscription_payments.application_status
    url,       \* whether subscription_payments.checkout_url is set
    phase,     \* the checkout request that created the row, after its commit
    handed,    \* references whose payment page reached a browser
    gw,        \* the provider's record of a reference
    rec,       \* the runs of reconcilePayment
    emails,    \* company_email_notifications, by the payment they confirm
    grant      \* history: the access period each applied payment bought

rows == <<order, status, outcome, url>>
entitlement == <<sub, scheduled, emails, grant>>
vars == <<now, quotes, phase, handed, gw, rec, rows, entitlement>>

Intents == {"renewal", "upgrade"}
Verdicts == {"failed", "reversed", "success"}

NoOrder ==
    [created |-> 0, plan |-> None, cycle |-> None, intent |-> "renewal",
     basePlan |-> None, basePaid |-> 0, target |-> 0]

Idle == [at |-> "idle", ref |-> None, verdict |-> "none"]

Later(a, b) == IF a > b THEN a ELSE b

(* subscriptionEnd: at this grain, calendar arithmetic is addition. *)
SubscriptionEnd(start, cycle) == start + Length[cycle]

Active == sub.paidUntil > now

-----------------------------------------------------------------------------
(* Quotes and checkouts *)

(* register creates the subscription unpaid, with the plan that was chosen. *)
Init ==
    /\ now = 1
    /\ sub \in [plan : Plans, cycle : Cycles, paidUntil : {0}, started : {0}]
    /\ scheduled = None
    /\ quotes = {}
    /\ order = [r \in Refs |-> NoOrder]
    /\ status = [r \in Refs |-> "none"]
    /\ outcome = [r \in Refs |-> "pending"]
    /\ url = [r \in Refs |-> FALSE]
    /\ phase = [r \in Refs |-> "none"]
    /\ handed = {}
    /\ gw = [r \in Refs |-> "absent"]
    /\ rec = [w \in Workers |-> Idle]
    /\ emails = [r \in Refs |-> "none"]
    /\ grant = [r \in Refs |-> [from |-> 0, to |-> 0]]

(* calculateQuote throws unless the transition is a renewal of a lapsed    *)
(* subscription or an upgrade, in the same cycle, of an active one.        *)
Upgradable(plan, cycle) ==
    /\ plan # sub.plan
    /\ Rank[plan] > Rank[sub.plan]
    /\ cycle = sub.cycle

Sellable(plan, cycle) == Active => Upgradable(plan, cycle)

(* A quote is locked to the subscription it was computed from. *)
Quoted(plan, cycle) ==
    [plan |-> plan, cycle |-> cycle,
     intent |-> IF Active THEN "upgrade" ELSE "renewal",
     expires |-> now + QuoteTTL, base |-> sub]

Quote(plan, cycle) ==
    /\ Sellable(plan, cycle)
    /\ Cardinality(quotes) < MaxQuotes
    /\ quotes' = quotes \cup {Quoted(plan, cycle)}
    /\ UNCHANGED <<now, phase, handed, gw, rec, rows, entitlement>>

(* schedule: a downgrade (or none) for the next renewal. *)
Schedule(plan) ==
    /\ \A r \in Refs : status[r] # "pending"
    /\ plan # None => Active /\ Rank[plan] <= Rank[sub.plan]
    /\ scheduled' = plan
    /\ UNCHANGED <<now, quotes, phase, handed, gw, rec, rows, sub, emails, grant>>

(* A checkout whose API invocation died before it stored a URL. *)
Abandoned(r) ==
    /\ status[r] = "pending"
    /\ ~url[r]
    /\ order[r].created + InitGrace < now

(* Slip: an attempt that has no URL yet is not counted. *)
SlipSlotTaken == \E r \in Refs : status[r] = "pending" /\ url[r]

SlotTaken == \E r \in Refs : status[r] = "pending" /\ ~Abandoned(r)

QuoteAccepted(q) ==
    /\ q.expires > now
    /\ q.base = sub
    /\ Sellable(q.plan, q.cycle)

NewOrder(q) ==
    [created |-> now, plan |-> q.plan, cycle |-> q.cycle, intent |-> q.intent,
     basePlan |-> sub.plan, basePaid |-> sub.paidUntil,
     target |-> IF q.intent = "upgrade" THEN sub.paidUntil ELSE 0]

(* The transaction of checkout.  A conflict rolls the release back, so the *)
(* release of abandoned rows commits only together with the new row.       *)
Checkout(q, r) ==
    /\ ~SlotTaken
    /\ QuoteAccepted(q)
    /\ status[r] = "none"
    /\ order' = [order EXCEPT ![r] = NewOrder(q)]
    /\ status' = [s \in Refs |-> IF s = r THEN "pending"
                                 ELSE IF Abandoned(s) THEN "failed"
                                 ELSE status[s]]
    /\ phase' = [phase EXCEPT ![r] = "opening"]
    /\ UNCHANGED <<now, quotes, outcome, url, handed, gw, rec, entitlement>>

(* The provider answered initializeTransaction: the URL is stored, whatever *)
(* the row's status has become, and returned to the browser.                *)
CheckoutReturns(r) ==
    /\ phase[r] = "opening"
    /\ gw[r] # "absent"
    /\ url' = [url EXCEPT ![r] = TRUE]
    /\ phase' = [phase EXCEPT ![r] = "closed"]
    /\ \/ handed' = handed \cup {r}
       \/ handed' = handed             \* the response never arrived
    /\ UNCHANGED <<now, quotes, order, status, outcome, gw, rec, entitlement>>

Released(r) == [status EXCEPT ![r] = IF @ = "pending" THEN "failed" ELSE @]

(* The call failed or timed out, though the provider may hold the link. *)
CheckoutFails(r) ==
    /\ phase[r] = "opening"
    /\ phase' = [phase EXCEPT ![r] = "closed"]
    /\ status' = Released(r)
    /\ UNCHANGED <<now, quotes, order, outcome, url, handed, gw, rec, entitlement>>

(* The API process died between the commit and the provider's answer. *)
CheckoutDies(r) ==
    /\ phase[r] = "opening"
    /\ phase' = [phase EXCEPT ![r] = "closed"]
    /\ UNCHANGED <<now, quotes, handed, gw, rec, rows, entitlement>>

(* checkout finds the pending attempt with its URL and hands it out again. *)
CheckoutResumes(r) ==
    /\ status[r] = "pending"
    /\ url[r]
    /\ handed' = handed \cup {r}
    /\ UNCHANGED <<now, quotes, phase, gw, rec, rows, entitlement>>

-----------------------------------------------------------------------------
(* The payment provider and the payer, as the code uses them *)

ProviderMoves(r, from, to) ==
    /\ gw[r] \in from
    /\ gw' = [gw EXCEPT ![r] = to]
    /\ UNCHANGED <<now, quotes, phase, handed, rec, rows, entitlement>>

ProviderOpens(r) == phase[r] = "opening" /\ ProviderMoves(r, {"absent"}, "open")

PayerPays(r) == r \in handed /\ ProviderMoves(r, {"open", "failed"}, "success")

PayerDeclined(r) == r \in handed /\ ProviderMoves(r, {"open"}, "failed")

PayerUnderpays(r) == r \in handed /\ ProviderMoves(r, {"open"}, "mismatch")

ProviderReverses(r) == ProviderMoves(r, {"success"}, "reversed")

-----------------------------------------------------------------------------
(* reconcilePayment *)

(* Slip: failed attempts are taken for final. *)
SlipRecoveryCandidate(r) ==
    /\ status[r] = "pending"
    /\ order[r].created + RecoveryWindow >= now

RecoveryCandidate(r) ==
    /\ status[r] \in {"pending", "failed"}
    /\ order[r].created + RecoveryWindow >= now

(* The unlocked read: a successful row needs nothing but its e-mail. *)
ReconcileStart(w, r) ==
    /\ rec[w] = Idle
    /\ status[r] \notin {"none", "success"}
    /\ w = Recovery => RecoveryCandidate(r)
    /\ rec' = [rec EXCEPT ![w] = [at |-> "verify", ref |-> r, verdict |-> "none"]]
    /\ UNCHANGED <<now, quotes, phase, handed, gw, rows, entitlement>>

(* Slip: the amount is not compared. *)
SlipAnswer(r) ==
    IF gw[r] = "mismatch" THEN "success"
    ELSE IF gw[r] \in Verdicts THEN gw[r] ELSE "pending"

(* What verifyTransaction says; "mismatch" is refused by the caller. *)
Answer(r) ==
    IF gw[r] \in Verdicts \cup {"mismatch"} THEN gw[r] ELSE "pending"

Conclusive(r) == Answer(r) \in Verdicts

ReconcileAnswered(w) ==
    LET r == rec[w].ref IN
    /\ rec[w].at = "verify"
    /\ Conclusive(r)
    /\ rec' = [rec EXCEPT ![w] =
                  [at |-> "settle", ref |-> r, verdict |-> Answer(r)]]
    /\ UNCHANGED <<now, quotes, phase, handed, gw, rows, entitlement>>

(* The provider is unreachable, undecided or disagrees on the amount; or   *)
(* the process dies, or the database refuses the settlement.               *)
ReconcileStops(w) ==
    /\ rec[w] # Idle
    /\ rec' = [rec EXCEPT ![w] = Idle]
    /\ UNCHANGED <<now, quotes, phase, handed, gw, rows, entitlement>>

(* Slip: the status that was read before the await is trusted. *)
SlipMayFail(r) == TRUE

MayFail(r) == status[r] = "pending"

ReconcileFailed(w) ==
    LET r == rec[w].ref IN
    /\ rec[w].at = "settle"
    /\ rec[w].verdict # "success"
    /\ status' = IF MayFail(r)
                 THEN [status EXCEPT ![r] = rec[w].verdict]
                 ELSE status
    /\ rec' = [rec EXCEPT ![w] = Idle]
    /\ UNCHANGED <<now, quotes, order, outcome, url, phase, handed, gw, entitlement>>

(* Slip: only upgrades can be stale. *)
SlipStale(r) == order[r].intent = "upgrade" /\ ~Active

(* Slip: the renewal date is not compared. *)
SlipStaleDate(r) ==
    \/ sub.plan # order[r].basePlan
    \/ order[r].intent = "upgrade" /\ ~Active

(* The subscription is no longer the one the payment was priced against,   *)
(* or an upgrade's period has run out.                                     *)
Stale(r) ==
    \/ sub.plan # order[r].basePlan
    \/ sub.paidUntil # order[r].basePaid
    \/ order[r].intent = "upgrade" /\ ~Active

(* Slip: the claim is unconditional. *)
SlipClaims(r) == TRUE

(* claimed.count: the conditional update that records the success. *)
Claims(r) == status[r] # "success"

Record(r, result) ==
    /\ status' = [status EXCEPT ![r] = "success"]
    /\ url' = [url EXCEPT ![r] = FALSE]
    /\ outcome' = [outcome EXCEPT ![r] = result]
    /\ UNCHANGED order

AccessFrom == Later(sub.paidUntil, now)

AccessTo(r) ==
    IF order[r].intent = "upgrade" THEN order[r].target
    ELSE SubscriptionEnd(AccessFrom, order[r].cycle)

Extended(r) ==
    [plan |-> order[r].plan, cycle |-> order[r].cycle, paidUntil |-> AccessTo(r),
     started |-> IF order[r].intent = "upgrade" THEN sub.started ELSE AccessFrom]

(* Slip: a lapsed subscription is taken for a new one. *)
SlipEmailKind(r) ==
    IF order[r].intent = "upgrade" THEN "upgrade"
    ELSE IF Active THEN "renewal" ELSE "activation"

EmailKind(r) ==
    IF order[r].intent = "upgrade" THEN "upgrade"
    ELSE IF sub.paidUntil = 0 THEN "activation" ELSE "renewal"

(* enqueueSubscription: without a valid billing address nothing is queued. *)
Confirmations(r) == {emails, [emails EXCEPT ![r] = EmailKind(r)]}

(* The transaction under the church lock: claim the payment, and unless it *)
(* is stale extend the subscription and queue the confirmation with it.    *)
ReconcileApplied(w) ==
    LET r == rec[w].ref IN
    /\ rec[w].at = "settle"
    /\ rec[w].verdict = "success"
    /\ Claims(r)
    /\ ~Stale(r)
    /\ Record(r, "applied")
    /\ sub' = Extended(r)
    /\ scheduled' = None
    /\ emails' \in Confirmations(r)
    /\ grant' = [grant EXCEPT ![r] = [from |-> AccessFrom, to |-> AccessTo(r)]]
    /\ rec' = [rec EXCEPT ![w] = Idle]
    /\ UNCHANGED <<now, quotes, phase, handed, gw>>

ReconcileReviewed(w) ==
    LET r == rec[w].ref IN
    /\ rec[w].at = "settle"
    /\ rec[w].verdict = "success"
    /\ Claims(r)
    /\ Stale(r)
    /\ Record(r, "review")
    /\ rec' = [rec EXCEPT ![w] = Idle]
    /\ UNCHANGED <<now, quotes, phase, handed, gw, entitlement>>

ReconcileLost(w) ==
    /\ rec[w].at = "settle"
    /\ rec[w].verdict = "success"
    /\ ~Claims(rec[w].ref)
    /\ rec' = [rec EXCEPT ![w] = Idle]
    /\ UNCHANGED <<now, quotes, phase, handed, gw, rows, entitlement>>

(* Time passes; Redis drops the quotes whose time to live is over. *)
Tick ==
    /\ now < MaxNow
    /\ now' = now + 1
    /\ quotes' = {q \in quotes : q.expires > now + 1}
    /\ UNCHANGED <<phase, handed, gw, rec, rows, entitlement>>

-----------------------------------------------------------------------------

BrowserStep(r) ==
    \/ \E q \in quotes : Checkout(q, r)
    \/ CheckoutReturns(r)
    \/ CheckoutFails(r)
    \/ CheckoutDies(r)
    \/ CheckoutResumes(r)

ProviderStep(r) ==
    \/ ProviderOpens(r)
    \/ PayerPays(r)
    \/ PayerDeclined(r)
    \/ PayerUnderpays(r)
    \/ ProviderReverses(r)

ReconcileStep(w) ==
    \/ \E r \in Refs : ReconcileStart(w, r)
    \/ ReconcileAnswered(w)
    \/ ReconcileStops(w)
    \/ ReconcileFailed(w)
    \/ ReconcileApplied(w)
    \/ ReconcileReviewed(w)
    \/ ReconcileLost(w)

Next ==
    \/ \E p \in Plans, c \in Cycles : Quote(p, c)
    \/ \E p \in Schedulable : Schedule(p)
    \/ \E r \in Refs : BrowserStep(r) \/ ProviderStep(r)
    \/ \E w \in Workers : ReconcileStep(w)
    \/ Tick

Spec == Init /\ [][Next]_vars

(* The recovery worker runs on a timer and rotates through every candidate *)
(* (module PaymentRecovery), the provider keeps answering, and a           *)
(* settlement that keeps being possible eventually commits.                *)
RecoveryFairness ==
    /\ \A r \in Refs : SF_vars(ReconcileStart(Recovery, r))
    /\ \A r \in Refs : SF_vars(rec[Recovery].ref = r /\ ReconcileAnswered(Recovery))
    /\ SF_vars(ReconcileFailed(Recovery))
    /\ SF_vars(ReconcileApplied(Recovery) \/ ReconcileReviewed(Recovery)
                  \/ ReconcileLost(Recovery))
    /\ WF_vars(ReconcileStops(Recovery))

FairSpec == Spec /\ RecoveryFairness

-----------------------------------------------------------------------------
(* Properties *)

Time == Nat
Statuses == {"none", "pending", "success", "failed", "reversed"}
SubRecord == [plan : Plans, cycle : Cycles, paidUntil : Time, started : Time]
QuoteRecord == [plan : Plans, cycle : Cycles, intent : Intents,
                expires : Time, base : SubRecord]
OrderRecord ==
    [created : Time, plan : Plans \cup {None}, cycle : Cycles \cup {None},
     intent : Intents, basePlan : Plans \cup {None}, basePaid : Time, target : Time]
RunRecord == [at : {"idle", "verify", "settle"}, ref : Refs \cup {None},
              verdict : Verdicts \cup {"none"}]

(* Every variable has its type; a payment row names a plan, a cycle and the *)
(* plan it was priced against, and only rows are reconciled.                *)
TypeOK ==
    /\ now \in Time
    /\ sub \in SubRecord
    /\ scheduled \in Plans \cup {None}
    /\ quotes \subseteq QuoteRecord
    /\ order \in [Refs -> OrderRecord]
    /\ status \in [Refs -> Statuses]
    /\ outcome \in [Refs -> {"pending", "applied", "review"}]
    /\ url \in [Refs -> BOOLEAN]
    /\ phase \in [Refs -> {"none", "opening", "closed"}]
    /\ handed \subseteq Refs
    /\ gw \in [Refs -> {"absent", "open", "mismatch"} \cup Verdicts]
    /\ rec \in [Workers -> RunRecord]
    /\ emails \in [Refs -> {"none", "activation", "renewal", "upgrade"}]
    /\ grant \in [Refs -> [from : Time, to : Time]]
    /\ \A r \in Refs : status[r] # "none" =>
          /\ order[r].plan \in Plans
          /\ order[r].cycle \in Cycles
          /\ order[r].basePlan \in Plans
    /\ \A w \in Workers : rec[w].at # "idle" =>
          rec[w].ref \in Refs /\ status[rec[w].ref] # "none"
    /\ \A w \in Workers : rec[w].at = "settle" => rec[w].verdict \in Verdicts

Applied(r) == outcome[r] = "applied"

(* Two attempts of one church are never both pending, so two tabs cannot    *)
(* each open a checkout (checkout, and the partial unique index).           *)
OnePending ==
    \A r, s \in Refs :
        status[r] = "pending" /\ status[s] = "pending" => r = s

(* A payment is recorded as successful only when the provider holds the     *)
(* full amount for it, whichever of the three callers asked and however     *)
(* old its answer is (reconcilePayment).                                    *)
SuccessWasCharged ==
    \A r \in Refs : status[r] = "success" => gw[r] \in {"success", "reversed"}

(* Of all the payments priced against one state of the subscription at most *)
(* one is applied: a late success of a released attempt and the attempt     *)
(* that replaced it never both buy access (staleUpgrade).                   *)
OneAppliedPerBase ==
    \A r, s \in Refs :
        /\ Applied(r) /\ Applied(s)
        /\ order[r].basePlan = order[s].basePlan
        /\ order[r].basePaid = order[s].basePaid
        => r = s

(* A confirmation that is queued tells the truth about the payment's place  *)
(* in the history of access: it is about a payment that was applied, and it *)
(* welcomes the church exactly when that payment bought the first period,   *)
(* so that every other one begins where that one ended or later             *)
(* (enqueueSubscription's firstPayment).  It may be missing.                *)
BoughtFirst(r) == \A s \in Refs : Applied(s) /\ s # r => grant[s].from >= grant[r].to

ConfirmationsAreTrue ==
    \A r \in Refs : emails[r] # "none" =>
        Applied(r) /\ (emails[r] = "activation" <=> BoughtFirst(r))

(* "A late payment ... cannot overwrite current access": a settlement never *)
(* shortens the paid period and never lowers the plan of a period that is   *)
(* still running.                                                           *)
AccessNeverReduced ==
    [][ /\ sub'.paidUntil >= sub.paidUntil
        /\ Active => Rank[sub'.plan] >= Rank[sub.plan] ]_vars

(* "Repeated callbacks claim a reference once": a recorded success, its     *)
(* outcome and the period it bought never change again.                     *)
SuccessIsFinal ==
    [][ \A r \in Refs : status[r] = "success" =>
          /\ status'[r] = "success"
          /\ outcome'[r] = outcome[r]
          /\ grant'[r] = grant[r] ]_vars

(* Money the provider keeps is never lost: the payment is recorded as       *)
(* applied or for review, unless it outlives the recovery window first.     *)
Outlived(r) == order[r].created + RecoveryWindow < now

ChargedIsRecorded ==
    \A r \in Refs :
        gw[r] = "success" ~>
            status[r] = "success" \/ gw[r] = "reversed" \/ Outlived(r)

(* The ledger implements the promise of PaidAccess. *)
Promise == INSTANCE PaidAccess WITH
    charged <- {r \in Refs : gw[r] \in {"success", "reversed"}},
    access <- sub.paidUntil

(* Every step of the ledger is a step of the promise or leaves it alone:    *)
(* a charge is accounted for at most once and nothing else moves access.    *)
KeepsPromise == Promise!Spec

-----------------------------------------------------------------------------
(* The inductive invariant behind the safety properties *)

HasMoney(r) == gw[r] \in {"success", "reversed"}

(* A positive answer in hand is an answer about money the provider holds. *)
AnswersAreTrue ==
    \A w \in Workers :
        rec[w].at = "settle" /\ rec[w].verdict = "success" => HasMoney(rec[w].ref)

OutcomeFollowsStatus ==
    \A r \in Refs : outcome[r] # "pending" <=> status[r] = "success"

(* An upgrade was quoted towards a higher plan; a renewal after the lapse. *)
QuotesSound ==
    \A q \in quotes :
        /\ q.intent = "upgrade" => Rank[q.base.plan] < Rank[q.plan]
        /\ q.intent = "renewal" => q.base.paidUntil <= now

OrdersSound ==
    \A r \in Refs : status[r] # "none" =>
        /\ order[r].intent = "upgrade" =>
              /\ order[r].target = order[r].basePaid
              /\ Rank[order[r].basePlan] < Rank[order[r].plan]
        /\ order[r].intent = "renewal" => order[r].basePaid <= now

(* Applying a payment moves the subscription strictly past the state the    *)
(* payment was priced against, in the order of (paid period, rank of plan). *)
Past(r) ==
    \/ order[r].basePaid < sub.paidUntil
    \/ /\ order[r].basePaid = sub.paidUntil
       /\ Rank[order[r].basePlan] < Rank[sub.plan]

AppliedIsPast == \A r \in Refs : Applied(r) => Past(r)

LedgerInv ==
    /\ OnePending
    /\ SuccessWasCharged
    /\ AnswersAreTrue
    /\ OutcomeFollowsStatus
    /\ QuotesSound
    /\ OrdersSound
    /\ AppliedIsPast
    /\ OneAppliedPerBase

-----------------------------------------------------------------------------
(* What the comments claim and the code does not keep *)

(* billing.service.ts:282 and AUTH-ONBOARDING-AND-BILLING-2026-10-18.md:13  *)
(* say there is one payable attempt per church, to avoid duplicate payment: *)
(* of two attempts whose payment pages a payer holds, one can no longer     *)
(* take money.                                                              *)
OnePayable ==
    \A r, s \in handed : gw[r] = "success" /\ gw[s] = "success" => r = s
=============================================================================
