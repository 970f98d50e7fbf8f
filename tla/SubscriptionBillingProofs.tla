---------------------- MODULE SubscriptionBillingProofs ----------------------
(***************************************************************************)
(* Proofs about SubscriptionBilling for every set of references, workers   *)
(* and plans, and every bound.                                             *)
(***************************************************************************)
EXTENDS SubscriptionBilling, TLAPS

-----------------------------------------------------------------------------
(* Type correctness: TypeOK is inductive on its own. *)

LEMMA TypeInit == Init => TypeOK
<1> SUFFICES ASSUME Init PROVE TypeOK
  OBVIOUS
<1>1. sub \in SubRecord
  BY DEF Init, SubRecord, Time
<1>2. order \in [Refs -> OrderRecord]
  BY DEF Init, OrderRecord, NoOrder, Intents, Time
<1>3. rec \in [Workers -> RunRecord] /\ \A w \in Workers : rec[w].at = "idle"
  BY DEF Init, RunRecord, Idle
<1> QED
  BY <1>1, <1>2, <1>3 DEF Init, TypeOK, Time, Statuses

LEMMA TypeStep == TypeOK /\ [Next]_vars => TypeOK'
<1> SUFFICES ASSUME TypeOK, [Next]_vars PROVE TypeOK'
  OBVIOUS
<1> USE BillingAssumption DEF TypeOK, Time, rows, entitlement
<1>1. ASSUME NEW p \in Plans, NEW c \in Cycles, Quote(p, c) PROVE TypeOK'
  <2>1. Quoted(p, c) \in QuoteRecord
    BY DEF Quoted, QuoteRecord, Intents
  <2> QED
    BY <1>1, <2>1 DEF Quote
<1>2. ASSUME NEW p \in Schedulable, Schedule(p) PROVE TypeOK'
  BY <1>2 DEF Schedule
<1>3. ASSUME NEW r \in Refs, NEW q \in quotes, Checkout(q, r) PROVE TypeOK'
  <2>1. q \in QuoteRecord
    OBVIOUS
  <2>2. /\ NewOrder(q) \in OrderRecord
        /\ NewOrder(q).plan \in Plans
        /\ NewOrder(q).cycle \in Cycles
        /\ NewOrder(q).basePlan \in Plans
    BY <2>1 DEF NewOrder, OrderRecord, QuoteRecord, SubRecord
  <2>3. order' = [order EXCEPT ![r] = NewOrder(q)]
    BY <1>3 DEF Checkout
  <2>4. status' \in [Refs -> Statuses]
    BY <1>3 DEF Checkout, Statuses
  <2>5. \A s \in Refs : s # r => (status'[s] = "none" <=> status[s] = "none")
    BY <1>3 DEF Checkout, Abandoned
  <2>6. status'[r] = "pending"
    BY <1>3 DEF Checkout
  <2> QED
    BY <1>3, <2>2, <2>3, <2>4, <2>5, <2>6 DEF Checkout, RunRecord
<1>4. ASSUME NEW r \in Refs, CheckoutReturns(r) PROVE TypeOK'
  BY <1>4 DEF CheckoutReturns
<1>5. ASSUME NEW r \in Refs, CheckoutFails(r) PROVE TypeOK'
  BY <1>5 DEF CheckoutFails, Released, Statuses
<1>6. ASSUME NEW r \in Refs, CheckoutDies(r) PROVE TypeOK'
  BY <1>6 DEF CheckoutDies
<1>7. ASSUME NEW r \in Refs, CheckoutResumes(r) PROVE TypeOK'
  BY <1>7 DEF CheckoutResumes
<1>8. ASSUME NEW r \in Refs, ProviderStep(r) PROVE TypeOK'
  BY <1>8 DEF ProviderStep, ProviderOpens, PayerPays, PayerDeclined, PayerUnderpays,
              ProviderReverses, ProviderMoves, Verdicts
<1>9. ASSUME NEW w \in Workers, NEW r \in Refs, ReconcileStart(w, r) PROVE TypeOK'
  BY <1>9 DEF ReconcileStart, RunRecord
<1>10. ASSUME NEW w \in Workers, ReconcileAnswered(w) PROVE TypeOK'
  BY <1>10 DEF ReconcileAnswered, Conclusive, RunRecord
<1>11. ASSUME NEW w \in Workers, ReconcileStops(w) \/ ReconcileLost(w) PROVE TypeOK'
  <2>1. /\ rec' = [rec EXCEPT ![w] = Idle]
        /\ UNCHANGED <<now, quotes, phase, handed, gw, rows, entitlement>>
    BY <1>11 DEF ReconcileStops, ReconcileLost
  <2>2. rec' \in [Workers -> RunRecord]
    BY <2>1 DEF RunRecord, Idle
  <2> QED
    BY <2>1, <2>2 DEF Idle
<1>12. ASSUME NEW w \in Workers, ReconcileFailed(w) PROVE TypeOK'
  <2>1. rec[w].verdict \in Statuses \ {"none"}
    BY <1>12 DEF ReconcileFailed, Verdicts, Statuses
  <2>2. /\ status' \in [Refs -> Statuses]
        /\ \A s \in Refs : status'[s] = "none" <=> status[s] = "none"
    BY <1>12, <2>1 DEF ReconcileFailed, MayFail
  <2>3. rec' \in [Workers -> RunRecord] /\ rec' = [rec EXCEPT ![w] = Idle]
    BY <1>12 DEF ReconcileFailed, RunRecord, Idle
  <2> QED
    BY <1>12, <2>2, <2>3 DEF ReconcileFailed, Idle
<1>13. ASSUME NEW w \in Workers, ReconcileApplied(w) PROVE TypeOK'
  <2> DEFINE r == rec[w].ref
  <2>1. /\ r \in Refs /\ status[r] # "none"
        /\ order[r] \in OrderRecord /\ order[r].cycle \in Cycles
    BY <1>13 DEF ReconcileApplied
  <2>2. AccessFrom \in Nat /\ AccessTo(r) \in Nat
    BY <2>1 DEF AccessFrom, AccessTo, Later, SubscriptionEnd, SubRecord, OrderRecord
  <2>3. sub' \in SubRecord
    BY <1>13, <2>1, <2>2 DEF ReconcileApplied, Extended, SubRecord
  <2>4. status' \in [Refs -> Statuses] /\ status' = [status EXCEPT ![r] = "success"]
    BY <1>13, <2>1 DEF ReconcileApplied, Record, Statuses
  <2>5. /\ order' = order
        /\ url' \in [Refs -> BOOLEAN]
        /\ outcome' \in [Refs -> {"pending", "applied", "review"}]
    BY <1>13, <2>1 DEF ReconcileApplied, Record
  <2>6. /\ emails' \in [Refs -> {"none", "activation", "renewal", "upgrade"}]
        /\ grant' \in [Refs -> [from : Nat, to : Nat]]
        /\ scheduled' = None
    BY <1>13, <2>2 DEF ReconcileApplied, Confirmations, EmailKind
  <2>7. rec' = [rec EXCEPT ![w] = Idle]
    BY <1>13 DEF ReconcileApplied
  <2>8. rec' \in [Workers -> RunRecord]
    BY <2>7 DEF RunRecord, Idle
  <2>9. \A v \in Workers : rec'[v].at # "idle" => rec'[v].ref \in Refs /\ status'[rec'[v].ref] # "none"
    BY <2>4, <2>7, <2>8 DEF Idle
  <2>10. \A s \in Refs : status'[s] # "none" =>
            order'[s].plan \in Plans /\ order'[s].cycle \in Cycles /\ order'[s].basePlan \in Plans
    BY <2>1, <2>4, <2>5
  <2>11. \A v \in Workers : rec'[v].at = "settle" => rec'[v].verdict \in Verdicts
    BY <2>7 DEF Idle
  <2> QED
    BY <1>13, <2>3, <2>4, <2>5, <2>6, <2>8, <2>9, <2>10, <2>11 DEF ReconcileApplied
<1>14. ASSUME NEW w \in Workers, ReconcileReviewed(w) PROVE TypeOK'
  BY <1>14 DEF ReconcileReviewed, Record, Statuses, RunRecord, Idle
<1>15. CASE Tick
  BY <1>15 DEF Tick
<1>16. CASE UNCHANGED vars
  BY <1>16 DEF vars
<1> QED
  BY <1>1, <1>2, <1>3, <1>4, <1>5, <1>6, <1>7, <1>8, <1>9, <1>10, <1>11, <1>12,
     <1>13, <1>14, <1>15, <1>16 DEF Next, BrowserStep, ReconcileStep

(* Every reachable state of the ledger is well typed.                      *)
THEOREM TypeCorrect == Spec => []TypeOK
BY TypeInit, TypeStep, PTL DEF Spec

-----------------------------------------------------------------------------
(* The ledger invariant *)

LEMMA LedgerInit == Init => LedgerInv
BY DEF Init, LedgerInv, OnePending, SuccessWasCharged, AnswersAreTrue, OutcomeFollowsStatus,
       QuotesSound, OrdersSound, AppliedIsPast, OneAppliedPerBase, Applied, Idle

(* The steps of a checkout. *)
LEMMA LedgerCheckout ==
    ASSUME TypeOK, LedgerInv, NEW r \in Refs, NEW q \in quotes, Checkout(q, r)
    PROVE  LedgerInv'
<1> USE DEF TypeOK, LedgerInv, rows, entitlement, Time
<1>1. /\ order' = [order EXCEPT ![r] = NewOrder(q)]
      /\ \A s \in Refs : status'[s] = IF s = r THEN "pending"
                                      ELSE IF Abandoned(s) THEN "failed" ELSE status[s]
      /\ status[r] = "none"
      /\ UNCHANGED <<now, sub, quotes, outcome, gw, rec>>
  BY DEF Checkout
<1>2. \A s \in Refs : s # r => order'[s] = order[s]
  BY <1>1
<1>3. \A s \in Refs : status'[s] = "success" <=> status[s] = "success"
  BY <1>1 DEF Abandoned
<1>4. OnePending'
  BY <1>1 DEF Checkout, SlotTaken, Abandoned, OnePending
<1>5. SuccessWasCharged' /\ AnswersAreTrue' /\ OutcomeFollowsStatus' /\ QuotesSound'
  BY <1>1, <1>3 DEF SuccessWasCharged, AnswersAreTrue, OutcomeFollowsStatus, QuotesSound, HasMoney
<1>6. OrdersSound'
  <2>1. q \in QuoteRecord /\ q.base = sub
    BY DEF Checkout, QuoteAccepted
  <2>2. order'[r] = NewOrder(q)
    BY <1>1
  <2>3. /\ order'[r].intent = "upgrade" =>
              /\ order'[r].target = order'[r].basePaid
              /\ Rank[order'[r].basePlan] < Rank[order'[r].plan]
        /\ order'[r].intent = "renewal" => order'[r].basePaid <= now
    BY <2>1, <2>2 DEF NewOrder, QuotesSound
  <2>4. \A s \in Refs : s # r => (status'[s] # "none" => status[s] # "none")
    BY <1>1 DEF Abandoned
  <2> QED
    BY <1>1, <1>2, <2>3, <2>4 DEF OrdersSound
<1>7. ~Applied(r)
  BY <1>1 DEF OutcomeFollowsStatus, Applied
<1>8. AppliedIsPast'
  BY <1>1, <1>2, <1>7 DEF AppliedIsPast, Applied, Past
<1>9. OneAppliedPerBase'
  BY <1>1, <1>2, <1>7 DEF OneAppliedPerBase, Applied
<1> QED
  BY <1>4, <1>5, <1>6, <1>8, <1>9

LEMMA LedgerReleased ==
    ASSUME TypeOK, LedgerInv, NEW r \in Refs, NEW result \in {"failed", "reversed"},
           status' = [status EXCEPT ![r] = IF @ = "pending" THEN result ELSE @],
           UNCHANGED <<now, sub, quotes, order, outcome, gw>>,
           \A w \in Workers : rec'[w] \in {rec[w], Idle}
    PROVE  LedgerInv'
<1> USE DEF TypeOK, LedgerInv
<1>1. \A s \in Refs : /\ status'[s] = "pending" => status[s] = "pending"
                      /\ status'[s] = "success" <=> status[s] = "success"
                      /\ status'[s] = "none" <=> status[s] = "none"
  OBVIOUS
<1>2. OnePending' /\ SuccessWasCharged' /\ OutcomeFollowsStatus'
  BY <1>1 DEF OnePending, SuccessWasCharged, OutcomeFollowsStatus
<1>3. AnswersAreTrue'
  BY DEF AnswersAreTrue, HasMoney, Idle
<1>4. QuotesSound' /\ OrdersSound' /\ AppliedIsPast' /\ OneAppliedPerBase'
  BY <1>1 DEF QuotesSound, OrdersSound, AppliedIsPast, OneAppliedPerBase, Applied, Past
<1> QED
  BY <1>2, <1>3, <1>4

(* A step that moves none of the variables LedgerInv speaks of, but for the *)
(* provider's record and the reconciliations, in directions it allows.      *)
LEMMA LedgerQuiet ==
    ASSUME TypeOK, LedgerInv,
           UNCHANGED <<now, sub, quotes, order, status, outcome>>,
           \A r \in Refs : HasMoney(r) => gw'[r] \in {"success", "reversed"},
           \A w \in Workers :
              rec'[w].at = "settle" /\ rec'[w].verdict = "success"
                  => gw'[rec'[w].ref] \in {"success", "reversed"}
    PROVE  LedgerInv'
<1> USE DEF TypeOK, LedgerInv
<1>1. OnePending' /\ OutcomeFollowsStatus' /\ QuotesSound' /\ OrdersSound'
  BY DEF OnePending, OutcomeFollowsStatus, QuotesSound, OrdersSound
<1>2. SuccessWasCharged' /\ AnswersAreTrue'
  BY DEF SuccessWasCharged, AnswersAreTrue, HasMoney
<1>3. AppliedIsPast' /\ OneAppliedPerBase'
  BY DEF AppliedIsPast, OneAppliedPerBase, Applied, Past
<1> QED
  BY <1>1, <1>2, <1>3

(* Claiming a payment, whatever the outcome: the money is there, and the    *)
(* row leaves the pending ones.                                             *)
LEMMA LedgerRecord ==
    ASSUME TypeOK, LedgerInv, NEW w \in Workers, NEW result \in {"applied", "review"},
           rec[w].at = "settle", rec[w].verdict = "success",
           Record(rec[w].ref, result), rec' = [rec EXCEPT ![w] = Idle],
           UNCHANGED <<now, quotes, gw>>
    PROVE  /\ OnePending' /\ SuccessWasCharged' /\ AnswersAreTrue'
           /\ OutcomeFollowsStatus' /\ QuotesSound' /\ OrdersSound'
<1> DEFINE r == rec[w].ref
<1> USE DEF TypeOK, LedgerInv
<1>1. /\ r \in Refs /\ status[r] # "none" /\ HasMoney(r)
      /\ status' = [status EXCEPT ![r] = "success"]
      /\ outcome' = [outcome EXCEPT ![r] = result]
      /\ order' = order
  BY DEF Record, AnswersAreTrue
<1>2. OnePending' /\ OutcomeFollowsStatus' /\ QuotesSound' /\ OrdersSound'
  BY <1>1 DEF OnePending, OutcomeFollowsStatus, QuotesSound, OrdersSound
<1>3. SuccessWasCharged'
  BY <1>1 DEF SuccessWasCharged, HasMoney
<1>4. AnswersAreTrue'
  BY DEF AnswersAreTrue, HasMoney, Idle
<1> QED
  BY <1>2, <1>3, <1>4

(* Extending the subscription moves it strictly forward: a renewal moves    *)
(* the date, an upgrade keeps the date and moves the plan up.               *)
LEMMA ApplyAdvances ==
    ASSUME TypeOK, LedgerInv, NEW w \in Workers, ReconcileApplied(w)
    PROVE  /\ sub.plan = order[rec[w].ref].basePlan
           /\ sub.paidUntil = order[rec[w].ref].basePaid
           /\ \/ sub.paidUntil < sub'.paidUntil
              \/ sub.paidUntil = sub'.paidUntil /\ Rank[sub.plan] < Rank[sub'.plan]
           /\ Active => Rank[sub.plan] < Rank[sub'.plan]
<1> DEFINE r == rec[w].ref
<1> USE BillingAssumption DEF TypeOK, LedgerInv, Time
<1>1. /\ r \in Refs /\ status[r] # "none" /\ ~Stale(r)
      /\ order[r] \in OrderRecord /\ order[r].cycle \in Cycles /\ order[r].plan \in Plans
      /\ sub' = Extended(r)
  BY DEF ReconcileApplied
<1>2. sub.plan = order[r].basePlan /\ sub.paidUntil = order[r].basePaid
  BY <1>1 DEF Stale
<1>3. sub'.paidUntil = AccessTo(r) /\ sub'.plan = order[r].plan
  BY <1>1 DEF Extended
<1>4. sub \in SubRecord /\ now \in Nat
  OBVIOUS
<1>5. CASE order[r].intent = "upgrade"
  <2>1. AccessTo(r) = sub.paidUntil /\ Rank[sub.plan] < Rank[order[r].plan]
    BY <1>1, <1>2, <1>5 DEF AccessTo, OrdersSound
  <2> QED
    BY <1>2, <1>3, <2>1
<1>6. CASE order[r].intent = "renewal"
  <2>1. /\ AccessTo(r) = AccessFrom + Length[order[r].cycle]
        /\ Length[order[r].cycle] \in Nat /\ Length[order[r].cycle] > 0
    BY <1>1, <1>6 DEF AccessTo, SubscriptionEnd
  <2>2. sub.paidUntil \in Nat /\ AccessFrom \in Nat /\ AccessFrom >= sub.paidUntil
    BY <1>4 DEF AccessFrom, Later, SubRecord
  <2>3. sub.paidUntil < sub'.paidUntil
    <3> HIDE DEF TypeOK, LedgerInv, r
    <3> QED BY <1>3, <2>1, <2>2
  <2>4. ~Active
    <3>1. order[r].basePaid <= now
      BY <1>1, <1>6 DEF OrdersSound
    <3> HIDE DEF TypeOK, LedgerInv, r
    <3> QED BY <1>2, <1>4, <2>2, <3>1 DEF Active
  <2> QED
    BY <1>2, <2>3, <2>4
<1> QED
  BY <1>1, <1>5, <1>6 DEF OrderRecord, Intents

LEMMA LedgerApplied ==
    ASSUME TypeOK, LedgerInv, NEW w \in Workers, ReconcileApplied(w), TypeOK'
    PROVE  LedgerInv'
<1> USE BillingAssumption DEF TypeOK, LedgerInv
<1> PICK r \in Refs : r = rec[w].ref
  BY DEF ReconcileApplied
<1>1. /\ status[r] # "success"
      /\ outcome' = [outcome EXCEPT ![r] = "applied"]
      /\ order' = order
  BY DEF ReconcileApplied, Record, Claims
<1>2. /\ OnePending' /\ SuccessWasCharged' /\ AnswersAreTrue'
      /\ OutcomeFollowsStatus' /\ QuotesSound' /\ OrdersSound'
  BY LedgerRecord DEF ReconcileApplied
<1>3. \A s \in Refs : s # r => (Applied(s)' <=> Applied(s))
  BY <1>1 DEF Applied
<1>4. /\ sub.plan = order[r].basePlan
      /\ sub.paidUntil = order[r].basePaid
      /\ \/ sub.paidUntil < sub'.paidUntil
         \/ sub.paidUntil = sub'.paidUntil /\ Rank[sub.plan] < Rank[sub'.plan]
  BY ApplyAdvances
<1>5. /\ sub.paidUntil \in Nat /\ sub'.paidUntil \in Nat
      /\ sub.plan \in Plans /\ sub'.plan \in Plans
  BY DEF SubRecord, Time
<1>6. \A s \in Refs : Applied(s) => Past(s) /\ Past(s)'
  <2> SUFFICES ASSUME NEW s \in Refs, Applied(s) PROVE Past(s) /\ Past(s)'
    OBVIOUS
  <2>1. Past(s)
    BY DEF AppliedIsPast
  <2>2. order[s].basePaid \in Nat /\ order[s].basePlan \in Plans
    BY DEF OrderRecord, Time, OutcomeFollowsStatus, Applied
  <2>3. /\ Rank[order[s].basePlan] \in Nat
        /\ Rank[sub.plan] \in Nat /\ Rank[sub'.plan] \in Nat
    BY <1>5, <2>2
  <2> HIDE DEF TypeOK, LedgerInv
  <2> QED
    BY <1>1, <1>4, <1>5, <2>1, <2>2, <2>3 DEF Past
<1>12. Past(r)' /\ ~Past(r)
  <2>1. Rank[sub.plan] \in Nat /\ Rank[sub'.plan] \in Nat
    BY <1>5
  <2> HIDE DEF TypeOK, LedgerInv
  <2> QED
    BY <1>1, <1>4, <1>5, <2>1 DEF Past
<1>7. AppliedIsPast'
  BY <1>3, <1>6, <1>12 DEF AppliedIsPast
<1>8. \A s \in Refs : Applied(s) =>
          order[s].basePaid # order[r].basePaid \/ order[s].basePlan # order[r].basePlan
  BY <1>1, <1>6, <1>12 DEF Past
<1>9. OneAppliedPerBase'
  BY <1>1, <1>3, <1>8 DEF OneAppliedPerBase
<1> QED
  BY <1>2, <1>7, <1>9

LEMMA LedgerReviewed ==
    ASSUME TypeOK, LedgerInv, NEW w \in Workers, ReconcileReviewed(w)
    PROVE  LedgerInv'
<1> USE DEF TypeOK, LedgerInv, entitlement
<1> PICK r \in Refs : r = rec[w].ref
  BY DEF ReconcileReviewed
<1>1. /\ outcome' = [outcome EXCEPT ![r] = "review"]
      /\ order' = order /\ sub' = sub
  BY DEF ReconcileReviewed, Record
<1>2. /\ OnePending' /\ SuccessWasCharged' /\ AnswersAreTrue'
      /\ OutcomeFollowsStatus' /\ QuotesSound' /\ OrdersSound'
  BY LedgerRecord DEF ReconcileReviewed
<1>3. \A s \in Refs : Applied(s)' => Applied(s)
  BY <1>1 DEF Applied
<1>4. AppliedIsPast' /\ OneAppliedPerBase'
  BY <1>1, <1>3 DEF AppliedIsPast, OneAppliedPerBase, Past
<1> QED
  BY <1>2, <1>4

LEMMA LedgerStep == TypeOK /\ TypeOK' /\ LedgerInv /\ [Next]_vars => LedgerInv'
<1> SUFFICES ASSUME TypeOK, TypeOK', LedgerInv, [Next]_vars PROVE LedgerInv'
  OBVIOUS
<1> USE DEF rows, entitlement
<1>a. ASSUME UNCHANGED <<now, sub, quotes, order, status, outcome, gw, rec>> PROVE LedgerInv'
  BY <1>a, LedgerQuiet DEF LedgerInv, AnswersAreTrue, TypeOK, HasMoney
<1>1. ASSUME NEW p \in Plans, NEW c \in Cycles, Quote(p, c) PROVE LedgerInv'
  <2>1. /\ Quoted(p, c).intent = "upgrade" =>
              Rank[Quoted(p, c).base.plan] < Rank[Quoted(p, c).plan]
        /\ Quoted(p, c).intent = "renewal" => Quoted(p, c).base.paidUntil <= now
    BY <1>1 DEF Quote, Quoted, Sellable, Upgradable, Active, TypeOK, SubRecord, Time
  <2>2. QuotesSound'
    BY <1>1, <2>1 DEF Quote, LedgerInv, QuotesSound
  <2> QED
    BY <1>1, <2>2 DEF Quote, LedgerInv, OnePending, SuccessWasCharged, AnswersAreTrue,
       OutcomeFollowsStatus, OrdersSound, AppliedIsPast, OneAppliedPerBase, HasMoney,
       Applied, Past
<1>2. ASSUME NEW p \in Schedulable, Schedule(p) PROVE LedgerInv'
  BY <1>2, <1>a DEF Schedule
<1>3. ASSUME NEW r \in Refs, BrowserStep(r) PROVE LedgerInv'
  <2>1. ASSUME NEW q \in quotes, Checkout(q, r) PROVE LedgerInv'
    BY <2>1, LedgerCheckout
  <2>2. CASE CheckoutReturns(r) \/ CheckoutDies(r) \/ CheckoutResumes(r)
    BY <2>2, <1>a DEF CheckoutReturns, CheckoutDies, CheckoutResumes
  <2>3. CASE CheckoutFails(r)
    BY <2>3, LedgerReleased DEF CheckoutFails, Released
  <2> QED
    BY <1>3, <2>1, <2>2, <2>3 DEF BrowserStep
<1>4. ASSUME NEW r \in Refs, ProviderStep(r) PROVE LedgerInv'
  <2>2. /\ UNCHANGED <<now, sub, quotes, order, status, outcome, rec>>
        /\ \A s \in Refs : HasMoney(s) => gw'[s] \in {"success", "reversed"}
    BY <1>4 DEF ProviderStep, ProviderOpens, PayerPays, PayerDeclined, PayerUnderpays,
                ProviderReverses, ProviderMoves, HasMoney, TypeOK
  <2> QED
    BY <2>2, LedgerQuiet DEF LedgerInv, AnswersAreTrue, TypeOK
<1>5. ASSUME NEW w \in Workers, ReconcileStep(w) PROVE LedgerInv'
  <2>1. ASSUME NEW r \in Refs, ReconcileStart(w, r) PROVE LedgerInv'
    BY <2>1, LedgerQuiet DEF ReconcileStart, LedgerInv, AnswersAreTrue, TypeOK, HasMoney
  <2>2. CASE ReconcileAnswered(w)
    BY <2>2, LedgerQuiet
       DEF ReconcileAnswered, Conclusive, Answer, Verdicts, LedgerInv, AnswersAreTrue,
           TypeOK, HasMoney
  <2>3. CASE ReconcileStops(w) \/ ReconcileLost(w)
    <3>1. UNCHANGED <<now, sub, quotes, order, status, outcome, gw>>
      BY <2>3 DEF ReconcileStops, ReconcileLost, rows, entitlement
    <3>2. \A v \in Workers : rec'[v] \in {rec[v], Idle}
      BY <2>3 DEF ReconcileStops, ReconcileLost, TypeOK
    <3>3. \A r \in Refs : HasMoney(r) => gw'[r] \in {"success", "reversed"}
      BY <3>1 DEF HasMoney
    <3>4. ASSUME NEW v \in Workers, rec'[v].at = "settle", rec'[v].verdict = "success"
          PROVE  gw'[rec'[v].ref] \in {"success", "reversed"}
      <4>1. rec'[v] = rec[v]
        BY <3>2, <3>4 DEF Idle
      <4> QED
        BY <4>1, <3>1, <3>4 DEF LedgerInv, AnswersAreTrue, HasMoney
    <3> QED
      BY <3>1, <3>3, <3>4, LedgerQuiet
  <2>4. CASE ReconcileFailed(w)
    <3> PICK r \in Refs : r = rec[w].ref
      BY <2>4 DEF ReconcileFailed, TypeOK
    <3>1. rec[w].verdict \in {"failed", "reversed"}
      BY <2>4 DEF ReconcileFailed, TypeOK, Verdicts
    <3>2. status' = [status EXCEPT ![r] = IF @ = "pending" THEN rec[w].verdict ELSE @]
      BY <2>4 DEF ReconcileFailed, MayFail, TypeOK
    <3>3. \A v \in Workers : rec'[v] \in {rec[v], Idle}
      BY <2>4 DEF ReconcileFailed, TypeOK
    <3> QED
      BY <2>4, <3>1, <3>2, <3>3, LedgerReleased DEF ReconcileFailed
  <2>5. CASE ReconcileApplied(w)
    BY <2>5, LedgerApplied
  <2>6. CASE ReconcileReviewed(w)
    BY <2>6, LedgerReviewed
  <2> QED
    BY <1>5, <2>1, <2>2, <2>3, <2>4, <2>5, <2>6 DEF ReconcileStep
<1>6. CASE Tick
  <2>1. QuotesSound'
    BY <1>6 DEF Tick, LedgerInv, QuotesSound, TypeOK, Time, QuoteRecord, SubRecord
  <2>2. OrdersSound'
    BY <1>6 DEF Tick, LedgerInv, OrdersSound, TypeOK, Time, OrderRecord
  <2> QED
    BY <1>6, <2>1, <2>2 DEF Tick, LedgerInv, OnePending, SuccessWasCharged, AnswersAreTrue,
       OutcomeFollowsStatus, AppliedIsPast, OneAppliedPerBase, HasMoney, Applied, Past
<1>7. CASE UNCHANGED vars
  BY <1>7, <1>a DEF vars
<1> QED
  BY <1>1, <1>2, <1>3, <1>4, <1>5, <1>6, <1>7 DEF Next

THEOREM LedgerCorrect == Spec => []LedgerInv
<1>1. Init => LedgerInv
  BY LedgerInit
<1>2. TypeOK /\ TypeOK' /\ LedgerInv /\ [Next]_vars => LedgerInv'
  BY LedgerStep
<1> QED
  BY <1>1, <1>2, TypeCorrect, PTL DEF Spec

(* Two attempts of one church are never both pending.                       *)
THEOREM OnePendingHolds == Spec => []OnePending
<1>1. LedgerInv => OnePending
  BY DEF LedgerInv
<1> QED
  BY <1>1, LedgerCorrect, PTL

(* No payment is recorded as successful without the provider's money.       *)
THEOREM SuccessWasChargedHolds == Spec => []SuccessWasCharged
<1>1. LedgerInv => SuccessWasCharged
  BY DEF LedgerInv
<1> QED
  BY <1>1, LedgerCorrect, PTL

(* At most one of the payments priced against one state of the subscription *)
(* is applied, whatever the tabs, callbacks and late answers.               *)
THEOREM OneAppliedPerBaseHolds == Spec => []OneAppliedPerBase
<1>1. LedgerInv => OneAppliedPerBase
  BY DEF LedgerInv
<1> QED
  BY <1>1, LedgerCorrect, PTL

(* No settlement shortens the paid period or lowers a running plan.         *)
THEOREM AccessNeverReducedHolds == Spec => AccessNeverReduced
<1>1. TypeOK /\ LedgerInv /\ [Next]_vars =>
        [ /\ sub'.paidUntil >= sub.paidUntil
          /\ Active => Rank[sub'.plan] >= Rank[sub.plan] ]_vars
  <2> SUFFICES ASSUME TypeOK, LedgerInv, Next
               PROVE  /\ sub'.paidUntil >= sub.paidUntil
                      /\ Active => Rank[sub'.plan] >= Rank[sub.plan]
    OBVIOUS
  <2>1. CASE sub' = sub
    BY <2>1, BillingAssumption DEF TypeOK, SubRecord, Time
  <2>2. ASSUME NEW w \in Workers, ReconcileApplied(w)
        PROVE  /\ sub'.paidUntil >= sub.paidUntil
               /\ Active => Rank[sub'.plan] >= Rank[sub.plan]
    <3>1. sub.plan \in Plans /\ sub'.plan \in Plans
      BY <2>2 DEF ReconcileApplied, Extended, TypeOK, SubRecord
    <3>2. sub.paidUntil \in Nat /\ sub'.paidUntil \in Nat
      BY <2>2, TypeStep DEF TypeOK, SubRecord, Time
    <3>3. Rank[sub.plan] \in Nat /\ Rank[sub'.plan] \in Nat
      BY <3>1, BillingAssumption
    <3> QED
      BY <2>2, <3>2, <3>3, ApplyAdvances
  <2>3. sub' = sub \/ \E w \in Workers : ReconcileApplied(w)
    BY DEF Next, Quote, Schedule, BrowserStep, Checkout, CheckoutReturns, CheckoutFails,
           CheckoutDies, CheckoutResumes, ProviderStep, ProviderOpens, PayerPays,
           PayerDeclined, PayerUnderpays, ProviderReverses, ProviderMoves, ReconcileStep,
           ReconcileStart, ReconcileAnswered, ReconcileStops, ReconcileFailed,
           ReconcileReviewed, ReconcileLost, Tick, rows, entitlement
  <2> QED
    BY <2>1, <2>2, <2>3
<1> QED
  BY <1>1, TypeCorrect, LedgerCorrect, PTL DEF Spec, AccessNeverReduced

(* "Repeated callbacks claim a reference once": what is recorded of a        *)
(* successful payment never changes again.                                   *)
THEOREM SuccessIsFinalHolds == Spec => SuccessIsFinal
<1> DEFINE Kept(r) ==
      /\ status'[r] = "success"
      /\ outcome'[r] = outcome[r]
      /\ grant'[r] = grant[r]
<1>1. TypeOK /\ [Next]_vars => [\A r \in Refs : status[r] = "success" => Kept(r)]_vars
  <2> SUFFICES ASSUME TypeOK, Next, NEW r \in Refs, status[r] = "success"
               PROVE  Kept(r)
    OBVIOUS
  <2>1. ASSUME NEW s \in Refs, BrowserStep(s) PROVE Kept(r)
    <3>1. ASSUME NEW q \in quotes, Checkout(q, s) PROVE Kept(r)
      BY <3>1 DEF Checkout, Abandoned, entitlement, TypeOK
    <3>2. CASE CheckoutFails(s)
      BY <3>2 DEF CheckoutFails, Released, entitlement, TypeOK
    <3>3. CASE CheckoutReturns(s) \/ CheckoutDies(s) \/ CheckoutResumes(s)
      BY <3>3 DEF CheckoutReturns, CheckoutDies, CheckoutResumes, rows, entitlement
    <3> QED
      BY <2>1, <3>1, <3>2, <3>3 DEF BrowserStep
  <2>2. ASSUME NEW w \in Workers, ReconcileStep(w) PROVE Kept(r)
    <3>1. CASE ReconcileFailed(w)
      BY <3>1 DEF ReconcileFailed, MayFail, entitlement, TypeOK
    <3>2. CASE ReconcileApplied(w)
      BY <3>2 DEF ReconcileApplied, Claims, Record, TypeOK
    <3>3. CASE ReconcileReviewed(w)
      BY <3>3 DEF ReconcileReviewed, Claims, Record, entitlement, TypeOK
    <3>4. CASE UNCHANGED <<rows, entitlement>>
      BY <3>4 DEF rows, entitlement
    <3> QED
      BY <2>2, <3>1, <3>2, <3>3, <3>4
         DEF ReconcileStep, ReconcileStart, ReconcileAnswered, ReconcileStops, ReconcileLost
  <2>3. CASE UNCHANGED <<status, outcome, grant>>
    BY <2>3
  <2> QED
    BY <2>1, <2>2, <2>3
       DEF Next, Quote, Schedule, ProviderStep, ProviderOpens, PayerPays, PayerDeclined,
           PayerUnderpays, ProviderReverses, ProviderMoves, Tick, rows, entitlement
<1> QED
  BY <1>1, TypeCorrect, PTL DEF Spec, SuccessIsFinal

-----------------------------------------------------------------------------
(* The ledger implements PaidAccess *)

charged == {r \in Refs : gw[r] \in {"success", "reversed"}}

(* A step of the payment provider charges one reference or none.            *)
LEMMA ProviderKeepsPromise ==
    ASSUME TypeOK, NEW r \in Refs, ProviderStep(r)
    PROVE  Promise!Charge(r) \/ UNCHANGED Promise!vars
<1>1. UNCHANGED <<outcome, sub>>
  BY DEF ProviderStep, ProviderOpens, PayerPays, PayerDeclined, PayerUnderpays,
         ProviderReverses, ProviderMoves, rows, entitlement
<1>2. CASE PayerPays(r)
  BY <1>1, <1>2 DEF PayerPays, ProviderMoves, Promise!Charge, TypeOK
<1>3. CASE ProviderOpens(r) \/ PayerDeclined(r) \/ PayerUnderpays(r) \/ ProviderReverses(r)
  <2>1. charged' = charged
    BY <1>3 DEF ProviderOpens, PayerDeclined, PayerUnderpays, ProviderReverses,
                ProviderMoves, TypeOK, charged
  <2> QED
    BY <1>1, <2>1 DEF Promise!vars, charged
<1> QED
  BY <1>2, <1>3 DEF ProviderStep

(* Settling a success accounts for a charge that was not accounted for.     *)
LEMMA SettlementKeepsPromise ==
    ASSUME TypeOK, TypeOK', LedgerInv, NEW w \in Workers,
           ReconcileApplied(w) \/ ReconcileReviewed(w)
    PROVE  Promise!Next
<1> PICK r \in Refs : r = rec[w].ref
  BY DEF ReconcileApplied, ReconcileReviewed, TypeOK
<1>1. r \in charged /\ outcome[r] = "pending"
  <2>1. r \in charged
    BY DEF ReconcileApplied, ReconcileReviewed, LedgerInv, AnswersAreTrue, HasMoney, charged
  <2>2. outcome[r] = "pending"
    BY DEF ReconcileApplied, ReconcileReviewed, Claims, LedgerInv, OutcomeFollowsStatus
  <2> QED
    BY <2>1, <2>2
<1>2. UNCHANGED charged
  BY DEF ReconcileApplied, ReconcileReviewed, charged
<1>3. CASE ReconcileApplied(w)
  <2>1. sub.paidUntil \in Nat /\ sub'.paidUntil \in Nat
    BY DEF TypeOK, SubRecord, Time
  <2>2. sub'.paidUntil >= sub.paidUntil
    BY <1>3, <2>1, ApplyAdvances
  <2>3. outcome' = [outcome EXCEPT ![r] = "applied"]
    BY <1>3 DEF ReconcileApplied, Record
  <2> QED
    BY <1>1, <1>2, <2>1, <2>2, <2>3 DEF Promise!Next, Promise!Apply, Promise!Account, charged
<1>4. CASE ReconcileReviewed(w)
  <2>1. outcome' = [outcome EXCEPT ![r] = "review"] /\ sub' = sub
    BY <1>4 DEF ReconcileReviewed, Record, entitlement
  <2> QED
    BY <1>1, <1>2, <2>1 DEF Promise!Next, Promise!Review, Promise!Account, charged
<1> QED
  BY <1>3, <1>4

(* The ledger keeps the promise of PaidAccess: access moves only by         *)
(* accounting, once, for a charge the provider holds.                       *)
THEOREM LedgerKeepsPromise == Spec => KeepsPromise
<1>1. Init => Promise!Init
  BY DEF Init, Promise!Init
<1>2. TypeOK /\ TypeOK' /\ LedgerInv /\ [Next]_vars => [Promise!Next]_(Promise!vars)
  <2> SUFFICES ASSUME TypeOK, TypeOK', LedgerInv, [Next]_vars
               PROVE  Promise!Next \/ UNCHANGED Promise!vars
    OBVIOUS
  <2>1. ASSUME NEW r \in Refs, ProviderStep(r)
        PROVE  Promise!Next \/ UNCHANGED Promise!vars
    BY <2>1, ProviderKeepsPromise DEF Promise!Next
  <2>2. ASSUME NEW w \in Workers, ReconcileApplied(w) \/ ReconcileReviewed(w)
        PROVE  Promise!Next
    BY <2>2, SettlementKeepsPromise
  <2>3. CASE UNCHANGED <<gw, outcome, sub>>
    BY <2>3 DEF Promise!vars
  <2>4. \/ \E r \in Refs : ProviderStep(r)
        \/ \E w \in Workers : ReconcileApplied(w) \/ ReconcileReviewed(w)
        \/ UNCHANGED <<gw, outcome, sub>>
    BY DEF Next, vars, Quote, Schedule, BrowserStep, Checkout, CheckoutReturns,
           CheckoutFails, CheckoutDies, CheckoutResumes, ReconcileStep, ReconcileStart,
           ReconcileAnswered, ReconcileStops, ReconcileFailed, ReconcileLost, Tick, rows,
           entitlement
  <2> QED
    BY <2>1, <2>2, <2>3, <2>4
<1> QED
  BY <1>1, <1>2, TypeCorrect, LedgerCorrect, PTL DEF Spec, KeepsPromise, Promise!Spec

-----------------------------------------------------------------------------
(* The welcome.  Periods never end after the paid date, so what is applied  *)
(* next begins where the others ended or later; and once there is a paid    *)
(* date, somebody bought a period that does not begin with its end.         *)
WelcomeInv ==
    /\ ConfirmationsAreTrue
    /\ \A r \in Refs : Applied(r) =>
          /\ 0 < grant[r].to
          /\ grant[r].from <= grant[r].to
          /\ grant[r].to <= sub.paidUntil
    /\ sub.paidUntil > 0 => \E r \in Refs : Applied(r) /\ grant[r].from < grant[r].to

(* What the settlement of r grants: it begins at the paid date or later.    *)
LEMMA GrantIs ==
    ASSUME TypeOK, TypeOK', LedgerInv, NEW w \in Workers, ReconcileApplied(w), NEW r,
           r = rec[w].ref
    PROVE  /\ r \in Refs /\ grant' = [grant EXCEPT ![r] = [from |-> AccessFrom, to |-> AccessTo(r)]]
           /\ AccessFrom \in Nat /\ AccessTo(r) \in Nat
           /\ sub.paidUntil \in Nat /\ sub'.paidUntil = AccessTo(r)
           /\ sub.paidUntil <= AccessFrom /\ AccessFrom <= AccessTo(r) /\ 0 < AccessTo(r)
           /\ sub.paidUntil = 0 => AccessFrom < AccessTo(r) /\ order[r].intent # "upgrade"
<1>1. /\ r \in Refs /\ ~Stale(r) /\ sub.paidUntil \in Nat /\ now \in Nat
      /\ sub'.paidUntil = AccessTo(r)
      /\ grant' = [grant EXCEPT ![r] = [from |-> AccessFrom, to |-> AccessTo(r)]]
      /\ order[r].intent \in Intents /\ order[r].cycle \in Cycles
  BY DEF ReconcileApplied, Extended, TypeOK, SubRecord, OrderRecord, Time
<1>2. AccessFrom \in Nat /\ sub.paidUntil <= AccessFrom
  BY <1>1 DEF AccessFrom, Later
<1>3. CASE order[r].intent = "upgrade"
  <2>1. sub.paidUntil > now
    BY <1>1, <1>3 DEF Stale, Active
  <2>2. AccessTo(r) = sub.paidUntil /\ AccessFrom = sub.paidUntil
    BY <1>1, <1>3, <2>1 DEF AccessTo, AccessFrom, Later, LedgerInv, OrdersSound, Stale, ReconcileApplied, TypeOK
  <2>3. QED
    BY <1>1, <1>2, <2>1, <2>2
<1>4. CASE order[r].intent # "upgrade"
  <2>1. AccessTo(r) = AccessFrom + Length[order[r].cycle]
    BY <1>4 DEF AccessTo, SubscriptionEnd
  <2>2. PICK n \in Nat \ {0} : n = Length[order[r].cycle]
    BY <1>1, BillingAssumption
  <2>3. QED
    BY <1>1, <1>2, <1>4, <2>1, <2>2
<1>5. QED
  BY <1>3, <1>4

LEMMA WelcomeApplied ==
    ASSUME TypeOK, TypeOK', LedgerInv, WelcomeInv, NEW w \in Workers, ReconcileApplied(w)
    PROVE  WelcomeInv'
<1>1. PICK r : r = rec[w].ref
  OBVIOUS
<1>2. /\ r \in Refs /\ AccessFrom \in Nat /\ AccessTo(r) \in Nat
      /\ sub.paidUntil \in Nat /\ sub'.paidUntil = AccessTo(r)
      /\ sub.paidUntil <= AccessFrom /\ AccessFrom <= AccessTo(r) /\ 0 < AccessTo(r)
      /\ sub.paidUntil = 0 => AccessFrom < AccessTo(r) /\ order[r].intent # "upgrade"
  BY <1>1, GrantIs
<1>3. ~Applied(r) /\ emails[r] = "none"
  BY <1>1, <1>2 DEF LedgerInv, OutcomeFollowsStatus, Applied, WelcomeInv, ConfirmationsAreTrue,
     ReconcileApplied, Claims
<1>4. /\ Applied(r)' /\ \A s \in Refs : s # r => (Applied(s)' <=> Applied(s))
      /\ emails'[r] \in {"none", EmailKind(r)} /\ \A s \in Refs : s # r => emails'[s] = emails[s]
  BY <1>1, <1>2, <1>3 DEF ReconcileApplied, Record, Confirmations, Applied, TypeOK
<1>5. /\ grant'[r].from = AccessFrom /\ grant'[r].to = AccessTo(r)
      /\ \A s \in Refs : s # r => grant'[s] = grant[s]
  <2>1. grant' = [grant EXCEPT ![r] = [from |-> AccessFrom, to |-> AccessTo(r)]]
    BY <1>1, GrantIs
  <2>2. grant \in [Refs -> [from : Time, to : Time]]
    BY DEF TypeOK
  <2>3. QED
    BY <1>2, <2>1, <2>2
<1>6. \A s \in Refs : grant[s].from \in Nat /\ grant[s].to \in Nat
  BY DEF TypeOK, Time
<1>7. \A s \in Refs : Applied(s) =>
          /\ s # r /\ 0 < grant[s].to /\ grant[s].from <= grant[s].to
          /\ grant[s].to <= sub.paidUntil
  BY <1>3 DEF WelcomeInv
<1>8. \A s \in Refs : Applied(s)' =>
          /\ 0 < grant'[s].to /\ grant'[s].from <= grant'[s].to /\ grant'[s].to <= sub'.paidUntil
  BY <1>2, <1>4, <1>5, <1>6, <1>7
<1>9. \E s \in Refs : Applied(s)' /\ grant'[s].from < grant'[s].to
  <2>1. CASE sub.paidUntil = 0
    BY <1>2, <1>4, <1>5, <2>1
  <2>2. CASE sub.paidUntil > 0
    <3>1. PICK s \in Refs : Applied(s) /\ grant[s].from < grant[s].to
      BY <2>2 DEF WelcomeInv
    <3>2. QED
      BY <1>3, <1>4, <1>5, <3>1
  <2>3. QED
    BY <1>2, <2>1, <2>2
<1>10. EmailKind(r) = "activation" <=> sub.paidUntil = 0
  BY <1>2 DEF EmailKind
<1>11. BoughtFirst(r)' <=> sub.paidUntil = 0
  <2>1. CASE sub.paidUntil = 0
    <3>1. \A s \in Refs : ~Applied(s)
      BY <1>6, <1>7, <2>1
    <3>2. QED
      BY <1>4, <2>1, <3>1 DEF BoughtFirst
  <2>2. CASE sub.paidUntil > 0
    <3>1. PICK s \in Refs : Applied(s) /\ grant[s].from < grant[s].to
      BY <2>2 DEF WelcomeInv
    <3>2. Applied(s)' /\ s # r /\ grant'[s].from < grant'[r].to
      BY <1>2, <1>4, <1>5, <1>6, <1>7, <3>1
    <3>3. grant'[s].from \in Nat /\ grant'[r].to \in Nat
      BY <1>2, <1>5, <1>6, <3>2
    <3>4. QED
      BY <2>2, <3>2, <3>3 DEF BoughtFirst
  <2>3. QED
    BY <1>2, <2>1, <2>2
<1>12. ConfirmationsAreTrue'
  <2> SUFFICES ASSUME NEW t \in Refs, emails'[t] # "none"
               PROVE  Applied(t)' /\ (emails'[t] = "activation" <=> BoughtFirst(t)')
    BY DEF ConfirmationsAreTrue
  <2>1. CASE t = r
    BY <1>4, <1>10, <1>11, <2>1
  <2>2. CASE t # r
    <3>1. emails'[t] = emails[t] /\ Applied(t) /\ (emails[t] = "activation" <=> BoughtFirst(t))
      BY <1>4, <2>2 DEF WelcomeInv, ConfirmationsAreTrue
    <3>2. grant'[r].from >= grant'[t].to
      BY <1>2, <1>5, <1>6, <1>7, <2>2, <3>1
    <3>3. BoughtFirst(t)' <=> BoughtFirst(t)
      BY <1>3, <1>4, <1>5, <2>2, <3>2 DEF BoughtFirst
    <3>4. QED
      BY <1>4, <2>2, <3>1, <3>3
  <2>3. QED
    BY <2>1, <2>2
<1>13. QED
  BY <1>8, <1>9, <1>12 DEF WelcomeInv

LEMMA WelcomeReviewed ==
    ASSUME TypeOK, LedgerInv, WelcomeInv, NEW w \in Workers, ReconcileReviewed(w)
    PROVE  WelcomeInv'
<1> DEFINE r == rec[w].ref
<1>1. r \in Refs /\ status[r] # "success" /\ UNCHANGED <<sub, emails, grant>>
        /\ outcome' = [outcome EXCEPT ![r] = "review"]
  BY DEF ReconcileReviewed, Record, Claims, entitlement, TypeOK
<1>2. \A s \in Refs : Applied(s)' <=> Applied(s)
  BY <1>1 DEF Applied, TypeOK, LedgerInv, OutcomeFollowsStatus
<1>3. QED
  BY <1>1, <1>2 DEF WelcomeInv, ConfirmationsAreTrue, BoughtFirst

LEMMA WelcomeStep == TypeOK /\ TypeOK' /\ LedgerInv /\ WelcomeInv /\ [Next]_vars => WelcomeInv'
<1> SUFFICES ASSUME TypeOK, TypeOK', LedgerInv, WelcomeInv, [Next]_vars PROVE WelcomeInv'
  OBVIOUS
<1>1. CASE UNCHANGED <<outcome, sub, emails, grant>>
  BY <1>1 DEF WelcomeInv, ConfirmationsAreTrue, BoughtFirst, Applied
<1>2. \/ UNCHANGED <<outcome, sub, emails, grant>>
      \/ \E w \in Workers : ReconcileApplied(w) \/ ReconcileReviewed(w)
  BY DEF Next, vars, Quote, Schedule, BrowserStep, Checkout, CheckoutReturns,
         CheckoutFails, CheckoutDies, CheckoutResumes, ProviderStep, ProviderMoves, ProviderOpens,
         PayerPays, PayerDeclined, PayerUnderpays, ProviderReverses, ReconcileStep,
         ReconcileStart, ReconcileAnswered, ReconcileStops, ReconcileFailed, ReconcileLost, Tick, rows,
         entitlement
<1>3. QED
  BY <1>1, <1>2, WelcomeApplied, WelcomeReviewed

(* A confirmation is about an applied payment, and it welcomes the church   *)
(* exactly when that payment bought its first period, in whatever order     *)
(* payments are settled (enqueueSubscription's firstPayment).               *)
THEOREM ConfirmationsAreTrueHolds == Spec => []ConfirmationsAreTrue
<1>1. Init => WelcomeInv
  BY DEF Init, WelcomeInv, ConfirmationsAreTrue, Applied
<1>2. WelcomeInv => ConfirmationsAreTrue
  BY DEF WelcomeInv
<1>3. QED
  BY <1>1, <1>2, WelcomeStep, TypeCorrect, LedgerCorrect, PTL DEF Spec
=============================================================================
