---------------------------- MODULE PaymentRecovery ----------------------------
(***************************************************************************)
(* The scan of the recovery worker:                                        *)
(* src/billing/payment-reconciliation.service.ts.                          *)
(*                                                                         *)
(* A timer reads a page of unsettled payments behind a cursor, reconciles  *)
(* them one by one and starts again from the front when a page was not     *)
(* full.  Payments enter the set of candidates at any place of the order   *)
(* (references are random) and leave it when they are settled or too old.  *)
(* What reconciling one payment does is module SubscriptionBilling.        *)
(***************************************************************************)
EXTENDS Integers, FiniteSets

CONSTANTS
    Refs,       \* payment references, in the order of the database
    PageSize,   \* rows one scan takes
    MaxCrashes  \* bound on the restarts of the worker process

ASSUME RecoveryAssumption ==
    /\ Refs \subseteq Nat \ {0}
    /\ PageSize \in Nat \ {0}
    /\ MaxCrashes \in Nat

VARIABLES
    candidates, \* unsettled payments inside the recovery window
    cursor,     \* last reference of a full page; 0 stands for ''
    page,       \* payments of the running scan that are still to be visited
    visiting,   \* payments reconcilePayment has just been called for
    owed,       \* history: candidates of this pass that nobody visited yet
    crashes     \* restarts so far

vars == <<candidates, cursor, page, visiting, owed, crashes>>

Init ==
    /\ candidates \in SUBSET Refs
    /\ cursor = 0
    /\ page = {}
    /\ visiting = {}
    /\ owed = {}
    /\ crashes = 0

(* A checkout stores a payment; a payment is settled or grows too old. *)
Enter(r) ==
    /\ r \notin candidates
    /\ candidates' = candidates \cup {r}
    /\ UNCHANGED <<cursor, page, visiting, owed, crashes>>

Leave(r) ==
    /\ r \in candidates
    /\ candidates' = candidates \ {r}
    /\ owed' = owed \ {r}
    /\ UNCHANGED <<cursor, page, visiting, crashes>>

(* Slip: the row after the cursor's own is skipped as well. *)
SlipBehind == {r \in candidates : r > cursor + 1}

Behind == {r \in candidates : r > cursor}

UpTo(last) == {r \in Behind : r <= last}

(* The timer fires while no scan is running.  A query that fails changes   *)
(* nothing.  A pass begins at the front: from there on it owes a visit to   *)
(* every candidate there is.                                               *)
Begin(rows, next) ==
    /\ page = {}
    /\ page' = rows
    /\ cursor' = next
    /\ owed' = IF cursor = 0 THEN candidates ELSE owed
    /\ visiting' = {}
    /\ UNCHANGED <<candidates, crashes>>

(* Slip: the next scan reads the same page again. *)
SlipScanSame(last) ==
    /\ last \in Behind
    /\ Cardinality(UpTo(last)) = PageSize
    /\ Begin(UpTo(last), cursor)

(* The page is full: the next scan goes on behind its last row. *)
ScanFull(last) ==
    /\ last \in Behind
    /\ Cardinality(UpTo(last)) = PageSize
    /\ Begin(UpTo(last), last)

(* The rest fits in a page: the next scan starts at the front. *)
ScanRest ==
    /\ Cardinality(Behind) < PageSize
    /\ Begin(Behind, 0)

Scan == (\E last \in Refs : ScanFull(last)) \/ ScanRest

(* reconcilePayment of the next row; a failure goes on with the one after. *)
Visit(r) ==
    /\ r \in page
    /\ \A s \in page : r <= s
    /\ page' = page \ {r}
    /\ visiting' = {r}
    /\ owed' = owed \ {r}
    /\ UNCHANGED <<candidates, cursor, crashes>>

(* The worker process restarts with a new instance of the service. *)
Crash ==
    /\ crashes < MaxCrashes
    /\ crashes' = crashes + 1
    /\ cursor' = 0
    /\ page' = {}
    /\ visiting' = {}
    /\ owed' = {}
    /\ UNCHANGED candidates

Next ==
    \/ \E r \in Refs : Enter(r) \/ Leave(r) \/ Visit(r)
    \/ Scan
    \/ Crash

Spec == Init /\ [][Next]_vars

(* The timer fires every two minutes and a scan goes through its page. *)
FairSpec ==
    /\ Spec
    /\ WF_vars(Scan)
    /\ WF_vars(\E r \in Refs : Visit(r))

-----------------------------------------------------------------------------
(* Properties *)

(* Every variable has its type. *)
TypeOK ==
    /\ candidates \subseteq Refs
    /\ cursor \in Refs \cup {0}
    /\ page \subseteq Refs
    /\ visiting \subseteq Refs
    /\ owed \subseteq candidates
    /\ crashes \in Nat

(* "Rotates through every candidate": when a pass is over, every payment    *)
(* that was there when it began, and still is, has been visited.            *)
PassCovers == cursor = 0 /\ page = {} => owed = {}

(* "Without starving newer payments behind abandoned checkouts": a payment  *)
(* that stays a candidate is visited, however many come and go before it.   *)
EveryCandidateVisited ==
    \A r \in Refs : (r \in candidates) ~> (r \in visiting \/ r \notin candidates)

-----------------------------------------------------------------------------
(* What a pass still owes lies in the page or behind the cursor. *)
OwedIsAhead ==
    \A r \in owed : r \in page \/ (cursor # 0 /\ cursor < r)
=============================================================================
