----------------------------- MODULE PaidAccess -----------------------------
(***************************************************************************)
(* What the subscription ledger promises a church, whatever the number of  *)
(* tabs, callbacks, retries and crashes behind it: a charge is accounted   *)
(* for at most once, either as access or as a case for review; access is   *)
(* extended by accounting for a charge and by nothing else.                *)
(***************************************************************************)
EXTENDS Naturals

CONSTANTS Refs

VARIABLES
    charged,   \* references the provider has taken money for
    outcome,   \* how each reference was accounted for
    access     \* end of the paid period

vars == <<charged, outcome, access>>

Init ==
    /\ charged = {}
    /\ outcome = [r \in Refs |-> "pending"]
    /\ access = 0

Charge(r) ==
    /\ r \notin charged
    /\ charged' = charged \cup {r}
    /\ UNCHANGED <<outcome, access>>

Account(r, result) ==
    /\ r \in charged
    /\ outcome[r] = "pending"
    /\ outcome' = [outcome EXCEPT ![r] = result]
    /\ UNCHANGED charged

Apply(r) ==
    /\ Account(r, "applied")
    /\ access' \in Nat
    /\ access' >= access

Review(r) ==
    /\ Account(r, "review")
    /\ UNCHANGED access

Next == \E r \in Refs : Charge(r) \/ Apply(r) \/ Review(r)

Spec == Init /\ [][Next]_vars
=============================================================================
