----------------------- MODULE MCSubscriptionBilling -----------------------
(* TLC instances of SubscriptionBilling. *)
EXTENDS SubscriptionBilling, TLC

MCRank == [p \in Plans |-> CASE p = "essentials" -> 0
                             [] p = "community" -> 1
                             [] p = "network" -> 2]
MCLength == [c \in Cycles |-> IF c = "annual" THEN 3 ELSE 2]

(* References are interchangeable, and so are the runs that are not the     *)
(* recovery worker.                                                         *)
Symmetry == Permutations(Refs) \cup Permutations(Workers \ {Recovery})
=============================================================================
