---------------------------- MODULE MCOfflineSync ----------------------------
(* TLC instances of OfflineSync. *)
EXTENDS OfflineSync, TLC

(* Mutation ids are interchangeable, and so are transactions. *)
Symmetry == Permutations(Mutations) \cup Permutations(Workers)
=============================================================================
