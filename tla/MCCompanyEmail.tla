---------------------------- MODULE MCCompanyEmail ----------------------------
(* TLC instances of CompanyEmail. *)
EXTENDS CompanyEmail, TLC

CONSTANTS Base, Cap

(* 30000 * 2 ** (attempts - 1), at most 1800000. *)
MCBackoff ==
    [n \in 1..MaxAttempts |-> IF Base * 2^(n - 1) < Cap THEN Base * 2^(n - 1) ELSE Cap]

(* Messages are interchangeable, and so are the runs that are no scan. *)
Symmetry == Permutations(Mails) \cup Permutations(Workers \ {Scanner})
=============================================================================
