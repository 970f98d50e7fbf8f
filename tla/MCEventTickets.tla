---------------------------- MODULE MCEventTickets ----------------------------
(* TLC instances of EventTickets. *)
EXTENDS EventTickets, TLC

(* Members, registrations and requests are interchangeable. *)
Symmetry == Permutations(Members) \cup Permutations(Regs) \cup Permutations(Workers)
=============================================================================
