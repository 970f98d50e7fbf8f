--------------------------- MODULE MCPaymentRecovery ---------------------------
(* TLC instance of PaymentRecovery: five payments, pages of two. *)
EXTENDS PaymentRecovery

MCRefs == 1..5
=============================================================================
