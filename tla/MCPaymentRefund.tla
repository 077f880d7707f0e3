--------------------------- MODULE MCPaymentRefund ---------------------------
(* Two workers; FairSpec is checked, so that no symmetry is declared.      *)
EXTENDS PaymentRefund
=============================================================================
