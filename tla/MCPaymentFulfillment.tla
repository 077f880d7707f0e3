------------------------- MODULE MCPaymentFulfillment -------------------------
(* Small instances of PaymentFulfillment for TLC.  The workers of a run    *)
(* are interchangeable; runs that check no liveness use that.              *)
EXTENDS PaymentFulfillment, TLC

WorkerSymmetry == Permutations(Workers)
=============================================================================
