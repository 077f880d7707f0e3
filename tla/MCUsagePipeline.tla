--------------------------- MODULE MCUsagePipeline ---------------------------
(* Small instances of UsagePipeline for TLC. *)
EXTENDS UsagePipeline, TLC

CONSTANTS r1, r2

(* Every bucket is valid and has a row of its own. *)
RowOfDistinct == (1 :> r1) @@ (2 :> r2)

(* The first bucket's item is rejected by normalizeItem. *)
RowOfPoison == (1 :> Invalid) @@ (2 :> r2)
=============================================================================
