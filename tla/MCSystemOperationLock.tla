------------------------ MODULE MCSystemOperationLock ------------------------
(* Callers with two operation ids, on a lease of four ticks.               *)
EXTENDS SystemOperationLock
=============================================================================
