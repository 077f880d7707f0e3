---------------------------- MODULE MCUsageBilling ----------------------------
(* A balance of three, and requests that cost two: the second overdraws.   *)
EXTENDS UsageBilling
==============================================================================
