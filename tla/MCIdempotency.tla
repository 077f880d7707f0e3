---------------------------- MODULE MCIdempotency ----------------------------
(* Three callers, who may carry two payloads under one key.                *)
EXTENDS Idempotency
=============================================================================
