--------------------------- MODULE IdempotencyStore ---------------------------
(***************************************************************************)
(* The table idempotency_records (idempotency_repo.go), as its two users   *)
(* see it: the coordinator that replays answers to repeated requests       *)
(* (Idempotency) and the lock for system operations                        *)
(* (SystemOperationLock).                                                  *)
(*                                                                         *)
(* Keys share no state, so there is one row.  Times are relative: lock and *)
(* left are the ticks until locked_until and expires_at, negative once     *)
(* they have passed.  A caller computes with the time at which it began;   *)
(* age is the number of ticks since then, so a time is past for the caller *)
(* when the ticks until it plus age are not positive.                      *)
(***************************************************************************)
EXTENDS Integers

CONSTANTS Prints,     \* request fingerprints
          Timeout,    \* ProcessingTimeout
          TTL,        \* DefaultTTL or SystemOperationTTL
          MaxDelay    \* how old a caller's time may be when it claims

ASSUME PrintsAssumption == Prints # {}

ASSUME TimesAssumption == Timeout \in Nat /\ TTL \in Nat /\ MaxDelay \in Nat

VARIABLE row

Statuses == {"none", "processing", "succeeded", "failed"}

(* A time that is past for every caller; also the value for NULL. *)
Past == -MaxDelay

(* body is the fingerprint of the request whose answer is stored. *)
RecordType == [status : Statuses, print : Prints, body : Prints,
               lock : Int, left : Int]

Exists == row.status # "none"

Expired(age) == row.left + age <= 0

Locked(age) == row.lock + age > 0

(* INSERT ... ON CONFLICT DO NOTHING; the body is NULL until it is stored. *)
CreateProcessing(print, age) ==
    row' = [status |-> "processing", print |-> print, body |-> print,
            lock |-> Timeout - age, left |-> TTL - age]

(* Mutant: the row is taken whatever its lock says. *)
ReclaimableLocked(from, age) == row.status = from

(* The WHERE clause of TryReclaim. *)
Reclaimable(from, age) == row.status = from /\ ~ Locked(age)

(* TryReclaim keeps the fingerprint of the row. *)
Reclaim(age) == row' = [row EXCEPT !.status = "processing",
                                   !.lock = Timeout - age,
                                   !.left = TTL - age]

(* ExtendProcessingLock, WHERE clause and assignments. *)
Extendable(print) == row.status = "processing" /\ row.print = print

Extend == row' = [row EXCEPT !.lock = Timeout, !.left = TTL]

(* MarkSucceeded and MarkFailedRetryable have no condition but the id. *)
MarkSucceeded(print, left) ==
    row' = [row EXCEPT !.status = "succeeded", !.body = print,
                       !.lock = Past, !.left = left]

MarkFailedRetryable(lock, left) ==
    row' = [row EXCEPT !.status = "failed", !.lock = lock, !.left = left]

(* One tick; a time that is past for everybody stays where it is. *)
Sooner(time) == IF time > Past THEN time - 1 ELSE Past

Pass == row' = [row EXCEPT !.lock = Sooner(@), !.left = Sooner(@)]

(* Mutant: rows that are being processed are spared. *)
DeletableDone == Exists /\ row.status # "processing" /\ row.left <= 0

(* DeleteExpired, with a time of its own. *)
Deletable == Exists /\ row.left <= 0

Delete == row' = [row EXCEPT !.status = "none"]
===============================================================================
