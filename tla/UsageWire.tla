------------------------------ MODULE UsageWire ------------------------------
(***************************************************************************)
(* What the usage reporter and the sidecar share: the buckets a report     *)
(* carries and the HTTP connections reports travel on.                     *)
(*                                                                         *)
(* A bucket is one (UTC day, app_type, model, request_model) aggregate.    *)
(* Buckets are numbered in the order in which the reporter sorts them, so  *)
(* "the first BatchSize pending buckets" is a set of numbers.  A bucket's  *)
(* seven cumulative figures are abstracted to the number of requests in    *)
(* it: the log is append-only, so every new request changes the figures,   *)
(* and equal signatures mean equal request counts.                         *)
(*                                                                         *)
(* urllib opens one connection per POST.  A connection is free, carries a  *)
(* report nobody has processed yet ("sent"), or carries the sidecar's      *)
(* answer ("replied").                                                     *)
(***************************************************************************)
EXTENDS Integers, FiniteSets

CONSTANTS NumBuckets,   \* number of daily buckets
          Conns         \* connections that may be open at the same time

ASSUME NumBucketsAssumption == NumBuckets \in Nat \ {0}

VARIABLE net            \* the state of every connection

Buckets == 1 .. NumBuckets

(* The body of a report: the cumulative value of each bucket it carries,   *)
(* and 0 for a bucket it does not (a bucket exists from its first request  *)
(* on, so 0 is never reported).                                            *)
Payloads == [Buckets -> Nat]

NoItems == [b \in Buckets |-> 0]

Carried(items) == {b \in Buckets : items[b] # 0}

(* The parts of the HTTP answer that reporter.run looks at. *)
Responses == [ok : BOOLEAN, accepted : Nat, rejected : Nat]

HttpError == [ok |-> FALSE, accepted |-> 0, rejected |-> 0]

Connections == [phase : {"free", "sent", "replied"},
                items : Payloads,
                resp  : Responses]

FreeConn == [phase |-> "free", items |-> NoItems, resp |-> HttpError]

Request(items) == [phase |-> "sent", items |-> items, resp |-> HttpError]

Reply(items, resp) == [phase |-> "replied", items |-> items, resp |-> resp]

NetInit == net = [c \in Conns |-> FreeConn]
=============================================================================
