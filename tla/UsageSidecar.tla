----------------------------- MODULE UsageSidecar -----------------------------
(***************************************************************************)
(* The sidecar of sidecar/main.go: POST /api/v1/usage/report, and the      *)
(* table external_usage_daily it writes.                                   *)
(*                                                                         *)
(* RowOf abstracts normalizeItem: the unique key a bucket is written       *)
(* under, or Invalid when the item is rejected.  Two buckets the reporter  *)
(* keeps apart may share a key after trimming and defaulting.  The token,  *)
(* the source and the target user are configuration; a request that any    *)
(* of those checks turns away is answered by RefuseReport.                 *)
(***************************************************************************)
EXTENDS UsageWire

CONSTANTS Rows,         \* unique keys of external_usage_daily
          Invalid,      \* "normalizeItem returned an error"
          RowOf,        \* the key of each bucket, or Invalid
          MaxItems      \* Config.MaxItems

ASSUME RowOfAssumption == RowOf \in [Buckets -> Rows \cup {Invalid}]
ASSUME InvalidAssumption == Invalid \notin Rows
ASSUME MaxItemsAssumption == MaxItems \in Nat \ {0}

VARIABLE rows           \* stored value of each key; 0 when there is no row

SidecarInit == rows = [r \in Rows |-> 0]

(* The items of a report that normalizeItem lets through. *)
ValidItems(items) == {b \in Carried(items) : RowOf[b] # Invalid}

(* PostgreSQL refuses an INSERT ... ON CONFLICT DO UPDATE that would touch *)
(* one row twice.                                                          *)
OneItemPerRow(S) == \A a, b \in S : RowOf[a] = RowOf[b] => a = b

(* Mutant: the values of a report are added to the stored ones. *)
UpsertBatchAdds(items, S) ==
    [r \in Rows |-> IF \E b \in S : RowOf[b] = r
                    THEN rows[r] + items[CHOOSE b \in S : RowOf[b] = r]
                    ELSE rows[r]]

(* Mutant: ON CONFLICT DO NOTHING. *)
UpsertBatchKeeps(items, S) ==
    [r \in Rows |-> IF rows[r] = 0 /\ \E b \in S : RowOf[b] = r
                    THEN items[CHOOSE b \in S : RowOf[b] = r]
                    ELSE rows[r]]

(* The single INSERT ... ON CONFLICT DO UPDATE SET x = EXCLUDED.x. *)
UpsertBatch(items, S) ==
    [r \in Rows |-> IF \E b \in S : RowOf[b] = r
                    THEN items[CHOOSE b \in S : RowOf[b] = r]
                    ELSE rows[r]]

(* The checks HandleReport makes on the items before it answers 200. *)
ReportFits(items) ==
    /\ Cardinality(Carried(items)) =< MaxItems
    /\ ValidItems(items) # {}
    /\ OneItemPerRow(ValidItems(items))

(* ReportResponse; the reporter compares both numbers with its batch. *)
ReportResponse(items) ==
    [ok |-> TRUE,
     accepted |-> Cardinality(ValidItems(items)),
     rejected |-> Cardinality(Carried(items) \ ValidItems(items))]

(* The connection after an answer: the answer waits for its client, or is  *)
(* lost because the client has closed the connection.                      *)
Answer(c, resp, open) ==
    net' = [net EXCEPT ![c] = IF open THEN Reply(net[c].items, resp)
                                      ELSE FreeConn]

(* HandleReport for a request that passes the configuration checks. *)
HandleReport(c, open) ==
    LET items == net[c].items IN
    /\ net[c].phase = "sent"
    /\ IF ReportFits(items)
       THEN /\ rows' = UpsertBatch(items, ValidItems(items))
            /\ Answer(c, ReportResponse(items), open)
       ELSE /\ UNCHANGED rows
            /\ Answer(c, HttpError, open)

(* The early returns of HandleReport that do not depend on the items (401, *)
(* 400 for the source, 403 for the user) and 500 when the statement fails; *)
(* also a connection that breaks before the request reaches the sidecar.   *)
RefuseReport(c, open) ==
    /\ net[c].phase = "sent"
    /\ Answer(c, HttpError, open)
    /\ UNCHANGED rows
=============================================================================
