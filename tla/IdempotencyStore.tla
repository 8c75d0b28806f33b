-------------------------- MODULE IdempotencyStore --------------------------
(***************************************************************************)
(* The table idempotency_keys behind the Idempotency-Key header, and the   *)
(* statements of internal/platform/idempotency/mysql on it.                *)
(*                                                                         *)
(* One row per scope and key (the unique index); a reservation is the row  *)
(* of the request that inserted it.  Nothing deletes a row but Abandon:    *)
(* expires_at is written and never read.                                   *)
(***************************************************************************)
CONSTANTS
    Slot,       \* scope and key
    Request,    \* who reserves: the row's id is drawn afresh by each request
    Hash,       \* request_hash
    Reply       \* response_json

VARIABLE entry

Free == [status |-> "free"]

InProgressRow == [status: {"in_progress"}, owner: Request, hash: Hash]
CompletedRow  == [status: {"completed"}, owner: Request, hash: Hash, reply: Reply]

\* A key is free, in progress or completed with a reply.
StoreTypeOK == entry \in [Slot -> {Free} \union InProgressRow \union CompletedRow]

StoreInit == entry = [k \in Slot |-> Free]

Taken(k) == entry[k].status # "free"

InProgressOf(r, k) == entry[k].status = "in_progress" /\ entry[k].owner = r

\* TryReserve: the INSERT succeeds only when the slot has no row.
Reserve(r, k, h) ==
    /\ ~Taken(k)
    /\ entry' = [entry EXCEPT ![k] = [status |-> "in_progress", owner |-> r, hash |-> h]]

\* A slip to rule out: the stored reply is given to whoever presents the key.
ReplaysAny(k, h) == entry[k].status = "completed"

\* loadAfterConflict finds the reply of the same request.
Replays(k, h) == entry[k].status = "completed" /\ entry[k].hash = h

\* Complete: UPDATE ... WHERE idempotency_key_id = ? AND status = 'in_progress'.
Complete(r, v) ==
    entry' = [k \in Slot |->
                 IF InProgressOf(r, k)
                 THEN [status |-> "completed", owner |-> r, hash |-> entry[k].hash,
                       reply |-> v]
                 ELSE entry[k]]

\* Abandon: DELETE ... WHERE idempotency_key_id = ?, whatever its status.
Abandon(r) ==
    entry' = [k \in Slot |-> IF Taken(k) /\ entry[k].owner = r THEN Free ELSE entry[k]]
=============================================================================
