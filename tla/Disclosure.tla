----------------------------- MODULE Disclosure -----------------------------
(***************************************************************************)
(* Life of the disclosure records: the operations of the disclosure API    *)
(* and of the CMS on table disclosure_records, and the Idempotency-Key     *)
(* protocol around SubmitRecord and ConfirmRecord.                         *)
(*                                                                         *)
(* Every operation reads the whole row, decides on what it read, writes    *)
(* the whole row back and reads it again; there is no transaction and no   *)
(* version.  A request with a key first reserves the key, and completes or *)
(* abandons it last.                                                       *)
(***************************************************************************)
EXTENDS FiniteSets, Naturals

CONSTANTS
    Record, User,
    Plan,        \* contents that an edit may give a record, its planned date among them
    Request,     \* requests; each runs once
    Key,         \* idempotency keys the clients choose
    NoKey, NoRow,
    MaxDay,      \* bound: days that pass
    MaxFaults    \* bound: failed statements, disconnections and crashes

ASSUME DisclosureAssumption ==
    /\ NoKey \notin Key
    /\ MaxDay \in Nat \ {0}
    /\ MaxFaults \in Nat

Keyed == {"submit", "confirm"}
\* "edit" is UpdateRecord, and the CMS's setting and deletion of a schedule.
Operation == Keyed \union {"edit", "reject"}

Status == {"Draft", "Published", "Completed"}

\* Day 0 is the empty date.
Day == 0..MaxDay

RecordRow == [planned: Plan, published: Day, status: Status, by: User]

Slot == Keyed \X Key
Hash == Keyed \X Record \X User

VARIABLES
    rec,      \* table disclosure_records
    today,
    entry,    \* table idempotency_keys
    \* requests
    pc, op, target, user, key,
    seen,     \* the row the request read; after the write, the row it answers with
    \* history
    stale,    \* requests whose row changed after they read it
    applied,  \* how often requests with this key wrote their record
    replies,  \* what successful requests with this key were answered
    faults

Store == INSTANCE IdempotencyStore WITH Reply <- RecordRow

request == <<op, target, user, key>>
vars == <<rec, today, entry, pc, request, seen, stale, applied, replies, faults>>

Phases == {"new", "duplicate", "reserved", "read", "written", "completing", "failed",
           "over"}

\* A record has one of the three statuses of the code, the key table its rows, and
\* the requests keep their types.
TypeOK ==
    /\ rec \in [Record -> RecordRow \union {NoRow}]
    /\ today \in Day \ {0}
    /\ Store!StoreTypeOK
    /\ pc \in [Request -> Phases]
    /\ op \in [Request -> Operation]
    /\ target \in [Request -> Record]
    /\ user \in [Request -> User]
    /\ key \in [Request -> Key \union {NoKey}]
    /\ seen \in [Request -> RecordRow \union {NoRow}]
    /\ stale \in SUBSET Request
    /\ applied \in [Slot -> Nat]
    /\ replies \in [Slot -> SUBSET (Hash \X RecordRow)]
    /\ faults \in Nat

Init ==
    /\ rec = [d \in Record |-> NoRow]
    /\ today = 1
    /\ Store!StoreInit
    /\ pc = [r \in Request |-> "new"]
    /\ op \in [Request -> Operation]
    /\ target \in [Request -> Record]
    /\ user \in [Request -> User]
    /\ key \in [Request -> Key \union {NoKey}]
    /\ \A r \in Request : op[r] \notin Keyed => key[r] = NoKey
    /\ seen = [r \in Request |-> NoRow]
    /\ stale = {}
    /\ applied = [k \in Slot |-> 0]
    /\ replies = [k \in Slot |-> {}]
    /\ faults = 0

HasKey(r) == key[r] # NoKey
SlotOf(r) == <<op[r], key[r]>>
HashOf(r) == <<op[r], target[r], user[r]>>

Goto(r, phase) == pc' = [pc EXCEPT ![r] = phase]

\* Row d is written; requests that had read it go on with an old one.
Put(d, row) ==
    /\ rec' = [rec EXCEPT ![d] = row]
    /\ stale' = stale \union {q \in Request : pc[q] = "read" /\ target[q] = d}

-----------------------------------------------------------------------------
(* The key, before the operation.                                          *)

\* TryReserve inserts the row of the key; a request without a key goes on.
Reserve(r) ==
    /\ pc[r] = "new"
    /\ IF HasKey(r) THEN Store!Reserve(r, SlotOf(r), HashOf(r)) ELSE UNCHANGED entry
    /\ Goto(r, "reserved")
    /\ UNCHANGED <<rec, today, request, seen, stale, applied, replies, faults>>

\* The INSERT meets the unique index.
Duplicate(r) ==
    /\ pc[r] = "new"
    /\ HasKey(r) /\ Store!Taken(SlotOf(r))
    /\ Goto(r, "duplicate")
    /\ UNCHANGED <<rec, today, entry, request, seen, stale, applied, replies, faults>>

\* loadAfterConflict: the stored reply, or 409, or an error when the row is gone.
LoadDuplicate(r) ==
    /\ pc[r] = "duplicate"
    /\ IF Store!Replays(SlotOf(r), HashOf(r))
       THEN replies' = [replies EXCEPT ![SlotOf(r)] =
                           @ \union {<<HashOf(r), entry[SlotOf(r)].reply>>}]
       ELSE UNCHANGED replies
    /\ Goto(r, "over")
    /\ UNCHANGED <<rec, today, entry, request, seen, stale, applied, faults>>

-----------------------------------------------------------------------------
(* The operation.                                                          *)

\* A slip to rule out: ConfirmRecord without its look at the status.
AlwaysPermits(o, row) == TRUE

\* ConfirmRecord is refused unless the row it read is published.
Permits(o, row) == o = "confirm" => row.status = "Published"

\* FindByID, and what the service checks on the row.
Read(r) ==
    /\ pc[r] = "reserved"
    /\ rec[target[r]] # NoRow
    /\ Permits(op[r], rec[target[r]])
    /\ seen' = [seen EXCEPT ![r] = rec[target[r]]]
    /\ Goto(r, "read")
    /\ UNCHANGED <<rec, today, entry, request, stale, applied, replies, faults>>

\* The record is not found, the state conflicts or the authorization denies.
Refuse(r) ==
    /\ pc[r] = "reserved"
    /\ Goto(r, "failed")
    /\ UNCHANGED <<rec, today, entry, request, seen, stale, applied, replies, faults>>

\* A slip to rule out: the status is named as the documents name it.
DocumentedStatus(r, row) ==
    CASE op[r] = "submit"  -> {[row EXCEPT !.status = "Submitted", !.by = user[r]]}
      [] op[r] = "confirm" -> {[row EXCEPT !.status = "Completed", !.by = user[r]]}
      [] op[r] = "reject"  -> {[row EXCEPT !.status = "Draft", !.by = user[r]]}
      [] OTHER -> {row}

\* A slip to rule out: an edit puts the record back to Draft.
EditResets(r, row) ==
    CASE op[r] = "submit"  -> {[row EXCEPT !.status = "Published", !.published = today]}
      [] op[r] = "confirm" -> {[row EXCEPT !.status = "Completed", !.by = user[r]]}
      [] OTHER             -> {[row EXCEPT !.status = "Draft", !.by = user[r]]}

\* An edit, or the CMS's setting or deletion of a schedule.
Edited(r, row) == {[row EXCEPT !.planned = p, !.by = user[r]] : p \in Plan}

\* The CMS's rejection.
Rejected(r, row) == {[row EXCEPT !.status = "Draft", !.by = user[r]]}

\* The row the operation makes of the one it read.
Result(r, row) ==
    CASE op[r] = "edit" -> Edited(r, row)
      [] op[r] = "submit" ->
            {[row EXCEPT !.status = "Published", !.published = today, !.by = user[r]]}
      [] op[r] = "confirm" -> {[row EXCEPT !.status = "Completed", !.by = user[r]]}
      [] op[r] = "reject" -> Rejected(r, row)

\* Update of the repository writes every column.
Write(r) ==
    /\ pc[r] = "read"
    /\ \E row \in Result(r, seen[r]) :
          /\ row # rec[target[r]]
          /\ Put(target[r], row)
    /\ applied' = IF HasKey(r) THEN [applied EXCEPT ![SlotOf(r)] = @ + 1] ELSE applied
    /\ Goto(r, "written")
    /\ UNCHANGED <<today, entry, request, seen, replies, faults>>

\* MySQL counts no row when every column keeps its value: 404.
WriteNothing(r) ==
    /\ pc[r] = "read"
    /\ rec[target[r]] \in Result(r, seen[r])
    /\ Goto(r, "failed")
    /\ UNCHANGED <<rec, today, entry, request, seen, stale, applied, replies, faults>>

\* FindByID after the UPDATE: the row the answer carries.
ReadBack(r) ==
    /\ pc[r] = "written"
    /\ seen' = [seen EXCEPT ![r] = rec[target[r]]]
    /\ Goto(r, "completing")
    /\ UNCHANGED <<rec, today, entry, request, stale, applied, replies, faults>>

-----------------------------------------------------------------------------
(* The key, after the operation.                                           *)

Answered(r) ==
    replies' = IF HasKey(r)
               THEN [replies EXCEPT ![SlotOf(r)] = @ \union {<<HashOf(r), seen[r]>>}]
               ELSE replies

\* A slip to rule out: the reservation is given up once the answer is there.
CompleteByAbandon(r) ==
    /\ pc[r] = "completing"
    /\ Store!Abandon(r)
    /\ Answered(r)
    /\ Goto(r, "over")
    /\ UNCHANGED <<rec, today, request, seen, stale, applied, faults>>

\* Complete stores the answer and 200 goes out.
Complete(r) ==
    /\ pc[r] = "completing"
    /\ Store!Complete(r, seen[r])
    /\ Answered(r)
    /\ Goto(r, "over")
    /\ UNCHANGED <<rec, today, request, seen, stale, applied, faults>>

\* The error of Complete is dropped: 200 goes out over a row in progress.
CompleteFails(r) ==
    /\ pc[r] = "completing" /\ HasKey(r)
    /\ faults < MaxFaults
    /\ faults' = faults + 1
    /\ Answered(r)
    /\ Goto(r, "over")
    /\ UNCHANGED <<rec, today, entry, request, seen, stale, applied>>

\* A slip to rule out: an error leaves the reservation.
KeepReservation(r) ==
    /\ pc[r] = "failed"
    /\ Goto(r, "over")
    /\ UNCHANGED <<rec, today, entry, request, seen, stale, applied, replies, faults>>

\* Abandon after an error of the service.
AbandonKey(r) ==
    /\ pc[r] = "failed"
    /\ Store!Abandon(r)
    /\ Goto(r, "over")
    /\ UNCHANGED <<rec, today, request, seen, stale, applied, replies, faults>>

-----------------------------------------------------------------------------
(* Faults, time and new records.                                           *)

\* A statement of the service fails; after the UPDATE it is the read back.
Fail(r) ==
    /\ pc[r] \in {"reserved", "read", "written"}
    /\ faults < MaxFaults
    /\ faults' = faults + 1
    /\ Goto(r, "failed")
    /\ UNCHANGED <<rec, today, entry, request, seen, stale, applied, replies>>

\* The process dies, or the client disconnects: the context of the request is
\* cancelled and with it every statement left, Abandon and Complete among them.
Disconnect(r) ==
    /\ pc[r] \notin {"new", "over"}
    /\ faults < MaxFaults
    /\ faults' = faults + 1
    /\ Goto(r, "over")
    /\ UNCHANGED <<rec, today, entry, request, seen, stale, applied, replies>>

\* CreateRecord.
CreateRecord(d, u) ==
    /\ rec[d] = NoRow
    /\ \E p \in Plan :
          Put(d, [planned |-> p, published |-> 0, status |-> "Draft", by |-> u])
    /\ UNCHANGED <<today, entry, pc, request, seen, applied, replies, faults>>

Midnight ==
    /\ today < MaxDay
    /\ today' = today + 1
    /\ UNCHANGED <<rec, entry, pc, request, seen, stale, applied, replies, faults>>

-----------------------------------------------------------------------------
Serve(r) ==
    \/ Reserve(r)
    \/ Duplicate(r)
    \/ LoadDuplicate(r)
    \/ Read(r)
    \/ Refuse(r)
    \/ Write(r)
    \/ WriteNothing(r)
    \/ ReadBack(r)
    \/ Complete(r)
    \/ AbandonKey(r)

Next ==
    \/ \E r \in Request : Serve(r) \/ CompleteFails(r) \/ Fail(r) \/ Disconnect(r)
    \/ \E d \in Record, u \in User : CreateRecord(d, u)
    \/ Midnight

Spec == Init /\ [][Next]_vars

\* The handler of a request that has arrived runs to its end.
FairSpec == Spec /\ \A r \in Request : WF_vars(pc[r] # "new" /\ Serve(r))

-----------------------------------------------------------------------------
(* Properties.                                                             *)

\* What is published or completed has its date of publication, whichever whole
\* rows overwrite one another: status and date always come from one submission.
PublishedIsDated ==
    \A d \in Record : rec[d] # NoRow /\ rec[d].status # "Draft" => rec[d].published # 0

\* A request whose row nobody changed meanwhile moves the status as its operation
\* says: a submission publishes, a confirmation completes what is published, a
\* rejection takes back to Draft, an edit or a schedule leaves it.
UnracedTransitions ==
    [][\A r \in Request : pc[r] = "read" /\ pc'[r] = "written" /\ r \notin stale =>
          LET from == rec[target[r]].status
              to   == rec'[target[r]].status
          IN  \/ op[r] = "submit" /\ to = "Published"
              \/ op[r] = "confirm" /\ from = "Published" /\ to = "Completed"
              \/ op[r] = "reject" /\ to = "Draft"
              \/ op[r] = "edit" /\ to = from]_vars

\* All requests that succeed with one key are the same request and are answered
\* the same: replays, concurrent retries, and retries after an error included.
OneReplyPerKey == \A k \in Slot : Cardinality(replies[k]) <= 1

\* The requests with one key write their record once, and once more for each
\* write whose answer was lost to an error.
AppliedOncePerKey == \A k \in Slot : applied[k] <= 1 + faults

\* While no statement failed and nobody disconnected, a key in progress is the key
\* of a request whose handler still runs: no path of a handler forgets it, so that
\* a 409 is only ever answered to a retry that comes too early.
KeyHeldWhileServed ==
    faults = 0 => \A k \in Slot :
        entry[k].status = "in_progress" => pc[entry[k].owner] \notin {"new", "over"}

\* "in_progress (server chua Complete) -> 409 (client co the retry sau)": a key
\* that was reserved is completed or free again at some time, so that the retry
\* gets an answer.
KeySettles ==
    \A k \in Slot : entry[k].status = "in_progress" ~> entry[k].status # "in_progress"
=============================================================================
