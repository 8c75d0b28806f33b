------------------------------- MODULE Outbox -------------------------------
(***************************************************************************)
(* The transactional outbox: table outbox_events, the publishers that      *)
(* insert into it and the worker processes that drain it                   *)
(* (internal/platform/outbox, cmd/worker).                                 *)
(*                                                                         *)
(* A worker tick is one LockPendingBatch transaction (two steps here, the  *)
(* locking SELECT and the COMMIT, because two workers' transactions may    *)
(* overlap) followed, for each event of the batch, by the handler call and *)
(* one unguarded UPDATE of the row (MarkProcessed, MarkRetry or            *)
(* MarkFailedPermanent), whose error the processor ignores.                *)
(*                                                                         *)
(* An element of Event is a slot of the table.  A slot whose event reached *)
(* a terminal status may be published into again: it then stands for a new *)
(* event, with an id of its own, so that an endless stream of events is a  *)
(* behaviour of a finite model.                                            *)
(***************************************************************************)
EXTENDS Integers, FiniteSets

CONSTANTS
    Event,       \* slots of outbox_events
    Worker,      \* worker processes sharing the table
    Handled,     \* the events whose event_type has a registered handler
    NoEvent,     \* "no event", for the worker between two events
    BatchSize,   \* LIMIT of LockPendingBatch (50 in cmd/worker)
    MaxRetries,  \* maxOutboxRetries (10 in Tick)
    MaxAge,      \* bound: how long, in ticks of the clock, a due event waits
    MaxFaults    \* bound: crashes, shutdowns and lost writes of a behaviour

ASSUME OutboxAssumption ==
    /\ IsFiniteSet(Event)
    /\ Handled \subseteq Event
    /\ NoEvent \notin Event
    /\ BatchSize \in Nat \ {0}
    /\ MaxRetries \in Nat \ {0}
    /\ MaxAge \in Nat
    /\ MaxFaults \in Nat

VARIABLES
    \* the row of each event
    status,      \* outbox_events.status, "absent" before the INSERT
    retryCount,  \* outbox_events.retry_count
    until,       \* available_at minus the present time (0 or less: due)
    \* each worker process
    pc,          \* what its Tick is doing
    locked,      \* rows its open LockPendingBatch transaction locks
    batch,       \* events returned by LockPendingBatch and not yet marked
    snapshot,    \* QueuedEvent.RetryCount of those events, as loaded
    current,     \* the event of the loop's current iteration
    stopping,    \* workers whose context a SIGTERM has cancelled, or that are gone
    \* history, read by no action
    attempts,    \* handler calls begun for the event
    delivered,   \* handler calls that returned nil
    faults       \* faults so far

rows    == <<status, retryCount, until>>
procs   == <<pc, locked, batch, snapshot, current, stopping>>
history == <<attempts, delivered>>
vars    == <<rows, procs, history, faults>>

Terminal == {"processed", "failed_permanent"}
Statuses == {"absent", "pending", "processing"} \union Terminal
Phases   == {"idle", "locking", "ready", "handling", "succeeded", "failed"}

Zero == [e \in Event |-> 0]

\* Columns, worker memory and history keep their types.
TypeOK ==
    /\ status \in [Event -> Statuses]
    /\ retryCount \in [Event -> Nat]
    /\ until \in [Event -> Int]
    /\ pc \in [Worker -> Phases]
    /\ locked \in [Worker -> SUBSET Event]
    /\ batch \in [Worker -> SUBSET Event]
    /\ snapshot \in [Worker -> [Event -> Nat]]
    /\ current \in [Worker -> Event \union {NoEvent}]
    /\ stopping \in SUBSET Worker
    /\ attempts \in [Event -> Nat]
    /\ delivered \in [Event -> Nat]
    /\ faults \in Nat

Init ==
    /\ status = [e \in Event |-> "absent"]
    /\ retryCount = Zero
    /\ until = Zero
    /\ pc = [w \in Worker |-> "idle"]
    /\ locked = [w \in Worker |-> {}]
    /\ batch = [w \in Worker |-> {}]
    /\ snapshot = [w \in Worker |-> Zero]
    /\ current = [w \in Worker |-> NoEvent]
    /\ stopping = {}
    /\ attempts = Zero
    /\ delivered = Zero
    /\ faults = 0

-----------------------------------------------------------------------------
(* Publishers and the clock.                                               *)

\* Publisher.Publish, or PublishEventTx inside the producer's transaction:
\* the row is inserted pending, available from the moment it occurred.
Publish(e) ==
    /\ status[e] \in {"absent"} \union Terminal
    /\ \A w \in Worker : e \notin locked[w] \union batch[w]
    /\ status' = [status EXCEPT ![e] = "pending"]
    /\ retryCount' = [retryCount EXCEPT ![e] = 0]
    /\ until' = [until EXCEPT ![e] = 0]
    /\ attempts' = [attempts EXCEPT ![e] = 0]
    /\ delivered' = [delivered EXCEPT ![e] = 0]
    /\ UNCHANGED <<procs, faults>>

\* Time passes for the events that wait.  The bound MaxAge holds the clock
\* back while a due event has waited that long.
Clock ==
    /\ \E e \in Event : status[e] = "pending"
    /\ \A e \in Event : status[e] = "pending" => until[e] > -MaxAge
    /\ until' = [e \in Event |->
                    IF status[e] = "pending" THEN until[e] - 1 ELSE until[e]]
    /\ UNCHANGED <<status, retryCount, procs, history, faults>>

-----------------------------------------------------------------------------
(* LockPendingBatch: one READ COMMITTED transaction.                       *)

\* A slip to rule out: the SELECT without FOR UPDATE SKIP LOCKED.
LockableUnlocked == {e \in Event : status[e] = "pending" /\ until[e] <= 0}

\* A slip to rule out: rows left 'processing' are simply taken again.
LockableReclaiming == {e \in Event :
    /\ status[e] \in {"pending", "processing"}
    /\ until[e] <= 0
    /\ \A w \in Worker : e \notin locked[w]}

\* The rows SELECT ... FOR UPDATE SKIP LOCKED may return.
Lockable == {e \in Event : /\ status[e] = "pending"
                           /\ until[e] <= 0
                           /\ \A w \in Worker : e \notin locked[w]}

\* A slip to rule out: the SELECT without its ORDER BY.
AnyOf(S, avail) ==
    /\ S \subseteq avail
    /\ Cardinality(S) <= BatchSize
    /\ S # avail => Cardinality(S) = BatchSize

\* S is what ORDER BY available_at LIMIT BatchSize keeps of them.
OldestOf(S, avail) ==
    /\ S \subseteq avail
    /\ Cardinality(S) <= BatchSize
    /\ S # avail => Cardinality(S) = BatchSize
    /\ \A e \in S, f \in avail \ S : until[e] <= until[f]

\* The locking SELECT.  An empty result ends the tick and changes nothing.
SelectBatch(w) ==
    /\ pc[w] = "idle"
    /\ w \notin stopping
    /\ \E S \in (SUBSET Event) \ {{}} :
          /\ OldestOf(S, Lockable)
          /\ locked' = [locked EXCEPT ![w] = S]
    /\ pc' = [pc EXCEPT ![w] = "locking"]
    /\ UNCHANGED <<rows, batch, snapshot, current, stopping, history, faults>>

\* A slip to rule out: the transaction without its UPDATE.
NoClaim(S) == status

\* UPDATE ... SET status = 'processing' WHERE event_id IN (ids) AND status =
\* 'pending'.
Claim(S) == [e \in Event |-> IF e \in S /\ status[e] = "pending"
                            THEN "processing" ELSE status[e]]

\* The UPDATE, the load of the rows by id, COMMIT.
CommitBatch(w) ==
    /\ pc[w] = "locking"
    /\ w \notin stopping
    /\ status' = Claim(locked[w])
    /\ batch' = [batch EXCEPT ![w] = locked[w]]
    /\ snapshot' = [snapshot EXCEPT ![w] =
                      [e \in Event |->
                         IF e \in locked[w] THEN retryCount[e] ELSE 0]]
    /\ locked' = [locked EXCEPT ![w] = {}]
    /\ pc' = [pc EXCEPT ![w] = "ready"]
    /\ UNCHANGED <<retryCount, until, current, stopping, history, faults>>

\* The transaction ends without its effect: an error on the way, or the
\* cancelled context of a worker that is being stopped.
RollbackBatch(w) ==
    /\ pc[w] = "locking"
    /\ \/ w \in stopping /\ UNCHANGED faults
       \/ w \notin stopping /\ faults < MaxFaults /\ faults' = faults + 1
    /\ locked' = [locked EXCEPT ![w] = {}]
    /\ pc' = [pc EXCEPT ![w] = "idle"]
    /\ UNCHANGED <<rows, batch, snapshot, current, stopping, history>>

\* The COMMIT takes effect but its answer is lost: Tick returns the error and
\* drops the batch.
CommitUnanswered(w) ==
    /\ pc[w] = "locking"
    /\ faults < MaxFaults
    /\ status' = Claim(locked[w])
    /\ locked' = [locked EXCEPT ![w] = {}]
    /\ pc' = [pc EXCEPT ![w] = "idle"]
    /\ faults' = faults + 1
    /\ UNCHANGED <<retryCount, until, batch, snapshot, current, stopping, history>>

-----------------------------------------------------------------------------
(* The loop of Tick over the batch.                                        *)

\* An iteration begins.  An event_type without a handler goes straight to
\* MarkProcessed.
BeginEvent(w, e) ==
    /\ pc[w] = "ready"
    /\ e \in batch[w]
    /\ current' = [current EXCEPT ![w] = e]
    /\ \/ /\ e \in Handled
          /\ pc' = [pc EXCEPT ![w] = "handling"]
          /\ attempts' = [attempts EXCEPT ![e] = @ + 1]
       \/ /\ e \notin Handled
          /\ pc' = [pc EXCEPT ![w] = "succeeded"]
          /\ UNCHANGED attempts
    /\ UNCHANGED <<rows, locked, batch, snapshot, stopping, delivered, faults>>

\* The handler returns.  It never looks at the context, so it also runs while
\* the worker is being stopped.
HandlerReturns(w) ==
    /\ pc[w] = "handling"
    /\ \/ /\ pc' = [pc EXCEPT ![w] = "succeeded"]
          /\ delivered' = [delivered EXCEPT ![current[w]] = @ + 1]
       \/ /\ pc' = [pc EXCEPT ![w] = "failed"]
          /\ UNCHANGED delivered
    /\ UNCHANGED <<rows, locked, batch, snapshot, current, stopping, attempts, faults>>

\* The next iteration, or the end of the tick after the last event.
NextEvent(w) ==
    /\ batch' = [batch EXCEPT ![w] = @ \ {current[w]}]
    /\ snapshot' = [snapshot EXCEPT ![w][current[w]] = 0]
    /\ current' = [current EXCEPT ![w] = NoEvent]
    /\ pc' = [pc EXCEPT ![w] =
                IF batch[w] = {current[w]} THEN "idle" ELSE "ready"]
    /\ UNCHANGED <<locked, stopping>>

\* A slip to rule out: no "continue" after a handler error.
MarkProcessedAnyway(w) ==
    /\ pc[w] \in {"succeeded", "failed"}
    /\ w \notin stopping
    /\ status' = [status EXCEPT ![current[w]] = "processed"]
    /\ until' = [until EXCEPT ![current[w]] = 0]
    /\ NextEvent(w)
    /\ UNCHANGED <<retryCount, history, faults>>

MarkProcessed(w) ==
    /\ pc[w] = "succeeded"
    /\ w \notin stopping
    /\ status' = [status EXCEPT ![current[w]] = "processed"]
    /\ until' = [until EXCEPT ![current[w]] = 0]
    /\ NextEvent(w)
    /\ UNCHANGED <<retryCount, history, faults>>

\* backoff: 1 s doubled at each retry, from the sixth on 32 s.
BackoffSteps == <<1, 2, 4, 8, 16, 32>>
Backoff(retry) == BackoffSteps[IF retry < 1 THEN 1
                               ELSE IF retry > 6 THEN 6 ELSE retry]

\* backoffWithJitter: up to a quarter more, here in whole ticks rounded up.
BackoffWithJitter(retry) ==
    LET base == Backoff(retry) IN base .. base + ((base + 3) \div 4)

\* Slips to rule out: a retry that is not counted, or is counted down.
UncountedRetry(w) == snapshot[w][current[w]]
CountedDown(w)    == snapshot[w][current[w]] - 1

\* The count is the loaded one plus one: the row's own is not read again.
NextCount(w) == snapshot[w][current[w]] + 1

MarkRetry(w) ==
    /\ pc[w] = "failed"
    /\ w \notin stopping
    /\ NextCount(w) < MaxRetries
    /\ status' = [status EXCEPT ![current[w]] = "pending"]
    /\ retryCount' = [retryCount EXCEPT ![current[w]] = NextCount(w)]
    /\ \E d \in BackoffWithJitter(NextCount(w)) :
          until' = [until EXCEPT ![current[w]] = d]
    /\ NextEvent(w)
    /\ UNCHANGED <<history, faults>>

MarkFailedPermanent(w) ==
    /\ pc[w] = "failed"
    /\ w \notin stopping
    /\ NextCount(w) >= MaxRetries
    /\ status' = [status EXCEPT ![current[w]] = "failed_permanent"]
    /\ until' = [until EXCEPT ![current[w]] = 0]
    /\ NextEvent(w)
    /\ UNCHANGED <<retryCount, history, faults>>

\* The UPDATE fails and "_ =" drops its error: because of the database, or, for
\* every event that is left of the batch, because the context is cancelled.
MarkLost(w) ==
    /\ pc[w] \in {"succeeded", "failed"}
    /\ \/ w \in stopping /\ UNCHANGED faults
       \/ w \notin stopping /\ faults < MaxFaults /\ faults' = faults + 1
    /\ NextEvent(w)
    /\ UNCHANGED <<rows, history>>

-----------------------------------------------------------------------------
(* The life of a worker process.                                           *)

\* SIGTERM cancels runCtx, in the middle of a tick too.
Sigterm(w) ==
    /\ w \notin stopping
    /\ pc[w] # "idle"
    /\ faults < MaxFaults
    /\ stopping' = stopping \union {w}
    /\ faults' = faults + 1
    /\ UNCHANGED <<rows, pc, locked, batch, snapshot, current, history>>

\* The goroutine ends with its tick; another process takes the worker's place.
Restart(w) ==
    /\ w \in stopping
    /\ pc[w] = "idle"
    /\ stopping' = stopping \ {w}
    /\ UNCHANGED <<rows, pc, locked, batch, snapshot, current, history, faults>>

\* The process dies: its memory and its row locks are gone, the rows stay, and no
\* worker is in its place before Restart.
Crash(w) ==
    /\ pc[w] # "idle"
    /\ faults < MaxFaults
    /\ pc' = [pc EXCEPT ![w] = "idle"]
    /\ locked' = [locked EXCEPT ![w] = {}]
    /\ batch' = [batch EXCEPT ![w] = {}]
    /\ snapshot' = [snapshot EXCEPT ![w] = Zero]
    /\ current' = [current EXCEPT ![w] = NoEvent]
    /\ stopping' = stopping \union {w}
    /\ faults' = faults + 1
    /\ UNCHANGED <<rows, history>>

-----------------------------------------------------------------------------
LoopStep(w) ==
    \/ \E e \in Event : BeginEvent(w, e)
    \/ HandlerReturns(w)
    \/ MarkProcessed(w)
    \/ MarkRetry(w)
    \/ MarkFailedPermanent(w)

WorkerStep(w) ==
    \/ SelectBatch(w)
    \/ CommitBatch(w)
    \/ LoopStep(w)

FaultStep(w) ==
    \/ RollbackBatch(w)
    \/ CommitUnanswered(w)
    \/ MarkLost(w)
    \/ Sigterm(w)
    \/ Restart(w)
    \/ Crash(w)

Next ==
    \/ \E e \in Event : Publish(e)
    \/ Clock
    \/ \E w \in Worker : WorkerStep(w) \/ FaultStep(w)

Spec == Init /\ [][Next]_vars

\* What a worker that is being stopped does with the tick it is in: every statement
\* fails on the cancelled context.
WindDown(w) == w \in stopping /\ (RollbackBatch(w) \/ MarkLost(w))

\* As long as a worker is left its ticker fires; a tick that has begun goes on, to its
\* end or to that of the process; and time passes.  Nobody has to publish, to fail, to
\* stop, or to start a dead worker again.
FairSpec ==
    /\ Spec
    /\ WF_vars(Clock)
    /\ WF_vars(\E w \in Worker : SelectBatch(w))
    /\ \A w \in Worker : WF_vars(CommitBatch(w) \/ LoopStep(w) \/ WindDown(w))

-----------------------------------------------------------------------------
(* Safety.                                                                 *)

Held(w) == locked[w] \union batch[w]

\* No event is in the hands of two workers: what FOR UPDATE SKIP LOCKED and the
\* 'processing' status achieve together, although neither the UPDATEs of the
\* Mark operations nor the load of the batch look at the status.
OneOwner == \A v, w \in Worker : v # w => Held(v) \intersect Held(w) = {}

\* What a worker still has to mark is 'processing' with the retry count it
\* loaded, so a Mark never overwrites a row that has moved on in the meantime.
BatchIsFresh ==
    \A w \in Worker : \A e \in batch[w] :
        status[e] = "processing" /\ snapshot[w][e] = retryCount[e]

\* The handler of an event that succeeded is never called again, and a
\* success is never followed by failed_permanent, whatever crashes, however
\* the Mark that records it is lost.
AtMostOneSuccess ==
    \A e \in Event :
        /\ delivered[e] <= 1
        /\ status[e] \in {"pending", "failed_permanent"} => delivered[e] = 0

\* "failed_permanent after 10 failures": the budget of handler calls is never
\* exceeded, and never cut short, by any number of workers.
RetryBudget ==
    \A e \in Event :
        /\ attempts[e] <= MaxRetries
        /\ status[e] = "failed_permanent" => attempts[e] = MaxRetries

\* MarkProcessed is only for events that were delivered or nobody handles.
ProcessedWasDelivered ==
    \A e \in Event : status[e] = "processed" /\ e \in Handled => delivered[e] = 1

-----------------------------------------------------------------------------
(* Outbox implements EventLife.                                            *)

\* What the worker that has e in its batch is doing with it.
HeldLife(w, e) ==
    IF current[w] # e THEN "taken"
    ELSE IF pc[w] = "handling" THEN "running" ELSE pc[w]

\* Where event e is in its life.  At most one worker has it (OneOwner).
LifeOf(e) ==
    IF \E w \in Worker : e \in batch[w]
    THEN HeldLife(CHOOSE w \in Worker : e \in batch[w], e)
    ELSE IF status[e] = "processing" THEN "lost" ELSE status[e]

Life == INSTANCE EventLife WITH life  <- [e \in Event |-> LifeOf(e)],
                                tries <- retryCount

\* Each event goes through the life EventLife describes.
ImplementsEventLife == Life!Spec

-----------------------------------------------------------------------------
(* Liveness.                                                               *)

\* Every event published is dealt with, however many later ones are published
\* (LIMIT is served in the order of available_at), and whatever happens to a worker; or else it is lost in one of the ways EventLife knows: taken
\* by a worker that stops, dies or does not hear of its COMMIT, or handled without its
\* answer being recorded; or else no worker is left.
EventuallyTerminal ==
    \A e \in Event : status[e] = "pending" ~>
        (status[e] \in Terminal \/ LifeOf(e) = "lost" \/ stopping = Worker)
=============================================================================
