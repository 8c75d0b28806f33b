---------------------------- MODULE OutboxProofs ----------------------------
(***************************************************************************)
(* Theorems about Outbox for every number of events, workers, tries,       *)
(* faults and every batch size.                                            *)
(*                                                                         *)
(* The safety properties of Outbox are not inductive: that two workers     *)
(* never hold the same event rests on a locked row being 'pending' and on  *)
(* a row of a batch being 'processing', and the budget of handler calls on *)
(* how the attempts of an event relate to retry_count at each point of the *)
(* loop.  IInv adds these facts.                                           *)
(***************************************************************************)
EXTENDS Outbox, TLAPS

\* What the phase of a worker says of the rest of its memory.
PhaseOK ==
    \A w \in Worker :
        /\ pc[w] = "idle" => locked[w] = {} /\ batch[w] = {}
        /\ pc[w] = "locking" => batch[w] = {}
        /\ pc[w] \in {"ready", "handling", "succeeded", "failed"} => locked[w] = {}
        /\ pc[w] \in {"idle", "locking", "ready"} => current[w] = NoEvent
        /\ pc[w] \in {"handling", "succeeded", "failed"} => current[w] \in batch[w]
        /\ pc[w] \in {"handling", "failed"} => current[w] \in Handled

\* A row stays 'pending' while a transaction locks it.
LockedIsPending == \A w \in Worker : \A e \in locked[w] : status[e] = "pending"

\* The counters of an event against the status of its row.
Counted(e) ==
    /\ retryCount[e] < MaxRetries
    /\ attempts[e] <= retryCount[e] + 1
    /\ delivered[e] <= 1
    /\ status[e] \in {"absent", "pending"} =>
          attempts[e] = retryCount[e] /\ delivered[e] = 0
    /\ status[e] = "processed" /\ e \in Handled => delivered[e] = 1
    /\ status[e] = "failed_permanent" =>
          attempts[e] = MaxRetries /\ delivered[e] = 0

AllCounted == \A e \in Event : Counted(e)

\* ... and, while a worker has it, against the point its loop has reached.
InHandCounted ==
    \A w \in Worker : \A e \in batch[w] :
        /\ e # current[w] => attempts[e] = retryCount[e] /\ delivered[e] = 0
        /\ e = current[w] /\ pc[w] \in {"handling", "failed"} =>
              attempts[e] = retryCount[e] + 1 /\ delivered[e] = 0
        /\ e = current[w] /\ pc[w] = "succeeded" /\ e \in Handled =>
              delivered[e] = 1

IInv ==
    /\ TypeOK
    /\ PhaseOK
    /\ LockedIsPending
    /\ BatchIsFresh
    /\ OneOwner
    /\ AllCounted
    /\ InHandCounted

-----------------------------------------------------------------------------
(* Initially.                                                              *)

\* No row and no worker: the invariant holds at first.
LEMMA InitIInv == Init => IInv
  <1> SUFFICES ASSUME Init PROVE IInv
    OBVIOUS
  <1> USE OutboxAssumption DEF Init, Zero
  <1>1. TypeOK
    BY DEF TypeOK, Statuses, Phases, Terminal
  <1>2. PhaseOK /\ LockedIsPending /\ BatchIsFresh /\ InHandCounted
    BY DEF PhaseOK, LockedIsPending, BatchIsFresh, InHandCounted
  <1>3. OneOwner /\ AllCounted
    BY DEF OneOwner, Held, AllCounted, Counted
  <1> QED
    BY <1>1, <1>2, <1>3 DEF IInv

-----------------------------------------------------------------------------
(* Each step keeps the invariant.                                          *)

\* The back-off of any retry count is a whole number of steps.
LEMMA BackoffIsInt ==
    ASSUME NEW n \in Int, NEW d \in BackoffWithJitter(n)
    PROVE  d \in Int
  BY DEF BackoffWithJitter

\* What the end of an iteration leaves in the worker's memory.
LEMMA NextEventTypes ==
    ASSUME TypeOK, NEW w \in Worker, NextEvent(w), current[w] \in Event
    PROVE  /\ batch' \in [Worker -> SUBSET Event]
           /\ snapshot' \in [Worker -> [Event -> Nat]]
           /\ current' \in [Worker -> Event \union {NoEvent}]
           /\ pc' \in [Worker -> Phases]
           /\ locked' \in [Worker -> SUBSET Event]
           /\ stopping' \in SUBSET Worker
  <1> USE DEF TypeOK, NextEvent
  <1>1. batch' \in [Worker -> SUBSET Event]
    OBVIOUS
  <1>2. snapshot' \in [Worker -> [Event -> Nat]]
    OBVIOUS
  <1>3. current' \in [Worker -> Event \union {NoEvent}]
    OBVIOUS
  <1>4. pc' \in [Worker -> Phases]
    BY DEF Phases
  <1> QED
    BY <1>1, <1>2, <1>3, <1>4

\* A published row is pending, untried and in no batch.
LEMMA PublishIInv ==
    ASSUME IInv, NEW e \in Event, Publish(e)
    PROVE  IInv'
  <1> USE OutboxAssumption DEF IInv, TypeOK, Publish, Terminal, rows, procs, history
  <1>b. TypeOK'
    BY DEF Statuses, Phases, Terminal, Zero, PhaseOK
  <1>1. PhaseOK'
    BY <1>b DEF PhaseOK
  <1>2. LockedIsPending'
    BY <1>b DEF LockedIsPending, PhaseOK
  <1>3. BatchIsFresh'
    BY <1>b DEF BatchIsFresh, LockedIsPending, PhaseOK, OneOwner, Held
  <1>4. OneOwner'
    BY <1>b DEF OneOwner, Held, PhaseOK, LockedIsPending, BatchIsFresh
  <1>5. AllCounted'
    BY <1>b DEF AllCounted, Counted, BatchIsFresh, InHandCounted, PhaseOK
  <1>6. InHandCounted'
    BY <1>b DEF InHandCounted, AllCounted, Counted, PhaseOK, BatchIsFresh, LockedIsPending, OneOwner, Held
  <1> QED
    BY <1>b, <1>1, <1>2, <1>3, <1>4, <1>5, <1>6

\* Time changes no row.
LEMMA ClockIInv ==
    ASSUME IInv, Clock
    PROVE  IInv'
  <1> USE OutboxAssumption DEF IInv, TypeOK, Clock, rows, procs, history
  <1>b. TypeOK'
    BY DEF Statuses, Phases, Terminal, Zero, PhaseOK
  <1>1. PhaseOK'
    BY <1>b DEF PhaseOK
  <1>2. LockedIsPending'
    BY <1>b DEF LockedIsPending, PhaseOK
  <1>3. BatchIsFresh'
    BY <1>b DEF BatchIsFresh, LockedIsPending, PhaseOK, OneOwner, Held
  <1>4. OneOwner'
    BY <1>b DEF OneOwner, Held, PhaseOK, LockedIsPending, BatchIsFresh
  <1>5. AllCounted'
    BY <1>b DEF AllCounted, Counted, BatchIsFresh, InHandCounted, PhaseOK
  <1>6. InHandCounted'
    BY <1>b DEF InHandCounted, AllCounted, Counted, PhaseOK, BatchIsFresh, LockedIsPending, OneOwner, Held
  <1> QED
    BY <1>b, <1>1, <1>2, <1>3, <1>4, <1>5, <1>6

\* SKIP LOCKED: the rows taken are pending and locked by nobody else.
LEMMA SelectBatchIInv ==
    ASSUME IInv, NEW w \in Worker, SelectBatch(w)
    PROVE  IInv'
  <1> USE OutboxAssumption DEF IInv, TypeOK, SelectBatch, OldestOf, Lockable, rows, procs, history
  <1>b. TypeOK'
    BY DEF Statuses, Phases, Terminal, Zero, PhaseOK
  <1>1. PhaseOK'
    BY <1>b DEF PhaseOK
  <1>2. LockedIsPending'
    BY <1>b DEF LockedIsPending, PhaseOK
  <1>3. BatchIsFresh'
    BY <1>b DEF BatchIsFresh, LockedIsPending, PhaseOK, OneOwner, Held
  <1>4. OneOwner'
    BY <1>b DEF OneOwner, Held, PhaseOK, LockedIsPending, BatchIsFresh
  <1>5. AllCounted'
    BY <1>b DEF AllCounted, Counted, BatchIsFresh, InHandCounted, PhaseOK
  <1>6. InHandCounted'
    BY <1>b DEF InHandCounted, AllCounted, Counted, PhaseOK, BatchIsFresh, LockedIsPending, OneOwner, Held
  <1> QED
    BY <1>b, <1>1, <1>2, <1>3, <1>4, <1>5, <1>6

\* The locked rows become the batch, 'processing', and are locked by nobody else.
LEMMA CommitBatchIInv ==
    ASSUME IInv, NEW w \in Worker, CommitBatch(w)
    PROVE  IInv'
  <1> USE OutboxAssumption DEF IInv, TypeOK, CommitBatch, Claim, rows, procs, history
  <1>b. TypeOK'
    BY DEF Statuses, Phases, Terminal, Zero, PhaseOK
  <1>1. PhaseOK'
    BY <1>b DEF PhaseOK
  <1>2. LockedIsPending'
    BY <1>b DEF LockedIsPending, OneOwner, Held
  <1>3. BatchIsFresh'
    BY <1>b DEF BatchIsFresh, LockedIsPending, PhaseOK, OneOwner, Held
  <1>4. OneOwner'
    BY <1>b DEF OneOwner, Held, PhaseOK, LockedIsPending, BatchIsFresh
  <1>5. AllCounted'
    BY <1>b DEF AllCounted, Counted, BatchIsFresh, InHandCounted, PhaseOK
  <1>6. InHandCounted'
    BY <1>b DEF InHandCounted, AllCounted, Counted, PhaseOK, BatchIsFresh, LockedIsPending, OneOwner, Held
  <1> QED
    BY <1>b, <1>1, <1>2, <1>3, <1>4, <1>5, <1>6

\* A rollback frees the rows, still pending.
LEMMA RollbackBatchIInv ==
    ASSUME IInv, NEW w \in Worker, RollbackBatch(w)
    PROVE  IInv'
  <1> USE OutboxAssumption DEF IInv, TypeOK, RollbackBatch, rows, procs, history
  <1>b. TypeOK'
    BY DEF Statuses, Phases, Terminal, Zero, PhaseOK
  <1>1. PhaseOK'
    BY <1>b DEF PhaseOK
  <1>2. LockedIsPending'
    BY <1>b DEF LockedIsPending, PhaseOK
  <1>3. BatchIsFresh'
    BY <1>b DEF BatchIsFresh, LockedIsPending, PhaseOK, OneOwner, Held
  <1>4. OneOwner'
    BY <1>b DEF OneOwner, Held, PhaseOK, LockedIsPending, BatchIsFresh
  <1>5. AllCounted'
    BY <1>b DEF AllCounted, Counted, BatchIsFresh, InHandCounted, PhaseOK
  <1>6. InHandCounted'
    BY <1>b DEF InHandCounted, AllCounted, Counted, PhaseOK, BatchIsFresh, LockedIsPending, OneOwner, Held
  <1> QED
    BY <1>b, <1>1, <1>2, <1>3, <1>4, <1>5, <1>6

\* A commit whose answer is lost leaves rows 'processing' in no batch.
LEMMA CommitUnansweredIInv ==
    ASSUME IInv, NEW w \in Worker, CommitUnanswered(w)
    PROVE  IInv'
  <1> USE OutboxAssumption DEF IInv, TypeOK, CommitUnanswered, Claim, rows, procs, history
  <1>b. TypeOK'
    BY DEF Statuses, Phases, Terminal, Zero, PhaseOK
  <1>1. PhaseOK'
    BY <1>b DEF PhaseOK
  <1>2. LockedIsPending'
    BY <1>b DEF LockedIsPending, OneOwner, Held
  <1>3. BatchIsFresh'
    BY <1>b DEF BatchIsFresh, LockedIsPending, PhaseOK, OneOwner, Held
  <1>4. OneOwner'
    BY <1>b DEF OneOwner, Held, PhaseOK, LockedIsPending, BatchIsFresh
  <1>5. AllCounted'
    BY <1>b DEF AllCounted, Counted, BatchIsFresh, InHandCounted, PhaseOK
  <1>6. InHandCounted'
    BY <1>b DEF InHandCounted, AllCounted, Counted, PhaseOK, BatchIsFresh, LockedIsPending, OneOwner, Held
  <1> QED
    BY <1>b, <1>1, <1>2, <1>3, <1>4, <1>5, <1>6

\* The loop takes an event of its batch; an unhandled one gets no attempt.
LEMMA BeginEventIInv ==
    ASSUME IInv, NEW w \in Worker, NEW e \in Event, BeginEvent(w, e)
    PROVE  IInv'
  <1> USE OutboxAssumption DEF IInv, TypeOK, BeginEvent, rows, procs, history
  <1>b. TypeOK'
    BY DEF Statuses, Phases, Terminal, Zero, PhaseOK
  <1>1. PhaseOK'
    BY <1>b DEF PhaseOK
  <1>2. LockedIsPending'
    BY <1>b DEF LockedIsPending, PhaseOK
  <1>3. BatchIsFresh'
    BY <1>b DEF BatchIsFresh, LockedIsPending, PhaseOK, OneOwner, Held
  <1>4. OneOwner'
    BY <1>b DEF OneOwner, Held, PhaseOK, LockedIsPending, BatchIsFresh
  <1>5. AllCounted'
    <2>1. /\ status[e] = "processing"
          /\ attempts[e] = retryCount[e]
          /\ delivered[e] = 0
      BY DEF BatchIsFresh, InHandCounted, PhaseOK
    <2> QED
      BY <1>b, <2>1 DEF AllCounted, Counted
  <1>6. InHandCounted'
    BY <1>b DEF InHandCounted, AllCounted, Counted, PhaseOK, BatchIsFresh, LockedIsPending, OneOwner, Held
  <1> QED
    BY <1>b, <1>1, <1>2, <1>3, <1>4, <1>5, <1>6

\* The handler's answer is one more attempt of an event nobody else has.
LEMMA HandlerReturnsIInv ==
    ASSUME IInv, NEW w \in Worker, HandlerReturns(w)
    PROVE  IInv'
  <1> USE OutboxAssumption DEF IInv, TypeOK, HandlerReturns, rows, procs, history
  <1>a. current[w] \in batch[w] /\ current[w] \in Event
    BY DEF PhaseOK
  <1>b. TypeOK'
    <2>1. pc' \in [Worker -> Phases]
      BY DEF Phases
    <2>2. delivered' \in [Event -> Nat]
      BY <1>a
    <2> QED
      BY <2>1, <2>2
  <1>1. PhaseOK'
    BY <1>b DEF PhaseOK
  <1>2. LockedIsPending'
    BY <1>b DEF LockedIsPending, PhaseOK
  <1>3. BatchIsFresh'
    BY <1>b DEF BatchIsFresh, LockedIsPending, PhaseOK, OneOwner, Held
  <1>4. OneOwner'
    BY <1>b DEF OneOwner, Held, PhaseOK, LockedIsPending, BatchIsFresh
  <1>5. AllCounted'
    BY <1>a, <1>b DEF AllCounted, Counted, BatchIsFresh, InHandCounted, PhaseOK
  <1>6. InHandCounted'
    BY <1>a, <1>b DEF InHandCounted, AllCounted, Counted, PhaseOK, BatchIsFresh, LockedIsPending, OneOwner, Held
  <1> QED
    BY <1>b, <1>1, <1>2, <1>3, <1>4, <1>5, <1>6

\* After a success: one delivery, and the row is closed.
LEMMA MarkProcessedIInv ==
    ASSUME IInv, NEW w \in Worker, MarkProcessed(w)
    PROVE  IInv'
  <1> USE DEF IInv
  <1>a. current[w] \in batch[w] /\ current[w] \in Event
    BY DEF PhaseOK, TypeOK, MarkProcessed
  <1>b. TypeOK'
    <2>1. status' \in [Event -> Statuses] /\ retryCount' \in [Event -> Nat]
      BY <1>a DEF TypeOK, MarkProcessed, NextEvent, Statuses, Terminal, rows
    <2>2. until' \in [Event -> Int]
      BY <1>a DEF TypeOK, MarkProcessed, rows
    <2>3. NextEvent(w) /\ UNCHANGED history /\ faults' \in Nat
      BY DEF TypeOK, MarkProcessed, rows, history
    <2> QED
      BY <1>a, <2>1, <2>2, <2>3, NextEventTypes DEF TypeOK, history
  <1> USE OutboxAssumption DEF TypeOK, MarkProcessed, NextEvent, rows, history
  <1>1. PhaseOK'
    BY <1>a, <1>b DEF PhaseOK
  <1>2. LockedIsPending'
    BY <1>a, <1>b DEF LockedIsPending, BatchIsFresh
  <1>3. BatchIsFresh'
    BY <1>a, <1>b DEF BatchIsFresh, LockedIsPending, PhaseOK, OneOwner, Held
  <1>4. OneOwner'
    BY <1>a, <1>b DEF OneOwner, Held, PhaseOK, LockedIsPending, BatchIsFresh
  <1>5. AllCounted'
    BY <1>a, <1>b DEF AllCounted, Counted, BatchIsFresh, InHandCounted, PhaseOK
  <1>6. InHandCounted'
    BY <1>a, <1>b DEF InHandCounted, AllCounted, Counted, PhaseOK, BatchIsFresh, LockedIsPending, OneOwner, Held
  <1> QED
    BY <1>b, <1>1, <1>2, <1>3, <1>4, <1>5, <1>6

\* After a failure below the limit: the count is that of the attempts again.
LEMMA MarkRetryIInv ==
    ASSUME IInv, NEW w \in Worker, MarkRetry(w)
    PROVE  IInv'
  <1> USE DEF IInv
  <1>a. current[w] \in batch[w] /\ current[w] \in Event
    BY DEF PhaseOK, TypeOK, MarkRetry
  <1>b. TypeOK'
    <2>1. status' \in [Event -> Statuses] /\ retryCount' \in [Event -> Nat]
      BY <1>a DEF TypeOK, MarkRetry, NextEvent, NextCount, Statuses, Terminal, rows
    <2>2. until' \in [Event -> Int]
      <3>1. PICK d \in BackoffWithJitter(NextCount(w)) : until' = [until EXCEPT ![current[w]] = d]
        BY DEF MarkRetry
      <3>2. d \in Int
        <4>1. NextCount(w) \in Int
          BY <1>a DEF NextCount, TypeOK
        <4> QED
          BY <3>1, <4>1, BackoffIsInt
      <3> QED
        BY <1>a, <3>1, <3>2 DEF TypeOK
    <2>3. NextEvent(w) /\ UNCHANGED history /\ faults' \in Nat
      BY DEF TypeOK, MarkRetry, rows, history
    <2> QED
      BY <1>a, <2>1, <2>2, <2>3, NextEventTypes DEF TypeOK, history
  <1> USE OutboxAssumption DEF TypeOK, MarkRetry, NextEvent, NextCount, rows, history
  <1>1. PhaseOK'
    BY <1>a, <1>b DEF PhaseOK
  <1>2. LockedIsPending'
    BY <1>a, <1>b DEF LockedIsPending, BatchIsFresh
  <1>3. BatchIsFresh'
    BY <1>a, <1>b DEF BatchIsFresh, LockedIsPending, PhaseOK, OneOwner, Held
  <1>4. OneOwner'
    BY <1>a, <1>b DEF OneOwner, Held, PhaseOK, LockedIsPending, BatchIsFresh
  <1>5. AllCounted'
    BY <1>a, <1>b DEF AllCounted, Counted, BatchIsFresh, InHandCounted, PhaseOK
  <1>6. InHandCounted'
    BY <1>a, <1>b DEF InHandCounted, AllCounted, Counted, PhaseOK, BatchIsFresh, LockedIsPending, OneOwner, Held
  <1> QED
    BY <1>b, <1>1, <1>2, <1>3, <1>4, <1>5, <1>6

\* After the last failure: all attempts were used, none delivered.
LEMMA MarkFailedPermanentIInv ==
    ASSUME IInv, NEW w \in Worker, MarkFailedPermanent(w)
    PROVE  IInv'
  <1> USE DEF IInv
  <1>a. current[w] \in batch[w] /\ current[w] \in Event
    BY DEF PhaseOK, TypeOK, MarkFailedPermanent
  <1>b. TypeOK'
    <2>1. status' \in [Event -> Statuses] /\ retryCount' \in [Event -> Nat]
      BY <1>a DEF TypeOK, MarkFailedPermanent, NextEvent, NextCount, Statuses, Terminal, rows
    <2>2. until' \in [Event -> Int]
      BY <1>a DEF TypeOK, MarkFailedPermanent, rows
    <2>3. NextEvent(w) /\ UNCHANGED history /\ faults' \in Nat
      BY DEF TypeOK, MarkFailedPermanent, rows, history
    <2> QED
      BY <1>a, <2>1, <2>2, <2>3, NextEventTypes DEF TypeOK, history
  <1> USE OutboxAssumption DEF TypeOK, MarkFailedPermanent, NextEvent, NextCount, rows, history
  <1>1. PhaseOK'
    BY <1>a, <1>b DEF PhaseOK
  <1>2. LockedIsPending'
    BY <1>a, <1>b DEF LockedIsPending, BatchIsFresh
  <1>3. BatchIsFresh'
    BY <1>a, <1>b DEF BatchIsFresh, LockedIsPending, PhaseOK, OneOwner, Held
  <1>4. OneOwner'
    BY <1>a, <1>b DEF OneOwner, Held, PhaseOK, LockedIsPending, BatchIsFresh
  <1>5. AllCounted'
    <2>1. /\ retryCount[current[w]] + 1 >= MaxRetries
          /\ attempts[current[w]] = retryCount[current[w]] + 1
          /\ delivered[current[w]] = 0
      BY <1>a DEF BatchIsFresh, InHandCounted
    <2>2. retryCount[current[w]] \in Nat /\ retryCount[current[w]] < MaxRetries
      BY <1>a DEF AllCounted, Counted
    <2>3. attempts[current[w]] = MaxRetries
      BY ONLY <2>1, <2>2, OutboxAssumption
    <2> QED
      BY <1>a, <1>b, <2>1, <2>3 DEF AllCounted, Counted
  <1>6. InHandCounted'
    BY <1>a, <1>b DEF InHandCounted, AllCounted, Counted, PhaseOK, BatchIsFresh, LockedIsPending, OneOwner, Held
  <1> QED
    BY <1>b, <1>1, <1>2, <1>3, <1>4, <1>5, <1>6

\* A mark that fails leaves the row 'processing', in no batch.
LEMMA MarkLostIInv ==
    ASSUME IInv, NEW w \in Worker, MarkLost(w)
    PROVE  IInv'
  <1> USE DEF IInv
  <1>a. current[w] \in batch[w] /\ current[w] \in Event
    BY DEF PhaseOK, TypeOK, MarkLost
  <1>b. TypeOK'
    <2>1. status' \in [Event -> Statuses] /\ retryCount' \in [Event -> Nat]
      BY <1>a DEF TypeOK, MarkLost, NextEvent, Statuses, Terminal, rows
    <2>2. until' \in [Event -> Int]
      BY <1>a DEF TypeOK, MarkLost, rows
    <2>3. NextEvent(w) /\ UNCHANGED history /\ faults' \in Nat
      BY DEF TypeOK, MarkLost, rows, history
    <2> QED
      BY <1>a, <2>1, <2>2, <2>3, NextEventTypes DEF TypeOK, history
  <1> USE OutboxAssumption DEF TypeOK, MarkLost, NextEvent, rows, history
  <1>1. PhaseOK'
    BY <1>a, <1>b DEF PhaseOK
  <1>2. LockedIsPending'
    BY <1>a, <1>b DEF LockedIsPending, BatchIsFresh
  <1>3. BatchIsFresh'
    BY <1>a, <1>b DEF BatchIsFresh, LockedIsPending, PhaseOK, OneOwner, Held
  <1>4. OneOwner'
    BY <1>a, <1>b DEF OneOwner, Held, PhaseOK, LockedIsPending, BatchIsFresh
  <1>5. AllCounted'
    BY <1>a, <1>b DEF AllCounted, Counted, BatchIsFresh, InHandCounted, PhaseOK
  <1>6. InHandCounted'
    BY <1>a, <1>b DEF InHandCounted, AllCounted, Counted, PhaseOK, BatchIsFresh, LockedIsPending, OneOwner, Held
  <1> QED
    BY <1>b, <1>1, <1>2, <1>3, <1>4, <1>5, <1>6

\* The stop signal changes no row.
LEMMA SigtermIInv ==
    ASSUME IInv, NEW w \in Worker, Sigterm(w)
    PROVE  IInv'
  <1> USE OutboxAssumption DEF IInv, TypeOK, Sigterm, rows, procs, history
  <1>b. TypeOK'
    BY DEF Statuses, Phases, Terminal, Zero, PhaseOK
  <1>1. PhaseOK'
    BY <1>b DEF PhaseOK
  <1>2. LockedIsPending'
    BY <1>b DEF LockedIsPending, PhaseOK
  <1>3. BatchIsFresh'
    BY <1>b DEF BatchIsFresh, LockedIsPending, PhaseOK, OneOwner, Held
  <1>4. OneOwner'
    BY <1>b DEF OneOwner, Held, PhaseOK, LockedIsPending, BatchIsFresh
  <1>5. AllCounted'
    BY <1>b DEF AllCounted, Counted, BatchIsFresh, InHandCounted, PhaseOK
  <1>6. InHandCounted'
    BY <1>b DEF InHandCounted, AllCounted, Counted, PhaseOK, BatchIsFresh, LockedIsPending, OneOwner, Held
  <1> QED
    BY <1>b, <1>1, <1>2, <1>3, <1>4, <1>5, <1>6

\* A stopped worker comes back with an empty batch.
LEMMA RestartIInv ==
    ASSUME IInv, NEW w \in Worker, Restart(w)
    PROVE  IInv'
  <1> USE OutboxAssumption DEF IInv, TypeOK, Restart, rows, procs, history
  <1>b. TypeOK'
    BY DEF Statuses, Phases, Terminal, Zero, PhaseOK
  <1>1. PhaseOK'
    BY <1>b DEF PhaseOK
  <1>2. LockedIsPending'
    BY <1>b DEF LockedIsPending, PhaseOK
  <1>3. BatchIsFresh'
    BY <1>b DEF BatchIsFresh, LockedIsPending, PhaseOK, OneOwner, Held
  <1>4. OneOwner'
    BY <1>b DEF OneOwner, Held, PhaseOK, LockedIsPending, BatchIsFresh
  <1>5. AllCounted'
    BY <1>b DEF AllCounted, Counted, BatchIsFresh, InHandCounted, PhaseOK
  <1>6. InHandCounted'
    BY <1>b DEF InHandCounted, AllCounted, Counted, PhaseOK, BatchIsFresh, LockedIsPending, OneOwner, Held
  <1> QED
    BY <1>b, <1>1, <1>2, <1>3, <1>4, <1>5, <1>6

\* A crash rolls an open transaction back and drops the batch.
LEMMA CrashIInv ==
    ASSUME IInv, NEW w \in Worker, Crash(w)
    PROVE  IInv'
  <1> USE OutboxAssumption DEF IInv, TypeOK, Crash, rows, procs, history
  <1>b. TypeOK'
    BY DEF Statuses, Phases, Terminal, Zero, PhaseOK
  <1>1. PhaseOK'
    BY <1>b DEF PhaseOK
  <1>2. LockedIsPending'
    BY <1>b DEF LockedIsPending, PhaseOK
  <1>3. BatchIsFresh'
    BY <1>b DEF BatchIsFresh, LockedIsPending, PhaseOK, OneOwner, Held
  <1>4. OneOwner'
    BY <1>b DEF OneOwner, Held, PhaseOK, LockedIsPending, BatchIsFresh
  <1>5. AllCounted'
    BY <1>b DEF AllCounted, Counted, BatchIsFresh, InHandCounted, PhaseOK
  <1>6. InHandCounted'
    BY <1>b DEF InHandCounted, AllCounted, Counted, PhaseOK, BatchIsFresh, LockedIsPending, OneOwner, Held
  <1> QED
    BY <1>b, <1>1, <1>2, <1>3, <1>4, <1>5, <1>6

-----------------------------------------------------------------------------
\* Every step, and every stutter, keeps the invariant.
LEMMA NextIInv == IInv /\ [Next]_vars => IInv'
  <1> SUFFICES ASSUME IInv, [Next]_vars PROVE IInv'
    OBVIOUS
  <1>1. CASE UNCHANGED vars
    BY <1>1 DEF vars, rows, procs, history, IInv, TypeOK, PhaseOK, LockedIsPending,
                BatchIsFresh, OneOwner, Held, AllCounted, Counted, InHandCounted
  <1>2. ASSUME NEW e \in Event, Publish(e) PROVE IInv'
    BY <1>2, PublishIInv
  <1>3. CASE Clock
    BY <1>3, ClockIInv
  <1>4. ASSUME NEW w \in Worker, WorkerStep(w) PROVE IInv'
    <2>1. CASE SelectBatch(w) \/ CommitBatch(w)
      BY <2>1, SelectBatchIInv, CommitBatchIInv
    <2>2. CASE LoopStep(w)
      BY <2>2, BeginEventIInv, HandlerReturnsIInv, MarkProcessedIInv, MarkRetryIInv,
         MarkFailedPermanentIInv DEF LoopStep
    <2> QED
      BY <1>4, <2>1, <2>2 DEF WorkerStep
  <1>5. ASSUME NEW w \in Worker, FaultStep(w) PROVE IInv'
    BY <1>5, RollbackBatchIInv, CommitUnansweredIInv, MarkLostIInv, SigtermIInv,
       RestartIInv, CrashIInv DEF FaultStep
  <1> QED
    BY <1>1, <1>2, <1>3, <1>4, <1>5 DEF Next

\* The invariant holds in every state of every behaviour of Outbox.
THEOREM Invariance == Spec => []IInv
  BY InitIInv, NextIInv, PTL DEF Spec

\* Every variable of the outbox keeps its type.
THEOREM TypeCorrect == Spec => []TypeOK
  <1>1. IInv => TypeOK
    BY DEF IInv
  <1> QED
    BY <1>1, Invariance, PTL

\* Two workers never hold the same event, however their transactions overlap.
THEOREM MutualExclusion == Spec => []OneOwner
  <1>1. IInv => OneOwner
    BY DEF IInv
  <1> QED
    BY <1>1, Invariance, PTL

\* A Mark only ever writes over a row that is as its batch loaded it, which is
\* why MarkProcessed, MarkRetry and MarkFailedPermanent need no WHERE status.
THEOREM MarksAreSafe == Spec => []BatchIsFresh
  <1>1. IInv => BatchIsFresh
    BY DEF IInv
  <1> QED
    BY <1>1, Invariance, PTL

\* The handler of an event succeeds at most once, and an event that succeeded
\* is neither retried nor declared failed.
THEOREM AtMostOnce == Spec => []AtMostOneSuccess
  <1>1. IInv => AtMostOneSuccess
    BY OutboxAssumption DEF IInv, AllCounted, Counted, AtMostOneSuccess, TypeOK
  <1> QED
    BY <1>1, Invariance, PTL

\* An event gets at most MaxRetries handler calls, and failed_permanent means
\* that it got them all.
THEOREM BudgetRespected == Spec => []RetryBudget
  <1>1. IInv => RetryBudget
    BY OutboxAssumption DEF IInv, AllCounted, Counted, RetryBudget, TypeOK
  <1> QED
    BY <1>1, Invariance, PTL

\* No event that somebody handles is marked processed without its delivery.
THEOREM NothingSkipped == Spec => []ProcessedWasDelivered
  <1>1. IInv => ProcessedWasDelivered
    BY DEF IInv, AllCounted, Counted, ProcessedWasDelivered
  <1> QED
    BY <1>1, Invariance, PTL

-----------------------------------------------------------------------------
(* Outbox implements EventLife.                                            *)

\* The refinement mapping, for an event that a worker has and for the others.
LifeMap ==
    /\ \A w \in Worker : \A e \in batch[w] : LifeOf(e) = HeldLife(w, e)
    /\ \A e \in Event : (\A w \in Worker : e \notin batch[w]) =>
          LifeOf(e) = IF status[e] = "processing" THEN "lost" ELSE status[e]

\* LifeOf, the refinement mapping, case by case, under the invariant.
LEMMA MapIsRight == IInv => LifeMap
  <1> SUFFICES ASSUME IInv PROVE LifeMap
    OBVIOUS
  <1>1. ASSUME NEW w \in Worker, NEW e \in batch[w] PROVE LifeOf(e) = HeldLife(w, e)
    <2>1. \A v \in Worker : e \in batch[v] => v = w
      BY DEF IInv, OneOwner, Held
    <2>2. (CHOOSE v \in Worker : e \in batch[v]) = w
      BY <2>1
    <2> QED
      BY <2>2 DEF LifeOf
  <1>2. \A e \in Event : (\A w \in Worker : e \notin batch[w]) =>
           LifeOf(e) = IF status[e] = "processing" THEN "lost" ELSE status[e]
    BY DEF LifeOf
  <1> QED
    BY <1>1, <1>2 DEF LifeMap

LifeFn == [e \in Event |-> LifeOf(e)]

\* A step of one event's life, from what happens to it and to the others.
LEMMA OneLifeStep ==
    ASSUME NEW e \in Event, NEW x, LifeOf(e)' = x,
           \A f \in Event \ {e} : LifeOf(f)' = LifeOf(f)
    PROVE  LifeFn' = [LifeFn EXCEPT ![e] = x]
  BY DEF LifeFn

\* The events other than the one a worker deals with keep their place.
LEMMA OthersKeepLife ==
    ASSUME IInv, LifeMap, LifeMap', NEW w \in Worker, NEW e \in Event,
           current[w] \in {e, NoEvent}, current'[w] \in {e, NoEvent},
           batch[w] \ {e} = batch'[w] \ {e},
           \A v \in Worker \ {w} : /\ pc'[v] = pc[v]
                                   /\ current'[v] = current[v]
                                   /\ batch'[v] = batch[v],
           \A f \in Event \ {e} : status'[f] = status[f]
    PROVE  \A f \in Event \ {e} : LifeOf(f)' = LifeOf(f)
  <1> SUFFICES ASSUME NEW f \in Event \ {e} PROVE LifeOf(f)' = LifeOf(f)
    OBVIOUS
  <1>1. f # NoEvent
    BY OutboxAssumption
  <1>2. CASE \E v \in Worker : f \in batch[v]
    <2>1. PICK v \in Worker : f \in batch[v]
      BY <1>2
    <2>2. f \in batch'[v]
      BY <2>1
    <2>3. HeldLife(v, f)' = HeldLife(v, f)
      BY <1>1 DEF HeldLife
    <2> QED
      BY <2>1, <2>2, <2>3 DEF LifeMap
  <1>3. CASE \A v \in Worker : f \notin batch[v]
    <2>1. \A v \in Worker : f \notin batch'[v]
      BY <1>3
    <2> QED
      BY <1>3, <2>1 DEF LifeMap
  <1> QED
    BY <1>2, <1>3

\* Taking an event is Run, whether it has a handler or not.
LEMMA BeginEventLife ==
    ASSUME IInv, IInv', LifeMap, LifeMap', NEW w \in Worker, NEW e \in Event,
           BeginEvent(w, e)
    PROVE  Life!Run(e)
  <1>1. e \in batch[w] /\ e \in batch'[w] /\ current[w] = NoEvent /\ e # NoEvent
    BY OutboxAssumption DEF IInv, PhaseOK, BeginEvent
  <1>2. LifeOf(e) = "taken"
    BY <1>1 DEF LifeMap, HeldLife
  <1>3. LifeOf(e)' = IF e \in Handled THEN "running" ELSE "succeeded"
    BY <1>1 DEF LifeMap, HeldLife, BeginEvent, IInv, TypeOK
  <1>4. \A f \in Event \ {e} : LifeOf(f)' = LifeOf(f)
    BY <1>1, OthersKeepLife DEF IInv, TypeOK, BeginEvent, rows
  <1> QED
    BY <1>2, <1>3, <1>4, OneLifeStep DEF Life!Run, LifeFn, BeginEvent, rows

\* The handler's answer is Answer in the event's life.
LEMMA HandlerReturnsLife ==
    ASSUME IInv, IInv', LifeMap, LifeMap', NEW w \in Worker, HandlerReturns(w)
    PROVE  Life!Answer(current[w])
  <1> DEFINE e == current[w]
  <1>1. e \in batch[w] /\ e \in batch'[w] /\ e \in Event
    BY DEF IInv, TypeOK, PhaseOK, HandlerReturns
  <1>2. LifeOf(e) = "running"
    BY <1>1 DEF LifeMap, HeldLife, HandlerReturns
  <1>3. LifeOf(e)' \in {"succeeded", "failed"}
    BY <1>1 DEF LifeMap, HeldLife, HandlerReturns, IInv, TypeOK
  <1>4. \A f \in Event \ {e} : LifeOf(f)' = LifeOf(f)
    BY <1>1, OthersKeepLife DEF IInv, TypeOK, HandlerReturns, rows
  <1> QED
    BY <1>1, <1>2, <1>3, <1>4, OneLifeStep DEF Life!Answer, LifeFn, HandlerReturns, rows

\* MarkProcessed is RecordSuccess.
LEMMA MarkProcessedLife ==
    ASSUME IInv, IInv', LifeMap, LifeMap', NEW w \in Worker, MarkProcessed(w)
    PROVE  Life!RecordSuccess(current[w])
  <1>a. PICK e \in Event : e = current[w]
    BY DEF IInv, TypeOK, PhaseOK, MarkProcessed
  <1>1. e = current[w] /\ e \in batch[w] /\ e # NoEvent
    BY <1>a, OutboxAssumption DEF IInv, TypeOK, PhaseOK, MarkProcessed
  <1>2. LifeOf(e) = "succeeded"
    BY <1>1 DEF LifeMap, HeldLife, MarkProcessed
  <1>3. LifeOf(e)' = "processed"
    <2>1. \A v \in Worker : e \notin batch'[v]
      BY <1>1 DEF IInv, OneOwner, Held, TypeOK, MarkProcessed, NextEvent
    <2> QED
      BY <1>1, <2>1 DEF LifeMap, IInv, BatchIsFresh, TypeOK, MarkProcessed, NextEvent, rows
  <1>4. \A f \in Event \ {e} : LifeOf(f)' = LifeOf(f)
    <2>1. current'[w] = NoEvent /\ batch[w] \ {e} = batch'[w] \ {e}
      BY <1>1 DEF IInv, TypeOK, MarkProcessed, NextEvent
    <2>2. \A v \in Worker \ {w} : /\ pc'[v] = pc[v]
                                  /\ current'[v] = current[v]
                                  /\ batch'[v] = batch[v]
      BY DEF IInv, TypeOK, MarkProcessed, NextEvent
    <2>3. \A f \in Event \ {e} : status'[f] = status[f]
      BY <1>1 DEF IInv, TypeOK, MarkProcessed
    <2> QED
      BY <1>1, <2>1, <2>2, <2>3, OthersKeepLife
  <1>5. LifeFn' = [LifeFn EXCEPT ![e] = "processed"]
    BY <1>1, <1>3, <1>4, OneLifeStep
  <1> QED
    BY <1>1, <1>2, <1>5 DEF Life!RecordSuccess, LifeFn, MarkProcessed, rows

\* MarkRetry is RecordFailure below the limit.
LEMMA MarkRetryLife ==
    ASSUME IInv, IInv', LifeMap, LifeMap', NEW w \in Worker, MarkRetry(w)
    PROVE  Life!RecordFailure(current[w])
  <1>a. PICK e \in Event : e = current[w]
    BY DEF IInv, TypeOK, PhaseOK, MarkRetry
  <1>1. e = current[w] /\ e \in batch[w] /\ e # NoEvent
    BY <1>a, OutboxAssumption DEF IInv, TypeOK, PhaseOK, MarkRetry
  <1>2. LifeOf(e) = "failed"
    BY <1>1 DEF LifeMap, HeldLife, MarkRetry
  <1>3. LifeOf(e)' = "pending"
    <2>1. \A v \in Worker : e \notin batch'[v]
      BY <1>1 DEF IInv, OneOwner, Held, TypeOK, MarkRetry, NextEvent
    <2> QED
      BY <1>1, <2>1 DEF LifeMap, IInv, BatchIsFresh, TypeOK, MarkRetry, NextEvent, rows
  <1>4. \A f \in Event \ {e} : LifeOf(f)' = LifeOf(f)
    <2>1. current'[w] = NoEvent /\ batch[w] \ {e} = batch'[w] \ {e}
      BY <1>1 DEF IInv, TypeOK, MarkRetry, NextEvent
    <2>2. \A v \in Worker \ {w} : /\ pc'[v] = pc[v]
                                  /\ current'[v] = current[v]
                                  /\ batch'[v] = batch[v]
      BY DEF IInv, TypeOK, MarkRetry, NextEvent
    <2>3. \A f \in Event \ {e} : status'[f] = status[f]
      BY <1>1 DEF IInv, TypeOK, MarkRetry
    <2> QED
      BY <1>1, <2>1, <2>2, <2>3, OthersKeepLife
  <1>5. LifeFn' = [LifeFn EXCEPT ![e] = "pending"]
    BY <1>1, <1>3, <1>4, OneLifeStep
  <1>6. snapshot[w][e] = retryCount[e]
    BY <1>1 DEF IInv, BatchIsFresh
  <1> QED
    BY <1>1, <1>2, <1>5, <1>6 DEF Life!RecordFailure, LifeFn, MarkRetry, NextCount

\* MarkFailedPermanent is RecordFailure at the limit.
LEMMA MarkFailedPermanentLife ==
    ASSUME IInv, IInv', LifeMap, LifeMap', NEW w \in Worker, MarkFailedPermanent(w)
    PROVE  Life!RecordFailure(current[w])
  <1>a. PICK e \in Event : e = current[w]
    BY DEF IInv, TypeOK, PhaseOK, MarkFailedPermanent
  <1>1. e = current[w] /\ e \in batch[w] /\ e # NoEvent
    BY <1>a, OutboxAssumption DEF IInv, TypeOK, PhaseOK, MarkFailedPermanent
  <1>2. LifeOf(e) = "failed"
    BY <1>1 DEF LifeMap, HeldLife, MarkFailedPermanent
  <1>3. LifeOf(e)' = "failed_permanent"
    <2>1. \A v \in Worker : e \notin batch'[v]
      BY <1>1 DEF IInv, OneOwner, Held, TypeOK, MarkFailedPermanent, NextEvent
    <2> QED
      BY <1>1, <2>1 DEF LifeMap, IInv, BatchIsFresh, TypeOK, MarkFailedPermanent, NextEvent, rows
  <1>4. \A f \in Event \ {e} : LifeOf(f)' = LifeOf(f)
    <2>1. current'[w] = NoEvent /\ batch[w] \ {e} = batch'[w] \ {e}
      BY <1>1 DEF IInv, TypeOK, MarkFailedPermanent, NextEvent
    <2>2. \A v \in Worker \ {w} : /\ pc'[v] = pc[v]
                                  /\ current'[v] = current[v]
                                  /\ batch'[v] = batch[v]
      BY DEF IInv, TypeOK, MarkFailedPermanent, NextEvent
    <2>3. \A f \in Event \ {e} : status'[f] = status[f]
      BY <1>1 DEF IInv, TypeOK, MarkFailedPermanent
    <2> QED
      BY <1>1, <2>1, <2>2, <2>3, OthersKeepLife
  <1>5. LifeFn' = [LifeFn EXCEPT ![e] = "failed_permanent"]
    BY <1>1, <1>3, <1>4, OneLifeStep
  <1>6. snapshot[w][e] = retryCount[e]
    BY <1>1 DEF IInv, BatchIsFresh
  <1> QED
    BY <1>1, <1>2, <1>5, <1>6 DEF Life!RecordFailure, LifeFn, MarkFailedPermanent, NextCount

\* A mark that fails is Lose of that event.
LEMMA MarkLostLife ==
    ASSUME IInv, IInv', LifeMap, LifeMap', NEW w \in Worker, MarkLost(w)
    PROVE  Life!Lose({current[w]})
  <1>a. PICK e \in Event : e = current[w]
    BY DEF IInv, TypeOK, PhaseOK, MarkLost
  <1>1. e = current[w] /\ e \in batch[w] /\ e # NoEvent
    BY <1>a, OutboxAssumption DEF IInv, TypeOK, PhaseOK, MarkLost
  <1>2. LifeOf(e) = pc[w]
    BY <1>1 DEF LifeMap, HeldLife, MarkLost
  <1>3. LifeOf(e)' = "lost"
    <2>1. \A v \in Worker : e \notin batch'[v]
      BY <1>1 DEF IInv, OneOwner, Held, TypeOK, MarkLost, NextEvent
    <2> QED
      BY <1>1, <2>1 DEF LifeMap, IInv, BatchIsFresh, TypeOK, MarkLost, NextEvent, rows
  <1>4. \A f \in Event \ {e} : LifeOf(f)' = LifeOf(f)
    <2>1. current'[w] = NoEvent /\ batch[w] \ {e} = batch'[w] \ {e}
      BY <1>1 DEF IInv, TypeOK, MarkLost, NextEvent
    <2>2. \A v \in Worker \ {w} : /\ pc'[v] = pc[v]
                                  /\ current'[v] = current[v]
                                  /\ batch'[v] = batch[v]
      BY DEF IInv, TypeOK, MarkLost, NextEvent
    <2>3. \A f \in Event \ {e} : status'[f] = status[f]
      BY DEF MarkLost, rows
    <2> QED
      BY <1>1, <2>1, <2>2, <2>3, OthersKeepLife
  <1>5. LifeFn' = [LifeFn EXCEPT ![e] = "lost"]
    BY <1>1, <1>3, <1>4, OneLifeStep
  <1> QED
    BY <1>1, <1>2, <1>5 DEF Life!Lose, Life!Finished, LifeFn, MarkLost, rows

-----------------------------------------------------------------------------
(* The steps that concern several events, or none.                         *)

\* Publish is Submit.
LEMMA PublishLife ==
    ASSUME IInv, IInv', LifeMap, LifeMap', NEW e \in Event, Publish(e)
    PROVE  Life!Submit(e)
  <1>1. \A w \in Worker : e \notin batch[w] /\ e \notin batch'[w]
    BY DEF Publish, procs
  <1>2. LifeOf(e) = status[e] /\ status[e] \in Life!Finished
    BY <1>1 DEF LifeMap, Publish, Terminal, Life!Finished
  <1>3. LifeOf(e)' = "pending"
    BY <1>1 DEF LifeMap, Publish, IInv, TypeOK
  <1>4. ASSUME NEW f \in Event \ {e} PROVE LifeOf(f)' = LifeOf(f)
    <2>1. status'[f] = status[f]
      BY DEF Publish, IInv, TypeOK
    <2> QED
      BY <2>1 DEF Publish, procs, LifeOf, HeldLife
  <1> QED
    BY <1>2, <1>3, <1>4, OneLifeStep DEF Life!Submit, LifeFn, Publish

\* A change of no status, batch or loop position is a stutter of every life.
LEMMA LifeStutters ==
    ASSUME UNCHANGED <<status, retryCount, pc, batch, current>>
    PROVE  UNCHANGED <<LifeFn, retryCount>>
  BY DEF LifeFn, LifeOf, HeldLife

\* The phase of a worker without a current event is part of no life.
LEMMA IdlePhaseStutters ==
    ASSUME IInv, IInv', LifeMap, LifeMap', NEW w \in Worker,
           current[w] = NoEvent, current'[w] = NoEvent,
           UNCHANGED <<status, retryCount, batch, current>>,
           \A v \in Worker \ {w} : pc'[v] = pc[v]
    PROVE  UNCHANGED <<LifeFn, retryCount>>
  <1>1. ASSUME NEW e \in Event PROVE LifeOf(e)' = LifeOf(e)
    <2>1. e # NoEvent
      BY OutboxAssumption
    <2>2. ASSUME NEW v \in Worker, e \in batch[v] PROVE LifeOf(e)' = LifeOf(e)
      <3>1. HeldLife(v, e)' = HeldLife(v, e)
        BY <2>1 DEF HeldLife
      <3> QED
        BY <2>2, <3>1 DEF LifeMap
    <2>3. CASE \A v \in Worker : e \notin batch[v]
      BY <2>3 DEF LifeMap
    <2> QED
      BY <2>2, <2>3
  <1> QED
    BY <1>1 DEF LifeFn

\* CommitBatch takes the locked events.
LEMMA CommitBatchLife ==
    ASSUME IInv, IInv', LifeMap, LifeMap', NEW w \in Worker, CommitBatch(w)
    PROVE  Life!Take(locked[w])
  <1> DEFINE S == locked[w]
  <1>1. /\ batch[w] = {} /\ current[w] = NoEvent
        /\ \A e \in S : status[e] = "pending" /\ \A v \in Worker : e \notin batch[v]
    BY DEF IInv, PhaseOK, LockedIsPending, BatchIsFresh, OneOwner, Held, CommitBatch
  <1>2. \A e \in S : e \in Event /\ LifeOf(e) = "pending"
    BY <1>1 DEF LifeMap, IInv, TypeOK
  <1>3. ASSUME NEW e \in Event, e \in S PROVE LifeOf(e)' = "taken"
    <2>1. e \in batch'[w] /\ current'[w] # e
      BY <1>1, <1>3, OutboxAssumption DEF CommitBatch, Claim, IInv, TypeOK
    <2> QED
      BY <2>1 DEF LifeMap, HeldLife
  <1>4. ASSUME NEW e \in Event, e \notin S PROVE LifeOf(e)' = LifeOf(e)
    <2>1. status'[e] = status[e] /\ e \notin batch[w] /\ e \notin batch'[w]
      BY <1>1, <1>4 DEF CommitBatch, Claim, IInv, TypeOK
    <2>2. ASSUME NEW v \in Worker, e \in batch[v] PROVE LifeOf(e)' = LifeOf(e)
      <3>1. e \in batch'[v] /\ HeldLife(v, e)' = HeldLife(v, e)
        BY <2>1, <2>2 DEF HeldLife, CommitBatch, IInv, TypeOK
      <3> QED
        BY <2>2, <3>1 DEF LifeMap
    <2>3. CASE \A v \in Worker : e \notin batch[v]
      <3>1. \A v \in Worker : e \notin batch'[v]
        BY <2>1, <2>3 DEF CommitBatch, Claim, IInv, TypeOK
      <3> QED
        BY <2>1, <2>3, <3>1 DEF LifeMap
    <2> QED
      BY <2>2, <2>3
  <1>5. LifeFn' = [e \in Event |-> IF e \in S THEN "taken" ELSE LifeFn[e]]
    <2>1. \A e \in Event : LifeOf(e)' = IF e \in S THEN "taken" ELSE LifeOf(e)
      BY <1>3, <1>4
    <2> QED
      BY <2>1 DEF LifeFn
  <1> QED
    BY <1>2, <1>5 DEF Life!Take, LifeFn, CommitBatch

\* A commit nobody hears of loses the locked events.
LEMMA CommitUnansweredLife ==
    ASSUME IInv, IInv', LifeMap, LifeMap', NEW w \in Worker, CommitUnanswered(w)
    PROVE  Life!Lose(locked[w])
  <1> DEFINE S == locked[w]
  <1>1. \A e \in S : /\ e \in Event /\ status[e] = "pending"
                     /\ \A v \in Worker : e \notin batch[v]
    BY DEF IInv, TypeOK, LockedIsPending, BatchIsFresh, CommitUnanswered
  <1>2. \A e \in S : LifeOf(e) = "pending"
    BY <1>1 DEF LifeMap
  <1>3. ASSUME NEW e \in Event, e \in S PROVE LifeOf(e)' = "lost"
    <2>1. status'[e] = "processing" /\ \A v \in Worker : e \notin batch'[v]
      BY <1>1, <1>3 DEF CommitUnanswered, Claim, IInv, TypeOK
    <2> QED
      BY <2>1 DEF LifeMap
  <1>4. ASSUME NEW e \in Event, e \notin S PROVE LifeOf(e)' = LifeOf(e)
    <2>1. status'[e] = status[e]
      BY <1>4 DEF CommitUnanswered, Claim, IInv, TypeOK
    <2>2. ASSUME NEW v \in Worker, e \in batch[v] PROVE LifeOf(e)' = LifeOf(e)
      <3>1. v # w
        BY <2>2 DEF IInv, PhaseOK, CommitUnanswered
      <3>2. e \in batch'[v] /\ HeldLife(v, e)' = HeldLife(v, e)
        BY <2>2, <3>1 DEF HeldLife, CommitUnanswered, IInv, TypeOK
      <3> QED
        BY <2>2, <3>2 DEF LifeMap
    <2>3. CASE \A v \in Worker : e \notin batch[v]
      <3>1. \A v \in Worker : e \notin batch'[v]
        BY <2>3 DEF CommitUnanswered
      <3> QED
        BY <2>1, <2>3, <3>1 DEF LifeMap
    <2> QED
      BY <2>2, <2>3
  <1>5. LifeFn' = [e \in Event |-> IF e \in S THEN "lost" ELSE LifeFn[e]]
    <2>1. \A e \in Event : LifeOf(e)' = IF e \in S THEN "lost" ELSE LifeOf(e)
      BY <1>3, <1>4
    <2> QED
      BY <2>1 DEF LifeFn
  <1> QED
    BY <1>1, <1>2, <1>5 DEF Life!Lose, Life!Finished, LifeFn, CommitUnanswered

\* What a held event's life can be.
LEMMA HeldIsUnfinished ==
    ASSUME IInv, LifeMap, NEW w \in Worker, NEW e \in batch[w]
    PROVE  LifeOf(e) \notin Life!Finished
  <1>1. e \in Event /\ e # NoEvent
    BY OutboxAssumption DEF IInv, TypeOK
  <1>2. current[w] = e => pc[w] \in {"handling", "succeeded", "failed"}
    BY <1>1 DEF IInv, PhaseOK, TypeOK, Phases
  <1> QED
    BY <1>2 DEF LifeMap, HeldLife, Life!Finished

\* A crash loses the batch.
LEMMA CrashLife ==
    ASSUME IInv, IInv', LifeMap, LifeMap', NEW w \in Worker, Crash(w)
    PROVE  Life!Lose(batch[w])
  <1> DEFINE S == batch[w]
  <1>1. \A e \in S : /\ e \in Event /\ status[e] = "processing"
                     /\ \A v \in Worker : v # w => e \notin batch[v]
    BY DEF IInv, TypeOK, BatchIsFresh, OneOwner, Held
  <1>2. \A e \in S : LifeOf(e) \notin Life!Finished
    BY HeldIsUnfinished
  <1>3. ASSUME NEW e \in Event, e \in S PROVE LifeOf(e)' = "lost"
    <2>1. status'[e] = "processing" /\ \A v \in Worker : e \notin batch'[v]
      BY <1>1, <1>3 DEF Crash, IInv, TypeOK, rows
    <2> QED
      BY <2>1 DEF LifeMap
  <1>4. ASSUME NEW e \in Event, e \notin S PROVE LifeOf(e)' = LifeOf(e)
    <2>1. status'[e] = status[e]
      BY DEF Crash, rows
    <2>2. ASSUME NEW v \in Worker, e \in batch[v] PROVE LifeOf(e)' = LifeOf(e)
      <3>1. v # w
        BY <1>4, <2>2
      <3>2. e \in batch'[v] /\ HeldLife(v, e)' = HeldLife(v, e)
        BY <2>2, <3>1 DEF HeldLife, Crash, IInv, TypeOK
      <3> QED
        BY <2>2, <3>2 DEF LifeMap
    <2>3. CASE \A v \in Worker : e \notin batch[v]
      <3>1. \A v \in Worker : e \notin batch'[v]
        BY <2>3 DEF Crash, IInv, TypeOK
      <3> QED
        BY <2>1, <2>3, <3>1 DEF LifeMap
    <2> QED
      BY <2>2, <2>3
  <1>5. LifeFn' = [e \in Event |-> IF e \in S THEN "lost" ELSE LifeFn[e]]
    <2>1. \A e \in Event : LifeOf(e)' = IF e \in S THEN "lost" ELSE LifeOf(e)
      BY <1>3, <1>4
    <2> QED
      BY <2>1 DEF LifeFn
  <1> QED
    BY <1>1, <1>2, <1>5 DEF Life!Lose, LifeFn, Crash, rows

\* The SELECT and the ROLLBACK change no status and no batch.
LEMMA TransactionStutters ==
    ASSUME IInv, IInv', LifeMap, LifeMap', NEW w \in Worker,
           SelectBatch(w) \/ RollbackBatch(w)
    PROVE  UNCHANGED <<LifeFn, retryCount>>
  <1>1. current[w] = NoEvent /\ UNCHANGED <<status, retryCount, batch, current>>
    BY DEF IInv, PhaseOK, SelectBatch, RollbackBatch, rows
  <1>2. \A v \in Worker \ {w} : pc'[v] = pc[v]
    BY DEF IInv, TypeOK, SelectBatch, RollbackBatch
  <1> QED
    BY <1>1, <1>2, IdlePhaseStutters

\* Every step of Outbox is a step of EventLife or a stutter of it.
LEMMA NextLife ==
    ASSUME IInv, IInv', LifeMap, LifeMap', [Next]_vars
    PROVE  [Life!Next]_(Life!lifeVars)
  <1> DEFINE Goal == [Life!Next]_(Life!lifeVars)
  <1>1. ASSUME UNCHANGED <<LifeFn, retryCount>> PROVE Goal
    BY <1>1 DEF Life!lifeVars, LifeFn
  <1>2. ASSUME NEW e \in Event,
               Life!Submit(e) \/ Life!Run(e) \/ Life!Answer(e)
                 \/ Life!RecordSuccess(e) \/ Life!RecordFailure(e)
        PROVE  Goal
    BY <1>2 DEF Life!Next
  <1>3. ASSUME NEW S \in SUBSET Event, Life!Take(S) \/ Life!Lose(S) PROVE Goal
    BY <1>3 DEF Life!Next
  <1>4. CASE UNCHANGED vars
    BY <1>1, <1>4, LifeStutters DEF vars, rows, procs
  <1>5. ASSUME NEW e \in Event, Publish(e) PROVE Goal
    BY <1>2, <1>5, PublishLife
  <1>6. CASE Clock
    BY <1>1, <1>6, LifeStutters DEF Clock, procs
  <1>7. ASSUME NEW w \in Worker, WorkerStep(w) \/ FaultStep(w) PROVE Goal
    <2>0. locked[w] \in SUBSET Event /\ batch[w] \in SUBSET Event
      BY DEF IInv, TypeOK
    <2>c. pc[w] \in {"handling", "succeeded", "failed"} => current[w] \in Event
      BY DEF IInv, TypeOK, PhaseOK
    <2>1. CASE SelectBatch(w) \/ RollbackBatch(w)
      BY <1>1, <2>1, TransactionStutters
    <2>2. CASE CommitBatch(w)
      BY <1>3, <2>0, <2>2, CommitBatchLife
    <2>3. CASE CommitUnanswered(w)
      BY <1>3, <2>0, <2>3, CommitUnansweredLife
    <2>4. ASSUME NEW e \in Event, BeginEvent(w, e) PROVE Goal
      BY <1>2, <2>4, BeginEventLife
    <2>5. CASE HandlerReturns(w)
      <3>1. current[w] \in Event
        BY <2>c, <2>5 DEF HandlerReturns
      <3> QED
        BY <1>2, <2>5, <3>1, HandlerReturnsLife
    <2>6. CASE MarkProcessed(w)
      <3>1. current[w] \in Event
        BY <2>c, <2>6 DEF MarkProcessed
      <3> QED
        BY <1>2, <2>6, <3>1, MarkProcessedLife
    <2>7. CASE MarkRetry(w)
      <3>1. current[w] \in Event
        BY <2>c, <2>7 DEF MarkRetry
      <3> QED
        BY <1>2, <2>7, <3>1, MarkRetryLife
    <2>8. CASE MarkFailedPermanent(w)
      <3>1. current[w] \in Event
        BY <2>c, <2>8 DEF MarkFailedPermanent
      <3> QED
        BY <1>2, <2>8, <3>1, MarkFailedPermanentLife
    <2>9. CASE MarkLost(w)
      <3>1. {current[w]} \in SUBSET Event
        BY <2>c, <2>9 DEF MarkLost
      <3> QED
        BY <1>3, <2>9, <3>1, MarkLostLife
    <2>10. CASE Sigterm(w) \/ Restart(w)
      BY <1>1, <2>10, LifeStutters DEF Sigterm, Restart, rows
    <2>11. CASE Crash(w)
      BY <1>3, <2>0, <2>11, CrashLife
    <2> QED
      BY <1>7, <2>1, <2>2, <2>3, <2>4, <2>5, <2>6, <2>7, <2>8, <2>9, <2>10, <2>11
         DEF WorkerStep, LoopStep, FaultStep
  <1> QED
    BY <1>4, <1>5, <1>6, <1>7 DEF Next

\* Initially every event is absent, in both specifications.
LEMMA InitLife == Init => Life!Init
  <1> SUFFICES ASSUME Init PROVE Life!Init
    OBVIOUS
  <1>1. \A e \in Event : LifeOf(e) = "absent"
    BY DEF Init, LifeOf
  <1> QED
    BY <1>1 DEF Init, Life!Init, Zero

\* Outbox implements EventLife: whatever the workers, their overlapping
\* transactions and their failures, each event goes through the life it
\* describes, where an answer is recorded once and a failure costs one try.
THEOREM Refinement == Spec => ImplementsEventLife
  <1>1. IInv /\ IInv' /\ LifeMap /\ LifeMap' /\ [Next]_vars => [Life!Next]_(Life!lifeVars)
    BY NextLife
  <1> QED
    BY <1>1, InitLife, MapIsRight, Invariance, PTL DEF Spec, ImplementsEventLife, Life!Spec
=============================================================================
