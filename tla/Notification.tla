---------------------------- MODULE Notification ----------------------------
(***************************************************************************)
(* Notification jobs (internal/notification): a job and its outbox event   *)
(* are inserted in one transaction; DispatchPending lists the oldest       *)
(* pending jobs of the company, and for each inserts a delivery and marks  *)
(* the job, dropping the errors of both; the worker handles the event.     *)
(***************************************************************************)
EXTENDS FiniteSets, Naturals

CONSTANTS
    MaxJobs,     \* bound: jobs ever enqueued, numbered by created_at
    Dispatcher,  \* dispatch requests in flight at once
    Limit,       \* jobs a dispatch takes
    MaxFaults    \* bound: failed statements and crashes

ASSUME NotificationAssumption ==
    MaxJobs \in Nat /\ Limit \in Nat \ {0} /\ MaxFaults \in Nat

Job == 1..MaxJobs

VARIABLES
    job,        \* status of each notification_jobs row
    event,      \* status of its outbox row
    deliveries, \* rows of notification_deliveries per job
    pc,
    batch,      \* jobs a dispatcher has listed and not finished
    \* history
    raced,      \* jobs listed while in the batch of another dispatcher
    unmarked,   \* jobs delivered whose status was not updated
    unsent,     \* jobs whose delivery could not be inserted
    faults

vars == <<job, event, deliveries, pc, batch, raced, unmarked, unsent, faults>>

\* Jobs and events have the statuses that the code gives them, and dispatchers keep
\* their types.
TypeOK ==
    /\ job \in [Job -> {"none", "pending", "dispatched"}]
    /\ event \in [Job -> {"none", "pending", "processed"}]
    /\ deliveries \in [Job -> Nat]
    /\ pc \in [Dispatcher -> {"idle", "delivering", "marking"}]
    /\ batch \in [Dispatcher -> SUBSET Job]
    /\ raced \in SUBSET Job
    /\ unmarked \in SUBSET Job
    /\ unsent \in SUBSET Job
    /\ faults \in Nat

Init ==
    /\ job = [j \in Job |-> "none"]
    /\ event = [j \in Job |-> "none"]
    /\ deliveries = [j \in Job |-> 0]
    /\ pc = [d \in Dispatcher |-> "idle"]
    /\ batch = [d \in Dispatcher |-> {}]
    /\ raced = {}
    /\ unmarked = {}
    /\ unsent = {}
    /\ faults = 0

Goto(d, phase) == pc' = [pc EXCEPT ![d] = phase]

Oldest(S) == CHOOSE j \in S : \A i \in S : j <= i

Pending == {j \in Job : job[j] = "pending"}

-----------------------------------------------------------------------------
(* EnqueueNotification and the worker.                                     *)

\* The transaction of CreateJobTx and PublishEventTx: others see both rows or none.
\* created_at is taken before the COMMIT, so that a later job may be seen first.
Enqueue(j) ==
    /\ job[j] = "none"
    /\ job' = [job EXCEPT ![j] = "pending"]
    /\ event' = [event EXCEPT ![j] = "pending"]
    /\ UNCHANGED <<deliveries, pc, batch, raced, unmarked, unsent, faults>>

\* The worker's handler of "notification.dispatch" logs the event.
ProcessEvent(j) ==
    /\ event[j] = "pending"
    /\ event' = [event EXCEPT ![j] = "processed"]
    /\ UNCHANGED <<job, deliveries, pc, batch, raced, unmarked, unsent, faults>>

-----------------------------------------------------------------------------
(* DispatchPending.                                                        *)

\* A slip to rule out: jobs of any status are listed.
AnyJobs == {j \in Job : job[j] # "none"}

\* The jobs ListPendingJobs selects from.
Listed == Pending

\* A slip to rule out: the jobs are marked when they are listed.
ListAndMark(d) ==
    /\ pc[d] = "idle"
    /\ Listed # {}
    /\ batch' = [batch EXCEPT ![d] = {Oldest(Listed)}]
    /\ job' = [job EXCEPT ![Oldest(Listed)] = "dispatched"]
    /\ Goto(d, "delivering")
    /\ UNCHANGED <<event, deliveries, raced, unmarked, unsent, faults>>

\* The oldest pending jobs, as many as the limit.
ListPending(d) ==
    /\ pc[d] = "idle"
    /\ Listed # {}
    /\ \E B \in SUBSET Listed :
          /\ Cardinality(B) = IF Cardinality(Listed) < Limit THEN Cardinality(Listed) ELSE Limit
          /\ \A j \in B, i \in Listed \ B : j < i
          /\ batch' = [batch EXCEPT ![d] = B]
          /\ raced' = raced \union {j \in B : \E e \in Dispatcher : j \in batch[e]}
    /\ Goto(d, "delivering")
    /\ UNCHANGED <<job, event, deliveries, unmarked, unsent, faults>>

\* CreateDelivery.
Deliver(d) ==
    /\ pc[d] = "delivering" /\ batch[d] # {}
    /\ LET j == Oldest(batch[d]) IN
          deliveries' = [deliveries EXCEPT ![j] = @ + 1]
    /\ Goto(d, "marking")
    /\ UNCHANGED <<job, event, batch, raced, unmarked, unsent, faults>>

\* Its error is dropped, and the loop goes on to mark the job.
DeliverFails(d) ==
    /\ pc[d] = "delivering" /\ batch[d] # {}
    /\ faults < MaxFaults
    /\ faults' = faults + 1
    /\ unsent' = unsent \union {Oldest(batch[d])}
    /\ Goto(d, "marking")
    /\ UNCHANGED <<job, event, deliveries, batch, raced, unmarked>>

\* The loop goes on with the rest of the batch.
NextJob(d) ==
    LET rest == batch[d] \ {Oldest(batch[d])} IN
        /\ batch' = [batch EXCEPT ![d] = rest]
        /\ Goto(d, IF rest = {} THEN "idle" ELSE "delivering")

\* A slip to rule out: the job gets the status of a delivery.
MarkSent(d) ==
    /\ pc[d] = "marking"
    /\ job' = [job EXCEPT ![Oldest(batch[d])] = "sent"]
    /\ NextJob(d)
    /\ UNCHANGED <<event, deliveries, raced, unmarked, unsent, faults>>

\* UpdateJobStatus.
MarkDispatched(d) ==
    /\ pc[d] = "marking"
    /\ job' = [job EXCEPT ![Oldest(batch[d])] = "dispatched"]
    /\ NextJob(d)
    /\ UNCHANGED <<event, deliveries, raced, unmarked, unsent, faults>>

\* Its error is dropped.
MarkFails(d) ==
    /\ pc[d] = "marking"
    /\ faults < MaxFaults
    /\ faults' = faults + 1
    /\ unmarked' = unmarked \union {Oldest(batch[d])}
    /\ NextJob(d)
    /\ UNCHANGED <<job, event, deliveries, raced, unsent>>

\* The process dies, or ResolveRecipients is denied and its nil answer panics.
Crash(d) ==
    /\ pc[d] # "idle"
    /\ faults < MaxFaults
    /\ faults' = faults + 1
    /\ unmarked' = IF pc[d] = "marking" THEN unmarked \union {Oldest(batch[d])} ELSE unmarked
    /\ batch' = [batch EXCEPT ![d] = {}]
    /\ Goto(d, "idle")
    /\ UNCHANGED <<job, event, deliveries, raced, unsent>>

-----------------------------------------------------------------------------
DispatcherStep(d) ==
    \/ ListPending(d)
    \/ Deliver(d)
    \/ DeliverFails(d)
    \/ MarkDispatched(d)
    \/ MarkFails(d)
    \/ Crash(d)

Next ==
    \/ \E j \in Job : Enqueue(j) \/ ProcessEvent(j)
    \/ \E d \in Dispatcher : DispatcherStep(d)

Spec == Init /\ [][Next]_vars

-----------------------------------------------------------------------------
(* Properties.                                                             *)

\* A job is delivered once, unless two dispatches had listed it or its status
\* could not be updated.
DeliveredOnce ==
    \A j \in Job : deliveries[j] <= 1 \/ j \in raced \/ j \in unmarked

\* A job is only dispatched after its delivery was inserted, or could not be:
\* whatever dies in between, no job is taken off the list unsent.
DispatchedAfterDelivery ==
    \A j \in Job : job[j] = "dispatched" => deliveries[j] > 0 \/ j \in unsent
=============================================================================
