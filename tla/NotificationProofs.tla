------------------------- MODULE NotificationProofs -------------------------
(***************************************************************************)
(* Theorems about Notification for any number of jobs, dispatchers and     *)
(* faults, and any limit.                                                  *)
(*                                                                         *)
(* The loop of DispatchPending works on what it has listed, so what it     *)
(* has not delivered yet must be said of its batch: a job in a batch is    *)
(* in no other one unless it raced, and was delivered no more often than   *)
(* the phase of that one dispatcher says.                                  *)
(***************************************************************************)
EXTENDS Notification, WellFoundedInduction, TLAPS

\* Dispatcher d has dealt with the delivery of job j, and not with its status.
Marking(d, j) == pc[d] = "marking" /\ j = Oldest(batch[d])

\* What is in a batch was listed, and one phase is about a job of the batch.
BatchOK ==
    \A d \in Dispatcher :
        /\ pc[d] = "idle" => batch[d] = {}
        /\ pc[d] = "marking" => batch[d] # {}
        /\ \A j \in batch[d] : job[j] # "none"

\* A job that was listed once is in one batch, until it is dispatched.
AloneOK ==
    \A j \in Job \ raced :
        /\ \A d, e \in Dispatcher : j \in batch[d] /\ j \in batch[e] => d = e
        /\ job[j] = "dispatched" => \A d \in Dispatcher : j \notin batch[d]

\* The one delivery of a job is the last thing before its status.
OnceOK ==
    \A j \in Job \ (raced \union unmarked) :
        /\ deliveries[j] <= 1
        /\ job[j] # "dispatched" /\ (\A d \in Dispatcher : ~Marking(d, j)) => deliveries[j] = 0

\* Behind a delivery that was tried there is a row, or an error.
TriedOK ==
    \A j \in Job :
        job[j] = "dispatched" \/ (\E d \in Dispatcher : Marking(d, j)) =>
            deliveries[j] > 0 \/ j \in unsent

IInv ==
    /\ TypeOK
    /\ BatchOK
    /\ AloneOK
    /\ OnceOK
    /\ TriedOK

-----------------------------------------------------------------------------
\* Some job of a batch is the oldest.
LEMMA OldestOfBatch ==
    ASSUME NEW S \in SUBSET Job, S # {}
    PROVE  Oldest(S) \in S
  <1>1. S \subseteq Nat
    BY NotificationAssumption DEF Job
  <1>2. \E j \in S : \A i \in S : ~(<<i, j>> \in OpToRel(<, Nat))
    BY <1>1, WFMin, NatLessThanWellFounded, Zenon
  <1>3. \E j \in S : \A i \in S : ~(i \in Nat /\ j \in Nat /\ i < j)
    BY <1>2, Zenon DEF OpToRel
  <1>4. \E j \in S : \A i \in S : j <= i
    BY <1>1, <1>3
  <1> QED
    BY <1>4 DEF Oldest

\* The job a dispatcher is about is one of its batch.
LEMMA MarkedInBatch ==
    ASSUME TypeOK, BatchOK, NEW d \in Dispatcher
    PROVE  /\ batch[d] # {} => Oldest(batch[d]) \in batch[d] /\ Oldest(batch[d]) \in Job
           /\ \A j : Marking(d, j) => j \in batch[d] /\ j \in Job
  BY OldestOfBatch DEF TypeOK, BatchOK, Marking

\* A job is enqueued once, so nothing was listed or delivered of it.
LEMMA EnqueueIInv == ASSUME IInv, NEW j \in Job, Enqueue(j) PROVE IInv'
  <1> USE DEF IInv, TypeOK, Enqueue
  <1>1. TypeOK'
    OBVIOUS
  <1>2. BatchOK'
    BY DEF BatchOK
  <1>3. AloneOK'
    BY DEF AloneOK
  <1>4. OnceOK'
    BY DEF OnceOK, Marking
  <1>5. TriedOK'
    BY DEF TriedOK, Marking
  <1> QED
    BY <1>1, <1>2, <1>3, <1>4, <1>5

\* The worker's handler has nothing to do with jobs.
LEMMA ProcessIInv == ASSUME IInv, NEW j \in Job, ProcessEvent(j) PROVE IInv'
  BY DEF IInv, TypeOK, ProcessEvent, BatchOK, AloneOK, OnceOK, TriedOK, Marking

\* What is listed is pending; what another has listed too has raced.
LEMMA ListIInv == ASSUME IInv, NEW d \in Dispatcher, ListPending(d) PROVE IInv'
  <1>1. PICK B \in SUBSET Listed :
          /\ batch' = [batch EXCEPT ![d] = B]
          /\ raced' = raced \union {j \in B : \E e \in Dispatcher : j \in batch[e]}
    BY DEF ListPending
  <1>2. B \subseteq Job /\ \A j \in B : job[j] = "pending"
    BY DEF Listed, Pending
  <1> USE <1>1, <1>2 DEF IInv, TypeOK, ListPending, Goto
  <1>3. TypeOK'
    OBVIOUS
  <1>4. BatchOK'
    BY DEF BatchOK
  <1>5. AloneOK'
    BY DEF AloneOK
  <1>6. OnceOK'
    BY DEF OnceOK, Marking
  <1>7. TriedOK'
    BY DEF TriedOK, Marking
  <1> QED
    BY <1>3, <1>4, <1>5, <1>6, <1>7

\* The delivery of a job that nobody else deals with is its first.
LEMMA DeliverIInv == ASSUME IInv, NEW d \in Dispatcher, Deliver(d) PROVE IInv'
  <1> DEFINE o == Oldest(batch[d])
  <1>1. o \in batch[d] /\ o \in Job
    BY MarkedInBatch DEF IInv, Deliver
  <1>2. \A e \in Dispatcher, j \in Job : Marking(e, j) => j \in batch[e]
    BY MarkedInBatch DEF IInv
  <1>3. deliveries' = [deliveries EXCEPT ![o] = deliveries[o] + 1]
    BY DEF Deliver
  <1> HIDE DEF o
  <1>4. \A e \in Dispatcher, j \in Job : Marking(e, j)' <=> Marking(e, j) \/ (e = d /\ j = o)
    BY DEF IInv, TypeOK, Deliver, Goto, Marking, o
  <1> USE <1>1, <1>2, <1>3, <1>4 DEF IInv, TypeOK, Deliver, Goto
  <1>5. TypeOK'
    OBVIOUS
  <1>6. BatchOK'
    BY DEF BatchOK
  <1>7. AloneOK'
    BY DEF AloneOK
  <1>8. OnceOK'
    BY DEF OnceOK, AloneOK, Marking
  <1>9. TriedOK'
    BY DEF TriedOK
  <1> QED
    BY <1>5, <1>6, <1>7, <1>8, <1>9

\* Without its delivery the job is marked too, and remembered as unsent.
LEMMA DeliverFailsIInv == ASSUME IInv, NEW d \in Dispatcher, DeliverFails(d) PROVE IInv'
  <1> DEFINE o == Oldest(batch[d])
  <1>1. o \in batch[d] /\ o \in Job
    BY MarkedInBatch DEF IInv, DeliverFails
  <1>3. unsent' = unsent \union {o}
    BY DEF DeliverFails
  <1> HIDE DEF o
  <1>4. \A e \in Dispatcher, j \in Job : Marking(e, j)' <=> Marking(e, j) \/ (e = d /\ j = o)
    BY DEF IInv, TypeOK, DeliverFails, Goto, Marking, o
  <1> USE <1>1, <1>3, <1>4, NotificationAssumption DEF IInv, TypeOK, DeliverFails, Goto
  <1>5. TypeOK'
    OBVIOUS
  <1>6. BatchOK'
    BY DEF BatchOK
  <1>7. AloneOK'
    BY DEF AloneOK
  <1>8. OnceOK'
    BY DEF OnceOK, AloneOK
  <1>9. TriedOK'
    BY DEF TriedOK
  <1> QED
    BY <1>5, <1>6, <1>7, <1>8, <1>9

\* What is left of a batch is marked later.
LEMMA NextJobMoves ==
    ASSUME TypeOK, BatchOK, NEW d \in Dispatcher, pc[d] = "marking", NextJob(d)
    PROVE  /\ Oldest(batch[d]) \in batch[d] /\ Oldest(batch[d]) \in Job
           /\ batch' \in [Dispatcher -> SUBSET Job]
           /\ pc' \in [Dispatcher -> {"idle", "delivering", "marking"}]
           /\ batch'[d] = batch[d] \ {Oldest(batch[d])}
           /\ \A e \in Dispatcher \ {d} : batch'[e] = batch[e] /\ pc'[e] = pc[e]
           /\ pc'[d] = "idle" => batch'[d] = {}
           /\ pc'[d] # "marking"
           /\ \A e \in Dispatcher, j \in Job : Marking(e, j)' <=> e # d /\ Marking(e, j)
           /\ \A j : Marking(d, j) <=> j = Oldest(batch[d])
  <1>1. Oldest(batch[d]) \in batch[d] /\ Oldest(batch[d]) \in Job
    BY MarkedInBatch DEF BatchOK
  <1> DEFINE o == Oldest(batch[d])
  <1>2. /\ batch' = [batch EXCEPT ![d] = batch[d] \ {o}]
        /\ pc' = [pc EXCEPT ![d] = IF batch[d] \ {o} = {} THEN "idle" ELSE "delivering"]
    BY DEF NextJob, Goto
  <1>3. \A j : Marking(d, j) <=> j = o
    BY DEF Marking
  <1> HIDE DEF o
  <1>4. \A e \in Dispatcher, j \in Job : Marking(e, j)' <=> e # d /\ Marking(e, j)
    BY <1>2 DEF TypeOK, Marking
  <1> QED
    BY <1>1, <1>2, <1>3, <1>4 DEF TypeOK, o

\* The job is dispatched and in no batch any more.
LEMMA MarkDispatchedIInv == ASSUME IInv, NEW d \in Dispatcher, MarkDispatched(d) PROVE IInv'
  <1> DEFINE o == Oldest(batch[d])
  <1>1. job' = [job EXCEPT ![o] = "dispatched"]
    BY DEF MarkDispatched
  <1> USE <1>1, NextJobMoves DEF IInv, MarkDispatched
  <1> HIDE DEF o
  <1>2. TypeOK'
    BY DEF TypeOK, o
  <1>3. BatchOK'
    BY DEF BatchOK, TypeOK, o
  <1>4. AloneOK'
    BY DEF AloneOK, TypeOK, o
  <1>5. OnceOK'
    BY DEF OnceOK, TypeOK, o
  <1>6. TriedOK'
    BY DEF TriedOK, TypeOK, o
  <1> QED
    BY <1>2, <1>3, <1>4, <1>5, <1>6

\* Without the UPDATE the job stays pending, and remembered as unmarked.
LEMMA MarkFailsIInv == ASSUME IInv, NEW d \in Dispatcher, MarkFails(d) PROVE IInv'
  <1> USE NextJobMoves, NotificationAssumption DEF IInv, MarkFails
  <1>2. TypeOK'
    BY DEF TypeOK
  <1>3. BatchOK'
    BY DEF BatchOK, TypeOK
  <1>4. AloneOK'
    BY DEF AloneOK, TypeOK
  <1>5. OnceOK'
    BY DEF OnceOK, TypeOK
  <1>6. TriedOK'
    BY DEF TriedOK, TypeOK
  <1> QED
    BY <1>2, <1>3, <1>4, <1>5, <1>6

\* A crash drops the batch; a job that it was about to mark is remembered.
LEMMA CrashIInv == ASSUME IInv, NEW d \in Dispatcher, Crash(d) PROVE IInv'
  <1>1. /\ batch' = [batch EXCEPT ![d] = {}]
        /\ pc' = [pc EXCEPT ![d] = "idle"]
    BY DEF Crash, Goto
  <1>2. \A e \in Dispatcher, j \in Job : Marking(e, j)' <=> e # d /\ Marking(e, j)
    BY <1>1 DEF Marking, IInv, TypeOK
  <1>3. /\ unmarked' \subseteq Job
        /\ unmarked \subseteq unmarked'
        /\ \A j : Marking(d, j) => j \in unmarked'
    BY MarkedInBatch DEF IInv, TypeOK, Crash, Marking, BatchOK
  <1> USE <1>1, <1>2, <1>3, NotificationAssumption DEF IInv, Crash
  <1>4. TypeOK'
    BY DEF TypeOK
  <1>5. BatchOK'
    BY DEF BatchOK, TypeOK
  <1>6. AloneOK'
    BY DEF AloneOK, TypeOK
  <1>7. OnceOK'
    BY DEF OnceOK, TypeOK
  <1>8. TriedOK'
    BY DEF TriedOK, TypeOK
  <1> QED
    BY <1>4, <1>5, <1>6, <1>7, <1>8

\* Jobs, batches and deliveries keep the invariant.
THEOREM Inductive == Spec => []IInv
  <1>1. Init => IInv
    BY NotificationAssumption
       DEF Init, IInv, TypeOK, BatchOK, AloneOK, OnceOK, TriedOK, Marking
  <1>2. IInv /\ [Next]_vars => IInv'
    <2> SUFFICES ASSUME IInv, [Next]_vars PROVE IInv'
      OBVIOUS
    <2>1. ASSUME NEW j \in Job, Enqueue(j) \/ ProcessEvent(j) PROVE IInv'
      BY <2>1, EnqueueIInv, ProcessIInv
    <2>2. ASSUME NEW d \in Dispatcher, DispatcherStep(d) PROVE IInv'
      BY <2>2, ListIInv, DeliverIInv, DeliverFailsIInv, MarkDispatchedIInv, MarkFailsIInv,
         CrashIInv DEF DispatcherStep
    <2>3. CASE UNCHANGED vars
      BY <2>3 DEF vars, IInv, TypeOK, BatchOK, AloneOK, OnceOK, TriedOK, Marking
    <2> QED
      BY <2>1, <2>2, <2>3 DEF Next
  <1> QED
    BY <1>1, <1>2, PTL DEF Spec

\* Jobs and events have the statuses that the code gives them.
THEOREM Typing == Spec => []TypeOK
  <1>1. IInv => TypeOK
    BY DEF IInv
  <1> QED
    BY <1>1, Inductive, PTL

\* A job that one dispatch has listed and marked is delivered once.
THEOREM OneDelivery == Spec => []DeliveredOnce
  <1>1. IInv => DeliveredOnce
    BY DEF IInv, OnceOK, DeliveredOnce
  <1> QED
    BY <1>1, Inductive, PTL

\* No job is taken off the list unsent.
THEOREM NoneUnsent == Spec => []DispatchedAfterDelivery
  <1>1. IInv => DispatchedAfterDelivery
    BY DEF IInv, TriedOK, DispatchedAfterDelivery
  <1> QED
    BY <1>1, Inductive, PTL
=============================================================================
