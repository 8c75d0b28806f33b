------------------------------ MODULE EventLife -----------------------------
(***************************************************************************)
(* What the outbox promises about one event, whatever the number of        *)
(* workers and whatever happens to them: the handler is run by one worker  *)
(* at a time, an answer is recorded at most once and before the next run,  *)
(* a failure costs one of MaxRetries tries, a success is final.  It also   *)
(* says what is not promised: an event may be lost at any point after it   *)
(* was taken.  Outbox implements this specification.                       *)
(***************************************************************************)
EXTENDS Naturals

CONSTANTS Event, Handled, MaxRetries

VARIABLES
    life,   \* where the event is in its life
    tries   \* failed handler calls recorded so far

lifeVars == <<life, tries>>

Finished == {"processed", "failed_permanent", "absent"}

Init ==
    /\ life = [e \in Event |-> "absent"]
    /\ tries = [e \in Event |-> 0]

Submit(e) ==
    /\ life[e] \in Finished
    /\ life' = [life EXCEPT ![e] = "pending"]
    /\ tries' = [tries EXCEPT ![e] = 0]

\* A batch of waiting events is taken at once.
Take(S) ==
    /\ \A e \in S : life[e] = "pending"
    /\ life' = [e \in Event |-> IF e \in S THEN "taken" ELSE life[e]]
    /\ UNCHANGED tries

\* The handler, if there is one, is called; without one there is nothing to do.
Run(e) ==
    /\ life[e] = "taken"
    /\ life' = [life EXCEPT ![e] = IF e \in Handled THEN "running" ELSE "succeeded"]
    /\ UNCHANGED tries

Answer(e) ==
    /\ life[e] = "running"
    /\ \E a \in {"succeeded", "failed"} : life' = [life EXCEPT ![e] = a]
    /\ UNCHANGED tries

RecordSuccess(e) ==
    /\ life[e] = "succeeded"
    /\ life' = [life EXCEPT ![e] = "processed"]
    /\ UNCHANGED tries

RecordFailure(e) ==
    /\ life[e] = "failed"
    /\ \/ /\ tries[e] + 1 < MaxRetries
          /\ life' = [life EXCEPT ![e] = "pending"]
          /\ tries' = [tries EXCEPT ![e] = @ + 1]
       \/ /\ tries[e] + 1 >= MaxRetries
          /\ life' = [life EXCEPT ![e] = "failed_permanent"]
          /\ UNCHANGED tries

\* Nothing is ever heard again of the events of S.
Lose(S) ==
    /\ \A e \in S : life[e] \notin Finished
    /\ life' = [e \in Event |-> IF e \in S THEN "lost" ELSE life[e]]
    /\ UNCHANGED tries

Next ==
    \/ \E e \in Event :
          Submit(e) \/ Run(e) \/ Answer(e) \/ RecordSuccess(e) \/ RecordFailure(e)
    \/ \E S \in SUBSET Event : Take(S) \/ Lose(S)

Spec == Init /\ [][Next]_lifeVars
=============================================================================
