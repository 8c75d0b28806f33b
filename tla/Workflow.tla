------------------------------ MODULE Workflow ------------------------------
(***************************************************************************)
(* Workflow instances and their tasks (internal/workflow): creation, and   *)
(* the decisions review, approve and confirm on a pending task, each after *)
(* it was authorized.                                                      *)
(*                                                                         *)
(* Creation is two INSERTs, the error of the second dropped.  A decision   *)
(* reads the task, is authorized, checks what it read and writes the       *)
(* status by task id; the UPDATE does not look at the status again.        *)
(***************************************************************************)
EXTENDS EffectiveAccess

CONSTANT Instance   \* workflow instances; each has at most the task made with it

\* The actions that decide a task, and the status each writes.
Outcome == [a \in {"workflow.review", "workflow.approve", "workflow.confirm"} |->
               CASE a = "workflow.review"  -> "reviewed"
                 [] a = "workflow.approve" -> "approved"
                 [] a = "workflow.confirm" -> "confirmed"]
Decision == DOMAIN Outcome

Status == {"none", "pending", "reviewed", "approved", "confirmed"}

VARIABLES
    created,    \* rows of workflow_instances
    status,     \* of the task of each instance
    assignee    \* of it

workflow == <<created, status, assignee>>

\* A task has a status of the code and, once it is there, an assignee.
WorkflowTypeOK ==
    /\ created \in SUBSET Instance
    /\ status \in [Instance -> Status]
    /\ assignee \in [Instance -> Membership \union {Absent}]
    /\ \A i \in Instance :
          /\ status[i] = "none" <=> assignee[i] = Absent
          /\ status[i] # "none" => i \in created

-----------------------------------------------------------------------------
(* CreateWorkflowInstance.                                                 *)

AskCreate(h, m) ==
    /\ Asks(h, "workflow.create", m, Resource(Absent, "draft", Absent))
    /\ UNCHANGED <<tables, since, cache, view, workflow>>

\* Under a new id, which the request remembers.
InsertInstance(h, i) ==
    /\ Permitted(h, {"workflow.create"})
    /\ i \notin created
    /\ created' = created \union {i}
    /\ pc' = [pc EXCEPT ![h] = "inserted"]
    /\ req' = [req EXCEPT ![h].about.id = i]
    /\ UNCHANGED <<tables, since, cache, view, status, assignee>>

\* A slip to rule out: the step code in the place of the status.
InsertTaskByStep(h) ==
    /\ pc[h] = "inserted"
    /\ status' = [status EXCEPT ![req[h].about.id] = "review"]
    /\ assignee' = [assignee EXCEPT ![req[h].about.id] = req[h].actor]
    /\ Over(h)
    /\ UNCHANGED <<tables, since, cache, created>>

\* The first task goes to the membership that asks.  When the INSERT fails the
\* request is answered 201 all the same (EndRequest).
InsertTask(h) ==
    /\ pc[h] = "inserted"
    /\ status' = [status EXCEPT ![req[h].about.id] = "pending"]
    /\ assignee' = [assignee EXCEPT ![req[h].about.id] = req[h].actor]
    /\ Over(h)
    /\ UNCHANGED <<tables, since, cache, created>>

-----------------------------------------------------------------------------
(* transitionTask.                                                         *)

\* FindTask: the request goes on with the task as it is now.
FindTask(h, m, action, i) ==
    /\ status[i] # "none"
    /\ Asks(h, action, m, Resource(i, status[i], assignee[i]))
    /\ UNCHANGED <<tables, since, cache, view, workflow>>

\* A slip to rule out: a decided task may be decided anew.
AnyTask(task, m) == task.assignee = m

\* The assignee may decide a pending task; others are refused (EndRequest).
Decidable(task, m) == task.assignee = m /\ task.state = "pending"

\* UpdateTask writes the decision, whatever the task has become in the meantime.
UpdateTask(h) ==
    /\ Permitted(h, Decision)
    /\ Decidable(req[h].about, req[h].actor)
    /\ status' = [status EXCEPT ![req[h].about.id] = Outcome[req[h].action]]
    /\ Over(h)
    /\ UNCHANGED <<tables, since, cache, created, assignee>>

RunWorkflow(h) ==
    \/ \E m \in Membership :
          \/ AskCreate(h, m)
          \/ \E i \in Instance, action \in Decision : FindTask(h, m, action, i)
    \/ \E i \in Instance : InsertInstance(h, i)
    \/ InsertTask(h)
    \/ UpdateTask(h)

-----------------------------------------------------------------------------
(* Properties.                                                             *)

\* A task that was decided changes only by a decision that had read it pending
\* before: UpdateTask has no status in its WHERE clause, so of two that did the
\* last one stands, but no later request decides it anew (transitionTask).
DecisionsStandUnlessRaced ==
    [][\A i \in Instance :
          status[i] \notin {"none", "pending"} /\ status'[i] # status[i] =>
              \E h \in Handler :
                  /\ pc[h] = "permitted" /\ pc'[h] = "idle"
                  /\ req[h].action \in Decision
                  /\ req[h].about.id = i /\ req[h].about.state = "pending"]_workflow
=============================================================================
