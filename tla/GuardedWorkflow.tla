-------------------------- MODULE GuardedWorkflow --------------------------
(***************************************************************************)
(* The workflow and the administration of access in one API process: both  *)
(* are authorized through the same cache, and the one changes what the     *)
(* other is allowed.  A handler serves one request after the other, of     *)
(* either kind.                                                            *)
(***************************************************************************)
EXTENDS Workflow, CompanyAccess

CONSTANTS
    Seeded,                         \* memberships that are there at the start
    HeldAtStart, GrantedAtStart     \* and the bindings

ASSUME SeedAssumption ==
    /\ Seeded \subseteq Membership
    /\ HeldAtStart \subseteq Seeded \X (Role \union Title \union Department)
    /\ GrantedAtStart \subseteq Role \X Permission
    /\ \A m, n \in Seeded : m # n => <<UserOf[m], CompanyOf[m]>> # <<UserOf[n], CompanyOf[n]>>

vars == <<accessVars, workflow, company>>

\* Who is there has held what he holds for long, and nothing is cached.
Init ==
    /\ row = [m \in Membership |-> IF m \in Seeded THEN "there" ELSE "none"]
    /\ held = HeldAtStart
    /\ granted = GrantedAtStart
    /\ since = [m \in Membership |-> [x \in Right |-> TTL + 1]]
    /\ cache = [m \in Membership |-> NoEntry]
    /\ pc = [h \in Handler |-> "idle"]
    /\ req = [h \in Handler |-> NoRequest]
    /\ view = [h \in Handler |-> Nothing]
    /\ created = {}
    /\ status = [i \in Instance |-> "none"]
    /\ assignee = [i \in Instance |-> Absent]
    /\ users = {UserOf[m] : m \in Seeded}
    /\ rules = {}
    /\ edits = 0

Next ==
    \/ \E h \in Handler :
          \/ Authorize(h) /\ UNCHANGED <<workflow, company>>
          \/ EndRequest(h) /\ UNCHANGED <<workflow, company>>
          \/ RunWorkflow(h) /\ UNCHANGED company
          \/ Administer(h) /\ UNCHANGED workflow
    \/ \E m \in Membership : Forget(m) /\ UNCHANGED <<workflow, company>>
    \/ Tick /\ UNCHANGED <<workflow, company>>

Spec == Init /\ [][Next]_vars

Question ==
    [action : Decision \union {"workflow.create", "admin", "admin.membership.create", "web_admin"},
     actor  : Membership,
     about  : [id : Instance \union {Absent}, state : Status \union {"draft", Absent},
               assignee : Membership \union {Absent}, owner : {Absent}, unit : {Absent},
               department : {Absent}]]

\* The tables, the cache, the requests and the tasks have their types; a binding
\* belongs to a membership that is there, a membership to a user and once to him in
\* a company, a task to an instance, and a handler that is not idle has a question.
TypeOK ==
    /\ AccessTypeOK
    /\ WorkflowTypeOK
    /\ CompanyTypeOK
    /\ req \in [Handler -> Question \union {NoRequest}]
    /\ \A h \in Handler : pc[h] # "idle" => req[h] \in Question
=============================================================================
