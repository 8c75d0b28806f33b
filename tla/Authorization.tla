--------------------------- MODULE Authorization ---------------------------
(***************************************************************************)
(* The verdict on one request (internal/authorization): the policy of its  *)
(* action, and what the checker asks of the actor's effective access.      *)
(*                                                                         *)
(* Names are compared without case in the code; here they are values.  The *)
(* checker compares the company and the membership of the subject with     *)
(* those of the access, which was resolved for that very subject.          *)
(***************************************************************************)

CONSTANTS
    Absent,   \* an attribute of a resource that the caller does not send
    Matrix    \* the rows of action_policy_matrix that apply to the company

\* What each action asks for when the matrix has no row for it.  "admin" stands
\* for the admin.* actions but one, "web_admin" for the question hasPermission
\* asks of the access itself; the callers modelled here ask for no others.
LegacyPermission(action) ==
    CASE action \in {"admin", "admin.membership.create", "web_admin"} -> "rbac.manage"
      [] action = "workflow.create"  -> "deadline.create"
      [] action = "workflow.review"  -> "deadline.assign"
      [] action = "workflow.confirm" -> "workflow.step.confirm"
      [] OTHER                       -> "system.settings"

LegacyPolicy(action) ==
    [action |-> action, permission |-> LegacyPermission(action),
     scope |-> {"*"}, states |-> {"*"}, actors |-> {"*"}]

\* GetActionPolicy.
Policy(action) ==
    IF \E row \in Matrix : row.action = action
    THEN CHOOSE row \in Matrix : row.action = action
    ELSE LegacyPolicy(action)

\* evalScope: one part of the policy suffices, and company-wide access always.
InScope(resource, access, policy) ==
    \/ "company_wide_access" \in access.permissions
    \/ policy.scope = {}
    \/ "*" \in policy.scope
    \/ "assigned_only" \in policy.scope /\ resource.id \in access.assigned
    \/ "owner_only" \in policy.scope /\ resource.owner = access.membership
    \/ "org_unit_self" \in policy.scope /\ resource.unit \in access.units
    \/ "org_unit_subtree" \in policy.scope /\ resource.unit \in access.subtree
    \/ /\ policy.scope \intersect {"org_unit_self", "org_unit_subtree"} # {}
       /\ resource.department \in access.departments

\* evalWorkflowState: a resource without a state is in every one.
InState(resource, policy) ==
    \/ policy.states = {}
    \/ "*" \in policy.states
    \/ resource.state \in policy.states \union {Absent}

\* evalEligibleActor.
Eligible(access, policy) ==
    \/ policy.actors = {}
    \/ "*" \in policy.actors
    \/ policy.actors \intersect (access.positions \union access.responsibilities) # {}

\* Whether the name of the action contains "approve".
Approves(action) == action \in {"workflow.approve", "disclosure.approve"}

\* Check.
Allowed(action, resource, access) ==
    LET policy == Policy(action) IN
        /\ policy.permission \in access.permissions
        /\ InScope(resource, access, policy)
        /\ InState(resource, policy)
        /\ Eligible(access, policy)
        /\ Approves(action) => "workflow_approver:disclosure" \in access.responsibilities
=============================================================================
