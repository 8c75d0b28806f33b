--------------------------- MODULE CompanyAccess ---------------------------
(***************************************************************************)
(* The administration of a company's access (internal/companyaccess):      *)
(* memberships, the roles and titles they hold, the permissions of roles.  *)
(* Each request first asks for the right to administer, by the same cache. *)
(* The status of a membership is left to IamSession: no query here reads   *)
(* it, so a membership that was made inactive keeps its rights.            *)
(*                                                                         *)
(* The SELECTs in front of an INSERT are no steps: the foreign keys check  *)
(* the same again.                                                         *)
(***************************************************************************)
EXTENDS EffectiveAccess

CONSTANTS
    User, Company,
    UserOf, CompanyOf,  \* of each membership, there or to be created
    PlacedIn,           \* the company of a role, title or department, or Absent
    Rule,               \* the table, company and code of a rule: its key
    MaxEdits            \* bound: statements that change a table; then nobody asks

ASSUME CompanyAssumption ==
    /\ UserOf \in [Membership -> User]
    /\ CompanyOf \in [Membership -> Company]
    /\ PlacedIn \in [Role \union Title \union Department -> Company \union {Absent}]
    /\ MaxEdits \in Nat

VARIABLES
    users,   \* table users, and the credentials with it
    rules,   \* resource_scope_rules, workflow_assignee_rules, notification_rules
    edits

company == <<users, rules, edits>>

CompanyTypeOK ==
    /\ users \in SUBSET User
    /\ \A m \in Membership : row[m] = "there" => UserOf[m] \in users
    /\ \A m, n \in Membership : row[m] = "there" /\ row[n] = "there" /\ m # n =>
          <<UserOf[m], CompanyOf[m]>> # <<UserOf[n], CompanyOf[n]>>
    /\ rules \in SUBSET Rule
    /\ edits \in 0 .. MaxEdits

\* The handler takes the subject from the token and asks.
AdminAsks(h, m, action) ==
    /\ edits < MaxEdits
    /\ Asks(h, action, m, Resource(Absent, Absent, Absent))
    /\ UNCHANGED <<tables, since, cache, view, company>>

\* The statement that changes a table, and the answer.
Edits(h) ==
    /\ edits < MaxEdits
    /\ edits' = edits + 1
    /\ Over(h)
    /\ UNCHANGED cache

AdminEdits(h) ==
    /\ Permitted(h, {"admin"})
    /\ Edits(h)
    /\ UNCHANGED <<users, rules>>

-----------------------------------------------------------------------------
(* Users and memberships.                                                  *)

\* The unique key of memberships, and its foreign key.
Insertable(m, there) ==
    /\ row[m] = "none"
    /\ UserOf[m] \in there
    /\ ~\E n \in Membership : /\ row[n] = "there"
                             /\ UserOf[n] = UserOf[m] /\ CompanyOf[n] = CompanyOf[m]

\* Under a new id.
CreateMembership(h, m) ==
    /\ Permitted(h, {"admin.membership.create"})
    /\ Insertable(m, users)
    /\ row' = [row EXCEPT ![m] = "there"]
    /\ UNCHANGED <<held, granted, users, rules>>
    /\ Edits(h) /\ Remember

\* CreateUser resolves the access once more, to tell a web administrator from
\* an administrator of the company.
AskWebAdmin(h) ==
    /\ Permitted(h, {"admin.membership.create"})
    /\ pc' = [pc EXCEPT ![h] = "asked"]
    /\ req' = [req EXCEPT ![h].action = "web_admin"]
    /\ UNCHANGED <<tables, since, cache, view, company>>

WebAdmin(h) == Permitted(h, {"web_admin"})

\* Not being one is no reason to end the request.
Answered(h) == pc[h] \in {"permitted", "denied"} /\ req[h].action = "web_admin"

\* One transaction with the membership; an administrator of the company has no
\* choice of the company.
CreateUser(h, m) ==
    /\ Answered(h)
    /\ WebAdmin(h) \/ CompanyOf[m] = CompanyOf[req[h].actor]
    /\ UserOf[m] \notin users
    /\ Insertable(m, {UserOf[m]})
    /\ users' = users \union {UserOf[m]}
    /\ row' = [row EXCEPT ![m] = "there"]
    /\ UNCHANGED <<held, granted, rules>>
    /\ Edits(h) /\ Remember

\* A web administrator may leave the company out.
CreateUserAlone(h, u) ==
    /\ Answered(h) /\ WebAdmin(h)
    /\ u \notin users
    /\ users' = users \union {u}
    /\ UNCHANGED <<tables, rules, since>>
    /\ Edits(h)

\* One transaction; a foreign key refuses it for a membership placed in a unit.
DeleteMembership(h, m) ==
    /\ row[m] = "there" /\ Standing[m].units = {}
    /\ row' = [row EXCEPT ![m] = "deleted"]
    /\ held' = {b \in held : b[1] # m}
    /\ UNCHANGED granted
    /\ AdminEdits(h) /\ Remember

\* A slip to rule out: without the foreign key.
BindAnyone(h, m, x) ==
    /\ held' = held \union {<<m, x>>}
    /\ UNCHANGED <<row, granted>>
    /\ AdminEdits(h) /\ Remember

\* What is bound to a membership is of its company; a role may be of none.
OfCompany(x, m) == PlacedIn[x] \in {Absent, CompanyOf[m]}

\* INSERT ... ON DUPLICATE KEY UPDATE, for a membership that is still there.
Bind(h, m, x) ==
    /\ row[m] = "there"
    /\ OfCompany(x, m)
    /\ held' = held \union {<<m, x>>}
    /\ UNCHANGED <<row, granted>>
    /\ AdminEdits(h) /\ Remember

\* DELETE, when there is such a row.
Unbind(h, m, x) ==
    /\ <<m, x>> \in held
    /\ held' = held \ {<<m, x>>}
    /\ UNCHANGED <<row, granted>>
    /\ AdminEdits(h) /\ Remember

-----------------------------------------------------------------------------
(* What a membership holds, what a role grants, and the rules.             *)

AssignRole(h, m, ro) == Bind(h, m, ro)
RemoveRole(h, m, ro) == Unbind(h, m, ro)
AssignTitle(h, m, t) == Bind(h, m, t)
RemoveTitle(h, m, t) == Unbind(h, m, t)

AssignDepartment(h, m, d) == Bind(h, m, d)
RemoveDepartment(h, m, d) == Unbind(h, m, d)

AssignRolePermission(h, ro, p) ==
    /\ granted' = granted \union {<<ro, p>>}
    /\ UNCHANGED <<row, held>>
    /\ AdminEdits(h) /\ Remember

RemoveRolePermission(h, ro, p) ==
    /\ <<ro, p>> \in granted
    /\ granted' = granted \ {<<ro, p>>}
    /\ UNCHANGED <<row, held>>
    /\ AdminEdits(h) /\ Remember

\* AddResourceScopeRule, AddWorkflowAssigneeRule and AddNotificationRule: a rule
\* under a code that its company does not have.  No query reads one.
CreateRule(h, x) ==
    /\ Permitted(h, {"admin"})
    /\ x \notin rules
    /\ rules' = rules \union {x}
    /\ UNCHANGED <<tables, since, users>>
    /\ Edits(h)

Administer(h) ==
    \/ \E m \in Membership :
          \/ \E action \in {"admin", "admin.membership.create"} : AdminAsks(h, m, action)
          \/ CreateMembership(h, m)
          \/ CreateUser(h, m)
          \/ DeleteMembership(h, m)
          \/ \E ro \in Role : AssignRole(h, m, ro) \/ RemoveRole(h, m, ro)
          \/ \E t \in Title : AssignTitle(h, m, t) \/ RemoveTitle(h, m, t)
          \/ \E d \in Department : AssignDepartment(h, m, d) \/ RemoveDepartment(h, m, d)
    \/ AskWebAdmin(h)
    \/ \E u \in User : CreateUserAlone(h, u)
    \/ \E ro \in Role, p \in Permission :
          AssignRolePermission(h, ro, p) \/ RemoveRolePermission(h, ro, p)
    \/ \E x \in Rule : CreateRule(h, x)
=============================================================================
