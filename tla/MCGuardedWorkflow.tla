------------------------- MODULE MCGuardedWorkflow -------------------------
(* Instances of GuardedWorkflow for TLC. *)
EXTENDS GuardedWorkflow, TLC

CONSTANTS a, m, n, ro, t, tt, d, i1, h1, h2, u1, u2, co1, co2, x1

ThreeMemberships == {a, m, n}
AMember        == {a}
OneRole        == {ro}
TwoTitles      == {t, tt}
OneDepartment  == {d}
OneRule        == {x1}
TwoUsers       == {u1, u2}
TwoCompanies   == {co1, co2}
OneInstance    == {i1}
TwoHandlers    == {h1, h2}

SomePermissions == {"rbac.manage", "deadline.create"}

\* There is one member.  Of the memberships to be created one would be his in another
\* company, one a new user's in his company.
Users     == [x \in Membership |-> IF x = n THEN u2 ELSE u1]
Companies == [x \in Membership |-> IF x = m THEN co2 ELSE co1]

\* The member's role has every permission, and of two titles he has one, so that with
\* one statement he can get a right or lose one.
Held    == {<<a, ro>>, <<a, tt>>, <<a, d>>}
Granted == {ro} \X SomePermissions

\* The role is of no company, the title and the department are of the member's.
Places == [x \in Role \union Title \union Department |-> IF x \in Role THEN Absent ELSE co1]

\* Rows of the matrix, in which one permission stands for several: the decisions ask
\* for the permission to create.  A review is for holders of the title the
\* member lacks, of a pending task that the table assignments gives them, to confirm
\* is for holders of the other one, and nobody may approve.  Memberships
\* are created by who is no web administrator, too.
Row(action, scope, states, actors) ==
    [action |-> action, permission |-> "deadline.create",
     scope |-> scope, states |-> states, actors |-> actors]

SomeRows ==
    {Row("workflow.review", {"owner_only", "assigned_only"}, {"pending"}, {t}),
     Row("workflow.confirm", {"*"}, {"*"}, {tt}),
     Row("admin.membership.create", {"*"}, {"*"}, {"*"})}

OneStanding ==
    [x \in Membership |-> [assigned |-> {i1}, units |-> {}, subtree |-> {},
                           responsibilities |-> {}]]

Symmetry == Permutations(Handler)
=============================================================================
