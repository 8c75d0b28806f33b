---------------------------- MODULE AccessProofs ----------------------------
(***************************************************************************)
(* Theorems about GuardedWorkflow for any memberships, roles, rules of the *)
(* matrix, handlers and time to live.                                      *)
(*                                                                         *)
(* The rights: an entry of the cache differs from the tables in rights     *)
(* only that changed since the entry was read, which is what since counts; *)
(* a view that a handler is still reading, in those that changed since the *)
(* last tick.  The tasks: a request that decides has found its task, and   *)
(* one that creates has its instance for itself.                           *)
(***************************************************************************)
EXTENDS GuardedWorkflow, TLAPS

Rights(s) == s.permissions \union s.positions

\* Whether a summary of m that is so many ticks old may be explained by the tables.
MoreIsRecent(m, rights, age) == \A x \in rights : x \in RightsOf(m) \/ since[m][x] <= age
LessIsRecent(m, rights, age, kind) ==
    \A x \in kind : x \in RightsOf(m) /\ since[m][x] > age => x \in rights

EntryFits(m) ==
    cache[m] # NoEntry =>
        /\ MoreIsRecent(m, Rights(cache[m].summary), cache[m].age)
        /\ LessIsRecent(m, Rights(cache[m].summary), cache[m].age, Right)

CacheOK == \A m \in Membership : EntryFits(m)

\* The permissions are read first and the titles next; before and after there is no view.
ViewFits(h) ==
    /\ pc[h] \notin {"resolving", "resolved"} => view[h] = Nothing
    /\ pc[h] = "resolving" => view[h].positions = {}
    /\ pc[h] \in {"resolving", "resolved"} =>
          /\ MoreIsRecent(req[h].actor, Rights(view[h]), 0)
          /\ LessIsRecent(req[h].actor, Rights(view[h]), 0, Permission)
    /\ pc[h] = "resolved" => LessIsRecent(req[h].actor, Rights(view[h]), 0, Title)

ViewsOK == \A h \in Handler : ViewFits(h)

\* A task that is found stays, and an instance waits for its task of one request.
HasTask(h) ==
    pc[h] # "idle" /\ req[h].action \in Decision =>
        req[h].about.id \in Instance /\ status[req[h].about.id] # "none"

HasInstance(h) ==
    pc[h] = "inserted" =>
        /\ req[h].action = "workflow.create"
        /\ req[h].about.id \in created /\ status[req[h].about.id] = "none"
        /\ \A g \in Handler \ {h} : pc[g] = "inserted" => req[g].about.id # req[h].about.id

TasksOK == \A h \in Handler : HasTask(h) /\ HasInstance(h)

IInv ==
    /\ TypeOK
    /\ CacheOK
    /\ ViewsOK
    /\ TasksOK
-----------------------------------------------------------------------------
(* The operators.                                                          *)

\* The checker never denies for one right more: with more permissions and titles it
\* allows what it allowed, about anything that names no department.
LEMMA MoreRights ==
    ASSUME NEW action, NEW about, about.department = Absent, NEW m \in Membership,
           NEW s \in Summary, NEW t \in Summary,
           s.permissions \subseteq t.permissions, s.positions \subseteq t.positions,
           Allowed(action, about, Access(m, s))
    PROVE  Allowed(action, about, Access(m, t))
  <1> DEFINE policy == Policy(action)
  <1>1. about.department \notin s.departments
    BY AccessAssumption DEF Summary
  <1>2. InScope(about, Access(m, s), policy) => InScope(about, Access(m, t), policy)
    BY <1>1 DEF InScope, Access
  <1>3. Eligible(Access(m, s), policy) => Eligible(Access(m, t), policy)
    BY DEF Eligible, Access
  <1>4. /\ policy.permission \in Access(m, t).permissions
        /\ Approves(action) =>
              "workflow_approver:disclosure" \in Access(m, t).responsibilities
    BY DEF Allowed, Access
  <1> QED
    BY <1>2, <1>3, <1>4 DEF Allowed

\* What a summary lists are rights.
LEMMA RightsAreRights ==
    ASSUME NEW s \in Summary
    PROVE  /\ Rights(s) \subseteq Right
           /\ s.permissions = Rights(s) \intersect Permission
           /\ s.positions = Rights(s) \intersect Title
  BY AccessAssumption DEF Summary, Rights, Right

\* A clock is set back when its right changes, and only then.
LEMMA Recalled ==
    ASSUME Remember, NEW m \in Membership, NEW x \in Right
    PROVE  \/ since'[m][x] = since[m][x] /\ (x \in RightsOf(m) <=> x \in RightsOf(m)')
           \/ since'[m][x] = 0
  BY DEF Remember

\* The rights come from the tables.
LEMMA SameTables ==
    ASSUME UNCHANGED tables, NEW m \in Membership PROVE RightsOf(m)' = RightsOf(m)
  BY DEF tables, RightsOf, PermissionsOf, PositionsOf

\* A request to the administration asks, or asks again, or changes tables and ends.
LEMMA AdminSteps ==
    ASSUME NEW h \in Handler, Administer(h)
    PROVE  \/ \E m \in Membership, action \in {"admin", "admin.membership.create"} :
                 AdminAsks(h, m, action)
           \/ AskWebAdmin(h)
           \/ /\ Over(h) /\ UNCHANGED cache /\ pc[h] \in {"permitted", "denied"}
              /\ Remember \/ UNCHANGED <<tables, since>>
  BY DEF Administer, CreateMembership, CreateUser, DeleteMembership, AssignRole, RemoveRole,
     AssignTitle, RemoveTitle, AssignDepartment, RemoveDepartment, Bind, Unbind,
     CreateUserAlone, AssignRolePermission, RemoveRolePermission, CreateRule, AdminEdits,
     Edits, Answered, Permitted

-----------------------------------------------------------------------------
(* Initially.                                                              *)

\* Nothing is cached and nobody asks.
LEMMA InitIInv == Init => IInv
  <1> SUFFICES ASSUME Init PROVE IInv
    OBVIOUS
  <1> USE AccessAssumption, CompanyAssumption, SeedAssumption DEF Init
  <1>1. AccessTypeOK
    BY DEF AccessTypeOK, Summary, Nothing
  <1>2. WorkflowTypeOK
    BY DEF WorkflowTypeOK, Status
  <1>3. CompanyTypeOK
    BY DEF CompanyTypeOK
  <1>4. TypeOK
    BY <1>1, <1>2, <1>3 DEF TypeOK
  <1>5. CacheOK /\ ViewsOK /\ TasksOK
    BY DEF CacheOK, EntryFits, ViewsOK, ViewFits, TasksOK, HasTask, HasInstance
  <1> QED
    BY <1>4, <1>5 DEF IInv

-----------------------------------------------------------------------------
(* Each step keeps the invariant.                                          *)

\* What one step does to the cache and to the clocks of the rights.
LEMMA CacheMoves ==
    ASSUME Next
    PROVE  \/ UNCHANGED <<tables, since, cache>>
           \/ Remember /\ UNCHANGED cache
           \/ \E h \in Handler : StoreAndDecide(h)
           \/ \E m \in Membership : Forget(m)
           \/ Tick
  <1>1. ASSUME NEW h \in Handler, Authorize(h)
        PROVE  UNCHANGED <<tables, since, cache>> \/ StoreAndDecide(h)
    BY <1>1 DEF Authorize, DecideFromCache, ReadPermissions, ReadPositions
  <1>2. ASSUME NEW h \in Handler, EndRequest(h) \/ RunWorkflow(h)
        PROVE  UNCHANGED <<tables, since, cache>>
    BY <1>2 DEF EndRequest, RunWorkflow, AskCreate, FindTask, InsertInstance, InsertTask, UpdateTask
  <1>3. ASSUME NEW h \in Handler, Administer(h)
        PROVE  UNCHANGED <<tables, since, cache>> \/ (Remember /\ UNCHANGED cache)
    BY <1>3, AdminSteps DEF AdminAsks, AskWebAdmin
  <1> QED
    BY <1>1, <1>2, <1>3 DEF Next

\* An entry grows old as fast as the clocks of the rights, and a new one is as recent
\* as the view it is made from.
LEMMA CacheStep == IInv /\ Next => CacheOK'
  <1> SUFFICES ASSUME IInv, Next, NEW m \in Membership PROVE EntryFits(m)'
    BY DEF CacheOK
  <1>0. /\ EntryFits(m) /\ TTL \in Nat
        /\ cache[m] = NoEntry \/ cache[m] \in [age : 0 .. TTL, summary : Summary]
        /\ \A x \in Right : since[m][x] \in 0 .. (TTL + 1)
        /\ cache[m] # NoEntry => Rights(cache[m].summary) \subseteq Right
    BY AccessAssumption, RightsAreRights DEF IInv, TypeOK, CacheOK, AccessTypeOK, Entry
  <1>1. CASE UNCHANGED <<tables, since, cache>>
    BY <1>0, <1>1, SameTables DEF EntryFits, MoreIsRecent, LessIsRecent
  <1>2. CASE Remember /\ UNCHANGED cache
    BY <1>0, <1>2, Recalled DEF EntryFits, MoreIsRecent, LessIsRecent
  <1>3. ASSUME NEW h \in Handler, StoreAndDecide(h) PROVE EntryFits(m)'
    <2>1. UNCHANGED since /\ RightsOf(m)' = RightsOf(m)
      BY <1>3, SameTables DEF StoreAndDecide
    <2>2. CASE m = req[h].actor
      <3>1. /\ MoreIsRecent(m, Rights(view[h]), 0)
            /\ LessIsRecent(m, Rights(view[h]), 0, Permission)
            /\ LessIsRecent(m, Rights(view[h]), 0, Title)
        BY <1>3, <2>2 DEF StoreAndDecide, IInv, ViewsOK, ViewFits
      <3>2. LessIsRecent(m, Rights(view[h]), 0, Right)
        BY <3>1 DEF LessIsRecent, Right
      <3>3. cache'[m] = [age |-> 0, summary |-> view[h]]
        BY <1>3, <2>2 DEF StoreAndDecide, IInv, TypeOK, AccessTypeOK
      <3> QED
        BY <2>1, <3>1, <3>2, <3>3 DEF EntryFits, MoreIsRecent, LessIsRecent
    <2>3. CASE m # req[h].actor
      <3>1. cache'[m] = cache[m]
        BY <1>3, <2>3 DEF StoreAndDecide
      <3> QED
        BY <1>0, <2>1, <3>1 DEF EntryFits, MoreIsRecent, LessIsRecent
    <2> QED
      BY <2>2, <2>3
  <1>4. ASSUME NEW n \in Membership, Forget(n) PROVE EntryFits(m)'
    <2>1. UNCHANGED since /\ RightsOf(m)' = RightsOf(m)
      BY <1>4, SameTables DEF Forget
    <2>2. cache'[m] = NoEntry \/ cache'[m] = cache[m]
      BY <1>4 DEF Forget
    <2> QED
      BY <1>0, <2>1, <2>2 DEF EntryFits, MoreIsRecent, LessIsRecent
  <1>5. CASE Tick
    <2>1. RightsOf(m)' = RightsOf(m)
      BY <1>5, SameTables DEF Tick
    <2>2. \A x \in Right : since'[m][x] = IF since[m][x] > TTL THEN since[m][x] ELSE since[m][x] + 1
      BY <1>5 DEF Tick
    <2>3. \/ cache'[m] = NoEntry
          \/ /\ cache[m] # NoEntry /\ cache[m].age < TTL
             /\ cache'[m] = [cache[m] EXCEPT !.age = @ + 1]
      BY <1>0, <1>5 DEF Tick, Expires
    <2>4. cache'[m] # NoEntry =>
             cache[m] # NoEntry /\ cache[m].age < TTL /\ cache'[m].age = cache[m].age + 1
                /\ cache'[m].summary = cache[m].summary
      BY <1>0, <2>3
    <2> QED
      BY <1>0, <2>1, <2>2, <2>4 DEF EntryFits, MoreIsRecent, LessIsRecent
  <1> QED
    BY <1>1, <1>2, <1>3, <1>4, <1>5, CacheMoves

\* A step of h is no step of another handler.
Alone(h) == \A g \in Handler \ {h} : pc'[g] = pc[g] /\ req'[g] = req[g] /\ view'[g] = view[g]

\* Whoever changes a table reads none at that time, and no resolver sees a tick.
LEMMA ViewMoves ==
    ASSUME IInv, Next
    PROVE  \/ UNCHANGED <<tables, since, pc, req, view>>
           \/ Tick
           \/ \E h \in Handler :
                 /\ Alone(h)
                 /\ \/ ReadPermissions(h)
                    \/ ReadPositions(h)
                    \/ /\ pc'[h] \notin {"resolving", "resolved"} /\ view'[h] = Nothing
                       /\ Remember \/ UNCHANGED <<tables, since>>
  <1>0. /\ DOMAIN pc = Handler /\ pc = [g \in Handler |-> pc[g]]
        /\ req = [g \in Handler |-> req[g]] /\ view = [g \in Handler |-> view[g]]
        /\ \A g \in Handler : pc[g] \notin {"resolving", "resolved"} => view[g] = Nothing
    BY DEF IInv, TypeOK, AccessTypeOK, ViewsOK, ViewFits
  <1>1. ASSUME NEW h \in Handler, DecideFromCache(h) \/ StoreAndDecide(h)
        PROVE  /\ Alone(h) /\ pc'[h] \notin {"resolving", "resolved"} /\ view'[h] = Nothing
               /\ UNCHANGED <<tables, since>>
    BY <1>0, <1>1 DEF DecideFromCache, StoreAndDecide, Judge, Alone
  <1>2. ASSUME NEW h \in Handler, ReadPermissions(h) \/ ReadPositions(h) PROVE Alone(h)
    BY <1>0, <1>2 DEF ReadPermissions, ReadPositions, Alone
  <1>3. ASSUME NEW h \in Handler, Over(h)
        PROVE  Alone(h) /\ pc'[h] \notin {"resolving", "resolved"} /\ view'[h] = Nothing
    BY <1>0, <1>3 DEF Over, Alone
  <1>4. ASSUME NEW h \in Handler, NEW m, NEW action, NEW resource,
               Asks(h, action, m, resource), UNCHANGED view
        PROVE  Alone(h) /\ pc'[h] \notin {"resolving", "resolved"} /\ view'[h] = Nothing
    BY <1>0, <1>4 DEF Asks, Alone
  <1>5. ASSUME NEW h \in Handler, RunWorkflow(h)
        PROVE  /\ Alone(h) /\ pc'[h] \notin {"resolving", "resolved"} /\ view'[h] = Nothing
               /\ UNCHANGED <<tables, since>>
    <2>1. CASE \E i \in Instance : InsertInstance(h, i)
      BY <1>0, <2>1 DEF InsertInstance, Permitted, Alone
    <2> QED
      BY <1>3, <1>4, <1>5, <2>1 DEF RunWorkflow, AskCreate, FindTask, InsertTask, UpdateTask
  <1>6. ASSUME NEW h \in Handler, Administer(h)
        PROVE  /\ Alone(h) /\ pc'[h] \notin {"resolving", "resolved"} /\ view'[h] = Nothing
               /\ Remember \/ UNCHANGED <<tables, since>>
    <2>1. CASE AskWebAdmin(h)
      BY <1>0, <2>1 DEF AskWebAdmin, Permitted, Alone
    <2> QED
      BY <1>3, <1>4, <1>6, <2>1, AdminSteps DEF AdminAsks
  <1>7. ASSUME NEW m \in Membership, Forget(m) PROVE UNCHANGED <<tables, since, pc, req, view>>
    BY <1>7 DEF Forget
  <1> QED
    BY <1>1, <1>2, <1>3, <1>5, <1>6, <1>7 DEF Next, Authorize, EndRequest

\* A view is what the tables say but for what they have changed since the last tick.
LEMMA ViewsStep == IInv /\ Next => ViewsOK'
  <1> SUFFICES ASSUME IInv, Next, NEW g \in Handler PROVE ViewFits(g)'
    BY DEF ViewsOK
  <1>0. /\ ViewFits(g)
        /\ view[g] \in Summary /\ Rights(view[g]) \subseteq Right
        /\ view = [h \in Handler |-> view[h]] /\ pc = [h \in Handler |-> pc[h]]
        /\ pc[g] # "idle" => req[g].actor \in Membership
        /\ \A m \in Membership, x \in Right : since[m][x] \in Nat
    BY RightsAreRights, AccessAssumption DEF IInv, TypeOK, ViewsOK, AccessTypeOK, Question
  <1>1. CASE UNCHANGED <<tables, since>> /\ pc'[g] = pc[g] /\ req'[g] = req[g] /\ view'[g] = view[g]
    BY <1>0, <1>1, SameTables DEF ViewFits, MoreIsRecent, LessIsRecent
  <1>2. CASE Remember /\ pc'[g] = pc[g] /\ req'[g] = req[g] /\ view'[g] = view[g]
    <2> SUFFICES ASSUME pc[g] \in {"resolving", "resolved"} PROVE ViewFits(g)'
      BY <1>0, <1>2 DEF ViewFits
    <2> DEFINE m == req[g].actor
    <2>1. m \in Membership /\ req'[g].actor = m /\ Rights(view[g])' = Rights(view[g])
      BY <1>0, <1>2 DEF Rights
    <2>2. MoreIsRecent(m, Rights(view[g]), 0)'
      BY <1>0, <1>2, <2>1, Recalled DEF ViewFits, MoreIsRecent
    <2>3. ASSUME NEW kind \in SUBSET Right, LessIsRecent(m, Rights(view[g]), 0, kind)
          PROVE  LessIsRecent(m, Rights(view[g]), 0, kind)'
      BY <1>0, <1>2, <2>1, <2>3, Recalled DEF LessIsRecent
    <2> QED
      BY <1>0, <1>2, <2>1, <2>2, <2>3 DEF ViewFits, Right
  <1>3. CASE pc'[g] \notin {"resolving", "resolved"} /\ view'[g] = Nothing
    BY <1>3 DEF ViewFits
  <1>4. CASE ReadPermissions(g)
    <2> DEFINE m == req[g].actor
    <2>1. /\ m \in Membership /\ req'[g].actor = m /\ pc'[g] = "resolving"
          /\ since' = since /\ RightsOf(m)' = RightsOf(m)
      BY <1>0, <1>4, SameTables DEF ReadPermissions
    <2>2. view'[g].permissions = PermissionsOf(m) /\ view'[g].positions = view[g].positions
      BY <1>0, <1>4 DEF ReadPermissions, Summary
    <2>3. view[g] = Nothing
      BY <1>0, <1>4 DEF ReadPermissions, ViewFits
    <2>4. Rights(view[g])' = PermissionsOf(m)
      BY <2>2, <2>3 DEF Rights, Nothing
    <2>5. PermissionsOf(m) = RightsOf(m) \intersect Permission
      BY AccessAssumption DEF RightsOf, PermissionsOf, PositionsOf
    <2>6. view'[g].positions = {}
      BY <2>2, <2>3 DEF Nothing
    <2> QED
      BY <2>1, <2>4, <2>5, <2>6 DEF ViewFits, MoreIsRecent, LessIsRecent
  <1>5. CASE ReadPositions(g)
    <2> DEFINE m == req[g].actor
    <2>1. /\ m \in Membership /\ req'[g].actor = m /\ pc'[g] = "resolved"
          /\ since' = since /\ RightsOf(m)' = RightsOf(m)
      BY <1>0, <1>5, SameTables DEF ReadPositions
    <2>2. view'[g].permissions = view[g].permissions /\ view'[g].positions = PositionsOf(m)
      BY <1>0, <1>5 DEF ReadPositions, Summary
    <2>3. Rights(view[g])' = Rights(view[g]) \union PositionsOf(m)
      BY <1>0, <1>5, <2>2 DEF ReadPositions, ViewFits, Rights
    <2>4. PositionsOf(m) = RightsOf(m) \intersect Title
      BY AccessAssumption DEF RightsOf, PermissionsOf, PositionsOf
    <2>5. /\ MoreIsRecent(m, Rights(view[g]), 0)
          /\ LessIsRecent(m, Rights(view[g]), 0, Permission)
      BY <1>0, <1>5 DEF ReadPositions, ViewFits
    <2> QED
      BY <2>1, <2>3, <2>4, <2>5 DEF ViewFits, MoreIsRecent, LessIsRecent
  <1>6. CASE Tick
    <2>1. UNCHANGED <<pc, view>> /\ pc[g] \notin {"resolving", "resolved"}
      BY <1>6 DEF Tick
    <2> QED
      BY <1>0, <1>3, <2>1 DEF ViewFits
  <1>7. CASE UNCHANGED <<tables, since, pc, req, view>> \/ Tick
    BY <1>1, <1>6, <1>7
  <1>8. ASSUME NEW h \in Handler, Alone(h),
               \/ ReadPermissions(h)
               \/ ReadPositions(h)
               \/ /\ pc'[h] \notin {"resolving", "resolved"} /\ view'[h] = Nothing
                  /\ Remember \/ UNCHANGED <<tables, since>>
        PROVE  ViewFits(g)'
    <2>1. CASE h = g
      BY <1>3, <1>4, <1>5, <1>8, <2>1
    <2>2. CASE h # g
      BY <1>1, <1>2, <1>8, <2>2 DEF Alone, ReadPermissions, ReadPositions
    <2> QED
      BY <2>1, <2>2
  <1> QED
    BY <1>7, <1>8, ViewMoves

\* A task is written for an instance nobody else waits for, and stays; a request that
\* decides has found it.
LEMMA TasksStep == IInv /\ Next => TasksOK'
  <1> SUFFICES ASSUME IInv, Next PROVE TasksOK'
    OBVIOUS
  <1>0. /\ pc = [g \in Handler |-> pc[g]] /\ req = [g \in Handler |-> req[g]]
        /\ status = [i \in Instance |-> status[i]] /\ created \subseteq Instance
        /\ \A g \in Handler : HasTask(g) /\ HasInstance(g)
        /\ \A g \in Handler : pc[g] # "idle" => req[g] \in Question
        /\ \A i \in Instance : status[i] # "none" => i \in created
        /\ "workflow.create" \notin Decision /\ "web_admin" \notin Decision
    BY DEF IInv, TypeOK, AccessTypeOK, WorkflowTypeOK, TasksOK, Decision, Outcome
  <1>1. ASSUME NEW h \in Handler, UNCHANGED <<status, created>>,
               \A g \in Handler \ {h} : pc'[g] = pc[g] /\ req'[g] = req[g],
               pc'[h] # "inserted", HasTask(h)'
        PROVE  TasksOK'
    BY <1>0, <1>1 DEF TasksOK, HasTask, HasInstance
  <1>2. ASSUME NEW h \in Handler, Over(h), UNCHANGED <<status, created>> PROVE TasksOK'
    BY <1>0, <1>1, <1>2 DEF Over, HasTask
  <1>3. ASSUME NEW h \in Handler, Authorize(h), UNCHANGED <<status, created>> PROVE TasksOK'
    BY <1>0, <1>1, <1>3 DEF Authorize, DecideFromCache, ReadPermissions, ReadPositions,
       StoreAndDecide, Judge, HasTask
  <1>4. ASSUME NEW h \in Handler, RunWorkflow(h) PROVE TasksOK'
    <2>1. ASSUME NEW m \in Membership, AskCreate(h, m) PROVE TasksOK'
      BY <1>0, <1>1, <2>1 DEF AskCreate, Asks, workflow, HasTask
    <2>2. ASSUME NEW m \in Membership, NEW i \in Instance, NEW action \in Decision,
                 FindTask(h, m, action, i)
          PROVE  TasksOK'
      BY <1>0, <1>1, <2>2 DEF FindTask, Asks, Resource, workflow, HasTask
    <2>3. ASSUME NEW i \in Instance, InsertInstance(h, i) PROVE TasksOK'
      <3>1. /\ req'[h].action = "workflow.create" /\ req'[h].about.id = i /\ pc'[h] = "inserted"
            /\ \A g \in Handler \ {h} : pc'[g] = pc[g] /\ req'[g] = req[g]
            /\ status' = status /\ created' = created \union {i} /\ i \notin created
            /\ status[i] = "none"
        BY <1>0, <2>3 DEF InsertInstance, Permitted, Question
      <3> QED
        BY <1>0, <3>1 DEF TasksOK, HasTask, HasInstance
    <2>4. CASE InsertTask(h)
      <3>1. /\ pc[h] = "inserted" /\ pc'[h] = "idle"
            /\ \A g \in Handler \ {h} : pc'[g] = pc[g] /\ req'[g] = req[g]
            /\ status'[req[h].about.id] = "pending" /\ created' = created
            /\ \A i \in Instance \ {req[h].about.id} : status'[i] = status[i]
        BY <1>0, <2>4 DEF InsertTask, Over, HasInstance
      <3> QED
        BY <1>0, <3>1 DEF TasksOK, HasTask, HasInstance
    <2>5. CASE UpdateTask(h)
      <3>1. /\ req[h].about.id \in Instance /\ status[req[h].about.id] # "none"
            /\ Outcome[req[h].action] # "none"
        BY <1>0, <2>5 DEF UpdateTask, Permitted, HasTask, Decision, Outcome
      <3>2. /\ pc'[h] = "idle" /\ created' = created
            /\ \A g \in Handler \ {h} : pc'[g] = pc[g] /\ req'[g] = req[g]
            /\ status'[req[h].about.id] # "none"
            /\ \A i \in Instance \ {req[h].about.id} : status'[i] = status[i]
        BY <1>0, <2>5, <3>1 DEF UpdateTask, Over
      <3> QED
        BY <1>0, <3>1, <3>2 DEF TasksOK, HasTask, HasInstance
    <2> QED
      BY <1>4, <2>1, <2>2, <2>3, <2>4, <2>5 DEF RunWorkflow
  <1>5. ASSUME NEW h \in Handler, Administer(h), UNCHANGED workflow PROVE TasksOK'
    <2>1. ASSUME NEW m \in Membership, NEW action \in {"admin", "admin.membership.create"},
                 AdminAsks(h, m, action)
          PROVE  TasksOK'
      BY <1>0, <1>1, <1>5, <2>1 DEF AdminAsks, Asks, workflow, HasTask, Decision, Outcome
    <2>2. CASE AskWebAdmin(h)
      BY <1>0, <1>1, <1>5, <2>2 DEF AskWebAdmin, Permitted, workflow, HasTask, Question
    <2> QED
      BY <1>2, <1>5, <2>1, <2>2, AdminSteps DEF workflow
  <1>6. CASE UNCHANGED <<pc, req, status, created>>
    BY <1>0, <1>6 DEF TasksOK, HasTask, HasInstance
  <1> QED
    BY <1>2, <1>3, <1>4, <1>5, <1>6 DEF Next, EndRequest, Forget, Tick, workflow

\* What AccessTypeOK and CompanyTypeOK say of the tables.
TablesOK ==
    /\ row \in [Membership -> {"none", "there", "deleted"}]
    /\ held \in SUBSET ({m \in Membership : row[m] = "there"}
                           \X (Role \union Title \union Department))
    /\ granted \in SUBSET (Role \X Permission)
    /\ CompanyTypeOK

\* A membership comes with its user and once for him in a company, and with it goes what
\* it held.
LEMMA TablesStepOf ==
    ASSUME TablesOK, NEW h \in Handler, Administer(h) PROVE TablesOK'
  <1> USE CompanyAssumption DEF TablesOK, CompanyTypeOK
  <1>1. ASSUME UNCHANGED <<row, held, granted, users, rules, edits>> PROVE TablesOK'
    BY <1>1
  <1>e. ASSUME Edits(h) PROVE edits' \in 0 .. MaxEdits
    BY <1>e DEF Edits
  <1>2. ASSUME NEW m \in Membership, NEW action, AdminAsks(h, m, action) PROVE TablesOK'
    BY <1>1, <1>2 DEF AdminAsks, tables, company
  <1>3. ASSUME AskWebAdmin(h) PROVE TablesOK'
    BY <1>1, <1>3 DEF AskWebAdmin, tables, company
  <1>4. ASSUME NEW m \in Membership, NEW there,
               Insertable(m, there), there \subseteq users', row' = [row EXCEPT ![m] = "there"],
               users \subseteq users', users' \subseteq User,
               UNCHANGED <<held, granted, rules>>, Edits(h)
        PROVE  TablesOK'
    BY <1>4, <1>e DEF Insertable
  <1>5. ASSUME NEW m \in Membership, CreateMembership(h, m) PROVE TablesOK'
    BY <1>4, <1>5 DEF CreateMembership
  <1>6. ASSUME NEW m \in Membership, CreateUser(h, m) PROVE TablesOK'
    <2>1. UserOf[m] \in User
      OBVIOUS
    <2> QED
      BY <1>4, <1>6, <2>1 DEF CreateUser
  <1>7. ASSUME NEW m \in Membership, DeleteMembership(h, m) PROVE TablesOK'
    BY <1>7, <1>e DEF DeleteMembership, AdminEdits
  <1>8. ASSUME NEW m \in Membership, NEW x \in Role \union Title \union Department,
               Bind(h, m, x) \/ Unbind(h, m, x)
        PROVE  TablesOK'
    BY <1>8, <1>e DEF Bind, Unbind, AdminEdits
  <1>9. ASSUME NEW ro \in Role, NEW p \in Permission,
               AssignRolePermission(h, ro, p) \/ RemoveRolePermission(h, ro, p)
        PROVE  TablesOK'
    BY <1>9, <1>e DEF AssignRolePermission, RemoveRolePermission, AdminEdits
  <1>10. ASSUME NEW u \in User, CreateUserAlone(h, u) PROVE TablesOK'
    BY <1>10, <1>e DEF CreateUserAlone, tables
  <1>11. ASSUME NEW x \in Rule, CreateRule(h, x) PROVE TablesOK'
    BY <1>11, <1>e DEF CreateRule, tables
  <1> QED
    BY <1>2, <1>3, <1>5, <1>6, <1>7, <1>8, <1>9, <1>10, <1>11
       DEF Administer, AssignRole, RemoveRole, AssignTitle, RemoveTitle, AssignDepartment,
           RemoveDepartment

\* Only the administration writes these tables.
LEMMA TablesStep == TablesOK /\ Next => TablesOK'
  <1> SUFFICES ASSUME TablesOK, Next PROVE TablesOK'
    OBVIOUS
  <1>1. ASSUME UNCHANGED <<row, held, granted, users, rules, edits>> PROVE TablesOK'
    BY <1>1 DEF TablesOK, CompanyTypeOK
  <1> QED
    BY <1>1, TablesStepOf DEF Next, Authorize, DecideFromCache, ReadPermissions, ReadPositions,
       StoreAndDecide, EndRequest, Forget, Tick, RunWorkflow, AskCreate, FindTask,
       InsertInstance, InsertTask, UpdateTask, tables, company

\* A task is there with its instance and an assignee.
LEMMA WorkflowStep == IInv /\ Next => WorkflowTypeOK'
  <1> SUFFICES ASSUME IInv, Next PROVE WorkflowTypeOK'
    OBVIOUS
  <1> USE DEF IInv, TypeOK, WorkflowTypeOK, Status
  <1>1. ASSUME NEW h \in Handler, InsertTask(h) PROVE WorkflowTypeOK'
    <2>1. req[h].about.id \in created /\ req[h].actor \in Membership
      BY <1>1 DEF InsertTask, TasksOK, HasInstance, Question
    <2> QED
      BY <1>1, <2>1, AccessAssumption DEF InsertTask
  <1>2. ASSUME NEW h \in Handler, UpdateTask(h) PROVE WorkflowTypeOK'
    <2>1. /\ req[h].about.id \in Instance /\ status[req[h].about.id] # "none"
          /\ Outcome[req[h].action] \in {"reviewed", "approved", "confirmed"}
      BY <1>2 DEF UpdateTask, Permitted, TasksOK, HasTask, Decision, Outcome
    <2> QED
      BY <1>2, <2>1 DEF UpdateTask
  <1>3. ASSUME NEW h \in Handler, NEW i \in Instance, InsertInstance(h, i) PROVE WorkflowTypeOK'
    BY <1>3 DEF InsertInstance
  <1>4. ASSUME UNCHANGED workflow PROVE WorkflowTypeOK'
    BY <1>4 DEF workflow
  <1> QED
    BY <1>1, <1>2, <1>3, <1>4 DEF Next, RunWorkflow, AskCreate, FindTask

\* Clocks stop past the time to live, entries are gone by then.
LEMMA ClocksStep ==
    IInv /\ Next => /\ cache' \in [Membership -> Entry \union {NoEntry}]
                    /\ since' \in [Membership -> [Right -> 0 .. (TTL + 1)]]
  <1> SUFFICES ASSUME IInv, Next
               PROVE  /\ cache' \in [Membership -> Entry \union {NoEntry}]
                      /\ since' \in [Membership -> [Right -> 0 .. (TTL + 1)]]
    OBVIOUS
  <1> USE AccessAssumption DEF IInv, TypeOK, AccessTypeOK, Entry
  <1>1. CASE UNCHANGED <<tables, since, cache>>
    BY <1>1
  <1>2. CASE Remember /\ UNCHANGED cache
    BY <1>2 DEF Remember
  <1>3. ASSUME NEW h \in Handler, StoreAndDecide(h)
        PROVE  since' = since /\ cache' \in [Membership -> Entry \union {NoEntry}]
    <2>1. [age |-> 0, summary |-> view[h]] \in Entry
      OBVIOUS
    <2> QED
      BY <1>3, <2>1 DEF StoreAndDecide
  <1>4. ASSUME NEW m \in Membership, Forget(m)
        PROVE  since' = since /\ cache' \in [Membership -> Entry \union {NoEntry}]
    BY <1>4 DEF Forget
  <1>5. CASE Tick
    <2>1. \A m \in Membership :
             cache[m] # NoEntry /\ ~Expires(cache[m]) =>
                [cache[m] EXCEPT !.age = @ + 1] \in Entry
      BY DEF Expires
    <2>2. cache' \in [Membership -> Entry \union {NoEntry}]
      BY <1>5, <2>1 DEF Tick
    <2>3. since' \in [Membership -> [Right -> 0 .. (TTL + 1)]]
      BY <1>5 DEF Tick
    <2> QED
      BY <2>2, <2>3
  <1> QED
    BY <1>1, <1>2, <1>3, <1>4, <1>5, CacheMoves

\* What TypeOK says of the handlers.
RequestsOK ==
    /\ pc \in [Handler -> {"idle", "asked", "resolving", "resolved", "permitted", "denied",
                           "inserted"}]
    /\ view \in [Handler -> Summary]
    /\ req \in [Handler -> Question \union {NoRequest}]
    /\ \A h \in Handler : pc[h] # "idle" => req[h] \in Question

\* A handler keeps its question until it answers.
LEMMA RequestsStep == IInv /\ Next => RequestsOK'
  <1> SUFFICES ASSUME IInv, Next PROVE RequestsOK'
    OBVIOUS
  <1>0. RequestsOK
    BY DEF IInv, TypeOK, AccessTypeOK, RequestsOK
  <1> USE <1>0 DEF RequestsOK
  <1>1. ASSUME NEW h \in Handler, Over(h) PROVE RequestsOK'
    <2>1. Nothing \in Summary
      BY DEF Nothing, Summary
    <2> QED
      BY <1>1, <2>1 DEF Over
  <1>2. ASSUME NEW h \in Handler, NEW m \in Membership, NEW action, NEW resource,
               Asks(h, action, m, resource), UNCHANGED view,
               [action |-> action, actor |-> m, about |-> resource] \in Question
        PROVE  RequestsOK'
    BY <1>2 DEF Asks
  <1>3. ASSUME NEW h \in Handler, Authorize(h) PROVE RequestsOK'
    <2>1. CASE DecideFromCache(h)
      BY <2>1 DEF DecideFromCache, Judge
    <2>2. CASE ReadPermissions(h)
      <3>1. view' \in [Handler -> Summary]
        BY <2>2 DEF ReadPermissions, PermissionsOf, DepartmentsOf, Summary
      <3> QED
        BY <2>2, <3>1 DEF ReadPermissions
    <2>3. CASE ReadPositions(h)
      <3>1. view' \in [Handler -> Summary]
        BY <2>3 DEF ReadPositions, PositionsOf, Summary
      <3> QED
        BY <2>3, <3>1 DEF ReadPositions
    <2>4. CASE StoreAndDecide(h)
      <3>1. Nothing \in Summary
        BY DEF Nothing, Summary
      <3> QED
        BY <2>4, <3>1 DEF StoreAndDecide, Judge
    <2> QED
      BY <1>3, <2>1, <2>2, <2>3, <2>4 DEF Authorize
  <1>4. ASSUME NEW h \in Handler, RunWorkflow(h) PROVE RequestsOK'
    <2>1. ASSUME NEW m \in Membership, AskCreate(h, m) PROVE RequestsOK'
      BY <1>2, <2>1 DEF AskCreate, Resource, Question
    <2>2. ASSUME NEW m \in Membership, NEW i \in Instance, NEW action \in Decision,
                 FindTask(h, m, action, i)
          PROVE  RequestsOK'
      <3>1. status[i] \in Status /\ assignee[i] \in Membership \union {Absent}
        BY DEF IInv, TypeOK, WorkflowTypeOK
      <3> QED
        BY <1>2, <2>2, <3>1 DEF FindTask, Resource, Question
    <2>3. ASSUME NEW i \in Instance, InsertInstance(h, i) PROVE RequestsOK'
      <3>1. [req[h] EXCEPT !.about.id = i] \in Question
        BY <2>3 DEF InsertInstance, Permitted, Question
      <3> QED
        BY <2>3, <3>1 DEF InsertInstance
    <2> QED
      BY <1>1, <1>4, <2>1, <2>2, <2>3 DEF RunWorkflow, InsertTask, UpdateTask
  <1>5. ASSUME NEW h \in Handler, Administer(h) PROVE RequestsOK'
    <2>1. ASSUME NEW m \in Membership, NEW action \in {"admin", "admin.membership.create"},
                 AdminAsks(h, m, action)
          PROVE  RequestsOK'
      BY <1>2, <2>1 DEF AdminAsks, Resource, Question
    <2>2. CASE AskWebAdmin(h)
      <3>1. [req[h] EXCEPT !.action = "web_admin"] \in Question
        BY <2>2 DEF AskWebAdmin, Permitted, Question
      <3> QED
        BY <2>2, <3>1 DEF AskWebAdmin
    <2> QED
      BY <1>1, <1>5, <2>1, <2>2, AdminSteps
  <1>6. CASE UNCHANGED <<pc, req, view>>
    BY <1>6
  <1> QED
    BY <1>1, <1>3, <1>4, <1>5, <1>6 DEF Next, EndRequest, Forget, Tick

-----------------------------------------------------------------------------
(* The theorems.                                                           *)

\* The inductive invariant of the tables, the cache and the requests.
THEOREM Inductive == Spec => []IInv
  <1>1. IInv /\ [Next]_vars => IInv'
    <2> SUFFICES ASSUME IInv, [Next]_vars PROVE IInv'
      OBVIOUS
    <2>1. CASE Next
      <3>1. TypeOK'
        BY <2>1, TablesStep, WorkflowStep, ClocksStep, RequestsStep
           DEF IInv, TypeOK, AccessTypeOK, TablesOK, RequestsOK
      <3> QED
        BY <2>1, <3>1, CacheStep, ViewsStep, TasksStep DEF IInv
    <2>2. CASE UNCHANGED vars
      <3> USE <2>2 DEF vars, accessVars, workflow, company, IInv
      <3>1. TypeOK'
        BY DEF TypeOK, AccessTypeOK, WorkflowTypeOK, CompanyTypeOK, tables
      <3>2. CacheOK' /\ ViewsOK'
        BY SameTables
           DEF CacheOK, EntryFits, ViewsOK, ViewFits, MoreIsRecent, LessIsRecent, Rights, tables,
               IInv, TypeOK, AccessTypeOK, RightsOf, PermissionsOf, PositionsOf
      <3>3. TasksOK'
        BY DEF TasksOK, HasTask, HasInstance
      <3> QED
        BY <3>1, <3>2, <3>3
    <2> QED
      BY <2>1, <2>2
  <1> QED
    BY InitIInv, <1>1, PTL DEF Spec

\* Bindings, memberships, tasks and the cache are as TypeOK says in every reachable state.
THEOREM Typing == Spec => []TypeOK
  BY Inductive, PTL DEF IInv

\* Whatever a verdict was judged by is at most as old as an entry may become.
LEMMA Judged ==
    ASSUME IInv, Next, NEW h \in Handler,
           pc[h] \in {"asked", "resolved"}, pc'[h] \in {"permitted", "denied"}
    PROVE  /\ req[h].actor \in Membership /\ req[h].about.department = Absent
           /\ \E s \in Summary :
                 /\ MoreIsRecent(req[h].actor, Rights(s), TTL)
                 /\ LessIsRecent(req[h].actor, Rights(s), TTL, Right)
                 /\ (pc'[h] = "permitted") <=>
                       Allowed(req[h].action, req[h].about, Access(req[h].actor, s))
  <1> DEFINE m == req[h].actor
  <1>0. /\ pc = [g \in Handler |-> pc[g]] /\ req[h] \in Question /\ TTL \in Nat
        /\ m \in Membership /\ req[h].about.department = Absent
        /\ \A x \in Right : since[m][x] \in Nat
        /\ view[h] \in Summary /\ ViewFits(h)
        /\ cache[m] # NoEntry =>
              EntryFits(m) /\ cache[m].age \in 0 .. TTL /\ cache[m].summary \in Summary
    BY AccessAssumption
       DEF IInv, TypeOK, AccessTypeOK, Entry, Question, ViewsOK, CacheOK
  <1>1. ASSUME NEW s \in Summary, NEW age \in 0 .. TTL, MoreIsRecent(m, Rights(s), age),
               LessIsRecent(m, Rights(s), age, Right)
        PROVE  MoreIsRecent(m, Rights(s), TTL) /\ LessIsRecent(m, Rights(s), TTL, Right)
    BY <1>0, <1>1, RightsAreRights DEF MoreIsRecent, LessIsRecent
  <1>2. ASSUME NEW s \in Summary, Judge(h, s)
        PROVE  (pc'[h] = "permitted") <=> Allowed(req[h].action, req[h].about, Access(m, s))
    BY <1>0, <1>2 DEF Judge
  <1>3. CASE DecideFromCache(h)
    <2>1. /\ MoreIsRecent(m, Rights(cache[m].summary), TTL)
          /\ LessIsRecent(m, Rights(cache[m].summary), TTL, Right)
      BY <1>0, <1>1, <1>3 DEF DecideFromCache, EntryFits
    <2> QED
      BY <1>0, <1>2, <1>3, <2>1 DEF DecideFromCache
  <1>4. CASE StoreAndDecide(h)
    <2>1. MoreIsRecent(m, Rights(view[h]), 0) /\ LessIsRecent(m, Rights(view[h]), 0, Right)
      BY <1>0, <1>4 DEF StoreAndDecide, ViewFits, LessIsRecent, Right
    <2>2. /\ MoreIsRecent(m, Rights(view[h]), TTL)
          /\ LessIsRecent(m, Rights(view[h]), TTL, Right)
      BY <1>0, <1>1, <2>1
    <2> QED
      BY <1>0, <1>2, <1>4, <2>2 DEF StoreAndDecide
  <1>5. DecideFromCache(h) \/ StoreAndDecide(h)
    <2>1. ASSUME NEW g \in Handler, Over(g) PROVE FALSE
      BY <1>0, <2>1 DEF Over
    <2>2. ASSUME NEW g \in Handler, NEW n, NEW action, NEW resource,
                 Asks(g, action, n, resource)
          PROVE  FALSE
      BY <1>0, <2>2 DEF Asks
    <2>3. ASSUME NEW g \in Handler, AskWebAdmin(g) \/ \E i \in Instance : InsertInstance(g, i)
          PROVE  FALSE
      BY <1>0, <2>3 DEF AskWebAdmin, InsertInstance
    <2>4. ASSUME NEW g \in Handler, ReadPermissions(g) \/ ReadPositions(g) PROVE FALSE
      BY <1>0, <2>4 DEF ReadPermissions, ReadPositions
    <2>5. ASSUME NEW g \in Handler \ {h}, DecideFromCache(g) \/ StoreAndDecide(g) PROVE FALSE
      BY <1>0, <2>5 DEF DecideFromCache, StoreAndDecide, Judge
    <2>6. ASSUME NEW g \in Handler, RunWorkflow(g) PROVE FALSE
      BY <2>1, <2>2, <2>3, <2>6 DEF RunWorkflow, AskCreate, FindTask, InsertTask, UpdateTask
    <2>7. ASSUME NEW g \in Handler, Administer(g) PROVE FALSE
      BY <2>1, <2>2, <2>3, <2>7, AdminSteps DEF AdminAsks
    <2> QED
      BY <2>1, <2>4, <2>5, <2>6, <2>7 DEF Next, Authorize, EndRequest, Forget, Tick
  <1> QED
    BY <1>0, <1>3, <1>4, <1>5

\* A right that was withdrawn counts for the time to live of an entry and no longer.
THEOREM Withdrawal == Spec => WithdrawalEndsInTime
  <1>1. ASSUME IInv, Next, NEW h \in Handler, Turns(h, "permitted")
        PROVE  AllowedWith(h, Recent(req[h].actor))
    <2> DEFINE m == req[h].actor
               t == [permissions |-> Recent(m) \intersect Permission,
                     positions |-> Recent(m) \intersect Title, departments |-> {}]
    <2>1. PICK s \in Summary :
             /\ MoreIsRecent(m, Rights(s), TTL)
             /\ Allowed(req[h].action, req[h].about, Access(m, s))
      BY <1>1, Judged DEF Turns
    <2>2. Rights(s) \subseteq Recent(m)
      BY <2>1, RightsAreRights DEF MoreIsRecent, Recent
    <2>3. /\ s.permissions \subseteq t.permissions /\ s.positions \subseteq t.positions
          /\ t \in Summary
      BY <2>2, RightsAreRights DEF Summary
    <2>4. m \in Membership /\ req[h].about.department = Absent
      BY <1>1, Judged DEF Turns
    <2> HIDE DEF m, t
    <2>5. Allowed(req[h].action, req[h].about, Access(m, t))
      BY <2>1, <2>3, <2>4, MoreRights
    <2> QED
      BY <2>5 DEF AllowedWith, m, t
  <1>2. IInv /\ [Next]_vars =>
           [\A h \in Handler :
               Turns(h, "permitted") => AllowedWith(h, Recent(req[h].actor))]_accessVars
    BY <1>1 DEF vars
  <1> QED
    BY <1>2, Inductive, PTL DEF Spec, WithdrawalEndsInTime

\* A right that was granted longer ago than that is seen by every verdict.
THEOREM Granting == Spec => GrantIsSeenInTime
  <1>1. ASSUME IInv, Next, NEW h \in Handler, Turns(h, "denied")
        PROVE  ~AllowedWith(h, Settled(req[h].actor))
    <2> DEFINE m == req[h].actor
               t == [permissions |-> Settled(m) \intersect Permission,
                     positions |-> Settled(m) \intersect Title, departments |-> {}]
    <2>1. PICK s \in Summary :
             /\ LessIsRecent(m, Rights(s), TTL, Right)
             /\ ~Allowed(req[h].action, req[h].about, Access(m, s))
      BY <1>1, Judged DEF Turns
    <2>2. Settled(m) \subseteq Rights(s)
      BY <2>1 DEF LessIsRecent, Settled, RightsOf, PermissionsOf, PositionsOf, Right
    <2>3. /\ t.permissions \subseteq s.permissions /\ t.positions \subseteq s.positions
          /\ t \in Summary
      BY <2>2, RightsAreRights DEF Summary
    <2>4. m \in Membership /\ req[h].about.department = Absent
      BY <1>1, Judged DEF Turns
    <2> HIDE DEF m, t
    <2>5. ~Allowed(req[h].action, req[h].about, Access(m, t))
      BY <2>1, <2>3, <2>4, MoreRights
    <2> QED
      BY <2>5 DEF AllowedWith, m, t
  <1>2. IInv /\ [Next]_vars =>
           [\A h \in Handler :
               Turns(h, "denied") => ~AllowedWith(h, Settled(req[h].actor))]_accessVars
    BY <1>1 DEF vars
  <1> QED
    BY <1>2, Inductive, PTL DEF Spec, GrantIsSeenInTime

\* A decided task changes only by a decision that had found it pending.
THEOREM Decisions == Spec => DecisionsStandUnlessRaced
  <1> DEFINE Raced(i) == \E h \in Handler :
                            /\ pc[h] = "permitted" /\ pc'[h] = "idle"
                            /\ req[h].action \in Decision
                            /\ req[h].about.id = i /\ req[h].about.state = "pending"
  <1>1. ASSUME IInv, Next, NEW i \in Instance, status[i] \notin {"none", "pending"},
               status'[i] # status[i]
        PROVE  Raced(i)
    <2>0. pc = [g \in Handler |-> pc[g]] /\ status = [j \in Instance |-> status[j]]
      BY <1>1 DEF IInv, TypeOK, AccessTypeOK, WorkflowTypeOK
    <2>1. ASSUME NEW h \in Handler, InsertTask(h) PROVE FALSE
      <3>1. status[req[h].about.id] = "none"
        BY <1>1, <2>1 DEF InsertTask, IInv, TasksOK, HasInstance
      <3> QED
        BY <1>1, <2>0, <2>1, <3>1 DEF InsertTask
    <2>2. PICK h \in Handler : UpdateTask(h)
      BY <1>1, <2>1 DEF Next, RunWorkflow, AskCreate, FindTask, InsertInstance, workflow
    <2>3. req[h].about.id = i
      BY <1>1, <2>0, <2>2 DEF UpdateTask
    <2> QED
      BY <2>0, <2>2, <2>3 DEF UpdateTask, Permitted, Decidable, Over
  <1>2. IInv /\ [Next]_vars =>
           [\A i \in Instance :
               status[i] \notin {"none", "pending"} /\ status'[i] # status[i] => Raced(i)]_workflow
    BY <1>1 DEF vars
  <1> QED
    BY <1>2, Inductive, PTL DEF Spec, DecisionsStandUnlessRaced
=============================================================================
