-------------------------- MODULE EffectiveAccess --------------------------
(***************************************************************************)
(* What a membership may do, as the tables have it and as the API process  *)
(* remembers it (internal/authorization): the queries of the resolver, the *)
(* cache of their results with its time to live, and the Authorize call    *)
(* every handler makes.  Nothing invalidates the cache.                    *)
(*                                                                         *)
(* CompanyAccess changes the tables, Workflow asks for permission; both    *)
(* use the steps of Authorize below.  A step stands for the queries of the *)
(* resolver up to the next one whose table the service writes.             *)
(***************************************************************************)
EXTENDS Integers, Authorization

CONSTANTS
    Membership,
    Role, Title, Department, Permission,
    Standing,   \* for each membership what no statement of the service writes:
                \* assignments, responsibilities, units
    Handler,    \* requests that may be under way at once
    TTL,        \* of an entry of the cache, in ticks of the clock
    NoEntry, NoRequest

ASSUME AccessAssumption ==
    /\ TTL \in Nat
    /\ Absent \notin Membership \union Department
    /\ Permission \intersect Title = {}

VARIABLES
    row,        \* of table memberships
    held,       \* membership_roles, membership_titles, department_memberships
    granted,    \* role_permissions
    cache,      \* of effective access, by membership
    pc, req,    \* where a handler is, and what its request asks
    view,       \* what the resolver of a handler has read so far
    \* history
    since       \* ticks since a membership got or lost a right, up to TTL + 1

tables == <<row, held, granted>>
accessVars == <<tables, since, cache, pc, req, view>>

Right   == Permission \union Title
Nothing == [permissions |-> {}, positions |-> {}, departments |-> {}]

\* ListPermissionCodes, ListPositionCodes and ListDepartmentScopes.
PermissionsOf(m) ==
    {p \in Permission : /\ row[m] = "there"
                        /\ \E ro \in Role : <<m, ro>> \in held /\ <<ro, p>> \in granted}
PositionsOf(m)   == {t \in Title : <<m, t>> \in held}
DepartmentsOf(m) == {d \in Department : <<m, d>> \in held}
RightsOf(m)      == PermissionsOf(m) \union PositionsOf(m)

Summary == [permissions : SUBSET Permission, positions : SUBSET Title,
            departments : SUBSET Department]

\* What the cache holds of a membership.
Entry == [age : 0 .. TTL, summary : Summary]

\* EffectiveAccessSummary of m with these permissions and positions.
Access(m, s) ==
    [membership |-> m, permissions |-> s.permissions, positions |-> s.positions,
     assigned |-> Standing[m].assigned, departments |-> s.departments,
     responsibilities |-> Standing[m].responsibilities,
     units |-> Standing[m].units, subtree |-> Standing[m].subtree]

\* The clock of the rights goes back to zero for those a statement has changed.
Remember ==
    since' = [m \in Membership |-> [x \in Right |->
                 IF (x \in RightsOf(m)) = (x \in RightsOf(m))' THEN since[m][x] ELSE 0]]

-----------------------------------------------------------------------------
(* A request: its action, its actor and the resource it is about.          *)

Asks(h, action, m, resource) ==
    /\ pc[h] = "idle"
    /\ row[m] # "none"          \* the token may outlive its membership
    /\ pc' = [pc EXCEPT ![h] = "asked"]
    /\ req' = [req EXCEPT ![h] = [action |-> action, actor |-> m, about |-> resource]]

Resource(id, state, assignee) ==
    [id |-> id, state |-> state, assignee |-> assignee,
     owner |-> Absent, unit |-> Absent, department |-> Absent]

Permitted(h, actions) == pc[h] = "permitted" /\ req[h].action \in actions

\* The answer goes out, and the handler is free.
Over(h) ==
    /\ pc' = [pc EXCEPT ![h] = "idle"]
    /\ req' = [req EXCEPT ![h] = NoRequest]
    /\ view' = [view EXCEPT ![h] = Nothing]

\* A denial is answered; or a statement fails, or the request is cancelled.
EndRequest(h) ==
    /\ pc[h] # "idle"
    /\ Over(h)
    /\ UNCHANGED <<tables, since, cache>>

-----------------------------------------------------------------------------
(* Authorize.                                                              *)

\* What the checker says of h, given this summary.
Judge(h, s) ==
    pc' = [pc EXCEPT ![h] =
              IF Allowed(req[h].action, req[h].about, Access(req[h].actor, s))
              THEN "permitted" ELSE "denied"]

\* A slip to rule out: an entry that is used is good for longer.
DecideAndRenew(h) ==
    /\ pc[h] = "asked" /\ cache[req[h].actor] # NoEntry
    /\ Judge(h, cache[req[h].actor].summary)
    /\ cache' = [cache EXCEPT ![req[h].actor].age = 0]
    /\ UNCHANGED <<tables, since, req, view>>

\* Resolve finds the access in the cache.
DecideFromCache(h) ==
    /\ pc[h] = "asked" /\ cache[req[h].actor] # NoEntry
    /\ Judge(h, cache[req[h].actor].summary)
    /\ UNCHANGED <<tables, since, cache, req, view>>

\* It does not, and the first queries run.  A department decides about resources
\* that name one, and no request of these models does.
ReadPermissions(h) ==
    /\ pc[h] = "asked" /\ cache[req[h].actor] = NoEntry
    /\ view' = [view EXCEPT ![h].permissions = PermissionsOf(req[h].actor),
                            ![h].departments = DepartmentsOf(req[h].actor)]
    /\ pc' = [pc EXCEPT ![h] = "resolving"]
    /\ UNCHANGED <<tables, since, cache, req>>

\* Then others, of which this one reads what the service may change.
ReadPositions(h) ==
    /\ pc[h] = "resolving"
    /\ view' = [view EXCEPT ![h].positions = PositionsOf(req[h].actor)]
    /\ pc' = [pc EXCEPT ![h] = "resolved"]
    /\ UNCHANGED <<tables, since, cache, req>>

\* Put, whatever another resolver has put in the meantime.
StoreAndDecide(h) ==
    /\ pc[h] = "resolved"
    /\ cache' = [cache EXCEPT ![req[h].actor] = [age |-> 0, summary |-> view[h]]]
    /\ Judge(h, view[h])
    /\ view' = [view EXCEPT ![h] = Nothing]
    /\ UNCHANGED <<tables, since, req>>

Authorize(h) ==
    \/ DecideFromCache(h)
    \/ ReadPermissions(h)
    \/ ReadPositions(h)
    \/ StoreAndDecide(h)

-----------------------------------------------------------------------------
(* The surroundings.                                                       *)

\* The process restarts, Redis loses the entry or does not answer, or Get, late
\* with the deletion of an expired entry, deletes one that was just put.
Forget(m) ==
    /\ cache[m] # NoEntry
    /\ cache' = [cache EXCEPT ![m] = NoEntry]
    /\ UNCHANGED <<tables, since, pc, req, view>>

\* A slip to rule out: an entry is good for one tick more.
ExpiresLate(entry) == entry.age > TTL

\* With the next tick the entry is expired.  Get deletes it, if anyone asks.
Expires(entry) == entry.age >= TTL

\* A tick, which is long against the queries of a resolver.
Tick ==
    /\ \A h \in Handler : pc[h] \notin {"resolving", "resolved"}
    /\ cache' = [m \in Membership |->
                    IF cache[m] = NoEntry THEN NoEntry
                    ELSE IF Expires(cache[m]) THEN NoEntry
                    ELSE [cache[m] EXCEPT !.age = @ + 1]]
    /\ since' = [m \in Membership |-> [x \in Right |->
                    IF since[m][x] > TTL THEN since[m][x] ELSE since[m][x] + 1]]
    /\ UNCHANGED <<tables, pc, req, view>>

-----------------------------------------------------------------------------
(* Properties.                                                             *)

AccessTypeOK ==
    /\ row \in [Membership -> {"none", "there", "deleted"}]
    /\ held \in SUBSET ({m \in Membership : row[m] = "there"}
                           \X (Role \union Title \union Department))
    /\ granted \in SUBSET (Role \X Permission)
    /\ cache \in [Membership -> Entry \union {NoEntry}]
    /\ pc \in [Handler -> {"idle", "asked", "resolving", "resolved", "permitted",
                           "denied", "inserted"}]
    /\ view \in [Handler -> Summary]
    /\ since \in [Membership -> [Right -> 0 .. (TTL + 1)]]

\* The rights m has or had within the time to live, and those it has for longer.
Recent(m) == {x \in Right : x \in RightsOf(m) \/ since[m][x] <= TTL}
Settled(m) == {x \in RightsOf(m) : since[m][x] > TTL}

AllowedWith(h, rights) ==
    Allowed(req[h].action, req[h].about,
            Access(req[h].actor, [permissions |-> rights \intersect Permission,
                                  positions |-> rights \intersect Title,
                                  departments |-> {}]))

Turns(h, verdict) == pc[h] \in {"asked", "resolved"} /\ pc'[h] = verdict

\* A right that was withdrawn counts for no longer than the cache's time to live:
\* what is permitted rests on rights held now or lost within it, whichever queries,
\* hits, stale stores and changes lie in between (CachedResolver, SnapshotStore).
WithdrawalEndsInTime ==
    [][\A h \in Handler : Turns(h, "permitted") => AllowedWith(h, Recent(req[h].actor))]_accessVars

\* A right that was granted counts after that time at the latest: nobody is
\* denied what the rights he has had for longer allow.
GrantIsSeenInTime ==
    [][\A h \in Handler : Turns(h, "denied") => ~AllowedWith(h, Settled(req[h].actor))]_accessVars
=============================================================================
