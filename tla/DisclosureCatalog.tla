------------------------- MODULE DisclosureCatalog -------------------------
(***************************************************************************)
(* The catalog of disclosure types (internal/disclosure): UpsertTypeVersion*)
(* and ActivateTypeVersion, and the two reads of a type's detail.          *)
(*                                                                         *)
(* Both writers are one transaction that first locks the row of the type   *)
(* with SELECT ... FOR UPDATE.  What a transaction writes is seen from its *)
(* COMMIT on, so a transaction is two steps here: the lock, and all the    *)
(* rest.  A detail is read by two statements without a transaction: the    *)
(* version's row and its blocks.                                           *)
(*                                                                         *)
(* No statement reads or writes the rows of two types, so the tables of one*)
(* type are here.  What types do share is the gap of the primary key where *)
(* those without a row will be: MySQL's default, REPEATABLE READ, locks the*)
(* whole gap for an id that is absent.  So the creation of a neighbour, a  *)
(* type with another id in the same gap, is here too, with its lock and its*)
(* end but not its rows.  The groups that a template names exist, and      *)
(* values fit their columns.                                               *)
(***************************************************************************)
EXTENDS TypeTemplate

CONSTANTS
    Company,
    Nobody,      \* the owner of a type that has no row
    Everybody,   \* the owner of a seeded type: company_id is NULL
    Request,     \* requests; each runs once
    Draft,       \* templates that administrators send
    Note,        \* a line that an administrator adds to the deadline of what was read
    Seed,        \* what the migrations store of a type they seed
    NoTemplate,
    MaxVersion,  \* bound: version numbers
    MaxFaults    \* bound: failed statements and deaths

ASSUME CatalogAssumption ==
    /\ {Nobody, Everybody} \intersect Company = {} /\ Nobody # Everybody
    /\ Draft \subseteq Template /\ Seed \in Template /\ NoTemplate \notin Template
    /\ Note \in Line
    /\ MaxVersion \in Nat \ {0}
    /\ MaxFaults \in Nat

Version   == 1..MaxVersion
Operation == {"put", "edit", "neighbour", "activate", "view"}

VARIABLES
    owner,     \* company_id of the type
    active,    \* active_version_no
    versions,  \* table disclosure_type_versions: templates without their blocks
    blocks,    \* table disclosure_template_blocks
    locked,    \* transactions that hold the lock of the row, or of the gap where it will be
    pc,
    op,        \* "put" a template, "edit" what was read, put one of a "neighbour", "activate", or "view"
    company,   \* of the administrator, or of who views
    number,    \* the version that a request activates or views; 0: the active one
    draft,     \* the template in the hands of the request
    got,       \* the number that a request has read: of a detail, or under its lock
    \* history
    refused,   \* upserts that passed all checks and were answered with an error
    faults

request == <<op, company, number>>
stored  == <<owner, active, versions, blocks>>
vars == <<stored, locked, pc, request, draft, got, refused, faults>>

\* Versions and blocks are stored for numbers up to the bound, requests are at one of
\* their statements, and a template has the columns of the table, no more and no less.
TypeOK ==
    /\ owner \in Company \union {Nobody, Everybody}
    /\ active \in 0..MaxVersion
    /\ versions \in [Version -> Template \union {NoTemplate}]
    /\ blocks \in [Version -> Seq(Block)]
    /\ locked \subseteq Request
    /\ pc \in [Request -> {"new", "row", "viewed", "ready", "locked", "over"}]
    /\ op \in [Request -> Operation \union {"none"}]
    /\ company \in [Request -> Company \union {Nobody}]
    /\ number \in [Request -> 0..MaxVersion]
    /\ draft \in [Request -> Template \union {NoTemplate}]
    /\ got \in [Request -> 0..MaxVersion]
    /\ refused \subseteq Request
    /\ faults \in 0..MaxFaults

Row(t) == [t EXCEPT !.blocks = << >>]
Exists(n) == n \in Version /\ versions[n] # NoTemplate

\* Version n of the type as its two tables have it.
Stored(n) == [versions[n] EXCEPT !.blocks = blocks[n]]

Init ==
    /\ \/ owner = Nobody /\ active = 0 /\ versions = [n \in Version |-> NoTemplate]
       \/ /\ owner = Everybody /\ active = 1
          /\ versions = [n \in Version |-> IF n = 1 THEN Row(Seed) ELSE NoTemplate]
    /\ blocks = [n \in Version |-> IF versions[n] = NoTemplate THEN << >> ELSE Seed.blocks]
    /\ locked = {}
    /\ pc = [r \in Request |-> "new"]
    /\ op = [r \in Request |-> "none"]
    /\ company = [r \in Request |-> Nobody]
    /\ number = [r \in Request |-> 0]
    /\ draft = [r \in Request |-> NoTemplate]
    /\ got = [r \in Request |-> 0]
    /\ refused = {}
    /\ faults = 0

Goto(r, phase) == pc' = [pc EXCEPT ![r] = phase]

\* The request comes in, and goes as far as the action says.
Arrives(r, o, c, n) ==
    /\ pc[r] = "new"
    /\ op' = [op EXCEPT ![r] = o]
    /\ company' = [company EXCEPT ![r] = c]
    /\ number' = [number EXCEPT ![r] = n]

-----------------------------------------------------------------------------
(* GetTypeDetail and GetTypeVersionDetail.                                 *)

Visible(c) == owner \in {c, Everybody}

\* The row of the version, joined with the type's.
ReadRow(r, o, c, n) ==
    /\ Arrives(r, o, c, n) /\ (o = "edit" => n = 0)
    /\ Visible(c)
    /\ LET v == IF n = 0 THEN active ELSE n IN
          /\ Exists(v)
          /\ got' = [got EXCEPT ![r] = v]
          /\ draft' = [draft EXCEPT ![r] = versions[v]]
    /\ Goto(r, "row")
    /\ UNCHANGED <<stored, locked, refused, faults>>

\* A slip to rule out: the blocks of the active version, whatever the row was.
ReadActiveBlocks(r) ==
    /\ pc[r] = "row"
    /\ draft' = [draft EXCEPT ![r].blocks = blocks[active]]
    /\ Goto(r, IF op[r] = "edit" THEN "ready" ELSE "viewed")
    /\ UNCHANGED <<stored, locked, request, got, refused, faults>>

\* Its blocks.  A view is over; an administrator goes on to edit.
ReadBlocks(r) ==
    /\ pc[r] = "row"
    /\ draft' = [draft EXCEPT ![r].blocks = blocks[got[r]]]
    /\ Goto(r, IF op[r] = "edit" THEN "ready" ELSE "viewed")
    /\ UNCHANGED <<stored, locked, request, got, refused, faults>>

Annotated(t) == [t EXCEPT !.flat["deadline"] = Append(@, Note)]

\* The administrator adds a line to the deadline that was read.
Annotate(r) ==
    /\ pc[r] = "ready" /\ op[r] = "edit"
    /\ draft[r] = Stored(got[r])
    /\ draft' = [draft EXCEPT ![r] = Annotated(@)]
    /\ UNCHANGED <<stored, locked, pc, request, got, refused, faults>>

-----------------------------------------------------------------------------
(* The transactions.                                                       *)

\* A slip to rule out: the SELECT without FOR UPDATE.
FreeForAll(r) == TRUE

\* The row lock excludes; locks of the gap where a row will be do not.
Lockable(r) == locked = {} \/ owner = Nobody

\* UpsertTypeVersion of template t: normalise, validate, lock.
LockForUpsert(r, t) ==
    /\ Valid(Sync(t))
    /\ Lockable(r)
    /\ locked' = locked \union {r}
    /\ draft' = [draft EXCEPT ![r] = Sync(t)]
    /\ got' = [got EXCEPT ![r] = active]
    /\ Goto(r, "locked")
    /\ UNCHANGED <<stored, refused, faults>>

\* Of a template that was read and edited, or of one that comes as it is.
UpsertEdited(r) ==
    /\ pc[r] = "ready" /\ op[r] = "edit"
    /\ LockForUpsert(r, draft[r])
    /\ UNCHANGED request

Upsert(r, c, t) == Arrives(r, "put", c, 0) /\ LockForUpsert(r, t)

\* Of a neighbour: an absent type_id beside that of the type, absent too.  The SELECT
\* ... FOR UPDATE finds no row and locks the gap that both are in.
UpsertNeighbour(r, c, t) ==
    /\ owner = Nobody
    /\ Arrives(r, "neighbour", c, 0)
    /\ LockForUpsert(r, t)

\* Rollback, by the deferred call: the locks are gone, the tables as they were.
Rollback(r) ==
    /\ locked' = locked \ {r}
    /\ Goto(r, "over")
    /\ UNCHANGED <<stored, request, draft, got, faults>>

MayWrite(r) == owner \in {company[r], Nobody, Everybody}

Forbidden(r) ==
    /\ pc[r] = "locked"
    /\ ~ MayWrite(r)
    /\ Rollback(r)
    /\ UNCHANGED refused

NextVersion(r) == got[r] + 1

\* A type without company_id is taken for one without a row, and its INSERT fails, as
\* do those of a version or a block that are there already.
Duplicate(r) ==
    \/ owner = Everybody
    \/ Exists(NextVersion(r))
    \/ SameIds(draft[r])

\* The INSERT into a gap waits for every other transaction that has locked it, and each of
\* those, whether it creates this type or a neighbour, will INSERT there and wait in turn:
\* one of them is the deadlock's victim.
Deadlocked(r) == owner = Nobody /\ locked # {r}

\* A slip to rule out: a version that is there already is overwritten.
InsertOrReplace(r) ==
    /\ pc[r] = "locked" /\ op[r] \in {"put", "edit"}
    /\ MayWrite(r) /\ owner # Everybody /\ ~ Deadlocked(r)
    /\ NextVersion(r) \in Version
    /\ owner' = company[r]
    /\ active' = NextVersion(r)
    /\ versions' = [versions EXCEPT ![NextVersion(r)] = Row(draft[r])]
    /\ blocks' = [blocks EXCEPT ![NextVersion(r)] = draft[r].blocks]
    /\ locked' = locked \ {r}
    /\ Goto(r, "over")
    /\ UNCHANGED <<request, draft, got, refused, faults>>

\* The INSERTs of the type, the version and its blocks, the UPDATE of the type, COMMIT.
CommitUpsert(r) ==
    /\ pc[r] = "locked" /\ op[r] \in {"put", "edit"}
    /\ MayWrite(r) /\ ~ Duplicate(r) /\ ~ Deadlocked(r)
    /\ NextVersion(r) \in Version
    /\ owner' = company[r]
    /\ active' = NextVersion(r)
    /\ versions' = [versions EXCEPT ![NextVersion(r)] = Row(draft[r])]
    /\ blocks' = [blocks EXCEPT ![NextVersion(r)] = draft[r].blocks]
    /\ locked' = locked \ {r}
    /\ Goto(r, "over")
    /\ UNCHANGED <<request, draft, got, refused, faults>>

\* The same of a neighbour: its rows are in nobody's way here, its lock was.
CommitNeighbour(r) ==
    /\ pc[r] = "locked" /\ op[r] = "neighbour"
    /\ ~ Duplicate(r) /\ ~ Deadlocked(r)
    /\ Rollback(r)
    /\ UNCHANGED refused

\* An INSERT fails: 500.
UpsertFails(r) ==
    /\ pc[r] = "locked" /\ op[r] # "activate"
    /\ MayWrite(r)
    /\ Duplicate(r) \/ Deadlocked(r)
    /\ Rollback(r)
    /\ refused' = refused \union {r}

LockForActivate(r, c, n) ==
    /\ Arrives(r, "activate", c, n)
    /\ owner # Nobody /\ Lockable(r)
    /\ locked' = locked \union {r}
    /\ Goto(r, "locked")
    /\ UNCHANGED <<stored, draft, got, refused, faults>>

\* The COUNT of the version, the two UPDATEs, COMMIT.  (updated_by and activated_at, the
\* columns of a version that change, are not modelled.)
CommitActivate(r) ==
    /\ pc[r] = "locked" /\ op[r] = "activate" /\ MayWrite(r)
    /\ Exists(number[r])
    /\ active' = number[r]
    /\ locked' = locked \ {r}
    /\ Goto(r, "over")
    /\ UNCHANGED <<owner, versions, blocks, request, draft, got, refused, faults>>

VersionUnknown(r) ==
    /\ pc[r] = "locked" /\ op[r] = "activate" /\ MayWrite(r)
    /\ ~ Exists(number[r])
    /\ Rollback(r)
    /\ UNCHANGED refused

\* A statement fails or the process dies.
Fail(r) ==
    /\ pc[r] \in {"row", "locked"}
    /\ faults < MaxFaults
    /\ faults' = faults + 1
    /\ locked' = locked \ {r}
    /\ Goto(r, "over")
    /\ UNCHANGED <<stored, request, draft, got, refused>>

-----------------------------------------------------------------------------
Next ==
    \E r \in Request :
        \/ \E c \in Company :
              \/ \E o \in {"view", "edit"}, n \in 0..MaxVersion : ReadRow(r, o, c, n)
              \/ \E t \in Draft : Upsert(r, c, t) \/ UpsertNeighbour(r, c, t)
              \/ \E n \in Version : LockForActivate(r, c, n)
        \/ ReadBlocks(r)
        \/ Annotate(r)
        \/ UpsertEdited(r)
        \/ Forbidden(r)
        \/ CommitUpsert(r)
        \/ CommitNeighbour(r)
        \/ UpsertFails(r)
        \/ CommitActivate(r)
        \/ VersionUnknown(r)
        \/ Fail(r)

Spec == Init /\ [][Next]_vars

-----------------------------------------------------------------------------
(* Properties.                                                             *)

\* What an upsert has stored begins with the mandatory blocks in their order, has
\* the orders 1, 2, ... and no key twice, and its flat columns say what its blocks say
\* (template_flat_block_sync.go: "so DB columns stay aligned with the matrix"),
\* whatever the administrator sent.
StoredIsComplete ==
    \A n \in Version : Exists(n) /\ Stored(n) # Seed =>
        /\ \A i \in DOMAIN MandatoryTemplateBlockKeys :
              /\ blocks[n][i].key = MandatoryTemplateBlockKeys[i]
              /\ blocks[n][i].text = versions[n].flat[MandatoryTemplateBlockKeys[i]]
        /\ \A i, j \in DOMAIN blocks[n] :
              /\ blocks[n][i].order = i
              /\ i # j => blocks[n][i].key # blocks[n][j].key

\* What the request was answered, from the moment on at which it reads the version's row.
Answer(r) ==
    IF op[r] # "view" \/ pc[r] \notin {"row", "viewed"} THEN NoTemplate
    ELSE IF pc[r] = "row" THEN Stored(got[r]) ELSE draft[r]

\* The tables as the catalog in memory would keep them.
Numbers == {k \in Version : Exists(k)}
Current == [no |-> active, template |-> IF Exists(active) THEN Stored(active) ELSE NoTemplate]
ByVer   == [n \in Numbers |-> Stored(n)]
Listed  == [n \in Numbers |-> [no |-> n, active |-> n = active]]
Answers == [r \in Request |-> Answer(r)]

Memory == INSTANCE InMemoryCatalog WITH
    catalogScope <- owner, catalog <- Current, catalogByVer <- ByVer, versions <- Listed,
    answer <- Answers

\* Over the database the catalog does nothing that the one in memory might not do: writers
\* that overlap, at a row or at the gap where it will be, take effect one after the other,
\* the active version is always one of those stored, and a detail, put together from two
\* statements with any commits between them, is the one a single look would have given.
ImplementsInMemoryCatalog == Memory!Spec

\* A version never changes once it is stored ("immutable version row",
\* docs/ai-cache/reusable-task-updates.md:1097), whatever is upserted or activated later.
VersionsAreForever ==
    [][\A n \in Version : Exists(n) => /\ versions'[n] = versions[n]
                                     /\ blocks'[n] = blocks[n]]_vars

\* A valid upsert of whose statements none fails for a reason outside the catalog (Fail) is
\* answered with an error only when the type is a seeded one, an older version than the
\* latest is active, two blocks have one id, or the type is new and another transaction holds
\* the gap where its row will be, to create the same type or a neighbour.  In particular,
\* upserts that overlap over a type with a row do not take each other's number.
RefusedForCause ==
    [][\A r \in refused' \ refused :
          \/ owner = Everybody
          \/ Exists(active + 1)
          \/ SameIds(draft[r])
          \/ owner = Nobody /\ locked # {r}]_vars

\* "upsert always creates a new immutable version row and moves active_version_no to
\* latest" (docs/ai-cache/reusable-task-updates.md:1097): an upsert of a company's own
\* type is never refused.
UpsertAlwaysCreates == [][\A r \in refused' \ refused : owner \notin Company]_vars
=============================================================================
