# A verification project for cobo_iam_services

TLA+ models of the Go service in `src/` (identity and sessions, company access,
authorization, disclosure, workflow, notification, a CMS with media files, and
the transactional outbox that joins the API process to the worker process), TLC
configurations that check them on small instances, and TLAPS proofs of all their
safety properties, and of both refinements, for any number of everything.

Contents: 1 the system, 2 the plan, 3 the modules and the code, 4 the runs,
5 fairness and proofs, 6 where code and documents disagree, 7 what is not
modelled.

## 1. The system

Two processes share one MySQL database: the API (`cmd/api`, an HTTP server, one
goroutine per request; several processes may run behind a balancer) and the
worker (`cmd/worker`, one goroutine, a ticker). Everything is wired in
`internal/httpserver/server.go`. Without `MYSQL_DSN` each repository is replaced
by a map behind a mutex, for local bootstrap; the models follow MySQL (and for the
disclosure catalog show that MySQL does what the map does).

Apart from four short transactions (the selection of an outbox batch, the
enqueueing of a notification, the consumption of a recovery link, the versions
of a disclosure type) there is no transaction around anything: a handler is a
sequence of single statements, and between any two of them another request,
another process, the worker or a crash may come. A handler that reads a row,
decides and writes it back does not look again when it writes, unless the WHERE
clause does. That is where the behaviours that are hard to test live, and what
the models are about: **every statement is a step**.

| Component | State | Operations | Interacts with | Hard behaviour | What makes it correct |
|---|---|---|---|---|---|
| Outbox and worker (`platform/outbox`, `cmd/worker`) | table `outbox_events`; a worker's batch in memory | Publish, PublishEventTx, LockPendingBatch, MarkProcessed, MarkRetry, MarkFailedPermanent, Tick | every service that publishes; the notification and mail handlers | overlapping transactions of several workers, Marks that are lost or come late, a crash or SIGTERM between claim and Mark, retries with back-off, an endless stream | one owner per event, no repeat of a success, an exact retry budget, no starvation |
| Sessions (`iam/app`, `iam/infra/mysql/sessions.go`) | table `sessions`; the token a client stores | Login, Refresh, SelectCompany, SwitchCompany, Logout, RevokeSession, expiry | memberships (read), token manager | a refresh, a switch and a logout of one session at once; a lost answer; a membership withdrawn between read and write | revocation is final, tokens are of one session, a company comes from a membership |
| Password reset and verification (`iam/app`, `auth_recovery.go`) | tables of links, credentials, `email_verified_at` | ForgotPassword, ResetPassword, ResendVerification, VerifyEmail | sessions (revokes them), outbox (mail) | logins under way while the password changes; a dropped error of the revocation; one link presented twice | links work once, no session of an old password survives |
| Idempotency keys (`platform/idempotency`) | table `idempotency_keys` | TryReserve, loadAfterConflict, Complete, Abandon | the disclosure handlers | retries while the first request runs, after it failed, after its client left | one answer per key, the work once per key, no key forgotten |
| Disclosure records (`disclosure`, CMS handler) | table `disclosure_records` | Create, Update, Submit, Confirm; the CMS's reject, schedule, unschedule | idempotency keys, authorization, audit | whole rows read and written back with no version; a read-back that fails after the write | status and publication date stay together |
| Disclosure catalog (`disclosure/app/template_*.go`, repository) | disclosure types, versions and the blocks of their templates | GetTypeDetail, GetTypeVersionDetail, UpsertTypeVersion, ActivateTypeVersion, lists | CMS | two upserts that compute one version number; activation during an upsert; a detail read in two statements; templates that say things twice | one version number each, versions never change, what is stored is complete |
| CMS media (`platformcms`, `media_*.go`) | table `cms_media_assets`; files on the disk | upload intent, binary upload with a signed URL, completion, deletion | the disk | row and file change one after the other; truncation and removal of a file that another request writes; a copy that breaks | a ready asset has its binary, a deleted one stays deleted |
| Workflow (`workflow`) | instances and tasks | CreateWorkflowInstance, Review, Approve, Confirm | authorization | two decisions on one task; a second INSERT that fails | a task is decided once |
| Notification (`notification`) | jobs, deliveries | EnqueueNotification, DispatchPending | outbox (same transaction), authorization (recipients) | two dispatches at once, dropped errors, a panic in the middle of a batch | each job is delivered, once |
| Authorization (`authorization`) | effective-access cache, five minutes | Check, resolve | everybody asks it | the cache is stale after a change and nothing invalidates it | a withdrawn right ends in time |
| Access tokens (`iam/infra/token`, token_builder.go) | a map in the process; signed tokens at the clients | issue and inspection of opaque, signed and pre-company tokens in three modes | every handler inspects one; requests of the sessions answer with them | tokens outlive sessions; a restart, with another mode, in the middle of everything | a revoked session's tokens end, whoever renews what; the last answer is for the company of the session |
| Company access (`companyaccess`) | users, memberships, roles, departments, titles, rules | lists and administration, CreateUser | sessions and authorization read it | a change between a check and its use; a request that is authorized twice | an administrator's change is what later checks see |
| Audit (`audit`) and the paged lists of the CMS | append-only log; media assets | Append, ListByCompany; list of assets | all services append, the CMS reads | errors dropped by every caller, entries that come late, several in one instant, deletions between two pages | a reader of all pages is shown each thing once |
| Password normalisation, hooks, HTTP wiring | keys, configuration | pure computation, I/O | - | - | - |

The hazards this exposes the code to are listed, each at its line, in
`PROJECT.json` under `hazards`, with the properties that catch them.

## 2. The plan

In the order of importance; what is marked *done* is in this directory.

1. *done* `Outbox`, its abstract specification `EventLife`, and `OutboxProofs`.
   All asynchronous work of the system passes through the outbox.
2. *done* `IamSession` and `IamSessionProofs`. Who is logged in where.
3. *done* `AuthRecovery`, which extends `IamSession`: what a new password does
   to the sessions of the old one.
4. *done* `IdempotencyStore`, and `Disclosure`, which composes it with the life
   of the records: the core business operation with its retry protocol.
5. *done* `CmsMedia`: two stores (a table and a disk) without a common commit.
6. *done* `Workflow`, 7. *done* `Notification`.
8. *done* `TypeTemplate` and `DisclosureCatalog`, which uses it: what the service
   makes of a template, the version numbers and the active version.
9. *done* `Authorization`, `EffectiveAccess` and `CompanyAccess`: the checker, the
   cache and the administration of roles, composed with `Workflow` in
   `GuardedWorkflow`, so that one run answers for all of them.
10. *done* `AccessTokens`, which outlive sessions and restarts, composed with
    `IamSession`; departments, rules and `CreateUser` in `CompanyAccess`.
11. *done* `InMemoryCatalog`, which `DisclosureCatalog` implements.
12. *done* `CmsListing` and `CmsListingProofs`: what a reader of pages is shown.

13. *done* `DisclosureProofs`, `AccessProofs`, `CmsMediaProofs`, `NotificationProofs`,
    `CatalogProofs`, and in `IamSessionProofs` the access tokens and the recovery.

Every safety property and action property that a run checks is a theorem, and so are
the two refinements. Left for the provers: facts that no run states, such as several
assets or records seen together, and shorter proofs. Liveness stays with TLC.

## 3. The modules and the code

Each module names its code in its head comment; `PROJECT.json`, under `map`, says
for every definition which lines it models. Three conventions hold throughout:

- A request, a worker or a handler is a small process: `pc[r]` is the statement it
  is about to run, the other functions of `r` are what it has read so far. One
  action is one statement together with the in-memory decisions up to the next.
- Data are abstracted to what the properties tell apart. A refresh token is a
  member of a set that is drawn once (`Draw`); the content of a record and its
  planned date are a `Plan`; a file is an inode with a content that is whole or
  partial; the SHA of a request is the triple it is computed from.
- Faults are actions of their own with a budget (`MaxFaults`, `MaxLost`,
  `MaxBroken`): a statement that fails, an answer that is lost, a client that
  disconnects, a process that dies. Deaths and lost answers are no line of the code, and
  external in `map`. Definitions headed "A slip to rule out" are
  in no next-state relation: they are variants of the definition that follows, as
  a plausible bug would have it, kept to show that the properties notice them.

**`Outbox`** (state: the row of each event with `status`, `retry_count` and
`available_at`, the latter as a distance from now, `until`; each worker's open
transaction, batch and loop). `SelectBatch` and `CommitBatch` are the two halves
of LockPendingBatch: the locking SELECT with SKIP LOCKED, ORDER BY and LIMIT, and
the UPDATE with its COMMIT; `RollbackBatch` and `CommitUnanswered` are how they fail. `BeginEvent`,
`HandlerReturns` and the four Marks are the loop of Tick; `MarkLost` is the
dropped error of a Mark. `Sigterm` cancels the context in the middle of a tick
(every later statement of that tick fails, handlers run on), `Crash` is a death
anywhere, `Restart` the next process in either's place. An event slot is published again after
its event has ended, which makes an endless stream a finite model.
**`EventLife`** is what this promises about one event, without workers, rows and
transactions: *absent, pending, taken, running, succeeded or failed, processed /
pending again / failed_permanent*, or *lost*. `ImplementsEventLife` maps the rows
and the workers to it (`LifeOf`).

**`IamSession`** (state: rows of `sessions`, active memberships, requests, and
what clients store). Login is `LoginVerify` (reads) and `LoginCreate` (INSERT);
Refresh is `RefreshFind` (SELECT by hash, checks) and `RefreshRotate` (UPDATE by
session id, `AND revoked_at IS NULL`) or `RefreshRefused`; SelectCompany and
SwitchCompany are `BindFind` and `BindUpdate` or `BindRefused`; `Logout` and
`RevokeSession` are one UPDATE each. `Answer` and `LoseAnswer` are the way back
to the client. `SingleFlight` names the sessions whose client never has two
requests of its session race with a refresh, as the documents ask of front ends.

**`AccessTokens`** adds to it the tokens these requests present and answer with:
the map of the process (`memory`: opaque tokens, and those that only choose a
company), and how long the best signed token of a session is still good (`left`).
`OpenBind` asks for a token, and the UPDATE after it for a live session;
`AnswerToken` issues by the mode; `Tick` takes signed tokens to their end;
`Restart` cuts every request between two statements, empties the map and may change
the mode. All tokens answered for a session count, not only the one its client kept.

**`AuthRecovery`** extends `IamSession` with the links (`SendLink`, `LinkExpires`,
`Consume`: the transaction with SELECT ... FOR UPDATE), the three statements of
ResetPassword (`Consume`, `UpdatePassword`, `RevokeAll`), VerifyEmail
(`MarkVerified`), the check of the new password after the link is gone
(`TooShort`), and `Break` for a failed statement or a death after any of them. A
login remembers the password it has verified, a session the one it was opened
with.

**`IdempotencyStore`** has the statements on `idempotency_keys` as operators over
`entry`; **`Disclosure`** instantiates it and has the records. A request goes
*new, (duplicate) reserved, read, written, completing / failed, over*; `Reserve`,
`Duplicate` and `LoadDuplicate` are TryReserve, `Read`, `Write` (or
`WriteNothing`, when MySQL counts no row) and `ReadBack` the operation on the
record, `Complete`, `CompleteFails` and `AbandonKey` the end of the key. `Fail`
is a failed statement, `Disconnect` a cancelled context or a death. The days
pass by `Midnight`. The verdict of the authorization is a free choice (`Refuse`).

**`TypeTemplate`** has the pure part of the catalog: `Sync` is
ApplyTemplateFlatBlockSync (`Materialized`, `Rebuilt`, `Mirrored` are its three
steps), `Valid` is validateTemplateMatrix. A text is the sequence of its lines,
a setting of a block is good or bad. **`DisclosureCatalog`** has the tables: a
writer is `LockForUpsert` or `LockForActivate` (SELECT ... FOR UPDATE) and then
one of `CommitUpsert`, `UpsertFails`, `CommitActivate`, `VersionUnknown`,
`Forbidden` or `Fail`; MySQL locks the whole
gap of the index for an id that is absent, and lets several transactions lock it: so two
creators of one type, or of neighbouring types (`UpsertNeighbour`, `CommitNeighbour`: the lock
and its end, without the rows), both get it, and one of them is the victim of the deadlock at their INSERTs. A reader is `ReadRow` and `ReadBlocks`;
`Annotate` is the administrator who changes what was read and sends it back. A request
chooses its operation, company, number and template when it comes in (`Arrives`).
**`InMemoryCatalog`** is the repository of the same interface over maps: each operation
runs under one mutex, so it is one step, and it is the specification that the
transactions and pairs of SELECTs of the other implement (`ImplementsInMemoryCatalog`;
`Answer` is where a reader of MySQL has its detail).

**`CmsMedia`**: `CheckUpload`, `OpenFile` (os.Create truncates what the path names),
`CopyAll`, `CopyShort` with `RemoveShort`, `CopyFails`; `FindAsset`,
`CheckBinary`, `ReadAgain`, `MarkReady`; `RemoveBinary`, `MarkDeleted`; `Crash`.
An upload writes the inode it opened even when the path was removed.

**`Authorization`** is the policy of an action (a row of the matrix, or what
legacyPolicy says) and the checker, as operators: `Allowed` is Check.
**`EffectiveAccess`** has the tables of rights, and the cache of one API process
(processes without Redis have one each, and share nothing but the tables).
Authorize is `DecideFromCache`, or `ReadPermissions`, `ReadPositions` and
`StoreAndDecide`: two queries, between which the tables may change, and a store
that does not look at what is in the cache. `Forget` is an entry that is gone
early, `Tick` the clock. **`CompanyAccess`** has the statements that change the
tables: memberships with their roles, titles and departments (`Bind`, `Unbind`), the permissions of
roles, the rules; CreateUser is `AskWebAdmin`, its second authorization, and `CreateUser` or
`CreateUserAlone`. **`Workflow`** has the instances and tasks: creation is `InsertInstance` and
`InsertTask`, or `EndRequest` in its place (the dropped error); a decision is
`FindTask`, Authorize and `UpdateTask`. **`GuardedWorkflow`** runs both, handler
by handler: a handler serves one request after the other. The resource of
a request (`about`) carries the task as it was read, since that is what the
checker, the service and the UPDATE go by.

**`CmsListing`**: an item of the audit log gets its time in the service (`Stamp`) and
its row later (`Append`), an asset both in one INSERT (`CreateIntent`), and may be deleted. The reader
takes `IsPage`, any of the pages that ORDER BY and LIMIT allow, and the cursor of
`FullPage`, cut to the second by `Format`, until a page is not full.

**`Notification`**: `Enqueue` (job and event in one transaction; jobs are numbered by created_at, and their
transactions commit in any order), `ProcessEvent`
(what the worker does with the event), `ListPending`, then `Deliver` or
`DeliverFails` and `MarkDispatched` or `MarkFails` for each job of the batch.

## 4. The runs

`tlc -config X.cfg M` with the module and configuration below. State counts are
distinct states after symmetry.

| Run | Module, cfg | Instance | Checks | States |
|---|---|---|---|---|
| `outbox` | MCOutbox, MCOutbox | 3 events (one without a handler) published for ever, 2 workers, batch 2, 2 tries, 2 faults, fair | types; OneOwner, BatchIsFresh, AtMostOneSuccess, RetryBudget, ProcessedWasDelivered; ImplementsEventLife; EventuallyTerminal | 314,034 |
| `iam_session` | MCAccessTokens, MCAccessTokens | 1 user, 1 session (single-flight), 2 companies, 2 requests, 4 refresh tokens, 1 lost answer, access tokens of 2 ticks, 3 modes, restarts | types; BoundToMembership, ClientIsCurrent, RotatedOnce, RevokedAccessEnds; RevokedForGood, LoneAnswerIsCurrent | 358,650 |
| `auth_recovery` | MCAuthRecovery, MCAuthRecovery | 1 user, 2 sessions, 2 reset links and a verification link, 1 request and 2 handlers, 1 fault | OldPasswordSessionsEnd, LinkResetsOnce | 638,590 |
| `disclosure` | MCDisclosure, MCDisclosure | 1 record, 2 users, 2 contents, 3 requests of any kind, 1 key, 2 days, 1 fault | types; PublishedIsDated, OneReplyPerKey, AppliedOncePerKey, KeyHeldWhileServed; UnracedTransitions | 3,255,291 |
| `disclosure_key` | MCDisclosure, MCDisclosureKey | 2 requests, 1 fault, fair handlers | KeySettles is *violated* | - |
| `catalog` | MCDisclosureCatalog, MCDisclosureCatalog | 1 type (new or seeded) and its new neighbours, 2 companies, 4 requests of any kind, 4 templates, 2 versions, 1 fault | types; StoredIsComplete; ImplementsInMemoryCatalog; VersionsAreForever, RefusedForCause | 295,518 |
| `catalog_rollback` | MCDisclosureCatalog, MCDisclosureCatalogRollback | 1 company, 4 requests, no fault | UpsertAlwaysCreates is *violated* | - |
| `cms_media` | MCCmsMedia, MCCmsMedia | 1 asset, 4 requests of any kind, 1 fault | types; ReadyHasBinary, DeletedHasNoBinary; DeletedForGood | 33,337 |
| `media_ready` | MCCmsMedia, MCCmsMediaReady | 1 asset, 2 requests, 1 fault | PresentWasUploaded is *violated* | - |
| `workflow` | MCGuardedWorkflow, MCGuardedWorkflow | 1 instance, 3 memberships of 2 users (one there at the start) in 2 companies, 1 role, 2 titles, 1 department, 1 rule, 2 permissions, 2 handlers, 1 change of the tables, TTL of 2 ticks | types; DecisionsStandUnlessRaced; WithdrawalEndsInTime, GrantIsSeenInTime | 163,531 |
| `notification` | MCNotification, MCNotification | 3 jobs, 2 dispatchers, 2 jobs a dispatch, 2 faults | types; DeliveredOnce, DispatchedAfterDelivery | 245,733 |
| `cms_listing` | MCCmsListing, MCCmsListing | 5 items, pages of 2, 2 instants a second, 6 instants | ShownOnce | 303,794 |

**Why the bounds are enough.** The properties relate at most two actors and one
item, or two items and one actor: two workers and an event, two requests and a
session, two tokens of a session, a first and a retried
request with one key. So two actors of each kind is the least that can go wrong,
and a third request is there where a third role matters (a retry after a race,
an edit between a submission and its confirmation; a deletion between an upload
and a completion). In `outbox`, three events exceed the batch of two, so that the
LIMIT cuts, and starvation would be possible without ORDER BY; one has no handler; of
two tries the first is retried and the second is the last (that the count goes up by one at each
is also proved for any number of them); two faults allow a lost Mark followed by a crash, or
both workers to be gone. The back-off keeps its table; only the waiting time of a
due event is capped (`MaxAge`), because nothing but its order relative to others matters. In
`iam_session` one session is enough, because every statement is on one row (the theorems
are about any number of them); four refresh tokens let it be rotated three times, two
companies make a stale access token visible; with a life of two ticks a token of the session as
it was before a revocation differs from one that was renewed after it; `auth_recovery` leaves the choice
of a company and lost answers to `iam_session` (one company, `MaxLost = 0`),
and looks at one user since no statement of it touches another's rows. Of the
disclosure records one is enough, because every statement is on one row;
two contents make an edit visible, two days make a submission's date differ from an
earlier one's. One key suffices: keys share nothing but the column. In `catalog`,
two versions are the least for a rollback, four requests let two creators meet and
leave an editor and a reader or an activation; the templates are one without
blocks, one with blocks in disorder (a key missing, a blank one, equal orders),
one with a key twice, one with an id twice. In `workflow`, one
change of the tables is enough to withdraw a right or to grant one, since the member has one of
two titles from the start; that many changes may follow one another is what the theorems about any
number of them show. Two handlers are the least for a decision that overtakes another and
for two resolvers that store in the wrong order; a time to live of two ticks tells apart an entry of
this tick, one that is still good, one that is just past, and none. The second company gives an
administrator a membership that he may not create, and each title makes one of the decisions its
holder's. In
`cms_listing` a first page, a second one that begins in the same second, and a last one that is
not full need five items; two instants are the least that a cursor cuts to one second. A matrix row for
the review uses the parts of a policy that legacyPolicy leaves open. A
tick does not fall between the queries of one resolver: milliseconds against minutes.

**Deadlock.** The configurations set `CHECK_DEADLOCK FALSE`, because the modelled world
does run out: each request of `Disclosure`, `DisclosureCatalog` and `CmsMedia` runs
once, tokens and links are drawn from a finite set, jobs are numbered up to a bound, the reader
of a list comes to its end, and without waiting events and with the faults spent the clock and the workers of
the outbox may rest. That nobody waits for ever where it matters is what `EventuallyTerminal` says.

**Mutants.** Every property of every passing run has in `PROJECT.json` a slip
that breaks it under the run's own configuration: SKIP LOCKED forgotten, a missing
`continue`, a WHERE without `revoked_at IS NULL` or `deleted_at IS NULL`, a reservation
kept after an error, a status the ENUM does not have, and so on.

## 5. Fairness and proofs

**Fairness.** `Outbox!FairSpec` assumes that as long as a worker is left some worker's ticker fires
(`WF(\E w : SelectBatch(w))`; `cmd/worker` has a time.Ticker in an endless loop), that a
tick that has begun goes on (`WF(CommitBatch(w) \/ LoopStep(w) \/ WindDown(w))` for each
worker: a Tick has no wait in it, and in a worker that was told to stop its statements fail on the cancelled context),
and that time passes (`WF(Clock)`). It assumes nothing of publishers, faults, or of anyone
starting a worker again. So `EventuallyTerminal` is true with faults too, of every event that
is not lost in one of the ways that `EventLife` names (section 6), while a worker is left.
Weak fairness is enough although another worker may take an event away,
because that worker then deals with it.
`Disclosure!FairSpec` assumes that the handler of a request that has arrived
runs to its end; nothing makes a request arrive. `KeySettles` fails under it all the
same. No other property needs fairness.

**What is proved.** Eight modules, by TLAPS, for every value of the constants under the
assumptions that the modules of the models state:

| Proofs | About | Assumption |
|---|---|---|
| `OutboxProofs` | `Outbox`, `EventLife` | `OutboxAssumption`: finitely many events, positive batch size and retry budget, `NoEvent` is no event |
| `IamSessionProofs` | `IamSession`, `AccessTokens`, `AuthRecovery` | `IamAssumption`: the placeholders are no values, every session has an owner; `LifeAssumption`: a signed token lives at least a tick; `RecoveryAssumption`: every link has an addressee |
| `DisclosureProofs` | `Disclosure` with `IdempotencyStore` | `DisclosureAssumption`: `NoKey` is no key, there is a day |
| `CatalogProofs` | `TypeTemplate`, `DisclosureCatalog`, `InMemoryCatalog` | `CatalogAssumption`: owner placeholders are no companies, drafts and seed are templates and `NoTemplate` is none, versions have numbers |
| `CmsMediaProofs` | `CmsMedia` | `MediaAssumption`: `NoFile` is no inode |
| `AccessProofs` | `GuardedWorkflow` (`Authorization`, `EffectiveAccess`, `CompanyAccess`, `Workflow`) | `AccessAssumption`: no right is both a permission and a title, `Absent` is nothing else; `CompanyAssumption`: memberships have users and companies; `SeedAssumption`: the tables at the start keep the unique key of memberships |
| `NotificationProofs` | `Notification` | `NotificationAssumption`: a positive limit |
| `CmsListingProofs` | `CmsListing` | `ListingAssumption`: pages and seconds are not empty |

The bounds (`MaxFaults`, `MaxVersion`, `MaxEdits`, ...) are any natural numbers there. In each
module `IInv` is the inductive invariant; TLC has checked it on the instances of section 4.

`OutboxProofs`: the properties of the outbox are not inductive. That two workers
never hold one event (`OneOwner`) rests on two facts no property mentions: a
locked row is still 'pending', and a row of a batch is 'processing' with the
count that was loaded; so `Lockable` and the batches never meet. The budget of
handler calls rests on how `attempts`, `retry_count` and the point of the loop
relate: equal while the event waits or is taken, one apart while it is handled or
has failed. `IInv` is the conjunction of the types, `PhaseOK` (what the phase of a worker
says of its memory), `LockedIsPending`, `BatchIsFresh`, `OneOwner`, `AllCounted`
and `InHandCounted`. There is a lemma for each action, a step for each
conjunct. The theorems are `TypeCorrect`, `MutualExclusion`, `MarksAreSafe`,
`AtMostOnce`, `BudgetRespected`, `NothingSkipped`, and `Refinement`: under `IInv`
every step of `Outbox` is a step of `EventLife` or leaves its variables alone.

`IamSessionProofs`: what holds of the table holds because of what the requests
under way have read. `IInv` has the types, `PhaseOK`, `RowOK` (a login is the only
request on its session before the INSERT, so that an INSERT never meets a revoked
row), `MemberOK` (a company about to be written was found among the memberships),
`TokenOK` (tokens in use were drawn; one that is drawn for a row is known to nobody and in no
other request), `SingleOK` (on a single-flight session at most one request carries a new token; what it
presented is what the row still has; the row's token was never spent), and the
properties themselves. The theorems are `TypeCorrect`, `Membership`,
`OneSessionPerToken`, `ClientCurrent`, `RotationOnce` and `RevocationIsFinal`. The last is an
action property: of the statements that write a session, the two UPDATEs look at
`revoked_at`, and the INSERT is kept off by `RowOK`.

`OneSessionPerToken` states `TokenOfOneSession`, which no run checks, as `iam_session` has one
session.

The access tokens (`AccInv`) need four facts more. `MapOK`: a process that signs its tokens
keeps none in its map that is good for more than a choice. `AgeOK`: time left and time since
the revocation are together at most one life, because an answer that is under way when a
session is revoked is issued in that tick; `AccessEnds` follows. `CrowdOK` and `ClaimsOK`: a
request that has its session for itself has read, or has written, the company the session is
bound to; `LoneAnswer` follows. The theorems are `TokensInductive`, `AccessEnds`, `LoneAnswer`.

The recovery (`RecInv`): `LinksOK` (a link that is being used was consumed by one handler, who
has not reset anything with it yet) gives `OneResetPerLink`; `PasswordsOK` gives
`ResetEndsSessions`. The latter speaks of logins too: a login that has verified an old password
will open a session of it, so it must be known to be late, or a revocation must still come,
before its INSERT. The other statements of sessions are steps here as well; `OtherStepOpensNothing`
says once what they all leave alone.

`DisclosureProofs`: `RowsOK` says that what a request has read is what the table still has,
unless somebody wrote the row meanwhile, and `DatesOK` that no row, in the table or in a
request's hands, has a status and no date. Of a key, `KeysOK` says who owns its row and how far
that request is; with it, `CountsOK` (each application but one was followed by a fault), `RepliesOK`
(nobody is answered before the owner has finished, and then all as he was) and `FaultsOK` (a key is
left behind in progress only by a fault). The theorems are `Typing`, `Dates`, `Replies`, `Writes`,
`Reservations` and `Transitions`.

`CatalogProofs`: of the templates, `SyncType`: whatever template comes, what `Sync` makes of it is a
template, and complete when the validation passes it. It needs that the places of the other
blocks can be counted off (`NthOfSet`), that six mandatory keys are different, and that a template that is left
without blocks has no deadline, so that the validation stops it. Of the transactions: `LocksOK` (who holds the
lock of the row has read the active version that is still there, and is alone unless the type has
no row) and `VersionsOK` (versions are 1, 2, ... without a gap, the active one among them). The
theorems are `Typing`, `CompleteVersions`, `ImmutableVersions`, `Refusals` (the reasons a valid upsert may be
refused for, when no statement fails from outside), and `Refinement`: a commit is
an upsert or an activation in memory, the first SELECT of a detail is its answer (what the
second will read cannot change any more), a reader's failure loses the reply, and all else is unseen.

`CmsMediaProofs`: no lock keeps requests on one asset apart, so the invariant tells for each phase
what the others cannot have done meanwhile to an asset that is not suspect: `PartialOK` (a partial binary
is being written or will be removed), `DeletedOK`, `UnlinkedOK` (what a deletion has removed stays
away), `PresentOK` (what a completion has seen is whole, or a deletion is under way) and `ReadyOK`. `Elsewhere`
says once that requests on other assets do not matter. The theorems are `Typing`, `ReadyBinary`,
`DeletedBinary`, `DeletionIsFinal`.

`AccessProofs`: an entry of the cache and the tables may differ in rights that changed since the entry was
read, and in no others (`CacheOK`); what a handler has read so far, in those that changed since
the last tick (`ViewsOK`). Together with `MoreRights` (the checker never denies for one right
more) they give `Withdrawal` and `Granting`. `TasksOK` (a task that was found stays, and an instance waits
for its task of one request only) gives `Decisions`. Neither depends on how many changes, handlers or ticks there are.

`NotificationProofs`: the loop of DispatchPending works on what it has listed, so the invariant is about
batches: a job that did not race is in one batch (`AloneOK`), its one delivery is the last thing before its status
(`OnceOK`), and behind a delivery that was tried there is a row or an error (`TriedOK`). The theorems are
`Typing`, `OneDelivery` and `NoneUnsent`.

`CmsListingProofs`: `ShownOnce` is about a reader at its end, and its invariant about one on
the way. What was shown is not below the cursor (`Above`), so no later page has it; what was
there at the beginning and was not shown is below it or shares its second with the end of a
page (`Awaited`); and neither gets another date (`Dated`). The step from page to page rests on
`SameSecond`: what lies between a time and that time without its fraction is of one second with it. The theorem is `Paging`.

**What is only model-checked.** `EventuallyTerminal`, and with it that fairness is enough:
liveness and ENABLED are beyond this prover. That `KeySettles`, `UpsertAlwaysCreates` and `PresentWasUploaded`
fail is what TLC shows (section 6). The rest of the properties are proved, and the runs show that
they are about something: each is violated there by its slip.

## 6. Where code and documents disagree

With a run that exhibits it (`findings` in `PROJECT.json`):

- `catalog_rollback`: after a rollback to an older version an upsert computes a number
  that is taken, and is answered 500 until the latest version is activated again
  (disclosure repository.go:324); docs/ai-cache/reusable-task-updates.md:1097 says an upsert always creates a version.
- `disclosure_key`: after a disconnection a key stays in progress for ever and each
  retry gets 409 (disclosure handler.go:131); README.md:211 says the client may retry later.
- `media_ready`: a copy that breaks off (io.Copy fails, or the process dies) leaves a partial file, and a
  completion that comes later, with no upload under way, finds the binary present
  (media_handler.go:248); media_handler.go:249 would answer it "media binary not uploaded yet".

In the models too, visible in their behaviours, without a run of their own:

- Rows a stopped worker had claimed stay 'processing' for ever (processor.go:63);
  docs/implementation-step-by-step.md:194 says they are processed again, and TODO.md:10 plans a
  reclaim. `MarkLost`, `Sigterm`, `Crash`; `EventLife` calls such an event *lost*.
- In mode `opaque` an access token is answered with an expires_in of 900, never runs out, and
  outlives a logout until the process ends (opaque/manager.go keeps no time); docs/jwt-migration-implementation-plan.md:207
  expects 401 for an expired token. `MapValid`; `RevokedAccessEnds` speaks of the other modes.
- docs/jwt-migration-implementation-plan.md:209 has mode `dual` accept the opaque tokens of before,
  which were in the memory of the process that had to end for the mode to change. `Restart`.
- The token that chooses a company is in the memory of one process in every mode, so that
  docs/DEPLOY-ONE-DNS-PUBLIC-ADMIN-AND-SECURITY.md:104 (no random 401 with signed tokens and several replicas)
  does not hold of it. `PreCompanyValid`.
- SwitchCompany's UPDATE looks at revoked_at and not at refresh_expires_at (sessions.go:105): an access token
  of a session that has expired still switches it. `BindUpdate` after `Expire`.
- admin_service.go:45 says an enterprise administrator adds users to the current company only. Without a row of the
  matrix, whoever may create a user has rbac.manage and is taken for a web administrator;
  the branch is reached with such a row, or when the right is withdrawn in between. `AskWebAdmin`.
- The in-memory catalog is more generous than the other: an upsert there takes over a type of
  another company or a seeded one and writes over a number that is taken, and an
  activation of an unknown number, answered 404, switches every listed version off
  (disclosure/infra/inmemory/repository.go:178, :266). Refinement is one way only. `UpsertTypeVersion`, `ActivateTypeVersion`.
- A reader of pages may miss what shares its second with the last item of a page
  (media_handler.go:329 cuts milliseconds; audit times have none; both lists continue strictly below);
  docs/ai-cache/reusable-task-updates.md:1269 has it continue from next_cursor. `ShownOnce` leaves those seconds out.
- A completion also accepts a binary that is still being written (media_handler.go:248), where
  media_handler.go:249 says "media binary not uploaded yet". `CheckBinary` during an upload; `suspect`.
- Choosing the company the session already has is answered 401, since MySQL counts no
  changed row (sessions.go:115); docs/api-swimlane-qa-checklist.md:132 and :150 say 200. `BindRefused`.
- A seeded type can be activated by every company and upserted by none: its company_id is
  NULL, so the upsert tries to INSERT it and fails (disclosure repository.go:315). So does a template that
  names one block id twice, which passes the validation. `Duplicate`.
- Of two administrators who create a type at once, or two types whose ids are neighbours in the index, one may be answered 500:
  the SELECT ... FOR UPDATE (disclosure repository.go:307) locks the gap for both, and their INSERTs (:316) deadlock.
  docs/ai-cache/reusable-task-updates.md:1097 has an upsert always create a version. `Deadlocked`.
- A template that is read and saved again gets its format appended to its channels once more
  (template_flat_block_sync.go:162, then :229), so that each save adds a line. `FlatText`, `Mirrored`.
- Two refreshes with one token both succeed when both read the row before either
  writes (sessions.go:124 writes by session id); docs/api-swimlane-qa-checklist.md:98 says a
  token is rejected after rotation. `RotatedOnce` and `ClientIsCurrent` therefore speak of
  single-flight sessions.
- A confirmation that read 'Published' overwrites a rejection
  (disclosure service.go:152), although docs/api-flow-sequence.md:279 lets a confirmation
  through from one state only (which it calls `submitted`; the code's is
  'Published'). `UnracedTransitions` excludes stale requests.
- The second of two identical edits is answered 404 (disclosure
  repository.go:53); docs/api-swimlane-qa-checklist.md:229 has an update succeed for whom it is permitted. `WriteNothing`.
- Two decisions on one task that both read it pending are both answered 200
  (workflow repository.go:93); docs/api-swimlane-qa-checklist.md:274 has a state conflict for a task that is not pending. `DecisionsStandUnlessRaced` excludes them.
- An instance whose first task could not be inserted is answered 201 (workflow service.go:42);
  docs/api-swimlane-qa-checklist.md:266 has the first task created pending. `EndRequest` after `InsertInstance`.
- A membership that is made inactive keeps its rights for as long as its token lives:
  ListPermissionCodes (authorization repository.go:26) does not read the status, and
  docs/implementation-step-by-step.md:602 says that an inactive membership is denied. `PermissionsOf`.
- A job whose delivery could not be inserted is dispatched all the same (notification service.go:111);
  docs/api-swimlane-qa-checklist.md:314 names the deliveries before the status. `DeliverFails`.
- The worker only logs the event of a notification (cmd/worker/main.go:60);
  docs/implementation-step-by-step.md:233 has the dispatch driven by the outbox worker. `ProcessEvent`.

## 7. What is not modelled

- The status of a membership is a matter of `IamSession` only.
- In `Disclosure`, `DisclosureCatalog` and `Notification` the verdict of the authorization is a free
  choice, which covers every answer that `EffectiveAccess` may give.
- A request of `GuardedWorkflow` may come from any membership that has existed: how long its
  token lives is a matter of `AccessTokens`. Signatures, issuers and audiences of tokens are not modelled:
  nobody forges one.
- Password normalisation (pure computation), hooks for MFA and SSO (interfaces without an
  implementation), metrics, health and unpaged lists of the CMS (reads), HTTP and
  configuration (I/O and set-up). The handlers of the CMS that create or edit
  entries, revoke sessions or create users call the services above and add nothing but the audit entry.
- The in-memory repositories other than the catalog's: maps behind a mutex, for local bootstrap. The audit log's is in the
  order of appending and not of occurred_at, so what `CmsListing` shows does not hold of it.
- In `DisclosureCatalog`, the rows of other types: what types share is the gap of the index where new ones will be, under
  MySQL's default isolation, REPEATABLE READ, which the code does not change. The groups that templates name exist,
  and values fit their columns.
- In `CmsListing`, filters, and a cursor or a limit that the reader makes up or changes on the way.
- Inside the modelled components: wording, listing and filtering, text columns, cryptography,
  and requests that fail before their first write, which change nothing.
