----------------------------- MODULE IamSession -----------------------------
(***************************************************************************)
(* Sessions of the identity service: login, rotation of refresh tokens,    *)
(* choice of a company, logout and revocation (internal/iam), over the     *)
(* MySQL repository.                                                       *)
(*                                                                         *)
(* A request is a sequence of statements without a transaction, and any    *)
(* number of requests run at once: Login reads the memberships, then       *)
(* INSERTs the session; Refresh reads the session by the hash of the       *)
(* presented token, then writes the hash of a new one by session id;       *)
(* SelectCompany and SwitchCompany read the membership, then UPDATE the    *)
(* session.  Logout and RevokeSession are one statement each.  The client  *)
(* learns a token only when the answer reaches it.                         *)
(***************************************************************************)
EXTENDS FiniteSets, Naturals

CONSTANTS
    User, Company,
    Session,       \* session ids that logins will draw
    Owner,         \* the user who opens each of them
    Request,       \* requests in flight at once
    Token,         \* refresh tokens that will be drawn
    NoToken, NoCompany, NoSession,
    SingleFlight,  \* sessions whose client refreshes once at a time, as the deploy guide asks
    MaxLost        \* bound: answers lost on their way

ASSUME IamAssumption ==
    /\ Owner \in [Session -> User]
    /\ NoToken \notin Token
    /\ NoCompany \notin Company
    /\ NoSession \notin Session
    /\ SingleFlight \in SUBSET Session
    /\ MaxLost \in Nat

VARIABLES
    \* table sessions
    row,        \* "none" before the INSERT, "live", "revoked" (revoked_at set)
    refresh,    \* refresh_token_hash
    bound,      \* current_company_id (the membership follows from the owner)
    expired,    \* sessions past refresh_expires_at
    \* table memberships: the active ones
    member,
    \* requests
    pc, on, presented, fresh, company,
    \* clients: the refresh token each stores, and the tokens ever answered
    held, known,
    \* history, read by no action but to draw fresh tokens and bound the faults
    issued, wasMember, lost,
    spent,      \* tokens that a session was rotated from
    reused      \* sessions rotated twice from one token

table    == <<row, refresh, bound, expired>>
requests == <<pc, on, presented, fresh, company>>
clients  == <<held, known>>
history  == <<spent, reused>>
vars     == <<table, member, requests, clients, issued, history, wasMember, lost>>

Rows   == {"none", "live", "revoked"}
Phases == {"idle", "verified", "found", "permitted", "answering"}

\* No row of a session is ever deleted, and columns, requests and clients keep
\* their types.
TypeOK ==
    /\ row \in [Session -> Rows]
    /\ refresh \in [Session -> Token \union {NoToken}]
    /\ bound \in [Session -> Company \union {NoCompany}]
    /\ expired \in SUBSET Session
    /\ member \in SUBSET (User \X Company)
    /\ pc \in [Request -> Phases]
    /\ on \in [Request -> Session \union {NoSession}]
    /\ presented \in [Request -> Token \union {NoToken}]
    /\ fresh \in [Request -> Token \union {NoToken}]
    /\ company \in [Request -> Company \union {NoCompany}]
    /\ held \in [Session -> Token \union {NoToken}]
    /\ known \in SUBSET Token
    /\ issued \in SUBSET Token
    /\ spent \in [Session -> SUBSET Token]
    /\ reused \in SUBSET Session
    /\ wasMember \in SUBSET (User \X Company)
    /\ lost \in SUBSET Session

Init ==
    /\ row = [s \in Session |-> "none"]
    /\ refresh = [s \in Session |-> NoToken]
    /\ bound = [s \in Session |-> NoCompany]
    /\ expired = {}
    /\ member \in SUBSET (User \X Company)
    /\ pc = [r \in Request |-> "idle"]
    /\ on = [r \in Request |-> NoSession]
    /\ presented = [r \in Request |-> NoToken]
    /\ fresh = [r \in Request |-> NoToken]
    /\ company = [r \in Request |-> NoCompany]
    /\ held = [s \in Session |-> NoToken]
    /\ known = {}
    /\ issued = {}
    /\ spent = [s \in Session |-> {}]
    /\ reused = {}
    /\ wasMember = member
    /\ lost = {}

-----------------------------------------------------------------------------
(* Parts of a request.                                                     *)

\* A slip to rule out: tokens that may repeat.
DrawAny(t) == t \in Token /\ issued' = issued \union {t}

\* IssueRefreshToken draws an unguessable token.
Draw(t) == t \in Token \ issued /\ issued' = issued \union {t}

\* The request forgets what it read and is over.
Done(r) ==
    /\ pc' = [pc EXCEPT ![r] = "idle"]
    /\ on' = [on EXCEPT ![r] = NoSession]
    /\ presented' = [presented EXCEPT ![r] = NoToken]
    /\ fresh' = [fresh EXCEPT ![r] = NoToken]
    /\ company' = [company EXCEPT ![r] = NoCompany]

Goto(r, phase) == pc' = [pc EXCEPT ![r] = phase]

InFlight(s) == \E r \in Request : on[r] = s

\* Companies in which user u has an active membership.
CompaniesOf(u) == {c \in Company : <<u, c>> \in member}

-----------------------------------------------------------------------------
(* Login.                                                                  *)

\* Credentials, account status and memberships are read; the session id and
\* the refresh token are drawn.  A single membership binds the session.
LoginVerify(r, s) ==
    /\ pc[r] = "idle"
    /\ row[s] = "none" /\ ~InFlight(s)
    /\ CompaniesOf(Owner[s]) # {}
    /\ \E t \in Token :
          /\ Draw(t)
          /\ fresh' = [fresh EXCEPT ![r] = t]
    /\ on' = [on EXCEPT ![r] = s]
    /\ company' = [company EXCEPT ![r] =
          IF Cardinality(CompaniesOf(Owner[s])) = 1
          THEN CHOOSE c \in Company : c \in CompaniesOf(Owner[s]) ELSE NoCompany]
    /\ Goto(r, "verified")
    /\ UNCHANGED <<table, member, presented, clients, history, wasMember, lost>>

\* SessionRepository.Create.
LoginCreate(r) ==
    /\ pc[r] = "verified"
    /\ row' = [row EXCEPT ![on[r]] = "live"]
    /\ refresh' = [refresh EXCEPT ![on[r]] = fresh[r]]
    /\ bound' = [bound EXCEPT ![on[r]] = company[r]]
    /\ Goto(r, "answering")
    /\ UNCHANGED <<expired, member, on, presented, fresh, company, clients,
                   issued, history, wasMember, lost>>

-----------------------------------------------------------------------------
(* Refresh.                                                                *)

\* A slip to rule out: a token of the session that was rotated is still taken.
RefreshableByOldToken(s, t) ==
    /\ t \in known
    /\ row[s] = "live"
    /\ s \notin expired
    /\ bound[s] # NoCompany

\* The row FindByRefreshToken finds and Refresh accepts.
Refreshable(s, t) ==
    /\ refresh[s] = t
    /\ row[s] = "live"
    /\ s \notin expired
    /\ bound[s] # NoCompany

\* A single-flight client presents the token it stores, when nothing else is
\* under way for its session; otherwise any answered token may be presented,
\* from another tab or by a retry.
RefreshFind(r, s, t) ==
    /\ pc[r] = "idle"
    /\ t \in known
    /\ s \in SingleFlight => t = held[s] /\ ~InFlight(s)
    /\ Refreshable(s, t)
    /\ \E n \in Token :
          /\ Draw(n)
          /\ fresh' = [fresh EXCEPT ![r] = n]
    /\ on' = [on EXCEPT ![r] = s]
    /\ presented' = [presented EXCEPT ![r] = t]
    /\ company' = [company EXCEPT ![r] = bound[s]]
    /\ Goto(r, "found")
    /\ UNCHANGED <<table, member, clients, history, wasMember, lost>>

\* The session is rotated from token t.
Spend(s, t) ==
    /\ spent' = [spent EXCEPT ![s] = @ \union {t}]
    /\ reused' = IF t \in spent[s] THEN reused \union {s} ELSE reused

\* A slip to rule out: the UPDATE without "AND revoked_at IS NULL" (the
\* in-memory repository has no such check), which also renews a dead session.
RotateAnyRow(r) ==
    /\ pc[r] = "found"
    /\ refresh' = [refresh EXCEPT ![on[r]] = fresh[r]]
    /\ expired' = expired \ {on[r]}
    /\ Spend(on[r], presented[r])
    /\ Goto(r, "answering")
    /\ UNCHANGED <<row, bound, member, on, presented, fresh, company, clients,
                   issued, wasMember, lost>>

\* RotateRefreshToken: by session id, whatever token the row holds by now.
RefreshRotate(r) ==
    /\ pc[r] = "found"
    /\ row[on[r]] = "live"
    /\ refresh' = [refresh EXCEPT ![on[r]] = fresh[r]]
    /\ expired' = expired \ {on[r]}
    /\ Spend(on[r], presented[r])
    /\ Goto(r, "answering")
    /\ UNCHANGED <<row, bound, member, on, presented, fresh, company, clients,
                   issued, wasMember, lost>>

\* No row is affected: 401.
RefreshRefused(r) ==
    /\ pc[r] = "found"
    /\ row[on[r]] # "live"
    /\ Done(r)
    /\ UNCHANGED <<table, member, clients, issued, history, wasMember, lost>>

-----------------------------------------------------------------------------
(* SelectCompany and SwitchCompany (bindCompany).                          *)

\* A slip to rule out: the session is bound without looking for the membership.
BindWithoutMembership(r, s, c) ==
    /\ pc[r] = "idle"
    /\ held[s] # NoToken
    /\ on' = [on EXCEPT ![r] = s]
    /\ company' = [company EXCEPT ![r] = c]
    /\ Goto(r, "permitted")
    /\ UNCHANGED <<table, member, presented, fresh, clients, issued, history, wasMember, lost>>

\* GetActiveMembership, for the bearer of a token of the session.
BindFind(r, s, c) ==
    /\ pc[r] = "idle"
    /\ held[s] # NoToken
    /\ <<Owner[s], c>> \in member
    /\ on' = [on EXCEPT ![r] = s]
    /\ company' = [company EXCEPT ![r] = c]
    /\ Goto(r, "permitted")
    /\ UNCHANGED <<table, member, presented, fresh, clients, issued, history, wasMember, lost>>

\* A slip to rule out: the UPDATE without "AND revoked_at IS NULL".
ContextChangesAnyRow(r) == bound[on[r]] # company[r]

\* UpdateContext counts the rows it changed: MySQL counts none when the session
\* is revoked, and none when it is bound to that company already.
ContextChanges(r) == row[on[r]] = "live" /\ bound[on[r]] # company[r]

BindUpdate(r) ==
    /\ pc[r] = "permitted"
    /\ ContextChanges(r)
    /\ bound' = [bound EXCEPT ![on[r]] = company[r]]
    /\ Goto(r, "answering")
    /\ UNCHANGED <<row, refresh, expired, member, on, presented, fresh, company,
                   clients, issued, history, wasMember, lost>>

BindRefused(r) ==
    /\ pc[r] = "permitted"
    /\ ~ContextChanges(r)
    /\ Done(r)
    /\ UNCHANGED <<table, member, clients, issued, history, wasMember, lost>>

-----------------------------------------------------------------------------
(* The answer of a request.                                                *)

\* A slip to rule out: Refresh answers with the token it was given.
AnswerWithOldToken(r) ==
    /\ pc[r] = "answering"
    /\ fresh[r] # NoToken =>
          LET t == IF presented[r] # NoToken THEN presented[r] ELSE fresh[r] IN
          /\ held' = [held EXCEPT ![on[r]] = t]
          /\ known' = known \union {t}
    /\ fresh[r] = NoToken => UNCHANGED clients
    /\ Done(r)
    /\ UNCHANGED <<table, member, issued, history, wasMember, lost>>

\* The client stores the refresh token of the answer, if it has one.
Answer(r) ==
    /\ pc[r] = "answering"
    /\ IF fresh[r] # NoToken
       THEN /\ held' = [held EXCEPT ![on[r]] = fresh[r]]
            /\ known' = known \union {fresh[r]}
       ELSE UNCHANGED clients
    /\ Done(r)
    /\ UNCHANGED <<table, member, issued, history, wasMember, lost>>

\* The connection breaks, or the process dies, before the answer is out.
LoseAnswer(r) ==
    /\ pc[r] = "answering"
    /\ Cardinality(lost) < MaxLost
    /\ lost' = lost \union {on[r]}
    /\ Done(r)
    /\ UNCHANGED <<table, member, clients, issued, history, wasMember>>

-----------------------------------------------------------------------------
(* Single statements.                                                      *)

\* A slip to rule out: the row is deleted.
DeleteRows(S) == row' = [s \in Session \ S |-> row[s]]

\* UPDATE sessions SET revoked_at WHERE ... AND revoked_at IS NULL.
Revoke(S) == row' = [s \in Session |->
                        IF s \in S /\ row[s] = "live" THEN "revoked" ELSE row[s]]

\* Logout: RevokeByRefreshToken.
Logout(s, t) ==
    /\ t \in known
    /\ refresh[s] = t
    /\ row[s] = "live"
    /\ Revoke({s})
    /\ UNCHANGED <<refresh, bound, expired, member, requests, clients, issued,
                   history, wasMember, lost>>

\* RevokeSession by the bearer of any session of the user: RevokeBySessionID.
RevokeSession(u, s) ==
    /\ \E b \in Session : Owner[b] = u /\ held[b] # NoToken
    /\ Owner[s] = u
    /\ row[s] = "live"
    /\ Revoke({s})
    /\ UNCHANGED <<refresh, bound, expired, member, requests, clients, issued,
                   history, wasMember, lost>>

\* The time passes refresh_expires_at.
Expire(s) ==
    /\ row[s] = "live"
    /\ s \notin expired
    /\ expired' = expired \union {s}
    /\ UNCHANGED <<row, refresh, bound, member, requests, clients, issued,
                   history, wasMember, lost>>

\* An administrator activates or deactivates a membership.
SetMembership(u, c) ==
    /\ member' = IF <<u, c>> \in member THEN member \ {<<u, c>>}
                 ELSE member \union {<<u, c>>}
    /\ wasMember' = wasMember \union member'
    /\ UNCHANGED <<table, requests, clients, issued, history, lost>>

-----------------------------------------------------------------------------
RequestStep(r) ==
    \/ \E s \in Session : LoginVerify(r, s)
    \/ LoginCreate(r)
    \/ \E s \in Session, t \in Token : RefreshFind(r, s, t)
    \/ RefreshRotate(r)
    \/ RefreshRefused(r)
    \/ \E s \in Session, c \in Company : BindFind(r, s, c)
    \/ BindUpdate(r)
    \/ BindRefused(r)
    \/ Answer(r)
    \/ LoseAnswer(r)

Next ==
    \/ \E r \in Request : RequestStep(r)
    \/ \E s \in Session : Expire(s) \/ \E t \in Token : Logout(s, t)
    \/ \E u \in User :
          \/ \E s \in Session : RevokeSession(u, s)
          \/ \E c \in Company : SetMembership(u, c)

Spec == Init /\ [][Next]_vars

-----------------------------------------------------------------------------
(* Properties.                                                             *)

\* A logout or a revocation is final: whatever requests were under way, they
\* neither revive the session nor give it a new refresh token, a new company or
\* more time.
RevokedForGood ==
    [][\A s \in Session : row[s] = "revoked" =>
          /\ row'[s] = "revoked"
          /\ refresh'[s] = refresh[s]
          /\ bound'[s] = bound[s]
          /\ s \notin expired' <=> s \notin expired]_vars

\* A session is only ever bound to a company its owner was an active member of,
\* however selections, switches, refreshes and administrators interleave.
BoundToMembership ==
    \A s \in Session : bound[s] # NoCompany => <<Owner[s], bound[s]>> \in wasMember

\* No refresh token opens two sessions, nor one that a request is about to give
\* a session: FindByRefreshToken finds at most one row.
TokenOfOneSession ==
    \A s \in Session : refresh[s] # NoToken =>
        /\ \A v \in Session \ {s} : refresh[v] # refresh[s]
        /\ \A r \in Request : pc[r] \in {"verified", "found"} => fresh[r] # refresh[s]

\* A client that refreshes once at a time can go on: unless an answer was lost,
\* the token it stores is the one of its session whenever nothing is under way.
ClientIsCurrent ==
    \A s \in SingleFlight :
        row[s] # "none" /\ s \notin lost /\ ~InFlight(s) => held[s] = refresh[s]

\* "Refresh token cu sau rotate -> bi reject", under that condition: no session is
\* rotated twice from one token, whatever the client retries and other sessions do.
RotatedOnce == reused \intersect SingleFlight = {}
=============================================================================
