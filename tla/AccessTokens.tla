---------------------------- MODULE AccessTokens ----------------------------
(***************************************************************************)
(* The access tokens that the requests of IamSession answer with           *)
(* (internal/iam/infra/token and the wiring of internal/httpserver).       *)
(*                                                                         *)
(* In mode "opaque" an access token is an entry of a map in the process:   *)
(* it never runs out and a restart loses it.  In the modes "jwt" and       *)
(* "dual" it is signed: it is good until its exp, whatever becomes of the  *)
(* session, and survives a restart.  The token that only chooses a company *)
(* is an entry of the map in every mode.  No inspection reads the table of *)
(* sessions; the statements of the request do.                             *)
(***************************************************************************)
EXTENDS IamSession

CONSTANT Life   \* bound: steps of time from iat until exp plus the leeway

ASSUME LifeAssumption == Life \in Nat \ {0}

Modes   == {"opaque", "jwt", "dual"}
Signing == {"jwt", "dual"}

VARIABLES
    mode,     \* ACCESS_TOKEN_MODE of the running process
    memory,   \* its map: <<session, company>>, NoCompany to choose a company
    left,     \* the longest time left to a signed token of the session
    access,   \* the company of the access token each client stores
    age,      \* history: time since the session was revoked, up to Life
    crowded   \* history: requests that shared their session with another

tokens == <<mode, memory, left, access, age, crowded>>
avars  == <<vars, tokens>>

AccInit ==
    /\ Init
    /\ mode \in Modes
    /\ memory = {}
    /\ left = [s \in Session |-> 0]
    /\ access = [s \in Session |-> NoCompany]
    /\ age = [s \in Session |-> 0]
    /\ crowded = {}

-----------------------------------------------------------------------------
(* Inspection.                                                             *)

\* InspectAccessToken of the signed form: the exp of the claims, with a leeway.
SignedValid(s) == left[s] > 0

\* InspectAccessToken and InspectPreCompanyToken of the map.
MapValid(s)        == \E c \in Company : <<s, c>> \in memory
PreCompanyValid(s) == <<s, NoCompany>> \in memory

\* Some access token of session s is good: "dual" asks the signature first and
\* the map next.
AccessValid(s) ==
    CASE mode = "opaque" -> MapValid(s)
      [] mode = "jwt"    -> SignedValid(s)
      [] mode = "dual"   -> SignedValid(s) \/ MapValid(s)

-----------------------------------------------------------------------------
(* Requests.                                                               *)

\* A request on session s meets those under way on it.
Meet(r, s) ==
    crowded' = IF InFlight(s) THEN crowded \union {r} \union {q \in Request : on[q] = s}
               ELSE crowded

Leave(r) == crowded' = crowded \ {r}

OpenLogin(r, s) == LoginVerify(r, s) /\ UNCHANGED tokens

OpenRefresh(r, s, t) ==
    /\ RefreshFind(r, s, t)
    /\ Meet(r, s)
    /\ UNCHANGED <<mode, memory, left, access, age>>

\* SelectCompany with the one token, SwitchCompany with the other.
OpenBind(r, s, c) ==
    /\ PreCompanyValid(s) \/ AccessValid(s)
    /\ BindFind(r, s, c)
    /\ Meet(r, s)
    /\ UNCHANGED <<mode, memory, left, access, age>>

Write(r) ==
    /\ LoginCreate(r) \/ RefreshRotate(r) \/ BindUpdate(r)
    /\ UNCHANGED tokens

Refuse(r) ==
    /\ RefreshRefused(r) \/ BindRefused(r)
    /\ Leave(r)
    /\ UNCHANGED <<mode, memory, left, access, age>>

\* A slip to rule out: Refresh repeats the claims of the access token it renews.
StoredClaims(r) ==
    IF presented[r] # NoToken THEN access[on[r]] ELSE company[r]

\* The claims are those of the row or of the membership that the request read.
Claims(r) == company[r]

\* The longest a signed token of session s is good for.
IssueSigned(s) ==
    /\ left' = [left EXCEPT ![s] = Life]
    /\ UNCHANGED memory

\* A token in the map, to act for company c or to choose a company.
Remember(s, c) ==
    /\ memory' = memory \union {<<s, c>>}
    /\ UNCHANGED left

\* The answer brings a token of the mode; a login that must still choose a
\* company gets the token for that.
AnswerToken(r) ==
    LET s == on[r]
        c == Claims(r)
    IN  /\ Answer(r)
        /\ access' = [access EXCEPT ![s] = c]
        /\ IF c # NoCompany /\ mode \in Signing THEN IssueSigned(s) ELSE Remember(s, c)
        /\ Leave(r)
        /\ UNCHANGED <<mode, age>>

LoseToken(r) ==
    /\ LoseAnswer(r)
    /\ Leave(r)
    /\ UNCHANGED <<mode, memory, left, access, age>>

-----------------------------------------------------------------------------
(* Revocation, time and the process.                                       *)

LogoutStep(s, t) == Logout(s, t) /\ UNCHANGED tokens

\* The bearer of an access token of any session of the user.
RevokeStep(u, s) ==
    /\ \E b \in Session : Owner[b] = u /\ AccessValid(b)
    /\ RevokeSession(u, s)
    /\ UNCHANGED tokens

Outside ==
    /\ \/ \E s \in Session : Expire(s)
       \/ \E u \in User, c \in Company : SetMembership(u, c)
    /\ UNCHANGED tokens

\* A signed token is a step nearer to its exp, or past it.
Expired(n) == IF n > 0 THEN n - 1 ELSE 0

\* A step of time; a request lives for milliseconds and a token for minutes.
Tick ==
    /\ \A r \in Request : pc[r] = "idle"
    /\ left' = [s \in Session |-> Expired(left[s])]
    /\ age' = [s \in Session |->
                  IF row[s] = "revoked" /\ age[s] < Life THEN age[s] + 1 ELSE age[s]]
    /\ UNCHANGED <<vars, mode, memory, access, crowded>>

\* The process ends and one starts in any mode, with an empty map; requests
\* under way are cut off between two of their statements.
Restart(m) ==
    LET cut == {on[r] : r \in {q \in Request : pc[q] = "answering"}}
    IN  /\ Cardinality(lost \union cut) <= MaxLost
        /\ lost' = lost \union cut
        /\ mode' = m
        /\ memory' = {}
        /\ pc' = [r \in Request |-> "idle"]
        /\ on' = [r \in Request |-> NoSession]
        /\ presented' = [r \in Request |-> NoToken]
        /\ fresh' = [r \in Request |-> NoToken]
        /\ company' = [r \in Request |-> NoCompany]
        /\ crowded' = {}
        /\ UNCHANGED <<table, member, clients, issued, history, wasMember,
                       left, access, age>>

-----------------------------------------------------------------------------
TokenRequest(r) ==
    \/ \E s \in Session : OpenLogin(r, s)
    \/ \E s \in Session, t \in Token : OpenRefresh(r, s, t)
    \/ \E s \in Session, c \in Company : OpenBind(r, s, c)
    \/ Write(r)
    \/ Refuse(r)
    \/ AnswerToken(r)
    \/ LoseToken(r)

AccNext ==
    \/ \E r \in Request : TokenRequest(r)
    \/ \E s \in Session, t \in Token : LogoutStep(s, t)
    \/ \E u \in User, s \in Session : RevokeStep(u, s)
    \/ Outside
    \/ Tick
    \/ \E m \in Modes : Restart(m)

AccSpec == AccInit /\ [][AccNext]_avars

-----------------------------------------------------------------------------
(* Properties.                                                             *)

\* Signed tokens are not withdrawn by a logout, a revocation or a new password:
\* but their time runs out, no request renews them once the session is revoked
\* (SwitchCompany asks for a token, not for a live session, before its UPDATE),
\* and no opaque token of an earlier process is left beside them.
RevokedAccessEnds ==
    \A s \in Session :
        mode \in Signing /\ row[s] = "revoked" /\ age[s] = Life => ~AccessValid(s)

\* Refresh answers with the company of the row it read, a choice of company with
\* the one it wrote.  Two requests at once may leave the client with a token for
\* another company than its session is bound to, and so may a lost answer: the
\* next request that runs alone mends it.
LoneAnswerIsCurrent ==
    [][\A r \in Request :
          AnswerToken(r) /\ r \notin crowded => access'[on[r]] = bound[on[r]]]_avars
=============================================================================
