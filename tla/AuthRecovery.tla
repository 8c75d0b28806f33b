---------------------------- MODULE AuthRecovery ----------------------------
(***************************************************************************)
(* Password reset and e-mail verification next to the sessions of          *)
(* IamSession: the links sent by mail, ResetPassword and VerifyEmail, and  *)
(* what a reset does to the logins and sessions of the old password        *)
(* (internal/iam/app/service.go, auth_recovery.go of the MySQL store).     *)
(*                                                                         *)
(* ResetPassword is three statements: the link is consumed in a            *)
(* transaction of its own, the credential is updated, the sessions of the  *)
(* user are revoked.  A login may read the old credential before the       *)
(* second and insert its session after the third.                          *)
(***************************************************************************)
EXTENDS IamSession

CONSTANTS
    Link,        \* rows of password_reset_tokens and email_verification_tokens
    Addressee,   \* the user each is stored for
    ResetLinks,  \* those of password_reset_tokens
    Handler,     \* reset and verification requests in flight at once
    NoLink,
    MaxBroken    \* bound: failed statements and crashes

ASSUME RecoveryAssumption ==
    /\ Addressee \in [Link -> User]
    /\ ResetLinks \subseteq Link
    /\ NoLink \notin Link
    /\ MaxBroken \in Nat

VARIABLES
    link,      \* "none" before the INSERT, "valid", "used" (used_at), "expired"
    mailed,    \* links whose mail was published
    password,  \* how often the user's credential was replaced
    verified,  \* users with email_verified_at
    step,      \* what each handler has done
    using,     \* the link it consumed
    \* history
    readPwd,   \* the credential a login in flight has verified
    openedBy,  \* the credential a session was opened with
    late,      \* sessions the last revocation could not reach
    resets,    \* resets completed through a link
    broken

recovery == <<link, mailed, password, verified, step, using>>
recHistory == <<readPwd, openedBy, late, resets, broken>>
allVars == <<vars, recovery, recHistory>>

RecInit ==
    /\ Init
    /\ link = [k \in Link |-> "none"]
    /\ mailed = {}
    /\ password = [u \in User |-> 0]
    /\ verified = {}
    /\ step = [x \in Handler |-> "idle"]
    /\ using = [x \in Handler |-> NoLink]
    /\ readPwd = [r \in Request |-> 0]
    /\ openedBy = [s \in Session |-> 0]
    /\ late = {}
    /\ resets = [k \in Link |-> 0]
    /\ broken = 0

SessionsOf(u) == {s \in Session : Owner[s] = u}

\* Sessions of u whose login has read the credential and not yet inserted them.
BeingOpened(u) ==
    {s \in SessionsOf(u) : \E r \in Request : pc[r] = "verified" /\ on[r] = s}

-----------------------------------------------------------------------------
(* Sessions, and the credential behind them.                               *)

\* CredentialVerifier.Verify compares with the credential of that moment.
VerifyCredential(r, s) ==
    /\ LoginVerify(r, s)
    /\ readPwd' = [readPwd EXCEPT ![r] = password[Owner[s]]]
    /\ UNCHANGED <<recovery, openedBy, late, resets, broken>>

OpenSession(r) ==
    /\ LoginCreate(r)
    /\ openedBy' = [openedBy EXCEPT ![on[r]] = readPwd[r]]
    /\ UNCHANGED <<recovery, readPwd, late, resets, broken>>

OtherSessionStep ==
    /\ \/ \E r \in Request :
             \/ \E s \in Session, t \in Token : RefreshFind(r, s, t)
             \/ RefreshRotate(r)
             \/ RefreshRefused(r)
             \/ \E s \in Session, c \in Company : BindFind(r, s, c)
             \/ BindUpdate(r)
             \/ BindRefused(r)
             \/ Answer(r)
             \/ LoseAnswer(r)
       \/ \E s \in Session : Expire(s) \/ \E t \in Token : Logout(s, t)
       \/ \E u \in User :
             \/ \E s \in Session : RevokeSession(u, s)
             \/ \E c \in Company : SetMembership(u, c)
    /\ UNCHANGED <<recovery, recHistory>>

-----------------------------------------------------------------------------
(* Links.                                                                  *)

\* ForgotPassword and ResendVerificationEmail store a link and publish its
\* mail; an error of the publisher is dropped.  Older links stay valid.
SendLink(k) ==
    /\ link[k] = "none"
    /\ link' = [link EXCEPT ![k] = "valid"]
    /\ \/ mailed' = mailed \union {k} /\ UNCHANGED broken
       \/ /\ broken < MaxBroken
          /\ broken' = broken + 1
          /\ UNCHANGED mailed
    /\ UNCHANGED <<vars, password, verified, step, using, readPwd, openedBy, late, resets>>

LinkExpires(k) ==
    /\ link[k] = "valid"
    /\ link' = [link EXCEPT ![k] = "expired"]
    /\ UNCHANGED <<vars, mailed, password, verified, step, using, recHistory>>

\* A slip to rule out: the SELECT without "AND used_at IS NULL".
EverUsable(k) == k \in mailed /\ link[k] \in {"valid", "used"}

\* The SELECT ... FOR UPDATE of Consume finds the link.
Usable(k) == k \in mailed /\ link[k] = "valid"

\* ConsumePasswordResetToken and ConsumeEmailVerificationToken: one transaction.
Consume(x, k) ==
    /\ step[x] = "idle"
    /\ Usable(k)
    /\ link' = [link EXCEPT ![k] = "used"]
    /\ step' = [step EXCEPT ![x] = "consumed"]
    /\ using' = [using EXCEPT ![x] = k]
    /\ UNCHANGED <<vars, mailed, password, verified, recHistory>>

HandlerDone(x) ==
    /\ step' = [step EXCEPT ![x] = "idle"]
    /\ using' = [using EXCEPT ![x] = NoLink]

-----------------------------------------------------------------------------
(* ResetPassword and VerifyEmail, after Consume.                           *)

\* The new password turns out to be shorter than 12 characters: 422, and the
\* link is gone.
TooShort(x) ==
    /\ step[x] = "consumed"
    /\ using[x] \in ResetLinks
    /\ HandlerDone(x)
    /\ UNCHANGED <<vars, link, mailed, password, verified, recHistory>>

\* UpdatePasswordHash.
UpdatePassword(x) ==
    /\ step[x] = "consumed"
    /\ using[x] \in ResetLinks
    /\ password' = [password EXCEPT ![Addressee[using[x]]] = @ + 1]
    /\ step' = [step EXCEPT ![x] = "updated"]
    /\ resets' = [resets EXCEPT ![using[x]] = @ + 1]
    /\ UNCHANGED <<vars, link, mailed, verified, using, readPwd, openedBy, late, broken>>

\* A slip to rule out: sessions whose refresh token has expired are left out,
\* although a refresh under way may still renew them.
RevokeUnexpired(u) == Revoke(SessionsOf(u) \ expired)

\* RevokeAllByUser.
RevokeAllByUser(u) == Revoke(SessionsOf(u))

\* Every session there is; not the one a login is about to insert.
RevokeAll(x) ==
    /\ step[x] = "updated"
    /\ LET u == Addressee[using[x]] IN
          /\ RevokeAllByUser(u)
          /\ late' = late \union BeingOpened(u)
    /\ HandlerDone(x)
    /\ UNCHANGED <<refresh, bound, expired, member, requests, clients, issued,
                   history, wasMember, lost, link, mailed, password, verified,
                   readPwd, openedBy, resets, broken>>

\* MarkEmailVerified.
MarkVerified(x) ==
    /\ step[x] = "consumed"
    /\ using[x] \notin ResetLinks
    /\ verified' = verified \union {Addressee[using[x]]}
    /\ HandlerDone(x)
    /\ UNCHANGED <<vars, link, mailed, password, recHistory>>

\* A statement after Consume fails, or the process dies: the link stays used.
\* An error of RevokeAllByUser is dropped and the answer is a success.
Break(x) ==
    /\ step[x] # "idle"
    /\ broken < MaxBroken
    /\ broken' = broken + 1
    /\ LET u == Addressee[using[x]] IN
          late' = IF step[x] # "updated" THEN late
                  ELSE late \union BeingOpened(u) \union
                          {s \in SessionsOf(u) : row[s] = "live"}
    /\ HandlerDone(x)
    /\ UNCHANGED <<vars, link, mailed, password, verified, readPwd, openedBy, resets>>

-----------------------------------------------------------------------------
RecNext ==
    \/ \E r \in Request : OpenSession(r) \/ \E s \in Session : VerifyCredential(r, s)
    \/ OtherSessionStep
    \/ \E k \in Link : SendLink(k) \/ LinkExpires(k)
    \/ \E x \in Handler :
          \/ \E k \in Link : Consume(x, k)
          \/ TooShort(x)
          \/ UpdatePassword(x)
          \/ RevokeAll(x)
          \/ MarkVerified(x)
          \/ Break(x)

RecSpec == RecInit /\ [][RecNext]_allVars

-----------------------------------------------------------------------------
(* Properties.                                                             *)

\* After a reset no session of an older password is alive, but for those of
\* logins that had verified it before and those a failed revocation left.
OldPasswordSessionsEnd ==
    \A s \in Session : row[s] = "live" /\ openedBy[s] # password[Owner[s]] =>
        \/ s \in late
        \/ \E x \in Handler : step[x] = "updated" /\ Addressee[using[x]] = Owner[s]

\* A link resets the password once, however many requests present it together.
LinkResetsOnce == \A k \in Link : resets[k] <= 1
=============================================================================
