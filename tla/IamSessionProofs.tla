-------------------------- MODULE IamSessionProofs --------------------------
(***************************************************************************)
(* Theorems about IamSession, and about AccessTokens and AuthRecovery,     *)
(* which run its requests next to steps of their own, for any users,       *)
(* companies, sessions, requests, tokens and links.                        *)
(*                                                                         *)
(* The properties of IamSession speak of the table and the clients; why    *)
(* they hold is in what the requests under way have read.  IInv says it:   *)
(* a login owns the session it is about to insert, a drawn token is nobody *)
(* else's, a membership was found before a company is written, and on a    *)
(* session of a single-flight client at most one request is rotating.      *)
(***************************************************************************)
EXTENDS AccessTokens, AuthRecovery, TLAPS

\* What the phase of a request says of the rest of its memory.
PhaseOK ==
    \A r \in Request :
        /\ pc[r] = "idle" => on[r] = NoSession /\ fresh[r] = NoToken
        /\ pc[r] # "idle" => on[r] \in Session
        /\ pc[r] \in {"verified", "found"} => fresh[r] \in Token
        /\ pc[r] = "found" => presented[r] \in Token
        /\ pc[r] = "permitted" => fresh[r] = NoToken

\* Only the login that drew a session's id has to do with it before its INSERT.
RowOK ==
    /\ \A r \in Request :
          /\ pc[r] = "verified" =>
                row[on[r]] = "none" /\ \A q \in Request \ {r} : on[q] # on[r]
          /\ pc[r] \in {"found", "permitted", "answering"} => row[on[r]] # "none"
    /\ \A s \in Session : row[s] = "none" => held[s] = NoToken

\* A company that is about to be written was found among the memberships.
MemberOK ==
    /\ member \subseteq wasMember
    /\ \A r \in Request : pc[r] \in {"verified", "permitted"} /\ company[r] # NoCompany =>
          <<Owner[on[r]], company[r]>> \in wasMember

Drawn(r) == pc[r] \in {"verified", "found"}

\* Tokens in use were drawn, a presented or a spent one was answered before, and
\* one that was drawn for a row is known to nobody and in no other request.
TokenOK ==
    /\ known \subseteq issued
    /\ \A s \in Session : refresh[s] # NoToken => refresh[s] \in issued
    /\ \A s \in Session : spent[s] \subseteq known
    /\ \A r \in Request :
          /\ pc[r] = "found" => presented[r] \in known
          /\ fresh[r] # NoToken => fresh[r] \in issued
          /\ Drawn(r) => /\ fresh[r] \notin known
                         /\ \A q \in Request \ {r} : fresh[q] # fresh[r]

\* Request r is about to give session s a token, or to answer with it.
Rotating(r, s) == on[r] = s /\ fresh[r] # NoToken

\* A session whose client refreshes once at a time.
SingleOK ==
    \A s \in SingleFlight :
        /\ \A r, q \in Request : Rotating(r, s) /\ Rotating(q, s) => r = q
        /\ \A r \in Request : Rotating(r, s) /\ pc[r] = "answering" => fresh[r] = refresh[s]
        /\ \A r \in Request : on[r] = s /\ pc[r] = "found" => presented[r] = refresh[s]
        /\ refresh[s] \notin spent[s]
        /\ row[s] # "none" /\ s \notin lost
              /\ (\A r \in Request : Rotating(r, s) => pc[r] # "answering") =>
           held[s] = refresh[s]

IInv ==
    /\ TypeOK
    /\ PhaseOK
    /\ RowOK
    /\ MemberOK
    /\ BoundToMembership
    /\ TokenOK
    /\ TokenOfOneSession
    /\ SingleOK
    /\ RotatedOnce

-----------------------------------------------------------------------------
(* The access tokens.                                                      *)

AccTypes ==
    /\ mode \in Modes
    /\ memory \in SUBSET (Session \X (Company \union {NoCompany}))
    /\ left \in [Session -> 0 .. Life]
    /\ access \in [Session -> Company \union {NoCompany}]
    /\ age \in [Session -> 0 .. Life]
    /\ crowded \in SUBSET Request

\* A process that signs its tokens remembers none but to choose a company.
MapOK == mode \in Signing => \A s \in Session : ~MapValid(s)

\* The time since a revocation is taken from the time a token has left, for no answer
\* begins to be under way on a session that was revoked before the last tick.
AgeOK ==
    /\ \A s \in Session :
          /\ row[s] # "revoked" => age[s] = 0
          /\ row[s] = "revoked" => left[s] + age[s] <= Life
    /\ \A r \in Request : pc[r] = "answering" => age[on[r]] = 0

\* Two requests on one session know of one another.
CrowdOK ==
    \A r, q \in Request : r # q /\ on[r] = on[q] /\ on[r] # NoSession => r \in crowded

\* A request alone on its session has read, or written, the company it is bound to.
ClaimsOK ==
    \A r \in Request \ crowded :
        pc[r] \in {"found", "answering"} => company[r] = bound[on[r]]

AccInv ==
    /\ IInv
    /\ AccTypes
    /\ MapOK
    /\ AgeOK
    /\ CrowdOK
    /\ ClaimsOK

-----------------------------------------------------------------------------
(* The links and the passwords.                                            *)

RecTypes ==
    /\ link \in [Link -> {"none", "valid", "used", "expired"}]
    /\ mailed \in SUBSET Link
    /\ password \in [User -> Nat]
    /\ verified \in SUBSET User
    /\ step \in [Handler -> {"idle", "consumed", "updated"}]
    /\ using \in [Handler -> Link \union {NoLink}]
    /\ \A x \in Handler : step[x] # "idle" => using[x] \in Link
    /\ readPwd \in [Request -> Nat]
    /\ openedBy \in [Session -> Nat]
    /\ late \in SUBSET Session
    /\ resets \in [Link -> Nat]
    /\ broken \in Nat

\* A link is used by the one handler that consumed it, and not before.
LinksOK ==
    /\ \A k \in Link : resets[k] <= (IF link[k] = "used" THEN 1 ELSE 0)
    /\ \A x \in Handler : step[x] = "consumed" =>
          /\ link[using[x]] = "used" /\ resets[using[x]] = 0
          /\ \A y \in Handler \ {x} : step[y] = "consumed" => using[y] # using[x]

\* Sessions of s's user are about to be revoked.
BeingReset(s) == \E x \in Handler : step[x] = "updated" /\ Addressee[using[x]] = Owner[s]

\* What is late or about to be revoked: sessions of an old password, and those
\* that a login which has verified an old one will open.
PasswordsOK ==
    /\ \A s \in Session :
          row[s] = "live" /\ openedBy[s] # password[Owner[s]] => s \in late \/ BeingReset(s)
    /\ \A r \in Request :
          pc[r] = "verified" /\ readPwd[r] # password[Owner[on[r]]] =>
             on[r] \in late \/ BeingReset(on[r])

RecInv ==
    /\ IInv
    /\ RecTypes
    /\ LinksOK
    /\ PasswordsOK

-----------------------------------------------------------------------------
(* Initially.                                                              *)

\* No session, no token and no request: the invariant holds at first.
LEMMA InitIInv == Init => IInv
  <1> SUFFICES ASSUME Init PROVE IInv
    OBVIOUS
  <1> USE IamAssumption DEF Init
  <1>1. TypeOK
    BY DEF TypeOK, Rows, Phases
  <1>2. PhaseOK /\ RowOK /\ MemberOK /\ BoundToMembership
    BY DEF PhaseOK, RowOK, MemberOK, BoundToMembership
  <1>3. TokenOK /\ TokenOfOneSession
    BY DEF TokenOK, TokenOfOneSession, Drawn
  <1>4. SingleOK /\ RotatedOnce
    BY DEF SingleOK, RotatedOnce, Rotating
  <1> QED
    BY <1>1, <1>2, <1>3, <1>4 DEF IInv

-----------------------------------------------------------------------------
(* Each step keeps the invariant.                                          *)

\* A login under way knows the session and the token it drew; nothing is stored yet.
LEMMA LoginVerifyIInv ==
    ASSUME IInv, NEW r \in Request, NEW s \in Session, LoginVerify(r, s)
    PROVE  IInv'
  <1> USE IamAssumption DEF IInv, TypeOK, LoginVerify, table, requests, clients, history, Draw, Goto, InFlight
  <1>a. company'[r] # NoCompany => company'[r] \in Company /\ <<Owner[s], company'[r]>> \in member
    BY DEF CompaniesOf
  <1>b. TypeOK'
    <2>1. company' \in [Request -> Company \union {NoCompany}]
      BY <1>a
    <2> QED
      BY <2>1 DEF Rows, Phases
  <1>1. PhaseOK'
    BY <1>b DEF PhaseOK
  <1>2. RowOK'
    BY <1>b DEF RowOK, PhaseOK
  <1>3. MemberOK'
    <2>1. member' \subseteq wasMember'
      BY DEF MemberOK
    <2>2. company'[r] # NoCompany => <<Owner[on'[r]], company'[r]>> \in wasMember'
      <3>1. on'[r] = s /\ wasMember' = wasMember
        OBVIOUS
      <3> QED
        BY <1>a, <3>1 DEF MemberOK
    <2>3. \A q \in Request \ {r} : pc'[q] = pc[q] /\ on'[q] = on[q] /\ company'[q] = company[q]
      OBVIOUS
    <2> QED
      BY <2>1, <2>2, <2>3 DEF MemberOK
  <1>4. BoundToMembership'
    BY <1>b DEF BoundToMembership, MemberOK, PhaseOK
  <1>5. TokenOK'
    BY <1>b DEF TokenOK, TokenOfOneSession, Drawn, PhaseOK
  <1>6. TokenOfOneSession'
    BY <1>b DEF TokenOfOneSession, TokenOK, Drawn, PhaseOK, RowOK
  <1>7. SingleOK'
    BY <1>b DEF SingleOK, Rotating, TokenOK, TokenOfOneSession, Drawn, PhaseOK, RowOK
  <1>8. RotatedOnce'
    BY <1>b DEF RotatedOnce
  <1> QED
    BY <1>b, <1>1, <1>2, <1>3, <1>4, <1>5, <1>6, <1>7, <1>8 DEF IInv

\* The INSERT gives the row the token and the company that the login has drawn and found.
LEMMA LoginCreateIInv ==
    ASSUME IInv, NEW r \in Request, LoginCreate(r)
    PROVE  IInv'
  <1> USE IamAssumption DEF IInv, TypeOK, LoginCreate, table, requests, clients, history, Goto
  <1>b. TypeOK'
    BY DEF Rows, Phases
  <1>1. PhaseOK'
    BY <1>b DEF PhaseOK
  <1>2. RowOK'
    BY <1>b DEF RowOK, PhaseOK
  <1>3. MemberOK'
    BY <1>b DEF MemberOK, PhaseOK
  <1>4. BoundToMembership'
    BY <1>b DEF BoundToMembership, MemberOK, PhaseOK
  <1>5. TokenOK'
    BY <1>b DEF TokenOK, TokenOfOneSession, Drawn, PhaseOK
  <1>6. TokenOfOneSession'
    BY <1>b DEF TokenOfOneSession, TokenOK, Drawn, PhaseOK, RowOK
  <1>7. SingleOK'
    BY <1>b DEF SingleOK, Rotating, TokenOK, TokenOfOneSession, Drawn, PhaseOK, RowOK
  <1>8. RotatedOnce'
    BY <1>b DEF RotatedOnce
  <1> QED
    BY <1>b, <1>1, <1>2, <1>3, <1>4, <1>5, <1>6, <1>7, <1>8 DEF IInv

\* A refresh that found its session holds the token it was given and a new one.
LEMMA RefreshFindIInv ==
    ASSUME IInv, NEW r \in Request, NEW s \in Session, NEW t \in Token, RefreshFind(r, s, t)
    PROVE  IInv'
  <1> USE IamAssumption DEF IInv, TypeOK, RefreshFind, table, requests, clients, history, Draw, Goto, Refreshable, InFlight
  <1>b. TypeOK'
    BY DEF Rows, Phases
  <1>1. PhaseOK'
    BY <1>b DEF PhaseOK
  <1>2. RowOK'
    BY <1>b DEF RowOK, PhaseOK
  <1>3. MemberOK'
    BY <1>b DEF MemberOK, PhaseOK
  <1>4. BoundToMembership'
    BY <1>b DEF BoundToMembership, MemberOK, PhaseOK
  <1>5. TokenOK'
    BY <1>b DEF TokenOK, TokenOfOneSession, Drawn, PhaseOK
  <1>6. TokenOfOneSession'
    BY <1>b DEF TokenOfOneSession, TokenOK, Drawn, PhaseOK, RowOK
  <1>7. SingleOK'
    BY <1>b DEF SingleOK, Rotating, TokenOK, TokenOfOneSession, Drawn, PhaseOK, RowOK
  <1>8. RotatedOnce'
    BY <1>b DEF RotatedOnce
  <1> QED
    BY <1>b, <1>1, <1>2, <1>3, <1>4, <1>5, <1>6, <1>7, <1>8 DEF IInv

\* The UPDATE puts the new token in place of the row's.
LEMMA RefreshRotateIInv ==
    ASSUME IInv, NEW r \in Request, RefreshRotate(r)
    PROVE  IInv'
  <1> USE IamAssumption DEF IInv, TypeOK, RefreshRotate, table, requests, clients, history, Goto, Spend
  <1>a. on[r] \in Session /\ fresh[r] \in Token /\ presented[r] \in Token
    BY DEF PhaseOK
  <1>b. TypeOK'
    <2>1. spent' \in [Session -> SUBSET Token]
      BY <1>a
    <2>2. reused' \in SUBSET Session
      BY <1>a
    <2>3. refresh' \in [Session -> Token \union {NoToken}]
      BY <1>a
    <2> QED
      BY <1>a, <2>1, <2>2, <2>3 DEF Rows, Phases
  <1>1. PhaseOK'
    BY <1>b DEF PhaseOK
  <1>2. RowOK'
    BY <1>b DEF RowOK, PhaseOK
  <1>3. MemberOK'
    BY <1>b DEF MemberOK, PhaseOK
  <1>4. BoundToMembership'
    BY <1>b DEF BoundToMembership, MemberOK, PhaseOK
  <1>5. TokenOK'
    BY <1>b DEF TokenOK, TokenOfOneSession, Drawn, PhaseOK
  <1>6. TokenOfOneSession'
    BY <1>b DEF TokenOfOneSession, TokenOK, Drawn, PhaseOK, RowOK
  <1>7. SingleOK'
    BY <1>b DEF SingleOK, Rotating, TokenOK, TokenOfOneSession, Drawn, PhaseOK, RowOK
  <1>8. RotatedOnce'
    <2>1. on[r] \in SingleFlight => presented[r] \notin spent[on[r]]
      BY DEF SingleOK
    <2> QED
      BY <2>1 DEF RotatedOnce
  <1> QED
    BY <1>b, <1>1, <1>2, <1>3, <1>4, <1>5, <1>6, <1>7, <1>8 DEF IInv

\* A refused refresh is forgotten.
LEMMA RefreshRefusedIInv ==
    ASSUME IInv, NEW r \in Request, RefreshRefused(r)
    PROVE  IInv'
  <1> USE IamAssumption DEF IInv, TypeOK, RefreshRefused, table, requests, clients, history, Done
  <1>b. TypeOK'
    BY DEF Rows, Phases
  <1>1. PhaseOK'
    BY <1>b DEF PhaseOK
  <1>2. RowOK'
    BY <1>b DEF RowOK, PhaseOK
  <1>3. MemberOK'
    BY <1>b DEF MemberOK, PhaseOK
  <1>4. BoundToMembership'
    BY <1>b DEF BoundToMembership, MemberOK, PhaseOK
  <1>5. TokenOK'
    BY <1>b DEF TokenOK, TokenOfOneSession, Drawn, PhaseOK
  <1>6. TokenOfOneSession'
    BY <1>b DEF TokenOfOneSession, TokenOK, Drawn, PhaseOK, RowOK
  <1>7. SingleOK'
    BY <1>b DEF SingleOK, Rotating, TokenOK, TokenOfOneSession, Drawn, PhaseOK, RowOK
  <1>8. RotatedOnce'
    BY <1>b DEF RotatedOnce
  <1> QED
    BY <1>b, <1>1, <1>2, <1>3, <1>4, <1>5, <1>6, <1>7, <1>8 DEF IInv

\* A choice of a company under way found the membership.
LEMMA BindFindIInv ==
    ASSUME IInv, NEW r \in Request, NEW s \in Session, NEW c \in Company, BindFind(r, s, c)
    PROVE  IInv'
  <1> USE IamAssumption DEF IInv, TypeOK, BindFind, table, requests, clients, history, Goto
  <1>b. TypeOK'
    BY DEF Rows, Phases
  <1>1. PhaseOK'
    BY <1>b DEF PhaseOK
  <1>2. RowOK'
    BY <1>b DEF RowOK, PhaseOK
  <1>3. MemberOK'
    BY <1>b DEF MemberOK, PhaseOK
  <1>4. BoundToMembership'
    BY <1>b DEF BoundToMembership, MemberOK, PhaseOK
  <1>5. TokenOK'
    BY <1>b DEF TokenOK, TokenOfOneSession, Drawn, PhaseOK
  <1>6. TokenOfOneSession'
    BY <1>b DEF TokenOfOneSession, TokenOK, Drawn, PhaseOK, RowOK
  <1>7. SingleOK'
    BY <1>b DEF SingleOK, Rotating, TokenOK, TokenOfOneSession, Drawn, PhaseOK, RowOK
  <1>8. RotatedOnce'
    BY <1>b DEF RotatedOnce
  <1> QED
    BY <1>b, <1>1, <1>2, <1>3, <1>4, <1>5, <1>6, <1>7, <1>8 DEF IInv

\* The session is bound to the company that was found.
LEMMA BindUpdateIInv ==
    ASSUME IInv, NEW r \in Request, BindUpdate(r)
    PROVE  IInv'
  <1> USE IamAssumption DEF IInv, TypeOK, BindUpdate, table, requests, clients, history, Goto, ContextChanges
  <1>b. TypeOK'
    BY DEF Rows, Phases
  <1>1. PhaseOK'
    BY <1>b DEF PhaseOK
  <1>2. RowOK'
    BY <1>b DEF RowOK, PhaseOK
  <1>3. MemberOK'
    BY <1>b DEF MemberOK, PhaseOK
  <1>4. BoundToMembership'
    BY <1>b DEF BoundToMembership, MemberOK, PhaseOK
  <1>5. TokenOK'
    BY <1>b DEF TokenOK, TokenOfOneSession, Drawn, PhaseOK
  <1>6. TokenOfOneSession'
    BY <1>b DEF TokenOfOneSession, TokenOK, Drawn, PhaseOK, RowOK
  <1>7. SingleOK'
    BY <1>b DEF SingleOK, Rotating, TokenOK, TokenOfOneSession, Drawn, PhaseOK, RowOK
  <1>8. RotatedOnce'
    BY <1>b DEF RotatedOnce
  <1> QED
    BY <1>b, <1>1, <1>2, <1>3, <1>4, <1>5, <1>6, <1>7, <1>8 DEF IInv

\* A refused choice is forgotten.
LEMMA BindRefusedIInv ==
    ASSUME IInv, NEW r \in Request, BindRefused(r)
    PROVE  IInv'
  <1> USE IamAssumption DEF IInv, TypeOK, BindRefused, table, requests, clients, history, Done
  <1>b. TypeOK'
    BY DEF Rows, Phases
  <1>1. PhaseOK'
    BY <1>b DEF PhaseOK
  <1>2. RowOK'
    BY <1>b DEF RowOK, PhaseOK
  <1>3. MemberOK'
    BY <1>b DEF MemberOK, PhaseOK
  <1>4. BoundToMembership'
    BY <1>b DEF BoundToMembership, MemberOK, PhaseOK
  <1>5. TokenOK'
    BY <1>b DEF TokenOK, TokenOfOneSession, Drawn, PhaseOK
  <1>6. TokenOfOneSession'
    BY <1>b DEF TokenOfOneSession, TokenOK, Drawn, PhaseOK, RowOK
  <1>7. SingleOK'
    BY <1>b DEF SingleOK, Rotating, TokenOK, TokenOfOneSession, Drawn, PhaseOK, RowOK
  <1>8. RotatedOnce'
    BY <1>b DEF RotatedOnce
  <1> QED
    BY <1>b, <1>1, <1>2, <1>3, <1>4, <1>5, <1>6, <1>7, <1>8 DEF IInv

\* The client stores the token of the answer, which is the one of the row.
LEMMA AnswerIInv ==
    ASSUME IInv, NEW r \in Request, Answer(r)
    PROVE  IInv'
  <1> USE IamAssumption DEF IInv, TypeOK, Answer, table, requests, clients, history, Done
  <1>b. TypeOK'
    BY DEF Rows, Phases
  <1>1. PhaseOK'
    BY <1>b DEF PhaseOK
  <1>2. RowOK'
    BY <1>b DEF RowOK, PhaseOK
  <1>3. MemberOK'
    BY <1>b DEF MemberOK, PhaseOK
  <1>4. BoundToMembership'
    BY <1>b DEF BoundToMembership, MemberOK, PhaseOK
  <1>5. TokenOK'
    BY <1>b DEF TokenOK, TokenOfOneSession, Drawn, PhaseOK
  <1>6. TokenOfOneSession'
    BY <1>b DEF TokenOfOneSession, TokenOK, Drawn, PhaseOK, RowOK
  <1>7. SingleOK'
    BY <1>b DEF SingleOK, Rotating, TokenOK, TokenOfOneSession, Drawn, PhaseOK, RowOK
  <1>8. RotatedOnce'
    BY <1>b DEF RotatedOnce
  <1> QED
    BY <1>b, <1>1, <1>2, <1>3, <1>4, <1>5, <1>6, <1>7, <1>8 DEF IInv

\* A lost answer is remembered in lost.
LEMMA LoseAnswerIInv ==
    ASSUME IInv, NEW r \in Request, LoseAnswer(r)
    PROVE  IInv'
  <1> USE IamAssumption DEF IInv, TypeOK, LoseAnswer, table, requests, clients, history, Done
  <1>b. TypeOK'
    BY DEF Rows, Phases, PhaseOK
  <1>1. PhaseOK'
    BY <1>b DEF PhaseOK
  <1>2. RowOK'
    BY <1>b DEF RowOK, PhaseOK
  <1>3. MemberOK'
    BY <1>b DEF MemberOK, PhaseOK
  <1>4. BoundToMembership'
    BY <1>b DEF BoundToMembership, MemberOK, PhaseOK
  <1>5. TokenOK'
    BY <1>b DEF TokenOK, TokenOfOneSession, Drawn, PhaseOK
  <1>6. TokenOfOneSession'
    BY <1>b DEF TokenOfOneSession, TokenOK, Drawn, PhaseOK, RowOK
  <1>7. SingleOK'
    BY <1>b DEF SingleOK, Rotating, TokenOK, TokenOfOneSession, Drawn, PhaseOK, RowOK
  <1>8. RotatedOnce'
    BY <1>b DEF RotatedOnce
  <1> QED
    BY <1>b, <1>1, <1>2, <1>3, <1>4, <1>5, <1>6, <1>7, <1>8 DEF IInv

\* A logout only revokes the row.
LEMMA LogoutIInv ==
    ASSUME IInv, NEW s \in Session, NEW t \in Token, Logout(s, t)
    PROVE  IInv'
  <1> USE IamAssumption DEF IInv, TypeOK, Logout, table, requests, clients, history, Revoke
  <1>b. TypeOK'
    BY DEF Rows, Phases
  <1>1. PhaseOK'
    BY <1>b DEF PhaseOK
  <1>2. RowOK'
    BY <1>b DEF RowOK, PhaseOK
  <1>3. MemberOK'
    BY <1>b DEF MemberOK, PhaseOK
  <1>4. BoundToMembership'
    BY <1>b DEF BoundToMembership, MemberOK, PhaseOK
  <1>5. TokenOK'
    BY <1>b DEF TokenOK, TokenOfOneSession, Drawn, PhaseOK
  <1>6. TokenOfOneSession'
    BY <1>b DEF TokenOfOneSession, TokenOK, Drawn, PhaseOK, RowOK
  <1>7. SingleOK'
    BY <1>b DEF SingleOK, Rotating, TokenOK, TokenOfOneSession, Drawn, PhaseOK, RowOK
  <1>8. RotatedOnce'
    BY <1>b DEF RotatedOnce
  <1> QED
    BY <1>b, <1>1, <1>2, <1>3, <1>4, <1>5, <1>6, <1>7, <1>8 DEF IInv

\* A revocation only revokes the row.
LEMMA RevokeSessionIInv ==
    ASSUME IInv, NEW u \in User, NEW s \in Session, RevokeSession(u, s)
    PROVE  IInv'
  <1> USE IamAssumption DEF IInv, TypeOK, RevokeSession, table, requests, clients, history, Revoke
  <1>b. TypeOK'
    BY DEF Rows, Phases
  <1>1. PhaseOK'
    BY <1>b DEF PhaseOK
  <1>2. RowOK'
    BY <1>b DEF RowOK, PhaseOK
  <1>3. MemberOK'
    BY <1>b DEF MemberOK, PhaseOK
  <1>4. BoundToMembership'
    BY <1>b DEF BoundToMembership, MemberOK, PhaseOK
  <1>5. TokenOK'
    BY <1>b DEF TokenOK, TokenOfOneSession, Drawn, PhaseOK
  <1>6. TokenOfOneSession'
    BY <1>b DEF TokenOfOneSession, TokenOK, Drawn, PhaseOK, RowOK
  <1>7. SingleOK'
    BY <1>b DEF SingleOK, Rotating, TokenOK, TokenOfOneSession, Drawn, PhaseOK, RowOK
  <1>8. RotatedOnce'
    BY <1>b DEF RotatedOnce
  <1> QED
    BY <1>b, <1>1, <1>2, <1>3, <1>4, <1>5, <1>6, <1>7, <1>8 DEF IInv

\* Expiry changes nothing that the invariant speaks of.
LEMMA ExpireIInv ==
    ASSUME IInv, NEW s \in Session, Expire(s)
    PROVE  IInv'
  <1> USE IamAssumption DEF IInv, TypeOK, Expire, table, requests, clients, history
  <1>b. TypeOK'
    BY DEF Rows, Phases
  <1>1. PhaseOK'
    BY <1>b DEF PhaseOK
  <1>2. RowOK'
    BY <1>b DEF RowOK, PhaseOK
  <1>3. MemberOK'
    BY <1>b DEF MemberOK, PhaseOK
  <1>4. BoundToMembership'
    BY <1>b DEF BoundToMembership, MemberOK, PhaseOK
  <1>5. TokenOK'
    BY <1>b DEF TokenOK, TokenOfOneSession, Drawn, PhaseOK
  <1>6. TokenOfOneSession'
    BY <1>b DEF TokenOfOneSession, TokenOK, Drawn, PhaseOK, RowOK
  <1>7. SingleOK'
    BY <1>b DEF SingleOK, Rotating, TokenOK, TokenOfOneSession, Drawn, PhaseOK, RowOK
  <1>8. RotatedOnce'
    BY <1>b DEF RotatedOnce
  <1> QED
    BY <1>b, <1>1, <1>2, <1>3, <1>4, <1>5, <1>6, <1>7, <1>8 DEF IInv

\* Memberships come and go; that one was active is remembered.
LEMMA SetMembershipIInv ==
    ASSUME IInv, NEW u \in User, NEW c \in Company, SetMembership(u, c)
    PROVE  IInv'
  <1> USE IamAssumption DEF IInv, TypeOK, SetMembership, table, requests, clients, history
  <1>b. TypeOK'
    BY DEF Rows, Phases
  <1>1. PhaseOK'
    BY <1>b DEF PhaseOK
  <1>2. RowOK'
    BY <1>b DEF RowOK, PhaseOK
  <1>3. MemberOK'
    BY <1>b DEF MemberOK, PhaseOK
  <1>4. BoundToMembership'
    BY <1>b DEF BoundToMembership, MemberOK, PhaseOK
  <1>5. TokenOK'
    BY <1>b DEF TokenOK, TokenOfOneSession, Drawn, PhaseOK
  <1>6. TokenOfOneSession'
    BY <1>b DEF TokenOfOneSession, TokenOK, Drawn, PhaseOK, RowOK
  <1>7. SingleOK'
    BY <1>b DEF SingleOK, Rotating, TokenOK, TokenOfOneSession, Drawn, PhaseOK, RowOK
  <1>8. RotatedOnce'
    BY <1>b DEF RotatedOnce
  <1> QED
    BY <1>b, <1>1, <1>2, <1>3, <1>4, <1>5, <1>6, <1>7, <1>8 DEF IInv

\* Nothing happens: nothing changes.
LEMMA StutterIInv ==
    ASSUME IInv, UNCHANGED vars
    PROVE  IInv'
  BY DEF IInv, vars, table, requests, clients, history, TypeOK, PhaseOK, RowOK,
         MemberOK, BoundToMembership, TokenOK, TokenOfOneSession, Drawn, SingleOK,
         Rotating, RotatedOnce

\* Every step of the sessions keeps the invariant.
LEMMA NextIInv == IInv /\ [Next]_vars => IInv'
  <1> SUFFICES ASSUME IInv, [Next]_vars PROVE IInv'
    OBVIOUS
  <1>1. CASE UNCHANGED vars
    BY <1>1, StutterIInv
  <1>2. ASSUME NEW r \in Request, RequestStep(r) PROVE IInv'
    BY <1>2, LoginVerifyIInv, LoginCreateIInv, RefreshFindIInv, RefreshRotateIInv,
       RefreshRefusedIInv, BindFindIInv, BindUpdateIInv, BindRefusedIInv, AnswerIInv,
       LoseAnswerIInv DEF RequestStep
  <1>3. ASSUME NEW s \in Session, Expire(s) \/ \E t \in Token : Logout(s, t) PROVE IInv'
    BY <1>3, ExpireIInv, LogoutIInv
  <1>4. ASSUME NEW u \in User,
               \/ \E s \in Session : RevokeSession(u, s)
               \/ \E c \in Company : SetMembership(u, c)
        PROVE  IInv'
    BY <1>4, RevokeSessionIInv, SetMembershipIInv
  <1> QED
    BY <1>1, <1>2, <1>3, <1>4 DEF Next

\* The invariant always holds.
LEMMA Invariance == Spec => []IInv
  BY InitIInv, NextIInv, PTL DEF Spec

-----------------------------------------------------------------------------
(* The theorems.                                                           *)

\* Rows, requests, clients and history keep their types.
THEOREM TypeCorrect == Spec => []TypeOK
  <1>1. IInv => TypeOK
    BY DEF IInv
  <1> QED
    BY <1>1, Invariance, PTL

\* No interleaving of logins, choices of a company and administrators binds a
\* session to a company its owner was never an active member of.
THEOREM Membership == Spec => []BoundToMembership
  <1>1. IInv => BoundToMembership
    BY DEF IInv
  <1> QED
    BY <1>1, Invariance, PTL

\* A refresh token identifies at most one session, among the rows and the requests
\* under way: FindByRefreshToken is right to read one row.
THEOREM OneSessionPerToken == Spec => []TokenOfOneSession
  <1>1. IInv => TokenOfOneSession
    BY DEF IInv
  <1> QED
    BY <1>1, Invariance, PTL

\* A client that refreshes once at a time stores the token of its session whenever
\* nothing is under way, unless an answer was lost.
THEOREM ClientCurrent == Spec => []ClientIsCurrent
  <1>1. IInv => ClientIsCurrent
    BY DEF IInv, SingleOK, Rotating, InFlight, ClientIsCurrent
  <1> QED
    BY <1>1, Invariance, PTL

\* ... and its session is never rotated twice from one token, although
\* RotateRefreshToken does not look at the token that the row holds.
THEOREM RotationOnce == Spec => []RotatedOnce
  <1>1. IInv => RotatedOnce
    BY DEF IInv
  <1> QED
    BY <1>1, Invariance, PTL

\* A revoked session stays as it is, whatever was under way when it was revoked:
\* every UPDATE of a session looks at revoked_at, and an INSERT is of a new id.
THEOREM RevocationIsFinal == Spec => RevokedForGood
  <1> DEFINE Frozen(s) ==
        row[s] = "revoked" =>
          /\ row'[s] = "revoked"
          /\ refresh'[s] = refresh[s]
          /\ bound'[s] = bound[s]
          /\ s \notin expired' <=> s \notin expired
  <1>1. ASSUME IInv, [Next]_vars, NEW s \in Session PROVE Frozen(s)
    <2> USE DEF IInv, TypeOK, table
    <2>1. CASE UNCHANGED vars
      BY <2>1 DEF vars
    <2>2. ASSUME NEW r \in Request, RequestStep(r) PROVE Frozen(s)
      <3>1. CASE LoginCreate(r)
        <4>1. row[on[r]] = "none"
          BY <1>1, <3>1 DEF LoginCreate, RowOK
        <4>2. row[s] = "revoked" => s # on[r]
          BY <4>1
        <4> QED
          BY <3>1, <4>2 DEF LoginCreate
      <3>2. CASE RefreshRotate(r)
        BY <3>2 DEF RefreshRotate
      <3>3. CASE BindUpdate(r)
        BY <3>3 DEF BindUpdate, ContextChanges
      <3>4. CASE UNCHANGED table
        BY <3>4
      <3> QED
        BY <2>2, <3>1, <3>2, <3>3, <3>4
           DEF RequestStep, LoginVerify, RefreshFind, RefreshRefused, BindFind, BindRefused,
               Answer, LoseAnswer
    <2>3. ASSUME NEW v \in Session, Expire(v) \/ \E t \in Token : Logout(v, t)
          PROVE  Frozen(s)
      BY <2>3 DEF Expire, Logout, Revoke
    <2>4. ASSUME NEW u \in User,
                 \/ \E v \in Session : RevokeSession(u, v)
                 \/ \E c \in Company : SetMembership(u, c)
          PROVE  Frozen(s)
      BY <2>4 DEF RevokeSession, SetMembership, Revoke
    <2> HIDE DEF Frozen
    <2> QED
      BY <1>1, <2>1, <2>2, <2>3, <2>4 DEF Next
  <1>2. IInv /\ [Next]_vars => [\A s \in Session : Frozen(s)]_vars
    BY <1>1
  <1> QED
    BY <1>2, Invariance, PTL DEF Spec, RevokedForGood

-----------------------------------------------------------------------------
(* The access tokens.                                                      *)

\* The requests of the sessions run unchanged; only a restart is no step of theirs.
LEMMA AccMoves ==
    ASSUME AccNext
    PROVE  Next \/ UNCHANGED vars \/ \E m \in Modes : Restart(m)
  <1>1. ASSUME NEW r \in Request, TokenRequest(r) PROVE RequestStep(r)
    BY <1>1 DEF TokenRequest, RequestStep, OpenLogin, OpenRefresh, OpenBind, Write, Refuse,
       AnswerToken, LoseToken
  <1> QED
    BY <1>1 DEF AccNext, Next, LogoutStep, RevokeStep, Outside, Tick

\* A restart ends every request; the answers it cuts off count as lost.
LEMMA RestartIInv == ASSUME IInv, NEW m \in Modes, Restart(m) PROVE IInv'
  <1> USE IamAssumption DEF IInv, TypeOK, Restart, table, clients, history
  <1>a. {on[r] : r \in {q \in Request : pc[q] = "answering"}} \subseteq Session
    BY DEF PhaseOK
  <1>b. TypeOK'
    BY <1>a DEF Rows, Phases
  <1>1. PhaseOK'
    BY <1>b DEF PhaseOK
  <1>2. RowOK'
    BY <1>b DEF RowOK, PhaseOK
  <1>3. MemberOK'
    BY <1>b DEF MemberOK, PhaseOK
  <1>4. BoundToMembership'
    BY <1>b DEF BoundToMembership
  <1>5. TokenOK'
    BY <1>b DEF TokenOK, Drawn
  <1>6. TokenOfOneSession'
    BY <1>b DEF TokenOfOneSession
  <1>7. SingleOK'
    BY <1>b DEF SingleOK, Rotating
  <1>8. RotatedOnce'
    BY <1>b DEF RotatedOnce
  <1> QED
    BY <1>b, <1>1, <1>2, <1>3, <1>4, <1>5, <1>6, <1>7, <1>8 DEF IInv

\* A request that answers has a session that was inserted, and a company or none.
LEMMA OnSession ==
    ASSUME IInv, NEW r \in Request
    PROVE  /\ pc[r] # "idle" => on[r] \in Session
           /\ pc[r] = "idle" => on[r] = NoSession
           /\ company[r] \in Company \union {NoCompany}
           /\ NoSession \notin Session
  BY IamAssumption DEF IInv, TypeOK, PhaseOK

\* The map, the times and the clients keep their types.
LEMMA AccTypesStep == AccInv /\ AccNext => AccTypes'
  <1> SUFFICES ASSUME AccInv, AccNext PROVE AccTypes'
    OBVIOUS
  <1> USE LifeAssumption DEF AccInv, AccTypes, tokens
  <1>1. ASSUME NEW r \in Request, AnswerToken(r) PROVE AccTypes'
    <2>1. on[r] \in Session /\ company[r] \in Company \union {NoCompany}
      BY <1>1, OnSession DEF AnswerToken, Answer
    <2> QED
      BY <1>1, <2>1 DEF AnswerToken, Claims, IssueSigned, Remember, Leave
  <1>2. ASSUME NEW r \in Request, TokenRequest(r), ~AnswerToken(r) PROVE AccTypes'
    BY <1>2 DEF TokenRequest, OpenLogin, OpenRefresh, OpenBind, Write, Refuse, LoseToken, Meet,
       Leave
  <1>3. CASE Tick
    BY <1>3 DEF Tick, Expired
  <1>4. ASSUME NEW m \in Modes, Restart(m) PROVE AccTypes'
    BY <1>4 DEF Restart
  <1>5. CASE UNCHANGED tokens
    BY <1>5
  <1> QED
    BY <1>1, <1>2, <1>3, <1>4, <1>5 DEF AccNext, LogoutStep, RevokeStep, Outside

\* Only a token to choose a company is put into the map while tokens are signed.
LEMMA MapStep == AccInv /\ AccNext => MapOK'
  <1> SUFFICES ASSUME AccInv, AccNext PROVE MapOK'
    OBVIOUS
  <1> USE DEF AccInv, MapOK, MapValid, tokens
  <1>1. ASSUME NEW r \in Request, AnswerToken(r) PROVE MapOK'
    BY <1>1, IamAssumption DEF AnswerToken, IssueSigned, Remember
  <1>2. ASSUME NEW r \in Request, TokenRequest(r), ~AnswerToken(r) PROVE MapOK'
    BY <1>2 DEF TokenRequest, OpenLogin, OpenRefresh, OpenBind, Write, Refuse, LoseToken
  <1>3. ASSUME NEW m \in Modes, Restart(m) PROVE MapOK'
    BY <1>3 DEF Restart
  <1>4. CASE UNCHANGED <<mode, memory>>
    BY <1>4
  <1> QED
    BY <1>1, <1>2, <1>3, <1>4 DEF AccNext, LogoutStep, RevokeStep, Outside, Tick

\* Requests only begin to answer on rows that are not revoked, and no time passes then.
LEMMA AgeStep == AccInv /\ AccNext => AgeOK'
  <1> SUFFICES ASSUME AccInv, AccNext PROVE AgeOK'
    OBVIOUS
  <1>0. /\ row \in [Session -> Rows] /\ pc \in [Request -> Phases]
        /\ left \in [Session -> 0 .. Life] /\ age \in [Session -> 0 .. Life]
        /\ on \in [Request -> Session \union {NoSession}]
        /\ AgeOK /\ Life \in Nat \ {0}
    BY LifeAssumption DEF AccInv, AccTypes, IInv, TypeOK
  <1> USE <1>0 DEF AgeOK, tokens
  <1>1. ASSUME NEW r \in Request, AnswerToken(r) PROVE AgeOK'
    <2>1. age[on[r]] = 0 /\ on[r] \in Session
      BY <1>1, OnSession DEF AnswerToken, Answer, AccInv
    <2>2. UNCHANGED <<row, age>> /\ \A q \in Request : pc'[q] = "answering" =>
                                          pc[q] = "answering" /\ on'[q] = on[q]
      BY <1>1 DEF AnswerToken, Answer, Done, table
    <2>3. left' = left \/ left' = [left EXCEPT ![on[r]] = Life]
      BY <1>1 DEF AnswerToken, IssueSigned, Remember
    <2> QED
      BY <2>1, <2>2, <2>3
  <1>2. ASSUME NEW r \in Request, Write(r) PROVE AgeOK'
    <2>1. on[r] \in Session /\ row[on[r]] # "revoked" /\ age[on[r]] = 0
      BY <1>2, OnSession DEF Write, LoginCreate, RefreshRotate, BindUpdate, ContextChanges,
         AccInv, IInv, RowOK
    <2>2. /\ row' = row \/ row' = [row EXCEPT ![on[r]] = "live"]
          /\ pc' = [pc EXCEPT ![r] = "answering"] /\ UNCHANGED <<on, left, age>>
      BY <1>2 DEF Write, LoginCreate, RefreshRotate, BindUpdate, Goto
    <2> QED
      BY <2>1, <2>2
  <1>3. ASSUME NEW r \in Request, TokenRequest(r), ~AnswerToken(r), ~Write(r) PROVE AgeOK'
    <2>1. UNCHANGED <<row, left, age>> /\ \A q \in Request : pc'[q] = "answering" =>
                                                pc[q] = "answering" /\ on'[q] = on[q]
      BY <1>3 DEF TokenRequest, OpenLogin, OpenRefresh, OpenBind, Refuse, LoseToken,
         LoginVerify, RefreshFind, BindFind, RefreshRefused, BindRefused, LoseAnswer, Done,
         Goto, table
    <2> QED
      BY <2>1
  <1>4. CASE Tick
    <2>1. UNCHANGED <<row, pc>> /\ \A r \in Request : pc[r] = "idle"
      BY <1>4 DEF Tick, vars, table, requests
    <2>2. \A s \in Session :
             /\ left'[s] = IF left[s] > 0 THEN left[s] - 1 ELSE 0
             /\ age'[s] = IF row[s] = "revoked" /\ age[s] < Life THEN age[s] + 1 ELSE age[s]
      BY <1>4 DEF Tick, Expired
    <2> QED
      BY <2>1, <2>2
  <1>5. ASSUME NEW m \in Modes, Restart(m) PROVE AgeOK'
    BY <1>5 DEF Restart, table
  <1>6. ASSUME NEW S, Revoke(S), UNCHANGED <<pc, on, left, age>> PROVE AgeOK'
    BY <1>6 DEF Revoke
  <1>7. CASE UNCHANGED <<row, pc, on, left, age>>
    BY <1>7
  <1> QED
    BY <1>1, <1>2, <1>3, <1>4, <1>5, <1>6, <1>7
       DEF AccNext, LogoutStep, RevokeStep, Outside, Logout, RevokeSession, Expire,
           SetMembership, table, requests

\* Whoever opens a request on a session in use marks both.
LEMMA CrowdStep == AccInv /\ AccNext => CrowdOK'
  <1> SUFFICES ASSUME AccInv, AccNext PROVE CrowdOK'
    OBVIOUS
  <1>0. /\ on \in [Request -> Session \union {NoSession}] /\ NoSession \notin Session
        /\ CrowdOK
    BY IamAssumption DEF AccInv, IInv, TypeOK
  <1> USE <1>0 DEF CrowdOK, tokens
  <1>1. ASSUME NEW r \in Request, on' = [on EXCEPT ![r] = NoSession], crowded' = crowded \ {r}
        PROVE  CrowdOK'
    BY <1>1
  <1>2. ASSUME NEW r \in Request, NEW s \in Session, on' = [on EXCEPT ![r] = s],
               Meet(r, s) \/ (~InFlight(s) /\ crowded' = crowded)
        PROVE  CrowdOK'
    BY <1>2 DEF Meet, InFlight
  <1>3. CASE UNCHANGED <<on, crowded>>
    BY <1>3
  <1>4. ASSUME NEW r \in Request, TokenRequest(r) PROVE CrowdOK'
    <2>1. CASE \E s \in Session : OpenLogin(r, s)
      BY <1>2, <2>1 DEF OpenLogin, LoginVerify
    <2>2. CASE \E s \in Session, t \in Token : OpenRefresh(r, s, t)
      BY <1>2, <2>2 DEF OpenRefresh, RefreshFind
    <2>3. CASE \E s \in Session, c \in Company : OpenBind(r, s, c)
      BY <1>2, <2>3 DEF OpenBind, BindFind
    <2>4. CASE Write(r)
      BY <1>3, <2>4 DEF Write, LoginCreate, RefreshRotate, BindUpdate
    <2>5. CASE Refuse(r) \/ AnswerToken(r) \/ LoseToken(r)
      BY <1>1, <2>5 DEF Refuse, AnswerToken, LoseToken, RefreshRefused, BindRefused, Answer,
         LoseAnswer, Done, Leave
    <2> QED
      BY <1>4, <2>1, <2>2, <2>3, <2>4, <2>5 DEF TokenRequest
  <1>5. ASSUME NEW m \in Modes, Restart(m) PROVE CrowdOK'
    BY <1>5 DEF Restart
  <1> QED
    BY <1>3, <1>4, <1>5 DEF AccNext, LogoutStep, RevokeStep, Outside, Tick, Logout,
       RevokeSession, Expire, SetMembership, requests, vars

\* A request that nobody met is the only one to bind its session.
LEMMA ClaimsStep == AccInv /\ AccNext => ClaimsOK'
  <1> SUFFICES ASSUME AccInv, AccNext, NEW q \in Request, q \notin crowded',
                      pc'[q] \in {"found", "answering"}
               PROVE  company'[q] = bound'[on'[q]]
    BY DEF ClaimsOK
  <1>0. /\ pc \in [Request -> Phases] /\ on \in [Request -> Session \union {NoSession}]
        /\ company \in [Request -> Company \union {NoCompany}]
        /\ bound \in [Session -> Company \union {NoCompany}] /\ crowded \in SUBSET Request
        /\ \A p \in Request : pc[p] # "idle" => on[p] \in Session
        /\ \A p \in Request \ {q} : on[p] = on[q] /\ on[p] # NoSession => q \in crowded
        /\ q \notin crowded /\ pc[q] \in {"found", "answering"} => company[q] = bound[on[q]]
        /\ NoSession \notin Session
    BY IamAssumption DEF AccInv, IInv, TypeOK, PhaseOK, AccTypes, CrowdOK, ClaimsOK
  <1> USE <1>0 DEF tokens
  <1>1. ASSUME NEW r \in Request, TokenRequest(r) PROVE company'[q] = bound'[on'[q]]
    <2>1. CASE \E s \in Session : OpenLogin(r, s)
      BY <2>1 DEF OpenLogin, LoginVerify, Goto, table
    <2>2. CASE \E s \in Session, t \in Token : OpenRefresh(r, s, t)
      <3>1. q # r => q \notin crowded /\ pc'[q] = pc[q] /\ on'[q] = on[q] /\ company'[q] = company[q]
        BY <2>2 DEF OpenRefresh, RefreshFind, Goto, Meet
      <3> QED
        BY <2>2, <3>1 DEF OpenRefresh, RefreshFind, table
    <2>3. CASE \E s \in Session, c \in Company : OpenBind(r, s, c)
      <3>1. q # r => q \notin crowded /\ pc'[q] = pc[q] /\ on'[q] = on[q] /\ company'[q] = company[q]
        BY <2>3 DEF OpenBind, BindFind, Goto, Meet
      <3> QED
        BY <2>3, <3>1 DEF OpenBind, BindFind, Goto, table
    <2>4. CASE Write(r)
      <3>1. /\ crowded' = crowded /\ UNCHANGED <<on, company>> /\ pc[r] # "idle"
            /\ pc' = [pc EXCEPT ![r] = "answering"]
            /\ \/ bound' = bound /\ pc[r] = "found"
               \/ bound' = [bound EXCEPT ![on[r]] = company[r]]
        BY <2>4 DEF Write, LoginCreate, RefreshRotate, BindUpdate, Goto
      <3>2. CASE q = r
        BY <3>1, <3>2
      <3>3. CASE q # r
        BY <3>1, <3>3
      <3> QED
        BY <3>2, <3>3
    <2>5. CASE Refuse(r) \/ AnswerToken(r) \/ LoseToken(r)
      <3>1. /\ bound' = bound /\ crowded' = crowded \ {r} /\ pc' = [pc EXCEPT ![r] = "idle"]
            /\ \A p \in Request \ {r} : on'[p] = on[p] /\ company'[p] = company[p]
        BY <2>5 DEF Refuse, AnswerToken, LoseToken, RefreshRefused, BindRefused, Answer,
           LoseAnswer, Done, Leave, table
      <3> QED
        BY <3>1
    <2> QED
      BY <1>1, <2>1, <2>2, <2>3, <2>4, <2>5 DEF TokenRequest
  <1>2. ASSUME NEW m \in Modes, Restart(m) PROVE company'[q] = bound'[on'[q]]
    BY <1>2 DEF Restart
  <1>3. ASSUME UNCHANGED <<pc, on, company, bound, crowded>> PROVE company'[q] = bound'[on'[q]]
    BY <1>3
  <1> QED
    BY <1>1, <1>2, <1>3 DEF AccNext, LogoutStep, RevokeStep, Outside, Tick, Logout,
       RevokeSession, Expire, SetMembership, requests, table, vars

\* The inductive invariant of the sessions with their access tokens.
THEOREM TokensInductive == AccSpec => []AccInv
  <1>1. AccInit => AccInv
    <2> SUFFICES ASSUME AccInit PROVE AccInv
      OBVIOUS
    <2>1. IInv
      BY InitIInv DEF AccInit
    <2> USE LifeAssumption, IamAssumption DEF AccInit, Init
    <2>2. AccTypes
      BY DEF AccTypes
    <2>3. MapOK /\ AgeOK /\ CrowdOK /\ ClaimsOK
      BY DEF MapOK, MapValid, AgeOK, CrowdOK, ClaimsOK
    <2> QED
      BY <2>1, <2>2, <2>3 DEF AccInv
  <1>2. AccInv /\ [AccNext]_avars => AccInv'
    <2> SUFFICES ASSUME AccInv, [AccNext]_avars PROVE AccInv'
      OBVIOUS
    <2>1. CASE AccNext
      <3>1. IInv'
        BY <2>1, AccMoves, NextIInv, RestartIInv DEF AccInv
      <3> QED
        BY <2>1, <3>1, AccTypesStep, MapStep, AgeStep, CrowdStep, ClaimsStep DEF AccInv
    <2>2. CASE UNCHANGED avars
      <3>1. IInv'
        BY <2>2, StutterIInv DEF avars, AccInv
      <3>2. AccTypes' /\ MapOK' /\ AgeOK' /\ CrowdOK' /\ ClaimsOK'
        BY <2>2 DEF avars, tokens, vars, table, requests, AccInv, AccTypes, MapOK, MapValid,
           AgeOK, CrowdOK, ClaimsOK
      <3> QED
        BY <3>1, <3>2 DEF AccInv
    <2> QED
      BY <2>1, <2>2
  <1> QED
    BY <1>1, <1>2, PTL DEF AccSpec

\* No access token is good for longer than its life after its session was revoked.
THEOREM AccessEnds == AccSpec => []RevokedAccessEnds
  <1>1. AccInv => RevokedAccessEnds
    <2> SUFFICES ASSUME AccInv, NEW s \in Session,
                        mode \in Signing, row[s] = "revoked", age[s] = Life
                 PROVE  ~AccessValid(s)
      BY DEF RevokedAccessEnds
    <2>1. ~SignedValid(s)
      BY LifeAssumption DEF AccInv, AccTypes, AgeOK, SignedValid
    <2>2. ~MapValid(s)
      BY DEF AccInv, MapOK
    <2>3. mode = "jwt" \/ mode = "dual"
      BY DEF Signing
    <2> QED
      BY <2>1, <2>2, <2>3 DEF AccessValid
  <1> QED
    BY <1>1, TokensInductive, PTL

\* A request that runs alone answers with a token for the company of its session.
THEOREM LoneAnswer == AccSpec => LoneAnswerIsCurrent
  <1>1. ASSUME AccInv, NEW r \in Request, AnswerToken(r), r \notin crowded
        PROVE  access'[on[r]] = bound[on[r]]
    <2>1. on[r] \in Session
      BY <1>1, OnSession DEF AccInv, AnswerToken, Answer
    <2>2. company[r] = bound[on[r]]
      BY <1>1 DEF AccInv, ClaimsOK, AnswerToken, Answer
    <2> QED
      BY <1>1, <2>1, <2>2 DEF AccInv, AccTypes, AnswerToken, Claims
  <1>2. AccInv /\ [AccNext]_avars =>
           [\A r \in Request :
               AnswerToken(r) /\ r \notin crowded => access'[on[r]] = bound[on[r]]]_avars
    BY <1>1
  <1> QED
    BY <1>2, TokensInductive, PTL DEF AccSpec, LoneAnswerIsCurrent
-----------------------------------------------------------------------------
(* Links, and the sessions of an old password.                             *)

\* A step of a request, of a link or of a handler is one of the sessions, or leaves
\* them alone, or revokes every session of a user.
LEMMA RecMoves ==
    ASSUME RecNext
    PROVE  Next \/ UNCHANGED vars \/ \E x \in Handler : RevokeAll(x)
  <1>1. ASSUME NEW r \in Request, OpenSession(r) \/ \E s \in Session : VerifyCredential(r, s)
        PROVE  Next
    BY <1>1 DEF OpenSession, VerifyCredential, Next, RequestStep
  <1>2. ASSUME OtherSessionStep PROVE Next
    BY <1>2 DEF OtherSessionStep, Next, RequestStep
  <1>3. ASSUME NEW k \in Link, SendLink(k) \/ LinkExpires(k) PROVE UNCHANGED vars
    BY <1>3 DEF SendLink, LinkExpires
  <1>4. ASSUME NEW x \in Handler,
               \/ \E k \in Link : Consume(x, k)
               \/ TooShort(x) \/ UpdatePassword(x) \/ MarkVerified(x) \/ Break(x)
        PROVE  UNCHANGED vars
    BY <1>4 DEF Consume, TooShort, UpdatePassword, MarkVerified, Break
  <1> QED
    BY <1>1, <1>2, <1>3, <1>4 DEF RecNext

\* Revoking many sessions keeps what revoking one does.
LEMMA RevokeAllIInv == ASSUME IInv, NEW x \in Handler, RevokeAll(x) PROVE IInv'
  <1> USE IamAssumption DEF IInv, TypeOK, RevokeAll, RevokeAllByUser, requests, clients, history,
          Revoke
  <1>b. TypeOK'
    BY DEF Rows, Phases
  <1>1. PhaseOK'
    BY <1>b DEF PhaseOK
  <1>2. RowOK'
    BY <1>b DEF RowOK, PhaseOK
  <1>3. MemberOK'
    BY <1>b DEF MemberOK, PhaseOK
  <1>4. BoundToMembership'
    BY <1>b DEF BoundToMembership, MemberOK, PhaseOK
  <1>5. TokenOK'
    BY <1>b DEF TokenOK, TokenOfOneSession, Drawn, PhaseOK
  <1>6. TokenOfOneSession'
    BY <1>b DEF TokenOfOneSession, TokenOK, Drawn, PhaseOK, RowOK
  <1>7. SingleOK'
    BY <1>b DEF SingleOK, Rotating, TokenOK, TokenOfOneSession, Drawn, PhaseOK, RowOK
  <1>8. RotatedOnce'
    BY <1>b DEF RotatedOnce
  <1> QED
    BY <1>b, <1>1, <1>2, <1>3, <1>4, <1>5, <1>6, <1>7, <1>8 DEF IInv

\* The only step of the sessions alone that begins a login is Login's, and the only
\* one that makes a row live is its INSERT.
LEMMA OtherStepOpensNothing ==
    ASSUME IInv, OtherSessionStep
    PROVE  /\ \A s \in Session : row'[s] = "live" => row[s] = "live"
           /\ \A r \in Request : pc'[r] = "verified" => pc[r] = "verified" /\ on'[r] = on[r]
  <1> USE DEF IInv, TypeOK, Phases, table, requests, clients, history
  <1> DEFINE Goal == /\ \A s \in Session : row'[s] = "live" => row[s] = "live"
                     /\ \A r \in Request :
                           pc'[r] = "verified" => pc[r] = "verified" /\ on'[r] = on[r]
  <1>1. ASSUME NEW q \in Request, NEW s \in Session, NEW t \in Token, RefreshFind(q, s, t)
        PROVE  Goal
    BY <1>1 DEF RefreshFind, Goto
  <1>2. ASSUME NEW q \in Request, RefreshRotate(q) \/ BindUpdate(q) PROVE Goal
    BY <1>2 DEF RefreshRotate, BindUpdate, Goto
  <1>3. ASSUME NEW q \in Request,
               RefreshRefused(q) \/ BindRefused(q) \/ Answer(q) \/ LoseAnswer(q)
        PROVE  Goal
    BY <1>3 DEF RefreshRefused, BindRefused, Answer, LoseAnswer, Done
  <1>4. ASSUME NEW q \in Request, NEW s \in Session, NEW c \in Company, BindFind(q, s, c)
        PROVE  Goal
    BY <1>4 DEF BindFind, Goto
  <1>5. ASSUME NEW s \in Session, Expire(s) \/ \E t \in Token : Logout(s, t) PROVE Goal
    BY <1>5 DEF Expire, Logout, Revoke
  <1>6. ASSUME NEW u \in User,
               \/ \E s \in Session : RevokeSession(u, s)
               \/ \E c \in Company : SetMembership(u, c)
        PROVE  Goal
    BY <1>6 DEF RevokeSession, SetMembership, Revoke
  <1> QED
    BY <1>1, <1>2, <1>3, <1>4, <1>5, <1>6 DEF OtherSessionStep

\* Rows, credentials and handlers keep their types.
LEMMA RecTypesStep == RecInv /\ RecNext => RecTypes'
  <1> SUFFICES ASSUME RecInv, RecNext PROVE RecTypes'
    OBVIOUS
  <1> USE IamAssumption, RecoveryAssumption DEF RecInv, RecTypes, recovery, recHistory
  <1>1. ASSUME NEW r \in Request, OpenSession(r) PROVE RecTypes'
    BY <1>1, OnSession DEF OpenSession, LoginCreate
  <1>2. ASSUME NEW r \in Request, NEW s \in Session, VerifyCredential(r, s) PROVE RecTypes'
    BY <1>2 DEF VerifyCredential
  <1>3. CASE OtherSessionStep
    BY <1>3 DEF OtherSessionStep
  <1>4. ASSUME NEW k \in Link, SendLink(k) \/ LinkExpires(k) PROVE RecTypes'
    BY <1>4 DEF SendLink, LinkExpires
  <1>5. ASSUME NEW x \in Handler, NEW k \in Link, Consume(x, k) PROVE RecTypes'
    BY <1>5 DEF Consume
  <1>6. ASSUME NEW x \in Handler, TooShort(x) \/ MarkVerified(x) PROVE RecTypes'
    BY <1>6 DEF TooShort, MarkVerified, HandlerDone
  <1>7. ASSUME NEW x \in Handler, UpdatePassword(x) PROVE RecTypes'
    BY <1>7 DEF UpdatePassword
  <1>8. ASSUME NEW x \in Handler, RevokeAll(x) PROVE RecTypes'
    BY <1>8 DEF RevokeAll, HandlerDone, BeingOpened, SessionsOf
  <1>9. ASSUME NEW x \in Handler, Break(x) PROVE RecTypes'
    BY <1>9 DEF Break, HandlerDone, BeingOpened, SessionsOf
  <1> QED
    BY <1>1, <1>2, <1>3, <1>4, <1>5, <1>6, <1>7, <1>8, <1>9 DEF RecNext

\* A consumed link is never valid again, so one handler at most holds it.
LEMMA LinksStep == RecInv /\ RecNext => LinksOK'
  <1> SUFFICES ASSUME RecInv, RecNext PROVE LinksOK'
    OBVIOUS
  <1> USE IamAssumption, RecoveryAssumption DEF RecInv, RecTypes, LinksOK, recovery, recHistory
  <1>1. CASE UNCHANGED recovery /\ UNCHANGED resets
    BY <1>1
  <1>2. ASSUME NEW k \in Link, SendLink(k) \/ LinkExpires(k) PROVE LinksOK'
    BY <1>2 DEF SendLink, LinkExpires
  <1>3. ASSUME NEW x \in Handler, NEW k \in Link, Consume(x, k) PROVE LinksOK'
    BY <1>3 DEF Consume, Usable
  <1>4. ASSUME NEW x \in Handler, TooShort(x) \/ MarkVerified(x) \/ RevokeAll(x) \/ Break(x)
        PROVE  LinksOK'
    BY <1>4 DEF TooShort, MarkVerified, RevokeAll, Break, HandlerDone
  <1>5. ASSUME NEW x \in Handler, UpdatePassword(x) PROVE LinksOK'
    BY <1>5 DEF UpdatePassword
  <1> QED
    BY <1>1, <1>2, <1>3, <1>4, <1>5 DEF RecNext, OpenSession, VerifyCredential, OtherSessionStep

\* A new password makes all sessions of its user due to be revoked; the revocation
\* misses only those it is not shown.
LEMMA PasswordsStep == RecInv /\ RecNext => PasswordsOK'
  <1> SUFFICES ASSUME RecInv, RecNext PROVE PasswordsOK'
    OBVIOUS
  <1> USE IamAssumption, RecoveryAssumption
      DEF RecInv, RecTypes, PasswordsOK, BeingReset, recovery, recHistory
  <1>t. /\ row \in [Session -> Rows]
        /\ pc \in [Request -> Phases]
        /\ on \in [Request -> Session \union {NoSession}]
        /\ \A r \in Request : pc[r] = "verified" => on[r] \in Session
    BY DEF IInv, TypeOK, PhaseOK
  <1>1. ASSUME NEW r \in Request, OpenSession(r) PROVE PasswordsOK'
    BY <1>1, <1>t DEF OpenSession, LoginCreate, Goto
  <1>2. ASSUME NEW r \in Request, NEW s \in Session, VerifyCredential(r, s) PROVE PasswordsOK'
    BY <1>2, <1>t DEF VerifyCredential, LoginVerify, Goto, table
  <1>3. CASE OtherSessionStep
    <2>1. UNCHANGED <<recovery, recHistory>>
      BY <1>3 DEF OtherSessionStep
    <2> QED
      BY <1>3, <2>1, OtherStepOpensNothing
  <1>4. ASSUME NEW k \in Link, SendLink(k) \/ LinkExpires(k) PROVE PasswordsOK'
    BY <1>4 DEF SendLink, LinkExpires, vars, table, requests
  <1>5. ASSUME NEW x \in Handler, NEW k \in Link, Consume(x, k) PROVE PasswordsOK'
    BY <1>5 DEF Consume, vars, table, requests
  <1>6. ASSUME NEW x \in Handler, TooShort(x) \/ MarkVerified(x) PROVE PasswordsOK'
    BY <1>6 DEF TooShort, MarkVerified, HandlerDone, vars, table, requests
  <1>7. ASSUME NEW x \in Handler, UpdatePassword(x) PROVE PasswordsOK'
    BY <1>7, <1>t DEF UpdatePassword, vars, table, requests
  <1>8. ASSUME NEW x \in Handler, RevokeAll(x) PROVE PasswordsOK'
    BY <1>8, <1>t DEF RevokeAll, RevokeAllByUser, Revoke, BeingOpened, SessionsOf, HandlerDone,
       requests
  <1>9. ASSUME NEW x \in Handler, Break(x) PROVE PasswordsOK'
    BY <1>9, <1>t DEF Break, BeingOpened, SessionsOf, HandlerDone, vars, table, requests
  <1> QED
    BY <1>1, <1>2, <1>3, <1>4, <1>5, <1>6, <1>7, <1>8, <1>9 DEF RecNext

\* The sessions, the links and the passwords keep the invariant.
THEOREM RecoveryInductive == RecSpec => []RecInv
  <1>1. RecInit => RecInv
    <2> SUFFICES ASSUME RecInit PROVE RecInv
      OBVIOUS
    <2>1. IInv
      BY InitIInv DEF RecInit
    <2> QED
      BY <2>1, IamAssumption, RecoveryAssumption
         DEF RecInit, Init, RecInv, RecTypes, LinksOK, PasswordsOK
  <1>2. RecInv /\ [RecNext]_allVars => RecInv'
    <2> SUFFICES ASSUME RecInv, [RecNext]_allVars PROVE RecInv'
      OBVIOUS
    <2>1. CASE RecNext
      <3>1. IInv'
        BY <2>1, RecMoves, NextIInv, RevokeAllIInv DEF RecInv
      <3> QED
        BY <2>1, <3>1, RecTypesStep, LinksStep, PasswordsStep DEF RecInv
    <2>2. CASE UNCHANGED allVars
      <3>1. IInv'
        BY <2>2, StutterIInv DEF allVars, RecInv
      <3>2. RecTypes' /\ LinksOK' /\ PasswordsOK'
        BY <2>2 DEF allVars, recovery, recHistory, vars, table, requests, RecInv, RecTypes,
           LinksOK, PasswordsOK, BeingReset
      <3> QED
        BY <3>1, <3>2 DEF RecInv
    <2> QED
      BY <2>1, <2>2
  <1> QED
    BY <1>1, <1>2, PTL DEF RecSpec

\* After a reset the sessions of older passwords are over, but for those it could not
\* reach.
THEOREM ResetEndsSessions == RecSpec => []OldPasswordSessionsEnd
  <1>1. RecInv => OldPasswordSessionsEnd
    BY DEF RecInv, PasswordsOK, BeingReset, OldPasswordSessionsEnd
  <1> QED
    BY <1>1, RecoveryInductive, PTL

\* A link is good for one new password.
THEOREM OneResetPerLink == RecSpec => []LinkResetsOnce
  <1>1. RecInv => LinkResetsOnce
    BY DEF RecInv, RecTypes, LinksOK, LinkResetsOnce
  <1> QED
    BY <1>1, RecoveryInductive, PTL
=============================================================================
