-------------------------- MODULE InMemoryCatalog ---------------------------
(***************************************************************************)
(* The catalog over the repository that keeps it in memory                 *)
(* (internal/disclosure/infra/inmemory), which the server takes when it    *)
(* has no database.  Every operation holds the mutex from its first line   *)
(* to its last, so each is one step: this is what callers may expect of a  *)
(* catalog of one type.  DisclosureCatalog implements this specification.  *)
(***************************************************************************)
EXTENDS TypeTemplate

CONSTANTS
    Company,
    Nobody,      \* the scope of a type that is not there
    Everybody,   \* the scope "global"
    Request,     \* the readers
    Seed,
    NoTemplate

VARIABLES
    catalogScope,
    catalog,       \* the active version: its number and its template
    catalogByVer,  \* number -> template
    versions,      \* the list of versions as it grew, each with its number and is_active
    answer         \* the detail a request was answered

memoryVars == <<catalogScope, catalog, catalogByVer, versions, answer>>

Visible(c) == catalogScope \in {c, Everybody}

Init ==
    /\ \/ /\ catalogScope = Nobody
          /\ catalog = [no |-> 0, template |-> NoTemplate]
          /\ catalogByVer = << >> /\ versions = << >>
       \/ /\ catalogScope = Everybody
          /\ catalog = [no |-> 1, template |-> Seed]
          /\ catalogByVer = <<Seed>> /\ versions = <<[no |-> 1, active |-> TRUE]>>
    /\ answer = [r \in Request |-> NoTemplate]

NoneActive == [i \in DOMAIN versions |-> [versions[i] EXCEPT !.active = FALSE]]

\* The number after the active one, whatever is stored under it; the template is one
\* that the service has let pass.
UpsertTypeVersion(c) ==
    LET n == catalog.no + 1
        t == catalog'.template
    IN  /\ catalog'.no = n
        /\ Valid(t)
        /\ catalog' = [no |-> n, template |-> t]
        /\ catalogByVer' = [k \in DOMAIN catalogByVer \union {n} |->
                               IF k = n THEN t ELSE catalogByVer[k]]
        /\ catalogScope' = c
        /\ versions' = Append(NoneActive, [no |-> n, active |-> TRUE])
        /\ UNCHANGED answer

\* All versions are switched off on the way to the one that is looked for, found or not;
\* of two with its number the later one is switched on.
ActivateTypeVersion(c, n) ==
    LET Found == {i \in DOMAIN versions : versions[i].no = n}
        IsLast(i) == \A j \in Found : j <= i
    IN  /\ Visible(c)
        /\ versions' = [i \in DOMAIN versions |->
                           [versions[i] EXCEPT !.active = i \in Found /\ IsLast(i)]]
        /\ catalog' = IF Found = {} THEN catalog
                      ELSE [no |-> n,
                            template |-> IF n \in DOMAIN catalogByVer THEN catalogByVer[n]
                                         ELSE catalog.template]
        /\ UNCHANGED <<catalogScope, catalogByVer, answer>>

Reply(r, t) ==
    /\ answer[r] = NoTemplate
    /\ answer' = [answer EXCEPT ![r] = t]
    /\ UNCHANGED <<catalogScope, catalog, catalogByVer, versions>>

GetTypeDetail(r, c) == Visible(c) /\ Reply(r, catalog.template)

GetTypeVersionDetail(r, c, n) ==
    /\ Visible(c) /\ n \in DOMAIN catalogByVer
    /\ Reply(r, catalogByVer[n])

\* The answer does not arrive.
ReplyLost(r) ==
    /\ answer' = [answer EXCEPT ![r] = NoTemplate]
    /\ UNCHANGED <<catalogScope, catalog, catalogByVer, versions>>

\* 0 stands for the numbers that are not there.
Next ==
    \/ \E c \in Company :
          \/ UpsertTypeVersion(c)
          \/ \E n \in {0} \union DOMAIN catalogByVer : ActivateTypeVersion(c, n)
          \/ \E r \in Request : GetTypeDetail(r, c)
          \/ \E r \in Request, n \in DOMAIN catalogByVer : GetTypeVersionDetail(r, c, n)
    \/ \E r \in Request : ReplyLost(r)

Spec == Init /\ [][Next]_memoryVars
=============================================================================
