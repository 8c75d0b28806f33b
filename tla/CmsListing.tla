------------------------------ MODULE CmsListing -----------------------------
(***************************************************************************)
(* The two lists of the CMS that are read page by page: the audit log      *)
(* (internal/audit, ops/audit) and the media assets.  A page holds the     *)
(* latest items below a cursor, and the cursor of the next page is the     *)
(* time of its last item, written to the second.                           *)
(*                                                                         *)
(* An entry of the audit log gets its time, to the second, from the        *)
(* service that appends it, some time before it is there; an asset gets    *)
(* its time, to the millisecond, from the database.  Items are those of    *)
(* one company that pass the filters of the reader.                        *)
(***************************************************************************)
EXTENDS FiniteSets, Integers

CONSTANTS
    Item,
    Limit,      \* of a page; the code's is 50 unless the reader asks for another
    PerSecond,  \* instants in a second
    MaxTime     \* bound: instants

ASSUME ListingAssumption ==
    Limit \in Nat \ {0} /\ PerSecond \in Nat \ {0} /\ MaxTime \in Nat

Phases == {"new", "stamped", "listed", "gone"}

VARIABLES
    list,     \* "audit" or "media"
    now,
    phase,    \* of an item: not there yet, dated, in the list, deleted or lost
    at,       \* occurred_at, created_at
    reading,  \* "no" page yet, "yes", "done"
    cursor,   \* that the reader sends next, if it is reading
    \* history
    first,    \* items that were listed when the reader began
    shown,    \* how often the reader was shown an item
    ends      \* seconds that were handed out as cursors

items == <<phase, at>>
vars == <<list, now, items, reading, cursor, first, shown, ends>>

\* RFC3339 and timeLayout write no fraction of a second.
Format(t) == t - (t % PerSecond)

Init ==
    /\ list \in {"audit", "media"}
    /\ now = 0
    /\ phase = [i \in Item |-> "new"]
    /\ at = [i \in Item |-> 0]
    /\ reading = "no"
    /\ cursor = 0
    /\ first = {} /\ ends = {}
    /\ shown = [i \in Item |-> 0]

-----------------------------------------------------------------------------
(* The items.                                                              *)

\* AppendAuditLog of the service takes the time.
Stamp(i) ==
    /\ list = "audit" /\ phase[i] = "new"
    /\ phase' = [phase EXCEPT ![i] = "stamped"]
    /\ at' = [at EXCEPT ![i] = Format(now)]
    /\ UNCHANGED <<list, now, reading, cursor, first, shown, ends>>

\* The INSERT into audit_logs; an error is dropped by every caller.
Append(i) ==
    /\ phase[i] = "stamped"
    /\ \E p \in {"listed", "gone"} : phase' = [phase EXCEPT ![i] = p]
    /\ UNCHANGED <<list, now, at, reading, cursor, first, shown, ends>>

\* The INSERT into cms_media_assets.
CreateIntent(i) ==
    /\ list = "media" /\ phase[i] = "new"
    /\ phase' = [phase EXCEPT ![i] = "listed"]
    /\ at' = [at EXCEPT ![i] = now]
    /\ UNCHANGED <<list, now, reading, cursor, first, shown, ends>>

\* deleted_at is set; entries of the audit log stay.
MarkDeleted(i) ==
    /\ list = "media" /\ phase[i] = "listed"
    /\ phase' = [phase EXCEPT ![i] = "gone"]
    /\ UNCHANGED <<list, now, at, reading, cursor, first, shown, ends>>

Tick ==
    /\ now < MaxTime
    /\ now' = now + 1
    /\ UNCHANGED <<list, items, reading, cursor, first, shown, ends>>

-----------------------------------------------------------------------------
(* The reader.                                                             *)

Listed == {i \in Item : phase[i] = "listed"}

\* A slip to rule out: the cursor is taken for an inclusive bound.
BelowOrAt == {i \in Listed : reading = "yes" => at[i] <= cursor}

\* occurred_at < cursor, created_at < cursor; the first request has no cursor.
Below == {i \in Listed : reading = "yes" => at[i] < cursor}

\* ORDER BY ... DESC LIMIT: items of one instant come in any order.
IsPage(P) ==
    /\ P \subseteq Below
    /\ Cardinality(P) <= Limit
    /\ P # Below => Cardinality(P) = Limit
    /\ \A i \in P, j \in Below \ P : at[i] >= at[j]

\* A full page has a next_cursor, the time of its last item.
FullPage(P) ==
    /\ Cardinality(P) = Limit
    /\ \E last \in P :
          /\ \A i \in P : at[i] >= at[last]
          /\ cursor' = Format(at[last])
          /\ ends' = ends \union {Format(at[last])}
    /\ reading' = "yes"

\* The reader stops at a page without a next_cursor.
LastPage(P) ==
    /\ Cardinality(P) < Limit
    /\ reading' = "done"
    /\ UNCHANGED <<cursor, ends>>

\* auditLogs and listMedia.
ReadPage ==
    /\ reading # "done"
    /\ \E P \in SUBSET Item :
          /\ IsPage(P)
          /\ shown' = [i \in Item |-> IF i \in P THEN shown[i] + 1 ELSE shown[i]]
          /\ FullPage(P) \/ LastPage(P)
    /\ first' = IF reading = "no" THEN Listed ELSE first
    /\ UNCHANGED <<list, now, items>>

-----------------------------------------------------------------------------
Next ==
    \/ \E i \in Item : Stamp(i) \/ Append(i) \/ CreateIntent(i) \/ MarkDeleted(i)
    \/ Tick
    \/ ReadPage

Spec == Init /\ [][Next]_vars

-----------------------------------------------------------------------------
(* Properties.                                                             *)

\* A reader that follows next_cursor to its end is shown nothing twice, whatever is
\* added or deleted meanwhile, and everything that was there when it began and still is,
\* but for what happened in the second in which a page ended.
ShownOnce ==
    \A i \in Item :
        /\ shown[i] <= 1
        /\ reading = "done" /\ i \in first /\ phase[i] = "listed" /\ shown[i] = 0 =>
              Format(at[i]) \in ends
=============================================================================
