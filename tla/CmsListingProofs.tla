--------------------------- MODULE CmsListingProofs --------------------------
(***************************************************************************)
(* Proof that a reader of the paged lists of the CMS is shown nothing      *)
(* twice, and misses only what shares its second with the end of a page,   *)
(* for any number of items, any limit and any resolution of the clock.     *)
(***************************************************************************)
EXTENDS CmsListing, TLAPS

-----------------------------------------------------------------------------
(* Seconds.                                                                *)

\* The division with remainder that Format rests on.
LEMMA Division ==
    ASSUME NEW t \in Nat, NEW k \in Nat \ {0}
    PROVE  /\ t \div k \in Nat
           /\ t % k \in 0..(k - 1)
           /\ t = (k * (t \div k)) + (t % k)
OBVIOUS

\* Multiples of a number are at least that number apart.
LEMMA Monotonic ==
    ASSUME NEW k \in Nat \ {0}, NEW p \in Nat, NEW q \in Nat, p < q
    PROVE  k * p + k <= k * q
<1>1. k * (q - p - 1) >= 0
  OBVIOUS
<1> QED
  BY <1>1

\* A time written without its fraction is not later.
LEMMA FormatBounds ==
    ASSUME NEW t \in Nat
    PROVE  Format(t) \in Nat /\ Format(t) <= t
BY ListingAssumption DEF Format

\* What lies between a time and its second lies in that second.
LEMMA SameSecond ==
    ASSUME NEW t \in Nat, NEW u \in Nat, Format(t) <= u, u <= t
    PROVE  Format(u) = Format(t)
<1> DEFINE k == PerSecond
           q == t \div k
           p == u \div k
<1>1. k \in Nat \ {0}
  BY ListingAssumption
<1>2. /\ q \in Nat /\ t % k \in 0..(k - 1) /\ t = (k * q) + (t % k)
      /\ p \in Nat /\ u % k \in 0..(k - 1) /\ u = (k * p) + (u % k)
  BY <1>1, Division
<1>3. Format(t) = k * q /\ Format(u) = k * p
  BY <1>1, <1>2 DEF Format
<1> HIDE DEF k, q, p
<1>4. ~ (p < q)
  BY <1>1, <1>2, <1>3, Monotonic
<1>5. ~ (q < p)
  BY <1>1, <1>2, <1>3, Monotonic
<1> QED
  BY <1>2, <1>3, <1>4, <1>5

-----------------------------------------------------------------------------
(* The inductive invariant.                                                *)

ItemsOK ==
    /\ now \in Nat
    /\ phase \in [Item -> Phases]
    /\ at \in [Item -> Nat]

ReaderTypes ==
    /\ reading \in {"no", "yes", "done"}
    /\ cursor \in Nat
    /\ first \subseteq Item
    /\ shown \in [Item -> {0, 1}]

\* What was shown, or was there when the reader began, has its date for good.
Dated == \A i \in Item : shown[i] = 1 \/ i \in first => phase[i] \in {"listed", "gone"}

\* The reader begins with nothing; what it was shown is not below its cursor.
Above ==
    /\ reading = "no" => first = {} /\ \A i \in Item : shown[i] = 0
    /\ reading = "yes" => \A i \in Item : shown[i] = 1 => at[i] >= cursor

\* What it was not shown is still to come, or shares its second with the end of a page.
Awaited ==
    reading # "no" =>
        \A i \in first : phase[i] = "listed" /\ shown[i] = 0 =>
            (reading = "yes" /\ at[i] < cursor) \/ Format(at[i]) \in ends

IInv == ItemsOK /\ ReaderTypes /\ Dated /\ Above /\ Awaited

\* The invariant holds before anything is listed or read.
LEMMA InitIInv == Init => IInv
BY DEF Init, IInv, ItemsOK, ReaderTypes, Dated, Above, Awaited, Phases

\* An item that gets its date, or its place in the list, was neither shown nor there
\* when the reader began.
LEMMA ItemStepIInv ==
    ASSUME IInv, NEW i \in Item,
           Stamp(i) \/ Append(i) \/ CreateIntent(i) \/ MarkDeleted(i)
    PROVE  IInv'
<1> USE DEF IInv
<1>1. ItemsOK' /\ ReaderTypes'
  BY FormatBounds DEF ItemsOK, ReaderTypes, Phases, Stamp, Append, CreateIntent, MarkDeleted
<1>2. /\ UNCHANGED <<reading, cursor, first, shown, ends>>
      /\ \A j \in Item \ {i} : at'[j] = at[j] /\ phase'[j] = phase[j]
  BY DEF ItemsOK, Stamp, Append, CreateIntent, MarkDeleted
<1>3. \/ phase[i] \notin {"listed", "gone"}
      \/ at'[i] = at[i] /\ phase'[i] = "gone"
  BY DEF ItemsOK, Stamp, Append, CreateIntent, MarkDeleted
<1>4. CASE phase[i] \notin {"listed", "gone"}
  <2>1. shown[i] = 0 /\ i \notin first
    BY <1>4 DEF Dated, ReaderTypes
  <2> QED
    BY <1>1, <1>2, <2>1 DEF ReaderTypes, Dated, Above, Awaited
<1>5. CASE at'[i] = at[i] /\ phase'[i] = "gone"
  BY <1>1, <1>2, <1>5 DEF ReaderTypes, Dated, Above, Awaited
<1> QED
  BY <1>3, <1>4, <1>5

\* What a page may show was not shown before.
LEMMA BelowIsNew ==
    ASSUME IInv, reading # "done", NEW i \in Below
    PROVE  i \in Item /\ phase[i] = "listed" /\ shown[i] = 0
BY DEF IInv, ReaderTypes, ItemsOK, Above, Below, Listed

\* What the reader was not shown and is not below its cursor shares its second with the
\* end of a page.
LEMMA NotBelow ==
    ASSUME IInv, reading # "done", NEW i \in Item \ Below, phase[i] = "listed", shown[i] = 0,
           i \in IF reading = "no" THEN Listed ELSE first
    PROVE  Format(at[i]) \in ends
BY DEF IInv, ReaderTypes, ItemsOK, Awaited, Below, Listed

\* A page keeps the invariant: whether it is full, and its last item becomes the next
\* cursor, or the list ends with it.
LEMMA ReadPageIInv ==
    ASSUME IInv, ReadPage
    PROVE  IInv'
<1> USE DEF IInv
<1>1. PICK P \in SUBSET Item :
        /\ IsPage(P)
        /\ shown' = [i \in Item |-> IF i \in P THEN shown[i] + 1 ELSE shown[i]]
        /\ FullPage(P) \/ LastPage(P)
  BY DEF ReadPage
<1>2. /\ reading # "done"
      /\ first' = IF reading = "no" THEN Listed ELSE first
      /\ UNCHANGED <<list, now, items>>
  BY DEF ReadPage
<1>3. /\ P \subseteq Below
      /\ \A i \in P : phase[i] = "listed" /\ shown[i] = 0 /\ shown'[i] = 1
      /\ \A i \in Item \ P : shown'[i] = shown[i]
  BY <1>1, <1>2, BelowIsNew DEF IsPage, ReaderTypes
<1>4. ItemsOK'
  BY <1>2 DEF ItemsOK, items
<1>5. shown' \in [Item -> {0, 1}] /\ first' \subseteq Item
  BY <1>1, <1>2, <1>3 DEF ReaderTypes, Listed
<1>6. Dated'
  BY <1>2, <1>3, <1>5 DEF Dated, ItemsOK, ReaderTypes, items, Listed
<1>7. \A i \in first' : phase'[i] = "listed" /\ shown'[i] = 0 =>
         /\ i \in Item \ P /\ phase[i] = "listed" /\ shown[i] = 0
         /\ i \in Below \/ Format(at[i]) \in ends
  <2> SUFFICES ASSUME NEW i \in first', phase'[i] = "listed", shown'[i] = 0
               PROVE  /\ i \in Item \ P /\ phase[i] = "listed" /\ shown[i] = 0
                      /\ i \in Below \/ Format(at[i]) \in ends
    OBVIOUS
  <2>1. i \in Item \ P /\ phase[i] = "listed" /\ shown[i] = 0
    BY <1>2, <1>3, <1>5 DEF items
  <2> QED
    BY <1>2, <2>1, NotBelow
<1>8. CASE FullPage(P)
  <2>1. PICK last \in P :
          /\ \A i \in P : at[i] >= at[last]
          /\ cursor' = Format(at[last])
          /\ ends' = ends \union {Format(at[last])}
    BY <1>8 DEF FullPage
  <2>2. at[last] \in Nat /\ cursor' \in Nat /\ cursor' <= at[last] /\ reading' = "yes"
    BY <1>8, <2>1, FormatBounds DEF FullPage, ItemsOK
  <2>3. ReaderTypes'
    BY <1>5, <2>2 DEF ReaderTypes
  <2>4. ASSUME NEW i \in Item, shown'[i] = 1
        PROVE  at[i] >= cursor'
    <3>1. CASE i \in P
      BY <2>1, <2>2, <3>1 DEF ItemsOK
    <3>2. CASE i \notin P
      <4>1. shown[i] = 1 /\ reading = "yes"
        BY <1>2, <1>3, <2>4, <3>2 DEF Above, ReaderTypes
      <4>2. at[i] >= cursor /\ at[last] < cursor
        BY <1>3, <4>1 DEF Above, Below
      <4> QED
        BY <2>2, <4>2 DEF ItemsOK, ReaderTypes
    <3> QED
      BY <3>1, <3>2
  <2>5. Above'
    BY <1>2, <2>2, <2>4 DEF Above, items
  <2>6. ASSUME NEW i \in first', phase'[i] = "listed", shown'[i] = 0
        PROVE  at[i] < cursor' \/ Format(at[i]) \in ends'
    <3>1. CASE Format(at[i]) \in ends
      BY <2>1, <3>1
    <3>2. CASE i \in Below
      <4>1. i \in Item \ P /\ at[i] \in Nat
        BY <1>7, <2>6 DEF ItemsOK
      <4>2. at[i] <= at[last]
        BY <1>1, <3>2, <4>1, <2>2 DEF IsPage
      <4>3. CASE cursor' <= at[i]
        BY <2>1, <2>2, <4>1, <4>2, <4>3, SameSecond
      <4> QED
        BY <2>2, <4>1, <4>3
    <3> QED
      BY <1>7, <2>6, <3>1, <3>2
  <2>7. Awaited'
    BY <1>2, <2>2, <2>6 DEF Awaited, items
  <2> QED
    BY <1>4, <1>6, <2>3, <2>5, <2>7
<1>9. CASE LastPage(P)
  <2>1. reading' = "done" /\ UNCHANGED <<cursor, ends>> /\ P = Below
    BY <1>1, <1>9, ListingAssumption DEF LastPage, IsPage
  <2>2. ReaderTypes' /\ Above'
    BY <1>5, <2>1 DEF ReaderTypes, Above
  <2>3. Awaited'
    BY <1>2, <1>7, <2>1 DEF Awaited, items
  <2> QED
    BY <1>4, <1>6, <2>2, <2>3
<1> QED
  BY <1>1, <1>8, <1>9

\* Every step keeps the invariant.
LEMMA NextIInv == IInv /\ [Next]_vars => IInv'
<1> SUFFICES ASSUME IInv, [Next]_vars
             PROVE  IInv'
  OBVIOUS
<1>1. CASE UNCHANGED vars
  BY <1>1 DEF IInv, ItemsOK, ReaderTypes, Dated, Above, Awaited, vars, items
<1>2. CASE \E i \in Item : Stamp(i) \/ Append(i) \/ CreateIntent(i) \/ MarkDeleted(i)
  BY <1>2, ItemStepIInv
<1>3. CASE Tick
  BY <1>3 DEF Tick, IInv, ItemsOK, ReaderTypes, Dated, Above, Awaited, items
<1>4. CASE ReadPage
  BY <1>4, ReadPageIInv
<1> QED
  BY <1>1, <1>2, <1>3, <1>4 DEF Next

\* A reader that follows next_cursor is shown nothing twice, and everything that stays
\* listed, but for the seconds in which its pages ended.
THEOREM Paging == Spec => []ShownOnce
<1>1. IInv => ShownOnce
  BY DEF IInv, ReaderTypes, Awaited, ShownOnce
<1> QED
  BY <1>1, InitIInv, NextIInv, PTL DEF Spec
=============================================================================
