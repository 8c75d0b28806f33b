--------------------------- MODULE CatalogProofs ---------------------------
(***************************************************************************)
(* Theorems about TypeTemplate and DisclosureCatalog for any companies,    *)
(* requests, templates, version numbers and faults.                        *)
(*                                                                         *)
(* First the templates: what Sync makes of any template is complete if the *)
(* validation lets it pass.  Then the transactions: who holds the lock of  *)
(* the row knows the active version, so that no two writers take one       *)
(* number, and the versions are 1, 2, ... without a gap.  With that, every *)
(* step is one of the catalog in memory or is not seen there.              *)
(***************************************************************************)
EXTENDS DisclosureCatalog, FiniteSetTheorems, SequenceTheorems, WellFoundedInduction, TLAPS

Keys == MandatoryTemplateBlockKeys

\* What StoredIsComplete says, of any template.
Complete(t) ==
    /\ \A i \in DOMAIN Keys :
          /\ i \in DOMAIN t.blocks
          /\ t.blocks[i].key = Keys[i]
          /\ t.blocks[i].text = t.flat[Keys[i]]
    /\ \A i, j \in DOMAIN t.blocks :
          /\ t.blocks[i].order = i
          /\ i # j => t.blocks[i].key # t.blocks[j].key

-----------------------------------------------------------------------------
\* Every set of natural numbers has a least one.
LEMMA Least ==
    ASSUME NEW S \in SUBSET Nat, S # {}
    PROVE  \E j \in S : \A i \in S : j <= i
  <1>1. \E j \in S : \A i \in S : ~(<<i, j>> \in OpToRel(<, Nat))
    BY WFMin, NatLessThanWellFounded, Zenon
  <1>2. \E j \in S : \A i \in S : ~(i \in Nat /\ j \in Nat /\ i < j)
    BY <1>1, Zenon DEF OpToRel
  <1> QED
    BY <1>2

\* A set of places has a first, a second, ... up to as many as there are.
LEMMA NthOfSet ==
    ASSUME NEW S \in SUBSET Nat, IsFiniteSet(S), NEW n \in 1 .. Cardinality(S)
    PROVE  Nth(S, n) \in S /\ Cardinality({j \in S : j <= Nth(S, n)}) = n
  <1> DEFINE UpTo(i) == {j \in S : j <= i}
             Missed(k) == \A i \in S : Cardinality(UpTo(i)) # k
  <1>a. \A l \in S : l \in Nat
    OBVIOUS
  <1>0. Cardinality(S) \in Nat
    BY FS_CardinalityType
  <1>1. \A i : IsFiniteSet(UpTo(i)) /\ Cardinality(UpTo(i)) \in Nat
    BY FS_Subset, FS_CardinalityType
  <1>2. ASSUME \E k \in 1 .. Cardinality(S) : Missed(k)
        PROVE  FALSE
    <2> DEFINE T == {k \in 1 .. Cardinality(S) : Missed(k)}
    <2>1. T \in SUBSET Nat /\ T # {}
      BY <1>0, <1>2
    <2>2. PICK k \in T : \A l \in T : k <= l
      BY <2>1, Least
    <2>3. k \in 1 .. Cardinality(S) /\ Missed(k)
      BY <2>2
    <2>4. CASE k = 1
      <3>1. S # {}
        <4> HIDE DEF Missed
        <4> QED
          BY <1>0, <2>3, FS_EmptySet
      <3>2. PICK i \in S : \A j \in S : i <= j
        BY <3>1, Least
      <3>3. UpTo(i) = {i}
        <4>1. \A l \in S : l <= i <=> l = i
          BY <3>2, <1>a
        <4> QED
          BY <4>1
      <3>4. Cardinality(UpTo(i)) = 1
        BY <3>3, FS_Singleton
      <3> QED
        BY <2>3, <2>4, <3>4
    <2>5. CASE k # 1
      <3>1. k - 1 \in 1 .. Cardinality(S) /\ ~ (k <= k - 1)
        BY <1>0, <2>3, <2>5
      <3>2. k - 1 \notin T
        BY <2>2, <3>1
      <3>3. PICK i \in S : Cardinality(UpTo(i)) = k - 1
        BY <3>1, <3>2
      <3> DEFINE Above == {j \in S : i < j}
      <3>4. Above # {}
        <4>1. ASSUME Above = {} PROVE UpTo(i) = S
          <5>1. \A l \in S : l <= i
            BY <4>1, <1>a
          <5> QED
            BY <5>1
        <4>2. Cardinality(S) # k - 1
          BY <1>0, <2>3
        <4> QED
          BY <3>3, <4>1, <4>2
      <3>5. Above \in SUBSET Nat
        OBVIOUS
      <3>6. PICK j \in Above : \A l \in Above : j <= l
        BY <3>4, <3>5, Least
      <3>7. j \in S /\ UpTo(j) = UpTo(i) \union {j} /\ j \notin UpTo(i)
        <4>1. j \in S /\ i < j
          BY <3>6
        <4>2. \A l \in S : l <= j <=> l <= i \/ l = j
          <5>1. \A l \in S : i < l => j <= l
            BY <3>6
          <5> QED
            BY <4>1, <5>1, <1>a
        <4>3. ~ (j <= i)
          BY <4>1, <1>a
        <4> QED
          BY <4>1, <4>2, <4>3
      <3>8. Cardinality(UpTo(i) \union {j}) = (k - 1) + 1
        <4> HIDE DEF UpTo
        <4> QED
          BY <1>1, <3>3, <3>7, FS_AddElement
      <3> QED
        BY <2>3, <3>7, <3>8
    <2> QED
      BY <2>4, <2>5
  <1>3. \E i \in S : Cardinality({j \in S : j <= i}) = n
    BY <1>2
  <1> QED
    BY <1>3 DEF Nth

-----------------------------------------------------------------------------
\* There are six keys, all different.
LEMMA SixKeys ==
    /\ Len(Keys) = 6 /\ DOMAIN Keys = 1 .. 6
    /\ \A i \in 1 .. 6 : Keys[i] \in Mandatory /\ Keys[i] \in Key
    /\ \A i, j \in 1 .. 6 : Keys[i] = Keys[j] => i = j
    /\ \A k \in Mandatory : \E i \in 1 .. 6 : Keys[i] = k
    /\ NoKey \notin Mandatory
    /\ "deadline" \in Mandatory
  <1>1. Keys = <<"legal_basis", "disclosure_content", "deadline",
                 "channels_and_format", "legal_risks", "enterprise_workflow">>
    BY DEF Keys, MandatoryTemplateBlockKeys
  <1>2. Len(Keys) = 6 /\ DOMAIN Keys = 1 .. 6
    BY <1>1
  <1>3. Mandatory = {Keys[i] : i \in 1 .. 6}
    BY <1>2 DEF Mandatory, Keys
  <1>4. \A i \in 1 .. 6 : Keys[i] \in Mandatory
    BY <1>3
  <1>5. \A i \in 1 .. 6 : Keys[i] \in Key
    BY <1>4 DEF Key
  <1>6. \A i, j \in 1 .. 6 : Keys[i] = Keys[j] => i = j
    BY <1>1
  <1>7. \A k \in Mandatory : \E i \in 1 .. 6 : Keys[i] = k
    BY <1>3
  <1>8. NoKey \notin Mandatory
    BY <1>1, <1>7 DEF NoKey
  <1>9. "deadline" \in Mandatory
    BY <1>1, <1>4
  <1> QED
    BY <1>2, <1>4, <1>5, <1>6, <1>7, <1>8, <1>9

\* Text of the flat columns, and blocks made of it.
LEMMA FreshBlockType ==
    ASSUME NEW t \in Template, NEW i \in 1 .. 6
    PROVE  /\ FlatText(Keys[i], t) \in Text
           /\ FreshBlock(i, t) \in Block /\ FreshBlock(i, t).key = Keys[i]
           /\ FreshBlock(i, t).text = FlatText(Keys[i], t)
  <1>1. Keys[i] \in Mandatory /\ Keys[i] \in Key
    BY SixKeys
  <1>2. t.flat[Keys[i]] \in Seq(Line) /\ t.format \in Seq(Line)
    BY <1>1 DEF Template, Text
  <1>3. t.flat[Keys[i]] \o t.format \in Seq(Line)
    BY <1>2, ConcatProperties
  <1>4. FlatText(Keys[i], t) \in Text
    BY <1>2, <1>3 DEF FlatText, Text
  <1>5. FreshBlock(i, t) =
            [id |-> 0, key |-> Keys[i], order |-> i, text |-> FlatText(Keys[i], t),
             type |-> IF Keys[i] = "deadline" THEN "text" ELSE "rich_text",
             good |-> {"max_length"}, bad |-> {}]
    BY DEF FreshBlock, Keys
  <1>6. "text" \in DOMAIN Checked /\ "rich_text" \in DOMAIN Checked
    BY DEF Checked
  <1>7. i \in Int /\ {"max_length"} \in SUBSET Setting
    BY <1>6 DEF Setting, Checked
  <1> HIDE DEF Keys
  <1> QED
    BY <1>1, <1>4, <1>5, <1>6, <1>7 DEF Block

\* A function on 1..n is a sequence.
LEMMA SequenceOf ==
    ASSUME NEW S, NEW n \in Nat, NEW f \in [1 .. n -> S]
    PROVE  f \in Seq(S) /\ DOMAIN f = 1 .. n /\ Len(f) = n
  BY SeqDef, LenProperties

\* A template without blocks, and without text to make them of, has no deadline either.
LEMMA MaterializedType ==
    ASSUME NEW t \in Template
    PROVE  /\ Materialized(t) \in Template
           /\ Materialized(t).blocks = << >> => Materialized(t) = t /\ t.flat["deadline"] = << >>
  <1> DEFINE f == [i \in DOMAIN MandatoryTemplateBlockKeys |-> FreshBlock(i, t)]
  <1>1. f \in Seq(Block) /\ DOMAIN f = 1 .. 6
    BY SixKeys, FreshBlockType, SequenceOf DEF Keys
  <1>2. f # << >>
    BY <1>1
  <1>3. CASE t.blocks = << >> /\ AnyFlatSet(t)
    <2> HIDE DEF f
    <2>1. Materialized(t) = [t EXCEPT !.blocks = f]
      BY <1>3 DEF Materialized, f
    <2> QED
      BY <1>1, <1>2, <2>1 DEF Template
  <1>4. CASE ~(t.blocks = << >> /\ AnyFlatSet(t))
    <2>1. Materialized(t) = t
      BY <1>4 DEF Materialized
    <2>2. t.blocks = << >> => t.flat["deadline"] = << >>
      BY <1>4, SixKeys DEF AnyFlatSet
    <2> QED
      BY <2>1, <2>2
  <1> QED
    BY <1>3, <1>4

\* A set of places that is not empty has a last one.
LEMMA LastPlace ==
    ASSUME NEW n \in Nat, NEW S \in SUBSET (1 .. n), S # {}
    PROVE  \E i \in S : \A j \in S : j <= i
  <1> DEFINE D == {n - i : i \in S}
  <1>1. \A i \in S : i \in Nat /\ n - i \in Nat
    OBVIOUS
  <1>2. D \in SUBSET Nat /\ D # {}
    BY <1>1
  <1>3. PICK d \in D : \A e \in D : d <= e
    BY <1>2, Least
  <1>4. PICK i \in S : d = n - i
    BY <1>3
  <1>5. \A j \in S : n - i <= n - j
    BY <1>3, <1>4
  <1> QED
    BY <1>1, <1>5

\* The places of a key are places of the sequence.
LEMMA BlockOfKey ==
    ASSUME NEW t \in Template, NEW k, Places(k, t) # {}
    PROVE  BlockOf(k, t) \in Block /\ BlockOf(k, t).key = k
  <1>1. t.blocks \in Seq(Block)
    BY DEF Template
  <1>2. Len(t.blocks) \in Nat /\ DOMAIN t.blocks = 1 .. Len(t.blocks)
        /\ \A i \in DOMAIN t.blocks : t.blocks[i] \in Block
    BY <1>1
  <1>3. Places(k, t) \in SUBSET (1 .. Len(t.blocks))
    BY <1>2 DEF Places
  <1>4. \E i \in Places(k, t) : \A j \in Places(k, t) : j <= i
    BY <1>2, <1>3, LastPlace
  <1> DEFINE p == CHOOSE i \in Places(k, t) : \A j \in Places(k, t) : j <= i
  <1>5. p \in Places(k, t)
    BY <1>4
  <1>6. BlockOf(k, t) = t.blocks[p]
    BY DEF BlockOf
  <1> HIDE DEF p
  <1> QED
    BY <1>2, <1>5, <1>6 DEF Places

\* The last place of a key that has one place is that one.
LEMMA BlockOfOnly ==
    ASSUME NEW t, NEW k, NEW i \in Nat, Places(k, t) = {i}
    PROVE  BlockOf(k, t) = t.blocks[i]
  <1>1. (CHOOSE l \in {i} : \A j \in {i} : j <= l) = i
    OBVIOUS
  <1> QED
    BY <1>1 DEF BlockOf

-----------------------------------------------------------------------------
\* What Rebuilt makes of a template without a key that comes twice.
LEMMA RebuiltBlocks ==
    ASSUME NEW t \in Template, ~ HasDuplicateKeys(t)
    PROVE  LET b == Rebuilt(t).blocks IN
           /\ b \in Seq(Block) /\ b # << >>
           /\ Rebuilt(t) = [t EXCEPT !.blocks = b]
           /\ \A i \in 1 .. 6 : i \in DOMAIN b /\ b[i].key = Keys[i]
           /\ \A i \in DOMAIN b : b[i].order = i
           /\ \A i, j \in DOMAIN b : i # j => b[i].key # b[j].key
  <1> DEFINE E == Extras(t)
             Kept(i) == LET k == MandatoryTemplateBlockKeys[i] IN
                IF Places(k, t) = {} THEN FreshBlock(i, t)
                ELSE [BlockOf(k, t) EXCEPT
                         !.text = IF FlatText(k, t) = << >> THEN @ ELSE FlatText(k, t)]
             Put(i) == IF i <= 6 THEN Kept(i) ELSE t.blocks[Nth(E, i - 6)]
             Ordered(i) == [Put(i) EXCEPT !.order = i]
             n == 6 + Cardinality(E)
             b == [i \in 1 .. n |-> Ordered(i)]
  <1>1. Len(MandatoryTemplateBlockKeys) = 6
    BY SixKeys DEF Keys
  <1>2. Rebuilt(t) = [t EXCEPT !.blocks = b]
    BY <1>1 DEF Rebuilt
  <1>3. /\ t.blocks \in Seq(Block) /\ Len(t.blocks) \in Nat
        /\ DOMAIN t.blocks = 1 .. Len(t.blocks)
        /\ \A i \in DOMAIN t.blocks : t.blocks[i] \in Block
    BY DEF Template
  <1>4. E \in SUBSET (1 .. Len(t.blocks))
    BY <1>3 DEF Extras
  <1>5. IsFiniteSet(E) /\ Cardinality(E) \in Nat /\ E \in SUBSET Nat
    <2> HIDE DEF E
    <2>1. IsFiniteSet(1 .. Len(t.blocks))
      BY <1>3, FS_Interval
    <2>2. IsFiniteSet(E)
      BY <1>4, <2>1, FS_Subset
    <2>3. Cardinality(E) \in Nat
      BY <2>2, FS_CardinalityType
    <2> QED
      BY <1>4, <2>2, <2>3
  <1>6. n \in Nat /\ \A i \in 1 .. n : ~(i <= 6) => i - 6 \in 1 .. Cardinality(E)
    BY <1>5
  <1>7. \A m \in 1 .. Cardinality(E) :
            Nth(E, m) \in E /\ Cardinality({j \in E : j <= Nth(E, m)}) = m
    BY <1>5, NthOfSet
  <1>8. ASSUME NEW i \in 1 .. 6
        PROVE  Kept(i) \in Block /\ Kept(i).key = Keys[i]
    <2>1. FlatText(Keys[i], t) \in Text
      BY FreshBlockType
    <2>2. CASE Places(Keys[i], t) = {}
      BY <2>2, FreshBlockType DEF Keys
    <2>3. CASE Places(Keys[i], t) # {}
      <3>1. BlockOf(Keys[i], t) \in Block /\ BlockOf(Keys[i], t).key = Keys[i]
        BY <2>3, BlockOfKey
      <3>2. Kept(i) = [BlockOf(Keys[i], t) EXCEPT
                !.text = IF FlatText(Keys[i], t) = << >> THEN @ ELSE FlatText(Keys[i], t)]
        BY <2>3 DEF Keys
      <3> HIDE DEF Kept, Keys
      <3> QED
        BY <2>1, <3>1, <3>2 DEF Block
    <2> QED
      BY <2>2, <2>3
  <1>9. ASSUME NEW i \in 1 .. n, ~(i <= 6)
        PROVE  /\ Nth(E, i - 6) \in E
               /\ Put(i) = t.blocks[Nth(E, i - 6)]
               /\ Put(i) \in Block /\ Put(i).key \notin Mandatory \union {NoKey}
    <2>1. Nth(E, i - 6) \in E
      BY <1>6, <1>7, <1>9
    <2>2. \A p \in E : p \in DOMAIN t.blocks /\ t.blocks[p].key \notin Mandatory \union {NoKey}
      BY DEF Extras
    <2> QED
      BY <1>3, <1>9, <2>1, <2>2
  <1>10. \A i \in 1 .. 6 : Put(i) = Kept(i)
    OBVIOUS
  <1>11. \A i \in 1 .. n : Put(i) \in Block
    <2> HIDE DEF Put, Kept, n
    <2> QED
      BY <1>6, <1>8, <1>9, <1>10
  <1>12. \A i \in 1 .. n : Ordered(i) \in Block /\ Ordered(i).order = i /\ Ordered(i).key = Put(i).key
    <2> HIDE DEF Put
    <2> QED
      BY <1>6, <1>11 DEF Block
  <1>13. \A i, j \in 1 .. n : i # j => Put(i).key # Put(j).key
    <2> SUFFICES ASSUME NEW i \in 1 .. n, NEW j \in 1 .. n, i # j, Put(i).key = Put(j).key
                 PROVE  FALSE
      OBVIOUS
    <2> HIDE DEF Put, Kept, n, E
    <2>1. \A l \in 1 .. n : l <= 6 => /\ Put(l).key = Keys[l]
                                      /\ Keys[l] \in Mandatory
      BY <1>6, <1>8, <1>10, SixKeys
    <2>2. CASE i <= 6 /\ j <= 6
      BY <1>6, <2>1, <2>2, SixKeys
    <2>3. CASE i <= 6 /\ ~(j <= 6)
      BY <1>9, <2>1, <2>3
    <2>4. CASE ~(i <= 6) /\ j <= 6
      BY <1>9, <2>1, <2>4
    <2>5. CASE ~(i <= 6) /\ ~(j <= 6)
      <3>1. Nth(E, i - 6) # Nth(E, j - 6)
        <4>1. i - 6 # j - 6
          BY <1>6, <2>5
        <4> QED
          BY <1>6, <1>7, <2>5, <4>1
      <3>2. /\ Nth(E, i - 6) \in DOMAIN t.blocks /\ Nth(E, j - 6) \in DOMAIN t.blocks
            /\ t.blocks[Nth(E, i - 6)].key = t.blocks[Nth(E, j - 6)].key
            /\ t.blocks[Nth(E, i - 6)].key # NoKey
        BY <1>3, <1>4, <1>9, <2>5
      <3> QED
        BY <3>1, <3>2 DEF HasDuplicateKeys
    <2> QED
      BY <2>2, <2>3, <2>4, <2>5
  <1>14. b \in Seq(Block) /\ DOMAIN b = 1 .. n /\ Len(b) = n
    <2> HIDE DEF Ordered, n
    <2> QED
      BY <1>6, <1>12, SequenceOf
  <1>15. \A i \in 1 .. 6 : i \in 1 .. n
    BY <1>5
  <1>16. Rebuilt(t).blocks = b
    <2> HIDE DEF b
    <2> QED
      BY <1>2 DEF Template
  <1>17. \A i \in 1 .. n : b[i] = Ordered(i)
    OBVIOUS
  <1>18. b # << >>
    <2> HIDE DEF b, n
    <2> QED
      BY <1>14, <1>15
  <1>19. \A i \in 1 .. 6 : Put(i).key = Keys[i]
    <2> HIDE DEF Put, Kept
    <2> QED
      BY <1>8, <1>10
  <1> HIDE DEF b, n, Ordered, Put, Kept, E
  <1> QED
    BY <1>2, <1>12, <1>13, <1>14, <1>15, <1>16, <1>17, <1>18, <1>19

\* What Mirrored makes of a template: the flat text is the text of the key's last block.
LEMMA MirroredType ==
    ASSUME NEW t \in Template
    PROVE  /\ Mirrored(t) \in Template /\ Mirrored(t).blocks = t.blocks
           /\ \A k \in Mandatory : Places(k, t) # {} =>
                 Mirrored(t).flat[k] = BlockOf(k, t).text
  <1> DEFINE f == [k \in Mandatory |->
                     IF Places(k, t) = {} THEN t.flat[k] ELSE BlockOf(k, t).text]
  <1>1. \A k \in Mandatory : t.flat[k] \in Text
    BY DEF Template
  <1>2. \A k \in Mandatory : Places(k, t) # {} => BlockOf(k, t).text \in Text
    BY BlockOfKey DEF Block
  <1>3. f \in [Mandatory -> Text]
    BY <1>1, <1>2
  <1>4. Mirrored(t) = [t EXCEPT !.flat = f]
    BY DEF Mirrored
  <1>5. \A k \in Mandatory : Places(k, t) # {} => f[k] = BlockOf(k, t).text
    OBVIOUS
  <1> HIDE DEF f
  <1> QED
    BY <1>3, <1>4, <1>5 DEF Template

\* What is prepared for storage is a template, and a complete one if it is valid.
LEMMA SyncType ==
    ASSUME NEW t \in Template
    PROVE  /\ Sync(t) \in Template
           /\ Valid(Sync(t)) => Complete(Sync(t))
  <1> DEFINE m == Materialized(t)
             x == Rebuilt(m)
  <1>1. m \in Template
    BY MaterializedType
  <1>2. CASE m.blocks = << >>
    <2>1. Sync(t) = m
      BY <1>2 DEF Sync
    <2>2. m.flat["deadline"] = << >>
      BY <1>2, MaterializedType
    <2> HIDE DEF m
    <2> QED
      BY <1>1, <2>1, <2>2 DEF Valid, ValidMatrix
  <1>3. CASE m.blocks # << >> /\ HasDuplicateKeys(m)
    <2>1. Sync(t) = Mirrored(m)
      BY <1>3 DEF Sync, Rebuilt
    <2> HIDE DEF m
    <2>2. HasDuplicateKeys(Mirrored(m))
      BY <1>1, <1>3, MirroredType DEF HasDuplicateKeys
    <2> QED
      BY <1>1, <2>1, <2>2, MirroredType DEF Valid, ValidBlocks
  <1>4. CASE m.blocks # << >> /\ ~ HasDuplicateKeys(m)
    <2>1. Sync(t) = Mirrored(x)
      BY <1>4 DEF Sync
    <2> HIDE DEF m
    <2> DEFINE b == x.blocks
    <2>2. /\ b \in Seq(Block) /\ b # << >>
          /\ x = [m EXCEPT !.blocks = b]
          /\ \A i \in 1 .. 6 : i \in DOMAIN b /\ b[i].key = Keys[i]
          /\ \A i \in DOMAIN b : b[i].order = i
          /\ \A i, j \in DOMAIN b : i # j => b[i].key # b[j].key
      BY <1>1, <1>4, RebuiltBlocks
    <2> HIDE DEF x, b
    <2>3. x \in Template /\ x.blocks = b
      BY <1>1, <2>2 DEF Template
    <2>4. Mirrored(x) \in Template /\ Mirrored(x).blocks = b
      BY <2>3, MirroredType
    <2>5. ASSUME NEW i \in 1 .. 6
          PROVE  b[i].text = Mirrored(x).flat[Keys[i]]
      <3>1. Places(Keys[i], x) = {i}
        BY <2>2, <2>3 DEF Places
      <3>2. BlockOf(Keys[i], x) = b[i]
        BY <2>3, <3>1, BlockOfOnly
      <3>3. Places(Keys[i], x) # {} /\ Keys[i] \in Mandatory
        BY <3>1, SixKeys
      <3>4. Mirrored(x).flat[Keys[i]] = BlockOf(Keys[i], x).text
        BY <2>3, <3>3, MirroredType
      <3> QED
        BY <3>2, <3>4
    <2>6. Complete(Mirrored(x))
      BY <2>2, <2>4, <2>5, SixKeys DEF Complete
    <2> QED
      BY <2>1, <2>4, <2>6
  <1> QED
    BY <1>2, <1>3, <1>4

-----------------------------------------------------------------------------
(* The inductive invariant.                                                *)

\* A request that has come in has its operation and its company; one that writes a
\* template holds one.
RequestsOK ==
    \A r \in Request :
        /\ pc[r] # "new" => op[r] \in Operation /\ company[r] \in Company
        /\ pc[r] \in {"row", "viewed", "ready"} => op[r] \in {"view", "edit"} /\ Exists(got[r])
        /\ pc[r] \in {"row", "viewed", "ready"} => draft[r] \in Template
        /\ pc[r] = "row" => draft[r] = versions[got[r]]

\* Who is in a transaction holds a lock, alone unless the type has no row yet; what it
\* has read under its lock still holds, and what it will store is valid and complete.
LocksOK ==
    /\ \A r \in Request : pc[r] = "locked" <=> r \in locked
    /\ owner # Nobody => \A r, s \in locked : r = s
    /\ \A r \in locked :
          IF op[r] = "activate" THEN owner # Nobody
          ELSE /\ got[r] = active
               /\ draft[r] \in Template /\ Valid(draft[r]) /\ Complete(draft[r])

\* A type without a row has no versions; one with a row has versions 1, 2, ... without
\* a gap, the active one among them.
VersionsOK ==
    /\ owner = Nobody => active = 0 /\ \A n \in Version : ~ Exists(n)
    /\ owner # Nobody => Exists(active)
    /\ \A n \in Version : Exists(n) => \A k \in 1 .. n : Exists(k)

\* What is stored is the seed, or complete.
StoredOK == \A n \in Version : Exists(n) => Stored(n) = Seed \/ Complete(Stored(n))

IInv == TypeOK /\ RequestsOK /\ LocksOK /\ VersionsOK /\ StoredOK

\* A version's row and its blocks make a template, and take one apart.
LEMMA RowAndBlocks ==
    ASSUME NEW t \in Template
    PROVE  /\ Row(t) \in Template /\ t.blocks \in Seq(Block)
           /\ [Row(t) EXCEPT !.blocks = t.blocks] = t
           /\ \A b \in Seq(Block) : [t EXCEPT !.blocks = b] \in Template
           /\ Annotated(t) \in Template
  <1>1. t.blocks \in Seq(Block) /\ << >> \in Seq(Block)
    BY DEF Template
  <1>2. \A b \in Seq(Block) : [t EXCEPT !.blocks = b] \in Template
    BY DEF Template
  <1>3. Row(t) \in Template
    BY <1>1, <1>2 DEF Row
  <1>4. [Row(t) EXCEPT !.blocks = t.blocks] = t
    BY DEF Row, Template
  <1>5. Append(t.flat["deadline"], Note) \in Text
    BY CatalogAssumption, SixKeys DEF Template, Text
  <1>6. [t.flat EXCEPT !["deadline"] = Append(@, Note)] \in [Mandatory -> Text]
    BY <1>5, SixKeys DEF Template
  <1>7. Annotated(t) = [t EXCEPT !.flat = [t.flat EXCEPT !["deadline"] = Append(@, Note)]]
    BY DEF Annotated
  <1>8. Annotated(t) \in Template
    BY <1>6, <1>7 DEF Template
  <1> QED
    BY <1>1, <1>2, <1>3, <1>4, <1>8

\* What is stored is templates.
LEMMA StoredType ==
    ASSUME TypeOK, NEW n, Exists(n)
    PROVE  n \in Version /\ versions[n] \in Template /\ Stored(n) \in Template
  <1>1. n \in Version /\ versions[n] \in Template /\ blocks[n] \in Seq(Block)
    BY DEF TypeOK, Exists
  <1> QED
    BY <1>1, RowAndBlocks DEF Stored

-----------------------------------------------------------------------------
\* Init establishes the invariant.
LEMMA InitIInv == Init => IInv
  <1> SUFFICES ASSUME Init PROVE IInv
    OBVIOUS
  <1> USE CatalogAssumption
  <1>1. Seed \in Template /\ Row(Seed) \in Template /\ Seed.blocks \in Seq(Block)
    BY RowAndBlocks
  <1>2. 1 \in Version /\ << >> \in Seq(Block)
    BY DEF Version
  <1>3. versions \in [Version -> Template \union {NoTemplate}]
    BY <1>1 DEF Init
  <1>4. blocks \in [Version -> Seq(Block)]
    BY <1>1, <1>2 DEF Init
  <1>5. /\ locked = {} /\ refused = {} /\ faults = 0
        /\ pc = [r \in Request |-> "new"] /\ op = [r \in Request |-> "none"]
        /\ company = [r \in Request |-> Nobody] /\ number = [r \in Request |-> 0]
        /\ draft = [r \in Request |-> NoTemplate] /\ got = [r \in Request |-> 0]
    BY DEF Init
  <1>6. owner \in {Nobody, Everybody} /\ active \in 0 .. MaxVersion
    BY DEF Init
  <1>7. TypeOK
    BY <1>3, <1>4, <1>5, <1>6 DEF TypeOK
  <1>8. RequestsOK
    BY <1>5 DEF RequestsOK
  <1>9. LocksOK
    BY <1>5 DEF LocksOK
  <1>10. CASE owner = Nobody
    <2>1. active = 0 /\ \A n \in Version : ~ Exists(n)
      BY <1>10 DEF Init, Exists
    <2> QED
      BY <1>7, <1>8, <1>9, <1>10, <2>1 DEF IInv, VersionsOK, StoredOK
  <1>11. CASE owner # Nobody
    <2>1. active = 1 /\ versions = [n \in Version |-> IF n = 1 THEN Row(Seed) ELSE NoTemplate]
      BY <1>11 DEF Init
    <2>2. \A n \in Version : Exists(n) <=> n = 1
      BY <1>1, <2>1 DEF Exists
    <2>3. blocks[1] = Seed.blocks /\ versions[1] = Row(Seed)
      BY <1>1, <1>2, <2>1 DEF Init
    <2>4. Stored(1) = Seed
      BY <1>1, <2>3, RowAndBlocks DEF Stored
    <2>5. VersionsOK
      BY <1>2, <1>11, <2>1, <2>2 DEF VersionsOK
    <2>6. StoredOK
      BY <2>2, <2>4 DEF StoredOK
    <2> QED
      BY <1>7, <1>8, <1>9, <2>5, <2>6 DEF IInv
  <1> QED
    BY <1>10, <1>11

\* What is stored stays as right as it is while nobody writes.
LEMMA NothingStored ==
    ASSUME VersionsOK, StoredOK, UNCHANGED stored
    PROVE  VersionsOK' /\ StoredOK'
  <1>1. \A n : (Exists(n) <=> Exists(n)') /\ Stored(n)' = Stored(n)
    BY DEF stored, Exists, Stored
  <1> QED
    BY <1>1 DEF VersionsOK, StoredOK, stored, Version

\* A request that gives up leaves the others as they were.
LEMMA GivesUp ==
    ASSUME IInv, NEW r \in Request, pc[r] \in {"row", "locked"},
           locked' = locked \ {r}, Goto(r, "over"), UNCHANGED <<stored, request, draft, got>>,
           refused' \subseteq Request, faults' \in 0 .. MaxFaults
    PROVE  IInv'
  <1> USE DEF IInv, Goto, stored, request
  <1>1. pc' \in [Request -> {"new", "row", "viewed", "ready", "locked", "over"}]
    BY DEF TypeOK
  <1>2. TypeOK'
    BY <1>1 DEF TypeOK
  <1>3. \A s \in Request : pc'[s] = IF s = r THEN "over" ELSE pc[s]
    BY DEF TypeOK
  <1>4. \A n : Exists(n) <=> Exists(n)'
    BY DEF Exists
  <1>5. RequestsOK'
    BY <1>3, <1>4 DEF RequestsOK
  <1>6. LocksOK'
    BY <1>3 DEF LocksOK
  <1> QED
    BY <1>2, <1>5, <1>6, NothingStored

\* A request that gets the lock with a valid template holds a complete one.
LEMMA LocksTemplate ==
    ASSUME IInv, NEW r \in Request, NEW t \in Template,
           pc[r] \in {"new", "ready"}, LockForUpsert(r, t),
           op' \in [Request -> Operation \union {"none"}],
           company' \in [Request -> Company \union {Nobody}],
           number' \in [Request -> 0 .. MaxVersion],
           op'[r] \in {"put", "edit", "neighbour"}, company'[r] \in Company,
           \A s \in Request \ {r} : op'[s] = op[s] /\ company'[s] = company[s]
    PROVE  IInv'
  <1> USE DEF IInv
  <1>1. Sync(t) \in Template /\ Valid(Sync(t)) /\ Complete(Sync(t))
    BY SyncType DEF LockForUpsert
  <1> DEFINE x == Sync(t)
  <1> HIDE DEF x
  <1>2. /\ locked' = locked \union {r} /\ (locked = {} \/ owner = Nobody)
        /\ draft' = [draft EXCEPT ![r] = x] /\ got' = [got EXCEPT ![r] = active]
        /\ pc' = [pc EXCEPT ![r] = "locked"]
        /\ UNCHANGED <<owner, active, versions, blocks, refused, faults>>
    BY DEF LockForUpsert, Lockable, Goto, stored, x
  <1>3. x \in Template /\ Valid(x) /\ Complete(x)
    BY <1>1 DEF x
  <1>4. TypeOK'
    BY <1>2, <1>3 DEF TypeOK
  <1>5. /\ \A s \in Request : pc'[s] = IF s = r THEN "locked" ELSE pc[s]
        /\ \A s \in Request : draft'[s] = IF s = r THEN x ELSE draft[s]
        /\ \A s \in Request : got'[s] = IF s = r THEN active ELSE got[s]
    BY <1>2 DEF TypeOK
  <1>6. \A n : Exists(n) <=> Exists(n)'
    BY <1>2 DEF Exists
  <1>7. RequestsOK'
    BY <1>2, <1>5, <1>6 DEF RequestsOK, Operation
  <1>8. LocksOK'
    <2>1. \A s \in Request : pc'[s] = "locked" <=> s \in locked'
      BY <1>2, <1>5 DEF LocksOK
    <2>2. owner' # Nobody => \A p, s \in locked' : p = s
      BY <1>2
    <2>3. ASSUME NEW s \in locked'
          PROVE  IF op'[s] = "activate" THEN owner' # Nobody
                 ELSE /\ got'[s] = active'
                      /\ draft'[s] \in Template /\ Valid(draft'[s]) /\ Complete(draft'[s])
      <3>1. s \in Request
        BY <1>2 DEF TypeOK
      <3>2. CASE s = r
        BY <1>2, <1>3, <1>5, <3>2
      <3>3. CASE s # r
        <4>1. s \in locked
          BY <1>2, <3>3
        <4> QED
          BY <1>2, <1>5, <3>1, <3>3, <4>1 DEF LocksOK
      <3> QED
        BY <3>2, <3>3
    <2> QED
      BY <2>1, <2>2, <2>3 DEF LocksOK
  <1> QED
    BY <1>2, <1>4, <1>7, <1>8, NothingStored DEF stored

\* A commit by the holder of the lock, who gives it up.
LEMMA Commits ==
    ASSUME IInv, NEW r \in Request, CommitUpsert(r)
    PROVE  IInv'
  <1> USE DEF IInv
  <1> DEFINE n == NextVersion(r)
  <1>1. /\ pc[r] = "locked" /\ op[r] \in {"put", "edit"} /\ n \in Version
        /\ owner' = company[r] /\ active' = n
        /\ versions' = [versions EXCEPT ![n] = Row(draft[r])]
        /\ blocks' = [blocks EXCEPT ![n] = draft[r].blocks]
        /\ locked' = locked \ {r} /\ pc' = [pc EXCEPT ![r] = "over"]
        /\ UNCHANGED <<op, company, number, draft, got, refused, faults>>
    BY DEF CommitUpsert, Goto, request
  <1>2. owner # Everybody /\ ~ Exists(n) /\ (owner = Nobody => locked = {r})
    BY DEF CommitUpsert, Duplicate, Deadlocked
  <1>3. /\ r \in locked /\ got[r] = active /\ n = active + 1
        /\ draft[r] \in Template /\ Complete(draft[r])
        /\ company[r] \in Company /\ locked' = {}
    <2>1. r \in locked /\ company[r] \in Company
      BY <1>1 DEF LocksOK, RequestsOK
    <2>2. got[r] = active /\ draft[r] \in Template /\ Complete(draft[r])
      BY <1>1, <2>1 DEF LocksOK
    <2>3. locked = {r}
      BY <1>2, <2>1 DEF LocksOK
    <2> QED
      BY <1>1, <2>1, <2>2, <2>3 DEF NextVersion
  <1> HIDE DEF n
  <1>4. Row(draft[r]) \in Template /\ draft[r].blocks \in Seq(Block)
        /\ [Row(draft[r]) EXCEPT !.blocks = draft[r].blocks] = draft[r]
    BY <1>3, RowAndBlocks
  <1>5. TypeOK'
    <2>1. versions' \in [Version -> Template \union {NoTemplate}] /\ blocks' \in [Version -> Seq(Block)]
      BY <1>1, <1>4 DEF TypeOK
    <2> QED
      BY <1>1, <1>3, <2>1 DEF TypeOK, Version
  <1>6. \A k \in Version : k # n => versions'[k] = versions[k] /\ blocks'[k] = blocks[k]
    BY <1>1 DEF TypeOK
  <1>7. versions'[n] = Row(draft[r]) /\ blocks'[n] = draft[r].blocks
    BY <1>1 DEF TypeOK
  <1>8. \A k \in Version : Exists(k)' <=> k = n \/ Exists(k)
    BY <1>4, <1>6, <1>7, CatalogAssumption DEF Exists
  <1>9. \A s \in Request : pc'[s] = IF s = r THEN "over" ELSE pc[s]
    BY <1>1 DEF TypeOK
  <1>10. RequestsOK'
    <2> SUFFICES ASSUME NEW s \in Request
                 PROVE  /\ pc'[s] # "new" => op'[s] \in Operation /\ company'[s] \in Company
                        /\ pc'[s] \in {"row", "viewed", "ready"} =>
                              op'[s] \in {"view", "edit"} /\ Exists(got[s])'
                        /\ pc'[s] \in {"row", "viewed", "ready"} => draft'[s] \in Template
                        /\ pc'[s] = "row" => draft'[s] = versions'[got'[s]]
      BY DEF RequestsOK
    <2>1. got[s] \in Version => (Exists(got[s])' <=> got[s] = n \/ Exists(got[s]))
      BY <1>1, <1>8
    <2>2. Exists(got[s]) => got[s] \in Version /\ got[s] # n
      BY <1>2 DEF Exists
    <2>3. CASE s = r
      BY <1>1, <1>3, <1>9, <2>3 DEF RequestsOK
    <2>4. CASE s # r
      BY <1>1, <1>6, <1>9, <2>1, <2>2, <2>4 DEF RequestsOK
    <2> QED
      BY <2>3, <2>4
  <1>11. LocksOK'
    BY <1>1, <1>3, <1>9 DEF LocksOK
  <1>12. VersionsOK'
    <2>1. owner' # Nobody /\ Exists(active)'
      BY <1>1, <1>3, <1>8, CatalogAssumption
    <2>2. n \in Nat /\ active \in Nat /\ n = active + 1
      BY <1>1, <1>3, CatalogAssumption DEF Version, TypeOK
    <2>3. \A k \in 1 .. n : k = n \/ Exists(k)
      <3>1. CASE owner = Nobody
        BY <2>2, <3>1 DEF VersionsOK
      <3>2. CASE owner # Nobody
        <4>1. Exists(active) /\ active \in Version
          BY <3>2 DEF VersionsOK, Exists
        <4> QED
          BY <2>2, <4>1 DEF VersionsOK
      <3> QED
        BY <3>1, <3>2
    <2>4. ASSUME NEW m \in Version, Exists(m)', NEW k \in 1 .. m
          PROVE  Exists(k)'
      <3>1. k \in Version /\ (m = n \/ Exists(m))
        BY <1>8, <2>4, CatalogAssumption DEF Version
      <3> QED
        BY <1>8, <2>3, <3>1 DEF VersionsOK
    <2> QED
      BY <2>1, <2>4 DEF VersionsOK
  <1>13. StoredOK'
    <2>1. ASSUME NEW k \in Version, Exists(k)'
          PROVE  Stored(k)' = Seed \/ Complete(Stored(k)')
      <3>1. CASE k = n
        <4>1. Stored(k)' = draft[r]
          BY <1>4, <1>7, <3>1 DEF Stored
        <4> QED
          BY <1>3, <4>1
      <3>2. CASE k # n
        <4>1. Stored(k)' = Stored(k) /\ Exists(k)
          BY <1>6, <1>8, <2>1, <3>2 DEF Stored
        <4> QED
          BY <4>1 DEF StoredOK
      <3> QED
        BY <3>1, <3>2
    <2> QED
      BY <2>1 DEF StoredOK, Complete
  <1> QED
    BY <1>5, <1>10, <1>11, <1>12, <1>13

\* Every step keeps the invariant.
LEMMA NextIInv == IInv /\ [Next]_vars => IInv'
  <1> SUFFICES ASSUME IInv, [Next]_vars PROVE IInv'
    OBVIOUS
  <1> USE DEF IInv
  <1>1. ASSUME NEW r \in Request, NEW o \in {"view", "edit"}, NEW c \in Company,
               NEW n \in 0 .. MaxVersion, ReadRow(r, o, c, n)
        PROVE  IInv'
    <2> DEFINE v == IF n = 0 THEN active ELSE n
    <2>1. /\ pc[r] = "new" /\ Exists(v)
          /\ op' = [op EXCEPT ![r] = o] /\ company' = [company EXCEPT ![r] = c]
          /\ number' = [number EXCEPT ![r] = n]
          /\ got' = [got EXCEPT ![r] = v] /\ draft' = [draft EXCEPT ![r] = versions[v]]
          /\ pc' = [pc EXCEPT ![r] = "row"]
          /\ UNCHANGED <<owner, active, versions, blocks, locked, refused, faults>>
      BY <1>1 DEF ReadRow, Arrives, Goto, stored
    <2>2. v \in Version /\ versions[v] \in Template
      BY <2>1, StoredType
    <2> HIDE DEF v
    <2>3. v \in 0 .. MaxVersion
      BY <2>2 DEF Version
    <2>4. TypeOK'
      BY <2>1, <2>2, <2>3 DEF TypeOK, Operation
    <2>5. \A s \in Request :
             /\ pc'[s] = IF s = r THEN "row" ELSE pc[s]
             /\ op'[s] = IF s = r THEN o ELSE op[s]
             /\ company'[s] = IF s = r THEN c ELSE company[s]
             /\ got'[s] = IF s = r THEN v ELSE got[s]
             /\ draft'[s] = IF s = r THEN versions[v] ELSE draft[s]
      BY <2>1 DEF TypeOK
    <2>6. \A k : Exists(k)' <=> Exists(k)
      BY <2>1 DEF Exists
    <2>7. RequestsOK'
      BY <2>1, <2>2, <2>5, <2>6 DEF RequestsOK, Operation
    <2>8. r \notin locked /\ locked \subseteq Request
      BY <2>1 DEF LocksOK, TypeOK
    <2>9. LocksOK'
      BY <2>1, <2>5, <2>8 DEF LocksOK
    <2> QED
      BY <2>1, <2>4, <2>7, <2>9, NothingStored DEF stored
  <1>2. ASSUME NEW r \in Request, NEW c \in Company, NEW t \in Draft,
               Upsert(r, c, t) \/ UpsertNeighbour(r, c, t)
        PROVE  IInv'
    <2>1. PICK o \in {"put", "neighbour"} :
             /\ pc[r] = "new" /\ op' = [op EXCEPT ![r] = o]
             /\ company' = [company EXCEPT ![r] = c] /\ number' = [number EXCEPT ![r] = 0]
             /\ LockForUpsert(r, t)
      BY <1>2 DEF Upsert, UpsertNeighbour, Arrives
    <2>2. t \in Template /\ 0 \in 0 .. MaxVersion
      BY CatalogAssumption
    <2>3. /\ op' \in [Request -> Operation \union {"none"}]
          /\ company' \in [Request -> Company \union {Nobody}]
          /\ number' \in [Request -> 0 .. MaxVersion]
          /\ op'[r] = o /\ company'[r] = c
          /\ \A s \in Request \ {r} : op'[s] = op[s] /\ company'[s] = company[s]
      BY <2>1, <2>2 DEF TypeOK, Operation
    <2> QED
      BY <2>1, <2>2, <2>3, LocksTemplate
  <1>3. ASSUME NEW r \in Request, UpsertEdited(r)
        PROVE  IInv'
    <2>1. pc[r] = "ready" /\ op[r] = "edit" /\ LockForUpsert(r, draft[r])
          /\ UNCHANGED <<op, company, number>>
      BY <1>3 DEF UpsertEdited, request
    <2>2. draft[r] \in Template /\ company[r] \in Company
      BY <2>1 DEF RequestsOK
    <2> QED
      BY <2>1, <2>2, LocksTemplate DEF TypeOK
  <1>4. ASSUME NEW r \in Request, NEW c \in Company, NEW n \in Version,
               LockForActivate(r, c, n)
        PROVE  IInv'
    <2>1. /\ pc[r] = "new" /\ owner # Nobody /\ locked = {}
          /\ op' = [op EXCEPT ![r] = "activate"] /\ company' = [company EXCEPT ![r] = c]
          /\ number' = [number EXCEPT ![r] = n]
          /\ pc' = [pc EXCEPT ![r] = "locked"] /\ locked' = {r}
          /\ UNCHANGED <<owner, active, versions, blocks, draft, got, refused, faults>>
      BY <1>4 DEF LockForActivate, Lockable, Arrives, Goto, stored
    <2>2. n \in 0 .. MaxVersion
      BY DEF Version
    <2>3. TypeOK'
      BY <2>1, <2>2 DEF TypeOK, Operation
    <2>4. \A s \in Request :
             /\ pc'[s] = IF s = r THEN "locked" ELSE pc[s]
             /\ op'[s] = IF s = r THEN "activate" ELSE op[s]
             /\ company'[s] = IF s = r THEN c ELSE company[s]
      BY <2>1 DEF TypeOK
    <2>5. \A k : Exists(k)' <=> Exists(k)
      BY <2>1 DEF Exists
    <2>6. RequestsOK'
      BY <2>1, <2>4, <2>5 DEF RequestsOK, Operation
    <2>7. LocksOK'
      BY <2>1, <2>4 DEF LocksOK
    <2> QED
      BY <2>1, <2>3, <2>6, <2>7, NothingStored DEF stored
  <1>5. ASSUME NEW r \in Request, ReadBlocks(r)
        PROVE  IInv'
    <2> DEFINE next == IF op[r] = "edit" THEN "ready" ELSE "viewed"
               x == [draft[r] EXCEPT !.blocks = blocks[got[r]]]
    <2>1. /\ pc[r] = "row" /\ draft' = [draft EXCEPT ![r] = x]
          /\ pc' = [pc EXCEPT ![r] = next]
          /\ UNCHANGED <<owner, active, versions, blocks, locked, op, company, number,
                         got, refused, faults>>
      BY <1>5 DEF ReadBlocks, Goto, stored, request
    <2>2. draft[r] \in Template /\ blocks[got[r]] \in Seq(Block)
      BY <2>1 DEF RequestsOK, Exists, TypeOK
    <2>3. x \in Template
      BY <2>2, RowAndBlocks
    <2>4. next \in {"ready", "viewed"}
      OBVIOUS
    <2> HIDE DEF x, next
    <2>5. TypeOK'
      BY <2>1, <2>3, <2>4 DEF TypeOK
    <2>6. \A s \in Request :
             /\ pc'[s] = IF s = r THEN next ELSE pc[s]
             /\ draft'[s] = IF s = r THEN x ELSE draft[s]
      BY <2>1 DEF TypeOK
    <2>7. \A k : Exists(k)' <=> Exists(k)
      BY <2>1 DEF Exists
    <2>8. RequestsOK'
      BY <2>1, <2>3, <2>4, <2>6, <2>7 DEF RequestsOK
    <2>9. r \notin locked /\ locked \subseteq Request
      BY <2>1 DEF LocksOK, TypeOK
    <2>10. LocksOK'
      BY <2>1, <2>4, <2>6, <2>9 DEF LocksOK
    <2> QED
      BY <2>1, <2>5, <2>8, <2>10, NothingStored DEF stored
  <1>6. ASSUME NEW r \in Request, Annotate(r)
        PROVE  IInv'
    <2> DEFINE x == Annotated(draft[r])
    <2>1. /\ pc[r] = "ready" /\ draft' = [draft EXCEPT ![r] = x]
          /\ UNCHANGED <<owner, active, versions, blocks, locked, pc, op, company, number,
                         got, refused, faults>>
      BY <1>6 DEF Annotate, stored, request
    <2>2. x \in Template
      BY <2>1, RowAndBlocks DEF RequestsOK
    <2> HIDE DEF x
    <2>3. TypeOK'
      BY <2>1, <2>2 DEF TypeOK
    <2>4. \A s \in Request : draft'[s] = IF s = r THEN x ELSE draft[s]
      BY <2>1 DEF TypeOK
    <2>5. \A k : Exists(k)' <=> Exists(k)
      BY <2>1 DEF Exists
    <2>6. RequestsOK'
      BY <2>1, <2>2, <2>4, <2>5 DEF RequestsOK
    <2>7. r \notin locked /\ locked \subseteq Request
      BY <2>1 DEF LocksOK, TypeOK
    <2>8. LocksOK'
      BY <2>1, <2>4, <2>7 DEF LocksOK
    <2> QED
      BY <2>1, <2>3, <2>6, <2>8, NothingStored DEF stored
  <1>7. ASSUME NEW r \in Request,
               \/ Forbidden(r) \/ CommitNeighbour(r) \/ UpsertFails(r) \/ VersionUnknown(r)
        PROVE  IInv'
    <2>1. /\ pc[r] = "locked" /\ locked' = locked \ {r} /\ Goto(r, "over")
          /\ UNCHANGED <<stored, request, draft, got, faults>>
          /\ refused' = refused \/ refused' = refused \union {r}
      BY <1>7 DEF Forbidden, CommitNeighbour, UpsertFails, VersionUnknown, Rollback
    <2> QED
      BY <2>1, GivesUp DEF TypeOK
  <1>8. ASSUME NEW r \in Request, Fail(r)
        PROVE  IInv'
    <2>1. /\ pc[r] \in {"row", "locked"} /\ locked' = locked \ {r} /\ Goto(r, "over")
          /\ UNCHANGED <<stored, request, draft, got, refused>>
          /\ faults < MaxFaults /\ faults' = faults + 1
      BY <1>8 DEF Fail
    <2>2. faults' \in 0 .. MaxFaults
      BY <2>1, CatalogAssumption DEF TypeOK
    <2> QED
      BY <2>1, <2>2, GivesUp DEF TypeOK
  <1>9. ASSUME NEW r \in Request, CommitUpsert(r)
        PROVE  IInv'
    BY <1>9, Commits
  <1>10. ASSUME NEW r \in Request, CommitActivate(r)
         PROVE  IInv'
    <2>1. /\ pc[r] = "locked" /\ op[r] = "activate" /\ Exists(number[r])
          /\ active' = number[r] /\ locked' = locked \ {r}
          /\ pc' = [pc EXCEPT ![r] = "over"]
          /\ UNCHANGED <<owner, versions, blocks, op, company, number, draft, got,
                         refused, faults>>
      BY <1>10 DEF CommitActivate, Goto, request
    <2>2. r \in locked /\ owner # Nobody
      BY <2>1 DEF LocksOK
    <2>3. locked' = {}
      BY <2>1, <2>2 DEF LocksOK
    <2>4. TypeOK'
      BY <2>1 DEF TypeOK
    <2>5. \A s \in Request : pc'[s] = IF s = r THEN "over" ELSE pc[s]
      BY <2>1 DEF TypeOK
    <2>6. \A k : (Exists(k)' <=> Exists(k)) /\ Stored(k)' = Stored(k)
      BY <2>1 DEF Exists, Stored
    <2>7. RequestsOK'
      BY <2>1, <2>5, <2>6 DEF RequestsOK
    <2>8. LocksOK'
      BY <2>1, <2>2, <2>3, <2>5 DEF LocksOK
    <2>9. VersionsOK'
      <3>1. Exists(active)'
        BY <2>1 DEF Exists
      <3> QED
        BY <2>1, <2>2, <2>6, <3>1 DEF VersionsOK
    <2>10. StoredOK'
      BY <2>6 DEF StoredOK
    <2> QED
      BY <2>4, <2>7, <2>8, <2>9, <2>10
  <1>11. CASE UNCHANGED vars
    <2>1. UNCHANGED <<owner, active, versions, blocks, locked, pc, op, company, number,
                      draft, got, refused, faults>>
      BY <1>11 DEF vars, stored, request
    <2>2. \A k : Exists(k)' <=> Exists(k)
      BY <2>1 DEF Exists
    <2>3. TypeOK'
      BY <2>1 DEF TypeOK
    <2>4. RequestsOK'
      BY <2>1, <2>2 DEF RequestsOK
    <2>5. LocksOK'
      BY <2>1 DEF LocksOK
    <2> QED
      BY <2>1, <2>3, <2>4, <2>5, NothingStored DEF stored
  <1> QED
    BY <1>1, <1>2, <1>3, <1>4, <1>5, <1>6, <1>7, <1>8, <1>9, <1>10, <1>11 DEF Next

-----------------------------------------------------------------------------
\* The invariant.
THEOREM Inductive == Spec => []IInv
  BY InitIInv, NextIInv, PTL DEF Spec

\* Type correctness: what is stored and what requests hold is templates and blocks, of
\* the columns that the tables have.
THEOREM Typing == Spec => []TypeOK
  BY Inductive, PTL DEF IInv

\* What an upsert has stored is complete: the mandatory blocks come first and in order,
\* the orders are 1, 2, ..., no key comes twice and the flat columns say what the
\* blocks say, whatever templates are sent.
THEOREM CompleteVersions == Spec => []StoredIsComplete
  <1>1. IInv => StoredIsComplete
    <2> SUFFICES ASSUME IInv, NEW n \in Version, Exists(n), Stored(n) # Seed
                 PROVE  /\ \A i \in DOMAIN MandatoryTemplateBlockKeys :
                              /\ blocks[n][i].key = MandatoryTemplateBlockKeys[i]
                              /\ blocks[n][i].text = versions[n].flat[MandatoryTemplateBlockKeys[i]]
                        /\ \A i, j \in DOMAIN blocks[n] :
                              /\ blocks[n][i].order = i
                              /\ i # j => blocks[n][i].key # blocks[n][j].key
      BY DEF StoredIsComplete
    <2>1. Complete(Stored(n))
      BY DEF IInv, StoredOK
    <2>2. Stored(n).blocks = blocks[n] /\ Stored(n).flat = versions[n].flat
      BY StoredType DEF Stored, IInv, Template
    <2> QED
      BY <2>1, <2>2 DEF Complete, Keys
  <1> QED
    BY <1>1, Inductive, PTL

\* No step changes a version that is stored.
LEMMA KeptVersions ==
    ASSUME IInv, [Next]_vars, NEW n \in Version, Exists(n)
    PROVE  versions'[n] = versions[n] /\ blocks'[n] = blocks[n] /\ Exists(n)' /\ Stored(n)' = Stored(n)
  <1>1. versions'[n] = versions[n] /\ blocks'[n] = blocks[n]
    <2>1. CASE \E r \in Request : CommitUpsert(r)
      <3>1. PICK r \in Request : CommitUpsert(r)
        BY <2>1
      <3>2. NextVersion(r) # n
        BY <3>1 DEF CommitUpsert, Duplicate
      <3> QED
        BY <3>1, <3>2 DEF CommitUpsert, IInv, TypeOK
    <2>2. CASE ~ \E r \in Request : CommitUpsert(r)
      <3>1. UNCHANGED <<versions, blocks>>
        BY <2>2 DEF Next, vars, stored, ReadRow, Upsert, UpsertNeighbour, CommitNeighbour, LockForUpsert, LockForActivate, ReadBlocks,
                    Annotate, UpsertEdited, Forbidden, UpsertFails, CommitActivate,
                    VersionUnknown, Fail, Rollback
      <3> QED
        BY <3>1
    <2> QED
      BY <2>1, <2>2
  <1> QED
    BY <1>1 DEF Exists, Stored

\* A version stays as it was stored, through every later upsert and activation.
THEOREM ImmutableVersions == Spec => VersionsAreForever
  <1>1. IInv /\ [Next]_vars => [\A n \in Version : Exists(n) => /\ versions'[n] = versions[n]
                                                              /\ blocks'[n] = blocks[n]]_vars
    BY KeptVersions
  <1> QED
    BY <1>1, Inductive, PTL DEF Spec, VersionsAreForever

\* A valid upsert of whose statements none fails from outside is refused only over a seeded
\* type, an active version that is not the latest, two blocks with one id, or a gap that
\* another creator of the type or of a neighbour has locked too.
THEOREM Refusals == Spec => RefusedForCause
  <1>1. IInv /\ [Next]_vars =>
            [\A r \in refused' \ refused :
                \/ owner = Everybody
                \/ Exists(active + 1)
                \/ SameIds(draft[r])
                \/ owner = Nobody /\ locked # {r}]_vars
    <2> SUFFICES ASSUME IInv, Next, NEW r \in refused' \ refused
                 PROVE  \/ owner = Everybody
                        \/ Exists(active + 1)
                        \/ SameIds(draft[r])
                        \/ owner = Nobody /\ locked # {r}
      OBVIOUS
    <2>1. PICK s \in Request : UpsertFails(s)
      BY DEF Next, ReadRow, Upsert, UpsertNeighbour, CommitNeighbour, LockForUpsert, LockForActivate, ReadBlocks,
             Annotate, UpsertEdited, Forbidden, CommitUpsert, CommitActivate,
             VersionUnknown, Fail, Rollback
    <2>2. r = s /\ pc[r] = "locked" /\ op[r] # "activate" /\ (Duplicate(r) \/ Deadlocked(r))
      BY <2>1 DEF UpsertFails
    <2>3. got[r] = active
      BY <2>1, <2>2 DEF IInv, LocksOK
    <2> QED
      BY <2>2, <2>3 DEF Duplicate, Deadlocked, NextVersion
  <1> QED
    BY <1>1, Inductive, PTL DEF Spec, RefusedForCause

-----------------------------------------------------------------------------
(* The catalog implements the one in memory.                               *)

\* Both modules mean the same by a valid template.
LEMMA SameValid == ASSUME NEW t PROVE Memory!Valid(t) <=> Valid(t)
  <1>1. Memory!Mandatory = Mandatory /\ Memory!NoKey = NoKey /\ Memory!Cycles = Cycles
        /\ Memory!Checked = Checked /\ Memory!Required = Required
    BY DEF Mandatory, MandatoryTemplateBlockKeys, NoKey, Cycles, Checked, Required,
           Memory!Mandatory, Memory!MandatoryTemplateBlockKeys, Memory!NoKey, Memory!Cycles,
           Memory!Checked, Memory!Required
  <1>2. \A k : Memory!Places(k, t) = Places(k, t)
    BY DEF Places, Memory!Places
  <1>3. \A b : Memory!WellFormed(b) <=> WellFormed(b)
    BY <1>1 DEF WellFormed, Memory!WellFormed
  <1>4. Memory!HasDuplicateKeys(t) <=> HasDuplicateKeys(t)
    BY <1>1 DEF HasDuplicateKeys, Memory!HasDuplicateKeys
  <1>5. Memory!ValidMatrix(t) <=> ValidMatrix(t)
    BY <1>1 DEF ValidMatrix, Memory!ValidMatrix
  <1>6. Memory!ValidBlocks(t) <=> ValidBlocks(t)
    BY <1>1, <1>2, <1>3, <1>4 DEF ValidBlocks, Memory!ValidBlocks
  <1> QED
    BY <1>5, <1>6 DEF Valid, Memory!Valid

\* The initial states are initial states of the catalog in memory.
LEMMA MemoryInit == ASSUME Init PROVE Memory!Init
  <1> USE CatalogAssumption
  <1>1. IInv
    BY InitIInv
  <1>2. \A r \in Request : Answer(r) = NoTemplate
    BY DEF Init, Answer
  <1>3. Answers = [r \in Request |-> NoTemplate]
    BY <1>2 DEF Answers
  <1>4. CASE owner = Nobody
    <2>1. active = 0 /\ Numbers = {} /\ ~ Exists(active)
      BY <1>1, <1>4 DEF IInv, VersionsOK, Numbers, Exists, Version
    <2>2. ByVer = << >> /\ Listed = << >>
      BY <2>1 DEF ByVer, Listed
    <2>3. Current = [no |-> 0, template |-> NoTemplate]
      BY <2>1 DEF Current
    <2> QED
      BY <1>3, <1>4, <2>2, <2>3 DEF Memory!Init
  <1>5. CASE owner # Nobody
    <2>1. Seed \in Template /\ Row(Seed) \in Template /\ 1 \in Version
      BY RowAndBlocks DEF Version
    <2>2. /\ owner = Everybody /\ active = 1
          /\ versions = [n \in Version |-> IF n = 1 THEN Row(Seed) ELSE NoTemplate]
      BY <1>5 DEF Init
    <2>3. Numbers = {1} /\ Exists(active)
      BY <2>1, <2>2 DEF Numbers, Exists
    <2>4. Stored(1) = Seed
      <3>1. blocks[1] = Seed.blocks /\ versions[1] = Row(Seed)
        BY <2>1, <2>2 DEF Init
      <3> QED
        BY <2>1, <3>1, RowAndBlocks DEF Stored
    <2>5. Numbers = 1 .. 1
      BY <2>3
    <2>6. ByVer = <<Seed>>
      BY <2>4, <2>5 DEF ByVer
    <2>7. Listed = <<[no |-> 1, active |-> TRUE]>>
      <3>1. \A n \in 1 .. 1 : (n = active) = TRUE /\ n = 1
        BY <2>2
      <3>2. Listed = [n \in 1 .. 1 |-> [no |-> 1, active |-> TRUE]]
        BY <2>5, <3>1, Zenon DEF Listed
      <3>3. \A x : [n \in 1 .. 1 |-> x] = <<x>>
        OBVIOUS
      <3> QED
        BY <3>2, <3>3, Zenon
    <2>8. Current = [no |-> 1, template |-> Seed]
      BY <2>2, <2>3, <2>4 DEF Current
    <2> QED
      BY <1>3, <2>2, <2>6, <2>7, <2>8 DEF Memory!Init
  <1> QED
    BY <1>4, <1>5

\* An answer stays while its request does not move.
LEMMA SameAnswer ==
    ASSUME IInv, [Next]_vars, NEW r \in Request,
           pc'[r] = pc[r], op'[r] = op[r], got'[r] = got[r], draft'[r] = draft[r]
    PROVE  Answer(r)' = Answer(r)
  <1>1. CASE pc[r] = "row"
    <2>1. Exists(got[r]) /\ got[r] \in Version
      BY <1>1 DEF IInv, RequestsOK, Exists
    <2>2. Stored(got[r])' = Stored(got[r])
      <3>1. \A n \in Version : Exists(n) => versions'[n] = versions[n] /\ blocks'[n] = blocks[n]
        BY KeptVersions
      <3> QED
        BY <2>1, <3>1 DEF Stored
    <2> QED
      BY <1>1, <2>2 DEF Answer
  <1>2. CASE pc[r] # "row"
    BY <1>2 DEF Answer
  <1> QED
    BY <1>1, <1>2

\* Nothing is seen of a step that leaves the tables and the answers alone.
LEMMA Unseen ==
    ASSUME UNCHANGED stored, \A r \in Request : Answer(r)' = Answer(r)
    PROVE  UNCHANGED Memory!memoryVars
  <1>1. \A n : (Exists(n)' <=> Exists(n)) /\ Stored(n)' = Stored(n)
    BY DEF stored, Exists, Stored
  <1>2. owner' = owner /\ active' = active /\ Numbers' = Numbers
    BY <1>1 DEF stored, Numbers, Version
  <1>3. Current' = Current
    BY <1>1, <1>2 DEF Current, stored, Exists, Stored
  <1>4. ByVer' = ByVer /\ Listed' = Listed
    BY <1>1, <1>2 DEF ByVer, Listed
  <1>5. Answers' = Answers
    BY DEF Answers
  <1> QED
    BY <1>2, <1>3, <1>4, <1>5 DEF Memory!memoryVars

\* Without a version after the active one, the versions are 1 up to the active one.
LEMMA NumbersToActive ==
    ASSUME IInv, ~ Exists(active + 1)
    PROVE  active \in Nat /\ Numbers = 1 .. active
  <1>1. active \in Nat /\ MaxVersion \in Nat
    BY CatalogAssumption DEF IInv, TypeOK
  <1>2. ASSUME NEW k \in Version, Exists(k) PROVE k <= active
    <2>1. \A l \in 1 .. k : Exists(l)
      BY <1>2 DEF IInv, VersionsOK
    <2> QED
      BY <1>1, <2>1 DEF Version
  <1>3. \A k \in 1 .. active : Exists(k)
    <2>1. CASE owner = Nobody
      BY <2>1 DEF IInv, VersionsOK
    <2>2. CASE owner # Nobody
      <3>1. Exists(active) /\ active \in Version
        BY <2>2 DEF IInv, VersionsOK, Exists
      <3> QED
        BY <3>1 DEF IInv, VersionsOK
    <2> QED
      BY <2>1, <2>2
  <1>4. Numbers \subseteq 1 .. active
    BY <1>1, <1>2 DEF Numbers, Version
  <1>5. 1 .. active \subseteq Numbers
    BY <1>3 DEF Numbers, Exists
  <1> QED
    BY <1>1, <1>4, <1>5

\* A committed upsert is an upsert in memory.
LEMMA MemoryUpsert ==
    ASSUME IInv, IInv', [Next]_vars, NEW r \in Request, CommitUpsert(r)
    PROVE  Memory!UpsertTypeVersion(company[r])
  <1> USE DEF IInv
  <1> SUFFICES ASSUME NEW n, n = active + 1, NEW t, t = draft[r]
               PROVE  Memory!UpsertTypeVersion(company[r])
    OBVIOUS
  <1>1. /\ pc[r] = "locked" /\ op[r] # "activate" /\ r \in locked /\ got[r] = active
        /\ t \in Template /\ Valid(t) /\ NextVersion(r) = n
    <2>1. pc[r] = "locked" /\ op[r] # "activate" /\ r \in locked
      BY DEF CommitUpsert, LocksOK
    <2> QED
      BY <2>1 DEF LocksOK, NextVersion
  <1>2. /\ ~ Exists(n) /\ n \in Version /\ owner' = company[r] /\ active' = n
        /\ versions' = [versions EXCEPT ![n] = Row(t)]
        /\ blocks' = [blocks EXCEPT ![n] = t.blocks]
        /\ pc' = [pc EXCEPT ![r] = "over"]
        /\ UNCHANGED <<op, company, number, draft, got>>
    BY <1>1 DEF CommitUpsert, Duplicate, Goto, request
  <1>3. active \in Nat /\ n \in Nat /\ Numbers = 1 .. active
    BY <1>2, NumbersToActive
  <1>4. /\ versions'[n] = Row(t) /\ blocks'[n] = t.blocks
        /\ \A k \in Version : k # n => versions'[k] = versions[k] /\ blocks'[k] = blocks[k]
    BY <1>2 DEF TypeOK
  <1>5. Row(t) \in Template /\ [Row(t) EXCEPT !.blocks = t.blocks] = t
    BY <1>1, RowAndBlocks
  <1>6. \A k \in Version : Exists(k)' <=> k = n \/ Exists(k)
    BY <1>4, <1>5, CatalogAssumption DEF Exists
  <1>7. Stored(n)' = t /\ \A k \in Numbers : k # n /\ Stored(k)' = Stored(k)
    BY <1>2, <1>4, <1>5 DEF Stored, Numbers
  <1>8. Numbers' = Numbers \union {n} /\ n \notin Numbers /\ Numbers' = 1 .. n
    <2>1. Numbers' = Numbers \union {n} /\ n \notin Numbers
      BY <1>2, <1>6 DEF Numbers, Version
    <2> QED
      BY <1>3, <2>1
  <1>9. Current' = [no |-> n, template |-> t]
    BY <1>2, <1>6, <1>7 DEF Current
  <1>10. ByVer' = [k \in DOMAIN ByVer \union {n} |-> IF k = n THEN t ELSE ByVer[k]]
    <2>1. DOMAIN ByVer = Numbers /\ \A k \in Numbers : ByVer[k] = Stored(k)
      BY DEF ByVer
    <2>2. \A k \in Numbers' : Stored(k)' = IF k = n THEN t ELSE ByVer[k]
      BY <1>7, <1>8, <2>1
    <2>3. ByVer' = [k \in Numbers' |-> Stored(k)']
      BY DEF ByVer
    <2> QED
      BY <1>8, <2>1, <2>2, <2>3
  <1>11. Listed' = Append([i \in DOMAIN Listed |-> [Listed[i] EXCEPT !.active = FALSE]],
                          [no |-> n, active |-> TRUE])
    <2> DEFINE old == [i \in 1 .. active |-> [no |-> i, active |-> FALSE]]
               new == [no |-> n, active |-> TRUE]
               S == [no : Nat, active : BOOLEAN]
    <2>0. /\ DOMAIN Listed = 1 .. active
          /\ \A i \in 1 .. active : Listed[i] = [no |-> i, active |-> i = active]
      BY <1>3 DEF Listed
    <2>1. [i \in DOMAIN Listed |-> [Listed[i] EXCEPT !.active = FALSE]] = old
      <3>1. \A i, x, y : [[no |-> i, active |-> x] EXCEPT !.active = y] = [no |-> i, active |-> y]
        OBVIOUS
      <3>2. ASSUME NEW i \in 1 .. active
            PROVE  [Listed[i] EXCEPT !.active = FALSE] = [no |-> i, active |-> FALSE]
        <4>1. \E x : Listed[i] = [no |-> i, active |-> x]
          BY <2>0, Zenon
        <4>2. \A x : [[no |-> i, active |-> x] EXCEPT !.active = FALSE] =
                        [no |-> i, active |-> FALSE]
          BY <3>1, Zenon
        <4> QED
          BY <4>1, <4>2, Zenon
      <3> QED
        BY <2>0, <3>2
    <2>2. \A i \in 1 .. active : [no |-> i, active |-> FALSE] \in S
      BY <1>3
    <2>3. old \in Seq(S) /\ Len(old) = active
      <3> HIDE DEF S
      <3> QED
        BY <1>3, <2>2, SequenceOf
    <2>4. new \in S
      BY <1>3
    <2>5. /\ Append(old, new) \in Seq(S) /\ Len(Append(old, new)) = n
          /\ \A i \in 1 .. active : Append(old, new)[i] = old[i]
          /\ Append(old, new)[n] = new
      <3> HIDE DEF old, new, S
      <3> QED
        BY <2>3, <2>4, AppendProperties
    <2>6. \A i \in 1 .. active : old[i] = [no |-> i, active |-> FALSE]
      OBVIOUS
    <2>7. \A i \in 1 .. n : (i = n) \in BOOLEAN /\ (i # n => (i = n) = FALSE /\ i \in 1 .. active)
      BY <1>3
    <2>8. Listed' = [i \in 1 .. n |-> [no |-> i, active |-> i = n]]
      BY <1>2, <1>8 DEF Listed
    <2>9. ASSUME NEW i \in 1 .. n
          PROVE  Listed'[i] = Append(old, new)[i]
      <3>1. CASE i = n
        <4>1. Listed'[i] = [no |-> n, active |-> TRUE]
          BY <2>8, <3>1
        <4> QED
          BY <2>5, <3>1, <4>1
      <3>2. CASE i # n
        <4>1. Listed'[i] = [no |-> i, active |-> FALSE]
          BY <2>7, <2>8, <3>2
        <4> QED
          BY <2>5, <2>6, <2>7, <3>2, <4>1
      <3> QED
        BY <3>1, <3>2
    <2>10. Append(old, new) = [i \in 1 .. n |-> Append(old, new)[i]]
      <3> HIDE DEF old, new, S
      <3>1. \A q \in Seq(S) : q = [i \in 1 .. Len(q) |-> q[i]]
        OBVIOUS
      <3> QED
        BY <2>5, <3>1
    <2>11. Listed' = [i \in 1 .. n |-> Listed'[i]]
      BY <2>8
    <2>12. Listed' = Append(old, new)
      <3> HIDE DEF old, new
      <3> QED
        BY <2>9, <2>10, <2>11
    <2> QED
      BY <2>1, <2>12
  <1>12. Answers' = Answers
    <2>1. ASSUME NEW s \in Request PROVE Answer(s)' = Answer(s)
      <3>1. CASE s = r
        BY <1>1, <1>2, <3>1 DEF Answer, TypeOK
      <3>2. CASE s # r
        <4>1. pc'[s] = pc[s]
          BY <1>2, <3>2 DEF TypeOK
        <4> QED
          BY <1>2, <4>1, SameAnswer
      <3> QED
        BY <3>1, <3>2
    <2> QED
      BY <2>1 DEF Answers
  <1>13. Memory!Valid(t)
    BY <1>1, SameValid
  <1>14. Current.no = active /\ Current'.no = n /\ Current'.template = t
    BY <1>9 DEF Current
  <1> QED
    BY <1>2, <1>9, <1>10, <1>11, <1>12, <1>13, <1>14
       DEF Memory!UpsertTypeVersion, Memory!NoneActive

\* A committed activation is an activation in memory.
LEMMA MemoryActivate ==
    ASSUME IInv, [Next]_vars, NEW r \in Request, CommitActivate(r)
    PROVE  number[r] \in Numbers /\ Memory!ActivateTypeVersion(company[r], number[r])
  <1> USE DEF IInv
  <1> SUFFICES ASSUME NEW n, n = number[r]
               PROVE  n \in Numbers /\ Memory!ActivateTypeVersion(company[r], n)
    OBVIOUS
  <1> DEFINE Found == {i \in DOMAIN Listed : Listed[i].no = n}
  <1>1. /\ pc[r] = "locked" /\ op[r] = "activate" /\ owner \in {company[r], Nobody, Everybody}
        /\ Exists(n) /\ active' = n /\ pc' = [pc EXCEPT ![r] = "over"]
        /\ UNCHANGED <<owner, versions, blocks, op, company, number, draft, got>>
    BY DEF CommitActivate, MayWrite, Goto, request
  <1>2. n \in Numbers /\ owner # Nobody
    BY <1>1 DEF Numbers, Exists, LocksOK
  <1>3. (\A k : (Exists(k)' <=> Exists(k)) /\ Stored(k)' = Stored(k)) /\ Numbers' = Numbers
    BY <1>1 DEF Exists, Stored, Numbers, Version
  <1>4. Memory!Visible(company[r])
    BY <1>1, <1>2 DEF Memory!Visible
  <1>5. ByVer' = ByVer /\ owner' = owner
    BY <1>1, <1>3 DEF ByVer
  <1>6. Current' = [no |-> n, template |-> ByVer[n]] /\ n \in DOMAIN ByVer
    BY <1>1, <1>2, <1>3 DEF Current, ByVer, Exists
  <1>7. DOMAIN Listed = Numbers /\ \A i \in Numbers : Listed[i] = [no |-> i, active |-> i = active]
    BY DEF Listed
  <1>8. Found = {n}
    BY <1>2, <1>7
  <1>9. n \in Nat
    BY <1>2, CatalogAssumption DEF Numbers, Version
  <1>10. ASSUME NEW i \in Numbers
         PROVE  [no |-> i, active |-> i = n] =
                   [Listed[i] EXCEPT !.active = i \in {n} /\ \A j \in {n} : j <= i]
    <2>1. (i = n) = (i \in {n} /\ \A j \in {n} : j <= i)
      BY <1>9
    <2>2. [Listed[i] EXCEPT !.active = i \in {n} /\ \A j \in {n} : j <= i] =
             [Listed[i] EXCEPT !.active = i = n]
      BY <2>1, Zenon
    <2>3. [[no |-> i, active |-> i = active] EXCEPT !.active = i = n] = [no |-> i, active |-> i = n]
      OBVIOUS
    <2> QED
      BY <1>7, <2>2, <2>3
  <1>11. Listed' = [i \in DOMAIN Listed |->
                      [Listed[i] EXCEPT !.active = i \in {n} /\ \A j \in {n} : j <= i]]
    <2>1. Listed' = [i \in Numbers |-> [no |-> i, active |-> i = n]]
      BY <1>1, <1>3 DEF Listed
    <2> QED
      BY <1>7, <1>10, <2>1
  <1>12. Answers' = Answers
    <2>1. ASSUME NEW s \in Request PROVE Answer(s)' = Answer(s)
      <3>1. CASE s = r
        BY <1>1, <3>1 DEF Answer, TypeOK
      <3>2. CASE s # r
        <4>1. pc'[s] = pc[s]
          BY <1>1, <3>2 DEF TypeOK
        <4> QED
          BY <1>1, <4>1, SameAnswer
      <3> QED
        BY <3>1, <3>2
    <2> QED
      BY <2>1 DEF Answers
  <1>13. Found # {} /\
         Listed' = [i \in DOMAIN Listed |->
                      [Listed[i] EXCEPT !.active = i \in Found /\ \A j \in Found : j <= i]]
    <2> HIDE DEF Found
    <2> QED
      BY <1>8, <1>11
  <1> QED
    BY <1>2, <1>4, <1>5, <1>6, <1>12, <1>13 DEF Memory!ActivateTypeVersion

\* A request that sees a row is answered, at once, what both statements will say.
LEMMA MemoryReply ==
    ASSUME IInv, [Next]_vars, NEW r \in Request, NEW c \in Company,
           NEW n \in 0 .. MaxVersion, ReadRow(r, "view", c, n)
    PROVE  \/ Memory!GetTypeDetail(r, c)
           \/ n \in DOMAIN ByVer /\ Memory!GetTypeVersionDetail(r, c, n)
  <1> USE DEF IInv
  <1> SUFFICES ASSUME NEW v, v = IF n = 0 THEN active ELSE n
               PROVE  \/ Memory!GetTypeDetail(r, c)
                      \/ n \in DOMAIN ByVer /\ Memory!GetTypeVersionDetail(r, c, n)
    OBVIOUS
  <1>1. /\ pc[r] = "new" /\ Visible(c) /\ Exists(v)
        /\ op' = [op EXCEPT ![r] = "view"] /\ got' = [got EXCEPT ![r] = v]
        /\ draft' = [draft EXCEPT ![r] = versions[v]] /\ pc' = [pc EXCEPT ![r] = "row"]
        /\ UNCHANGED <<owner, active, versions, blocks>>
    BY DEF ReadRow, Arrives, Goto, stored
  <1>2. Answer(r) = NoTemplate
    BY <1>1 DEF Answer
  <1>3. Answer(r)' = Stored(v)
    <2>1. pc'[r] = "row" /\ op'[r] = "view" /\ got'[r] = v
      BY <1>1 DEF TypeOK
    <2> QED
      BY <1>1, <2>1 DEF Answer, Stored
  <1>4. ASSUME NEW s \in Request, s # r PROVE Answer(s)' = Answer(s)
    <2>1. pc'[s] = pc[s] /\ op'[s] = op[s] /\ got'[s] = got[s] /\ draft'[s] = draft[s]
      BY <1>1, <1>4 DEF TypeOK
    <2> QED
      BY <2>1, SameAnswer
  <1>5. Answers[r] = NoTemplate /\ Answers' = [Answers EXCEPT ![r] = Stored(v)]
    BY <1>2, <1>3, <1>4 DEF Answers
  <1>6. (\A k : (Exists(k)' <=> Exists(k)) /\ Stored(k)' = Stored(k)) /\ Numbers' = Numbers
    BY <1>1 DEF Exists, Stored, Numbers, Version
  <1>7. UNCHANGED <<owner, Current, ByVer, Listed>>
    <2>1. Current' = Current
      BY <1>1, <1>6 DEF Current, Exists, Stored
    <2> QED
      BY <1>1, <1>6, <2>1 DEF ByVer, Listed
  <1>8. Memory!Visible(c)
    BY <1>1 DEF Visible, Memory!Visible
  <1>9. CASE n = 0
    <2>1. Current.template = Stored(v)
      BY <1>1, <1>9 DEF Current
    <2> QED
      BY <1>5, <1>7, <1>8, <2>1 DEF Memory!GetTypeDetail, Memory!Reply
  <1>10. CASE n # 0
    <2>1. n \in DOMAIN ByVer /\ ByVer[n] = Stored(v)
      BY <1>1, <1>10 DEF ByVer, Numbers, Exists
    <2> QED
      BY <1>5, <1>7, <1>8, <2>1 DEF Memory!GetTypeVersionDetail, Memory!Reply
  <1> QED
    BY <1>9, <1>10

\* A reader that fails loses its answer.
LEMMA MemoryLoses ==
    ASSUME IInv, [Next]_vars, NEW r \in Request, Fail(r)
    PROVE  Memory!ReplyLost(r)
  <1> USE DEF IInv
  <1>1. /\ pc' = [pc EXCEPT ![r] = "over"]
        /\ UNCHANGED <<owner, active, versions, blocks, op, draft, got>>
    BY DEF Fail, Goto, stored, request
  <1>2. Answer(r)' = NoTemplate
    BY <1>1 DEF Answer, TypeOK
  <1>3. ASSUME NEW s \in Request, s # r PROVE Answer(s)' = Answer(s)
    <2>1. pc'[s] = pc[s]
      BY <1>1, <1>3 DEF TypeOK
    <2> QED
      BY <1>1, <2>1, SameAnswer
  <1>4. Answers' = [Answers EXCEPT ![r] = NoTemplate]
    BY <1>2, <1>3 DEF Answers
  <1>5. (\A k : (Exists(k)' <=> Exists(k)) /\ Stored(k)' = Stored(k)) /\ Numbers' = Numbers
    BY <1>1 DEF Exists, Stored, Numbers, Version
  <1>6. Current' = Current
    BY <1>1, <1>5 DEF Current, Exists, Stored
  <1>7. UNCHANGED <<owner, Current, ByVer, Listed>>
    BY <1>1, <1>5, <1>6 DEF ByVer, Listed
  <1> QED
    BY <1>4, <1>7 DEF Memory!ReplyLost

\* The other steps are not seen.
LEMMA UnseenSteps ==
    ASSUME IInv, Next, NEW r \in Request,
           \/ \E c \in Company, n \in 0 .. MaxVersion : ReadRow(r, "edit", c, n)
           \/ \E c \in Company, t \in Draft : Upsert(r, c, t) \/ UpsertNeighbour(r, c, t)
           \/ \E c \in Company, n \in Version : LockForActivate(r, c, n)
           \/ ReadBlocks(r) \/ Annotate(r) \/ UpsertEdited(r) \/ Forbidden(r)
           \/ CommitNeighbour(r) \/ UpsertFails(r) \/ VersionUnknown(r)
    PROVE  UNCHANGED Memory!memoryVars
  <1> USE DEF IInv
  <1>1. UNCHANGED stored
    BY DEF ReadRow, Upsert, UpsertNeighbour, LockForUpsert, LockForActivate, ReadBlocks, Annotate,
           UpsertEdited, Forbidden, CommitNeighbour, UpsertFails, VersionUnknown, Rollback
  <1>2. ASSUME NEW s \in Request, s # r PROVE Answer(s)' = Answer(s)
    <2>1. /\ pc' = pc \/ \E x : pc' = [pc EXCEPT ![r] = x]
          /\ op' = op \/ \E x : op' = [op EXCEPT ![r] = x]
          /\ got' = got \/ \E x : got' = [got EXCEPT ![r] = x]
          /\ draft' = draft \/ \E x : draft' = [draft EXCEPT ![r] = x]
      BY DEF ReadRow, Upsert, UpsertNeighbour, LockForUpsert, LockForActivate, ReadBlocks, Annotate,
             UpsertEdited, Forbidden, CommitNeighbour, UpsertFails, VersionUnknown, Rollback,
             Arrives, Goto, request
    <2>2. pc'[s] = pc[s] /\ op'[s] = op[s] /\ got'[s] = got[s] /\ draft'[s] = draft[s]
      BY <1>2, <2>1 DEF TypeOK
    <2> QED
      BY <2>2, SameAnswer
  <1>3. Answer(r)' = Answer(r)
    <2>1. CASE \E c \in Company, n \in 0 .. MaxVersion : ReadRow(r, "edit", c, n)
      <3>1. pc[r] = "new" /\ op' = [op EXCEPT ![r] = "edit"]
        BY <2>1 DEF ReadRow, Arrives
      <3> QED
        BY <3>1 DEF Answer, TypeOK
    <2>2. CASE \/ \E c \in Company, t \in Draft : Upsert(r, c, t) \/ UpsertNeighbour(r, c, t)
               \/ \E c \in Company, n \in Version : LockForActivate(r, c, n)
      <3>1. pc[r] = "new" /\ pc' = [pc EXCEPT ![r] = "locked"]
        BY <2>2 DEF Upsert, UpsertNeighbour, LockForUpsert, LockForActivate, Arrives, Goto
      <3> QED
        BY <3>1 DEF Answer, TypeOK
    <2>3. CASE ReadBlocks(r)
      <3>1. /\ pc[r] = "row" /\ op' = op
            /\ draft' = [draft EXCEPT ![r].blocks = blocks[got[r]]]
            /\ pc' = [pc EXCEPT ![r] = IF op[r] = "edit" THEN "ready" ELSE "viewed"]
        BY <2>3 DEF ReadBlocks, Goto, request
      <3>2. draft[r] = versions[got[r]] /\ op[r] \in {"view", "edit"}
        BY <3>1 DEF RequestsOK
      <3>3. CASE op[r] = "edit"
        BY <3>1, <3>3 DEF Answer
      <3>4. CASE op[r] = "view"
        <4>1. pc'[r] = "viewed" /\ draft'[r] = [draft[r] EXCEPT !.blocks = blocks[got[r]]]
          BY <3>1, <3>4 DEF TypeOK
        <4>2. Answer(r)' = draft'[r] /\ Answer(r) = Stored(got[r])
          BY <3>1, <3>4, <4>1 DEF Answer
        <4> QED
          BY <3>2, <4>1, <4>2 DEF Stored
      <3> QED
        BY <3>2, <3>3, <3>4
    <2>4. CASE Annotate(r) \/ UpsertEdited(r)
      <3>1. op[r] = "edit" /\ op' = op
        BY <2>4 DEF Annotate, UpsertEdited, request
      <3> QED
        BY <3>1 DEF Answer
    <2>5. CASE Forbidden(r) \/ CommitNeighbour(r) \/ UpsertFails(r) \/ VersionUnknown(r)
      <3>1. pc[r] = "locked" /\ pc' = [pc EXCEPT ![r] = "over"]
        BY <2>5 DEF Forbidden, CommitNeighbour, UpsertFails, VersionUnknown, Rollback, Goto
      <3> QED
        BY <3>1 DEF Answer, TypeOK
    <2> QED
      BY <2>1, <2>2, <2>3, <2>4, <2>5
  <1>4. \A s \in Request : Answer(s)' = Answer(s)
    BY <1>2, <1>3
  <1> QED
    BY <1>1, <1>4, Unseen

\* The catalog over the database implements the one in memory: writers take effect one
\* after the other, and a detail put together from two statements is one that a single
\* look would have given, for all companies, requests, templates and version numbers.
THEOREM Refinement == Spec => ImplementsInMemoryCatalog
  <1>1. Init => Memory!Init
    BY MemoryInit
  <1>2. ASSUME IInv, IInv', [Next]_vars
        PROVE  [Memory!Next]_(Memory!memoryVars)
    <2>1. CASE UNCHANGED vars
      <3>1. UNCHANGED <<stored, pc, op, got, draft>>
        BY <2>1 DEF vars, request
      <3>2. \A r \in Request : Answer(r)' = Answer(r)
        BY <1>2, <3>1, SameAnswer
      <3> QED
        BY <3>1, <3>2, Unseen
    <2>2. CASE Next
      <3>1. PICK r \in Request :
              \/ \E c \in Company, n \in 0 .. MaxVersion : ReadRow(r, "view", c, n)
              \/ CommitUpsert(r)
              \/ CommitActivate(r)
              \/ Fail(r)
              \/ \/ \E c \in Company, n \in 0 .. MaxVersion : ReadRow(r, "edit", c, n)
                 \/ \E c \in Company, t \in Draft : Upsert(r, c, t) \/ UpsertNeighbour(r, c, t)
                 \/ \E c \in Company, n \in Version : LockForActivate(r, c, n)
                 \/ ReadBlocks(r) \/ Annotate(r) \/ UpsertEdited(r) \/ Forbidden(r)
                 \/ CommitNeighbour(r) \/ UpsertFails(r) \/ VersionUnknown(r)
        BY <2>2, Zenon DEF Next
      <3>2. ASSUME NEW c \in Company, NEW n \in 0 .. MaxVersion, ReadRow(r, "view", c, n)
            PROVE  Memory!Next
        BY <1>2, <3>2, MemoryReply DEF Memory!Next
      <3>3. CASE CommitUpsert(r)
        <4>1. company[r] \in Company
          BY <1>2, <3>3 DEF CommitUpsert, IInv, RequestsOK
        <4> QED
          BY <1>2, <3>3, <4>1, MemoryUpsert DEF Memory!Next
      <3>4. CASE CommitActivate(r)
        <4>1. company[r] \in Company
          BY <1>2, <3>4 DEF CommitActivate, IInv, RequestsOK
        <4>2. DOMAIN ByVer = Numbers
          BY DEF ByVer
        <4> QED
          BY <1>2, <3>4, <4>1, <4>2, MemoryActivate DEF Memory!Next
      <3>5. CASE Fail(r)
        BY <1>2, <3>5, MemoryLoses DEF Memory!Next
      <3> QED
        BY <1>2, <2>2, <3>1, <3>2, <3>3, <3>4, <3>5, UnseenSteps
    <2> QED
      BY <1>2, <2>1, <2>2
  <1> QED
    BY <1>1, <1>2, Inductive, PTL DEF Spec, ImplementsInMemoryCatalog, Memory!Spec
=============================================================================
