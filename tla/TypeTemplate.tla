---------------------------- MODULE TypeTemplate ----------------------------
(***************************************************************************)
(* Templates of disclosure types as the service prepares them for storage  *)
(* (internal/disclosure/app): ApplyTemplateFlatBlockSync, which keeps the  *)
(* flat columns and the blocks of a template alike, and                    *)
(* validateTemplateMatrix.  Pure operators.                                *)
(*                                                                         *)
(* A template is a record: category, periodicity, strategy; flat, the      *)
(* narrative columns under the key of the block each belongs to; format,   *)
(* the one column without a block of its own; blocks, a sequence.  A text  *)
(* is the sequence of its lines.  A block has an id (0: none given), a key *)
(* (NoKey: blank), an order, a text, a type, and the settings of its       *)
(* config and validation that are as they should be (good) or not (bad); a *)
(* blank title counts as a bad setting.                                    *)
(***************************************************************************)
EXTENDS FiniteSets, Integers, Sequences

CONSTANTS
    Line,      \* the lines of texts
    OtherKey   \* the keys of blocks that are not mandatory

NoKey == "none"

MandatoryTemplateBlockKeys ==
    <<"legal_basis", "disclosure_content", "deadline",
      "channels_and_format", "legal_risks", "enterprise_workflow">>

Mandatory == {MandatoryTemplateBlockKeys[i] : i \in DOMAIN MandatoryTemplateBlockKeys}

Key == Mandatory \union {NoKey} \union OtherKey

\* What validateBlockTypeSchema looks at for each type; settings a type must have.
Checked == [text |-> {"max_length"}, textarea |-> {"max_length"}, long_text |-> {"max_length"},
            rich_text |-> {"max_length", "allow_html"},
            table |-> {"columns", "min_rows", "max_rows"}, checklist |-> {"options"},
            number |-> {"min", "max", "step"}, date |-> {"max_future_days"},
            attachment |-> {"max_files"}, section |-> {}]
Required == {"columns", "options"}

Setting == UNION {Checked[k] : k \in DOMAIN Checked} \union {"title"}
Cycles  == {"monthly", "quarterly", "yearly"}
Text    == Seq(Line)

Block == [id : Nat, key : Key, order : Int, text : Text, type : DOMAIN Checked \union {"other"},
          good : SUBSET Setting, bad : SUBSET Setting]

Template ==
    [category : {"periodic", "irregular", "custom", "other"},
     periodicity : Cycles \union {"event_based", "ad_hoc", "other"},
     strategy : {"fixed_cycle_days", "event_relative_hours", "configurable", "other"},
     flat : [Mandatory -> Text], format : Text, blocks : Seq(Block)]

-----------------------------------------------------------------------------
(* ApplyTemplateFlatBlockSync.                                             *)

\* The flat text of a mandatory block; two columns share one block.
FlatText(k, t) ==
    IF k = "channels_and_format" THEN t.flat[k] \o t.format ELSE t.flat[k]

AnyFlatSet(t) == t.format # << >> \/ \E k \in Mandatory : t.flat[k] # << >>

\* newMandatoryBlockFromFlatKey, with the shape that belongs to the key.
FreshBlock(i, t) ==
    LET k == MandatoryTemplateBlockKeys[i] IN
    [id |-> 0, key |-> k, order |-> i, text |-> FlatText(k, t),
     type |-> IF k = "deadline" THEN "text" ELSE "rich_text",
     good |-> {"max_length"}, bad |-> {}]

\* Without blocks, the mandatory ones are made of the flat columns.
Materialized(t) ==
    IF t.blocks = << >> /\ AnyFlatSet(t)
    THEN [t EXCEPT !.blocks = [i \in DOMAIN MandatoryTemplateBlockKeys |-> FreshBlock(i, t)]]
    ELSE t

\* Where the blocks of key k are; of several, a map by key keeps the last.
Places(k, t)  == {i \in DOMAIN t.blocks : t.blocks[i].key = k}
BlockOf(k, t) == t.blocks[CHOOSE i \in Places(k, t) : \A j \in Places(k, t) : j <= i]

HasDuplicateKeys(t) ==
    \E i, j \in DOMAIN t.blocks :
        i # j /\ t.blocks[i].key = t.blocks[j].key /\ t.blocks[i].key # NoKey

\* The n-th place of S.
Nth(S, n) == CHOOSE i \in S : Cardinality({j \in S : j <= i}) = n

Extras(t) == {i \in DOMAIN t.blocks : t.blocks[i].key \notin Mandatory \union {NoKey}}

\* The mandatory blocks in their order, a flat text that is not empty in the place of
\* the block's; then the others as they come; blocks with a blank key go.
Rebuilt(t) ==
    LET first == Len(MandatoryTemplateBlockKeys)
        Kept(i) == LET k == MandatoryTemplateBlockKeys[i] IN
            IF Places(k, t) = {} THEN FreshBlock(i, t)
            ELSE [BlockOf(k, t) EXCEPT
                     !.text = IF FlatText(k, t) = << >> THEN @ ELSE FlatText(k, t)]
        Put(i) == IF i <= first THEN Kept(i) ELSE t.blocks[Nth(Extras(t), i - first)]
    IN  IF HasDuplicateKeys(t) THEN t
        ELSE [t EXCEPT !.blocks = [i \in 1 .. first + Cardinality(Extras(t)) |->
                                      [Put(i) EXCEPT !.order = i]]]

\* A slip to rule out: extras too are mirrored, to columns that no version has.
MirroredExtras(t) ==
    [t EXCEPT !.flat = [k \in Mandatory \union {t.blocks[i].key : i \in DOMAIN t.blocks} |->
        IF Places(k, t) = {} THEN t.flat[k] ELSE BlockOf(k, t).text]]

\* The text of each mandatory block goes back to its flat column; format stays.
Mirrored(t) ==
    [t EXCEPT !.flat = [k \in Mandatory |->
        IF Places(k, t) = {} THEN t.flat[k] ELSE BlockOf(k, t).text]]

\* A slip to rule out: the flat columns are mirrored before the blocks are rebuilt.
SyncMirrorFirst(t) ==
    LET m == Materialized(t) IN
    IF m.blocks = << >> THEN m ELSE Rebuilt(Mirrored(m))

Sync(t) ==
    LET m == Materialized(t) IN
    IF m.blocks = << >> THEN m ELSE Mirrored(Rebuilt(m))

-----------------------------------------------------------------------------
(* validateTemplateMatrix.                                                 *)

ValidMatrix(t) ==
    /\ t.flat["deadline"] # << >>
    /\ \/ /\ t.category = "periodic"
          /\ t.periodicity \in Cycles
          /\ t.strategy = "fixed_cycle_days"
       \/ /\ t.category = "irregular"
          /\ t.periodicity = "event_based"
          /\ t.strategy = "event_relative_hours"
       \/ /\ t.category = "custom"
          /\ t.periodicity \in Cycles \union {"ad_hoc"}
          /\ t.strategy = "configurable"

WellFormed(b) ==
    /\ b.type \in DOMAIN Checked
    /\ b.bad \intersect (Checked[b.type] \union {"title"}) = {}
    /\ Checked[b.type] \intersect Required \subseteq b.good

ValidBlocks(t) ==
    /\ t.blocks # << >> => \A k \in Mandatory : Places(k, t) # {}
    /\ ~ HasDuplicateKeys(t)
    /\ \A i \in DOMAIN t.blocks :
          /\ t.blocks[i].key # NoKey
          /\ t.blocks[i].order > 0
          /\ \A j \in DOMAIN t.blocks \ {i} : t.blocks[i].order # t.blocks[j].order
          /\ WellFormed(t.blocks[i])

Valid(t) == ValidMatrix(t) /\ ValidBlocks(t)

\* Ids that the client gave twice; the validation lets them pass, the primary key of
\* disclosure_template_blocks does not.
SameIds(t) ==
    \E i, j \in DOMAIN t.blocks :
        i # j /\ t.blocks[i].id = t.blocks[j].id /\ t.blocks[i].id # 0
=============================================================================
