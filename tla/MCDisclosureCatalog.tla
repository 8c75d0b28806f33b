------------------------ MODULE MCDisclosureCatalog ------------------------
(* Instances of DisclosureCatalog for TLC. *)
EXTENDS DisclosureCatalog, TLC

CONSTANTS c1, c2, r1, r2, r3, r4

OneCompany    == {c1}
TwoCompanies  == {c1, c2}
FourRequests  == {r1, r2, r3, r4}

Lines   == {"T+5", "web", "PDF", "HTML", "note"}
TwoKeys == {"table", "chart"}

NoFlat == [k \in Mandatory |-> << >>]

\* No block; two columns that share a block.
FlatOnly ==
    [category |-> "custom", periodicity |-> "monthly", strategy |-> "configurable",
     flat |-> [NoFlat EXCEPT !["deadline"] = <<"T+5">>,
                             !["channels_and_format"] = <<"web">>],
     format |-> <<"PDF">>, blocks |-> << >>]

Extra(id, key, order) ==
    [id |-> id, key |-> key, order |-> order, text |-> <<"note">>, type |-> "table",
     good |-> {"columns"}, bad |-> {}]

\* Blocks in no order, a mandatory one among them, and no flat text at all.
Blocks ==
    [category |-> "periodic", periodicity |-> "yearly", strategy |-> "fixed_cycle_days",
     flat |-> NoFlat, format |-> << >>,
     blocks |-> <<Extra(1, "table", 7), Extra(0, NoKey, 0),
                  [Extra(2, "deadline", 7) EXCEPT !.type = "text"]>>]

\* Two blocks with one key, two blocks with one id.
SameKeyTwice == [FlatOnly EXCEPT !.blocks = <<Extra(1, "table", 1), Extra(2, "table", 2)>>]
SameIdTwice  == [FlatOnly EXCEPT !.blocks = <<Extra(1, "table", 1), Extra(1, "chart", 2)>>]

Drafts      == {FlatOnly, Blocks, SameKeyTwice, SameIdTwice}
PlainDrafts == {FlatOnly}
SeedOfType  == [Sync(FlatOnly) EXCEPT !.format = <<"HTML">>]

Symmetry == Permutations(Request) \union Permutations(Company)
=============================================================================
