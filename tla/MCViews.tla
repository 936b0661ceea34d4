------------------------------ MODULE MCViews ------------------------------
(***************************************************************************)
(* Views of two libraries.                                                 *)
(***************************************************************************)
EXTENDS Views, TLC

MCQueries == {[name |-> "routes", types |-> {"relation"}], [name |-> "wr", types |-> {"way", "relation"}]}
MCTypeSets == {{"way"}}
MCWorld == {1, 2}
MCBoxes == {{1}}
MCFilters == {[name |-> "within", types |-> {"way", "relation"}, box |-> {2}, strict |-> TRUE]}
MCRelated == {[name |-> "street", kind |-> "way", parents |-> {"relation"}],
              [name |-> "corner", kind |-> "anonymousNode", parents |-> {"way"}]}
Same == Permutations(Slots) \union Permutations(Stores)
=============================================================================
