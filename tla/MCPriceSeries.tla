--------------------------- MODULE MCPriceSeries ---------------------------
(* PriceSeries for TLC: two ISINs of which the first may become the        *)
(* second, with gaps before and after the change, two rows of one day, or  *)
(* no rows at all, and an action of the first that goes ex on day 3.       *)
EXTENDS PriceSeries

MCMigrations == {<<"a", "b">>}
MCActions    == {[isin |-> "a", ex |-> 3]}
MCHistories  == {[a |-> old, b |-> new] :
                   old \in {{1, 2}, {1, 4, 5}},
                   new \in {{4, 5}, {3, 5}, {}}}

=============================================================================
