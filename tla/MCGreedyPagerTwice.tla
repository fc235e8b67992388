------------------------- MODULE MCGreedyPagerTwice -------------------------
(* GreedyPagerTwice on the instances of MCGreedyPager. *)
EXTENDS MCGreedyPager, GreedyPagerTwice
=============================================================================
