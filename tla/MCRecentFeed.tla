---------------------------- MODULE MCRecentFeed ----------------------------
EXTENDS RecentFeed, TLC
Symmetry == Permutations(Requests)
=============================================================================
