--------------------------- MODULE MCCardLifecycle ---------------------------
(* CardLifecycle for TLC: cards are interchangeable. *)
EXTENDS CardLifecycle, TLC

MCScenarios ==
    {{"hidden"},
     {"history", "trashHistory"},
     {"editTrashed", "purgeParents", "overlap", "crash"}}
Overlap == {{"overlap"}}

Symmetry == Permutations(Few) \cup Permutations(Card \ Few)
=============================================================================
