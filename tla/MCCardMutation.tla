---------------------------- MODULE MCCardMutation ----------------------------
(* CardMutation for TLC: cards and bytes are interchangeable. *)
EXTENDS CardMutation, TLC

Symmetry == Permutations(Card) \cup Permutations(Val)
=============================================================================
