---------------------------- MODULE MCProjectSync ----------------------------
(***************************************************************************)
(* Instances of ProjectSync for TLC.                                       *)
(***************************************************************************)
EXTENDS ProjectSync

\* Devices, the cards of the beginning and the ids of copies are interchangeable.
Symmetry == Permutations(Device) \cup Permutations(Start) \cup Permutations(Card \ Start)
=============================================================================
