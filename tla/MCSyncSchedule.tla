--------------------------- MODULE MCSyncSchedule ---------------------------
(***************************************************************************)
(* SyncSchedule for TLC: two steps of back-off, and the circumstances that *)
(* meet in one behaviour.                                                  *)
(***************************************************************************)
EXTENDS SyncSchedule

MCBackoff == <<1, 2>>
MCEvery == [pull |-> 1, push |-> 1]
MCScenarios == {{"others"}, {"manual", "unset"}, {"manual", "overlap"}}
=============================================================================
