------------------------------ MODULE MCProfile ------------------------------
(***************************************************************************)
(* Profile for TLC: the circumstances that meet in one behaviour.          *)
(***************************************************************************)
EXTENDS Profile

MCScenarios ==
    {{"external", "damage"},
     {"damage", "delete"},
     {"damage", "delete", "crash"},
     {"damage", "recover", "upgrade"},
     {"damage", "upgrade", "byHand"},
     {"upgrade", "fail", "crash"},
     {"upgrade", "byHand", "threads", "crash"}}
=============================================================================
