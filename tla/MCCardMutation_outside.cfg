SPECIFICATION Spec
CONSTANTS
    Card = {c1, c2}
    Val = {v1, v2}
    Absent = Absent
    Torn = Torn
    MaxOps = 1
    MaxFaults = 1
    MaxOutside = 1
    MaxEdits = 1
    TearUnjournalled = FALSE
SYMMETRY Symmetry
INVARIANT OutsideCommitsKept
PROPERTIES FateIsCommit RecoveryKeepsEdits
