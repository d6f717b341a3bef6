SPECIFICATION Spec
CONSTANTS
    Card = {c1, c2}
    Val = {v1, v2}
    Absent = Absent
    Torn = Torn
    MaxOps = 1
    MaxFaults = 2
    MaxOutside = 0
    MaxEdits = 0
    TearUnjournalled = FALSE
SYMMETRY Symmetry
INVARIANTS SettledIndexed SettledCommitted 
PROPERTY AtomicSpec
