SPECIFICATION Spec
CONSTANTS
    Card = {c1, c2}
    Few = {c1, c2}
    Root = Root
    Scenarios <- Overlap
    MaxCalls = 1
    MaxOps = 0
SYMMETRY Symmetry
PROPERTIES PurgesOnlyTrashed
