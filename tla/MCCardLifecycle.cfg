SPECIFICATION Spec
CONSTANTS
    Card = {c1, c2, c3, c4, c5}
    Few = {c1, c2, c3}
    Root = Root
    Scenarios <- MCScenarios
    MaxCalls = 1
    MaxOps = 9
SYMMETRY Symmetry
INVARIANTS Mirrors TableEnds RepairSuffices
PROPERTY NothingHidden
