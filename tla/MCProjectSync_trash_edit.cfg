CONSTANTS
    Card = {c1, c2, k1, k2}
    Root = Root
    Start = {c1, c2}
    Device = {d1, d2}
    Body = {old, new, newer}
    Scenarios = {{"trash"}}
    MaxEdits = 2
SPECIFICATION Spec
SYMMETRY Symmetry
PROPERTY RemoteWins
