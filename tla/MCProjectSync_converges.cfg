CONSTANTS
    Card = {c1, k1, k2}
    Root = Root
    Start = {c1}
    Device = {d1, d2}
    Body = {old, new, newer}
    Scenarios = {{}}
    MaxEdits = 3
SPECIFICATION FairSpec
PROPERTIES RemoteWins Converges
