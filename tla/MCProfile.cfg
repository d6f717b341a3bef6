SPECIFICATION FairSpec
CONSTANTS
    Project = {p1, p2, x1}
    External = {x1}
    Missing = Missing
    Corrupt = Corrupt
    Unfinished = Unfinished
    MaxFaults = 2
    Scenarios <- MCScenarios
INVARIANTS CreatedListed RebuildFaithful 
 
