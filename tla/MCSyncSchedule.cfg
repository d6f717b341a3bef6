SPECIFICATION FairSpec
CONSTANTS
    Caller = {c1, c2}
    Scheduler = c1
    Nobody = Nobody
    Backoff <- MCBackoff
    Every <- MCEvery
    MaxAhead = 1
    MaxOther = 1
    Scenarios <- MCScenarios
INVARIANT StatusHonest
PROPERTY CommitsReachRemote
