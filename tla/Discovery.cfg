SPECIFICATION FairSpec
CONSTANTS
    Peers = {1, 2, 3, 4}
    BucketOf <- OneAbove
    PerLevel = 1
    LastBucket = 1
    Size = 1
    MaxReturned = 3
    Wrap = 9
    Unreachable = {2}
    Failing = {4}
    Refreshes = {1, 2}
    Moving = {3, 4}
    MaxMoves = 1
INVARIANT NothingOverlooked
INVARIANT RefreshCovers
INVARIANT SubtractionFits
INVARIANT NotOverfilled
PROPERTY EndsUnlessStranded
CHECK_DEADLOCK FALSE
