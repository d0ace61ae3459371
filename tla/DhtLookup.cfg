SPECIFICATION FairSpec
CONSTANTS
    Peers = {0, 1, 4}
    Self = 2
    Alpha = 2
    MaxReturned = 2
    Broken = {4}
    Moving = {1, 4}
INVARIANT NoneMeansAbsent
INVARIANT PoolRestored
INVARIANT AnswersExhausted
PROPERTY NeverAgain
PROPERTY EndsUnlessStranded
CHECK_DEADLOCK FALSE
