SPECIFICATION FairSpec
CONSTANT MaxWrites = 4
INVARIANT InOrder
INVARIANT NoLostWakeup
PROPERTY ImplementsChannel
PROPERTY WritesReturn
CHECK_DEADLOCK FALSE
