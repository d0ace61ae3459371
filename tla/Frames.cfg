SPECIFICATION FairSpec
CONSTANTS
    Calls = {c1, c2, c3}
    Droppable = {c1, c2}
    Sizes = {1, 2}
    NoCall = NoCall
INVARIANT InStep
PROPERTY ImplementsChannel
PROPERTY SendsReturn
CHECK_DEADLOCK FALSE
