SPECIFICATION Spec
CONSTANTS
    s1 = s1
    s2 = s2
    none = none
    NoNode = none
    NoEnd = none
    Nodes = {1, 2}
    Streams = {s1, s2}
    Pinging = {}
    Delays = TRUE
    Version <- SameVersion
    Encryption = TRUE
    DialTasks = {"on_connection", "discovery", "lookup"}
SYMMETRY StreamSymmetry
INVARIANT PoolSound
INVARIANT ReadersArePooled
INVARIANT KeyAgreement
INVARIANT NoFalseBlame
INVARIANT CompletedByBoth
INVARIANT NobodyWaitsInVain
CHECK_DEADLOCK FALSE
