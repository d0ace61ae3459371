SPECIFICATION Spec
CONSTANTS
    s1 = s1
    s2 = s2
    none = none
    NoNode = none
    NoEnd = none
    Nodes = {1, 2}
    Streams = {s1, s2}
    Pinging = {1, 2}
    Delays = TRUE
    Version <- SameVersion
    Encryption = FALSE
    DialTasks = {"on_connection"}
SYMMETRY StreamSymmetry
INVARIANT NeverQuitsSilently
CHECK_DEADLOCK FALSE
