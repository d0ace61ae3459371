SPECIFICATION LookupsAloneSpec
CONSTANTS
    s1 = s1
    s2 = s2
    none = none
    NoNode = none
    NoEnd = none
    Nodes = {1, 2}
    Streams = {s1, s2}
    Pinging = {1}
    Delays = FALSE
    Version <- SameVersion
    Encryption = TRUE
    DialTasks = {"on_connection", "discovery", "lookup"}
PROPERTY HandshakesEnd
PROPERTY HalfOpenReaped
PROPERTY ImplementsPool
CHECK_DEADLOCK FALSE
