SPECIFICATION Spec
CONSTANTS
    N = 3
    MaxItems = 28
    MaxRemoved = 3
INVARIANT SizesBounded
INVARIANT HashUnaffected
INVARIANT OrderKept
PROPERTY RoundsShrink
CHECK_DEADLOCK FALSE
