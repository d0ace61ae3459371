SPECIFICATION Spec
CONSTANTS
    Levels = 3
    PerByte = 2
    Selves <- MCSelves
    Others <- MCOthers
    MaxKnown = 3
    MaxReturned = 1
INVARIANT MaskSelectsBucket
INVARIANT GeneratedInBucket
INVARIANT BucketsOrderDistance
INVARIANT AnswersFit
INVARIANT ArmsAgree
INVARIANT RequestsAgree
