SPECIFICATION Spec
CONSTANTS
    World = 2
    MinBatch = 2
    Maximum = 6
    Lengths <- MCLengths
    TokenLimits = {0, 1, 4, 7}
    MaxOoms = 2
    Requests = 3
    Endpoints = 2
    Concurrency = 1
    MaxRetries = 1
    MaxGlitches = 1
    Tokens = {"a", "b", "p", "q", "think", "end", "nl", "joined"}
    Before <- MCBefore
    After <- MCAfter
    Opening <- MCOpening
    Closing <- MCClosing
    Control = {"end"}
    Joined = "joined"
    Documents <- MCDocuments
    Answers <- MCAnswers
    MaxLength = 11
    MaxSource = 4
    MaxSummary = 4
INVARIANT SizesFit
INVARIANT WindowServed
INVARIANT OnlyBadLost
INVARIANT PermitsExact
INVARIANT SupervisesAnswer
INVARIANT TeacherSourceKept
CHECK_DEADLOCK FALSE
