SPECIFICATION Spec
CONSTANTS
    Lines <- MCLines
    Files <- MCFiles
    Capacity = 2
    MaxOut = 3
    MaxLeak = 2
INVARIANTS
    TypeOK
    EverythingArrives
    NobodyHoldsTheEnd
    ArgumentsKept
PROPERTIES
    LosesKnownOnes
    PromptReturns
\* myexit ends the shell, and more than two pipes may leave it waiting
CHECK_DEADLOCK FALSE
