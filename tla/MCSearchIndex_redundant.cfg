CONSTANTS
    Near = 3
    MaxAnswers = 2
    BlockSize = 5
    MaxPages = 3
SPECIFICATION Spec
CHECK_DEADLOCK FALSE
INVARIANT NoneRedundant
