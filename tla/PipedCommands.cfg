CONSTANTS
    Size = 12
    InputLength = 9
    LinesPerRead = 2
SPECIFICATION LineSpec
INVARIANTS
    EachLineOnce
CHECK_DEADLOCK FALSE
