CONSTANTS
    Size = 7
    InputLength = 9
    LinesPerRead = 1
SPECIFICATION LineSpec
INVARIANTS
    EachLineOnce
CHECK_DEADLOCK FALSE
