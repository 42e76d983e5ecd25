CONSTANTS
    ClientLists <- BlksizeAndTimeout
    ForeignLists <- TimeoutOnly
    FileSizes = {9}
    Free = 1000
SPECIFICATION Spec
INVARIANT AnswerInForce
CHECK_DEADLOCK FALSE
