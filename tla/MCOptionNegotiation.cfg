\* File sizes around one, two and more blocks of 8 and of 512 bytes.
CONSTANTS
    ClientLists <- MCClientLists
    ForeignLists <- MCForeignLists
    FileSizes = {0, 7, 8, 9, 512, 1025}
    Free = 1000
SPECIFICATION FairSpec
INVARIANTS TypeOK Agreement RefusedForCause OackJudged
PROPERTY GetsAnswer
CHECK_DEADLOCK FALSE
