CONSTANTS
    n = 8
    AnyLength = 0
    PlainLength = 0
    NulLength = 0
    PeriodLength = 0
    LongLengths = {9, 17}
    Texts <- LineTexts
    UninitByte <- MCUninitByte
SPECIFICATION Spec
INVARIANT LineEndOnlyAtEnd
CHECK_DEADLOCK FALSE
