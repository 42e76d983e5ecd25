CONSTANTS
    n = 8
    AnyLength = 8
    PlainLength = 12
    NulLength = 7
    PeriodLength = 5
    LongLengths = {17, 24}
    Texts <- MCTexts
    UninitByte <- MCUninitByte
SPECIFICATION Spec
INVARIANTS TypeOK OctetExact DataKept LinesKept WriterDecodes ComesToAnEnd
CHECK_DEADLOCK FALSE
