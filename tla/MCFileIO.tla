------------------------------ MODULE MCFileIO ------------------------------
(* Instances of FileIO: all texts over data, CR and LF up to a length,      *)
(* longer ones with plain newlines, which cross two block boundaries, still *)
(* longer ones that repeat a pattern, and for the writer shorter ones with  *)
(* nulls in them.                                                           *)
EXTENDS FileIO

CONSTANTS AnyLength, PlainLength, NulLength, PeriodLength, LongLengths

\* A data character is the number of its place.
Place == 1
Numbered(s) == [i \in DOMAIN s |-> IF s[i] = Place THEN i ELSE s[i]]
TextsOver(chars, length) ==
    {Numbered(s) : s \in UNION {[1 .. k -> chars] : k \in 0 .. length}}

AnyTexts == TextsOver({Place, CR, LF}, AnyLength)
PlainTexts == TextsOver({Place, LF}, PlainLength)
NulTexts == TextsOver({Place, NUL, CR, LF}, NulLength)

\* A pattern over and over.
Repeat(s, k) == Numbered([i \in 1 .. k |-> s[((i - 1) % Len(s)) + 1]])
LongTexts ==
    {Repeat(s, k) : s \in UNION {[1 .. p -> {Place, CR, LF}] : p \in 1 .. PeriodLength},
                    k \in LongLengths}

SentTexts == AnyTexts \cup PlainTexts \cup LongTexts
MCTexts == [read |-> SentTexts, stdin |-> SentTexts, write |-> AnyTexts \cup NulTexts]

\* One line, without its end.
LineTexts == [j \in {"read", "stdin", "write"} |-> {Repeat(<<Place>>, k) : k \in LongLengths}]

MCUninitByte == {CR, LF, 99}
=============================================================================
