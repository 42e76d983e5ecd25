------------------------------- MODULE FileIO -------------------------------
(***************************************************************************)
(* What a file or the standard input becomes on its way into blocks, and    *)
(* what blocks become on their way into a file: Reader::ReadFile,           *)
(* StdHandler::ReadBytesFromStdin and Writer::WriteFile, in octet and in    *)
(* netascii mode, called with block size n as the transfers call them:      *)
(* until a block is short.                                                  *)
(*                                                                          *)
(* Characters are numbers.  A data character of a text is numbered by its   *)
(* place, so that a lost, repeated or moved one shows.                      *)
(***************************************************************************)
EXTENDS Integers, Sequences

CONSTANTS n,            \* block size; 8 is the least that can be negotiated
          Texts,        \* by job: the texts it may meet
          UninitByte    \* what a byte may be that was never assigned

CR == -1
LF == -2
NUL == 0

ASSUME BlockAssumption == n \in Nat /\ n >= 8
ASSUME TextsAssumption == \A j \in {"read", "stdin", "write"} : Texts[j] \subseteq Seq(Int)
ASSUME ByteAssumption == UninitByte # {} /\ UninitByte \subseteq Int

Newline(c) == c \in {CR, LF}
Data(c) == c > 0

Jobs == {"read", "stdin", "write"}
Modes == {"octet", "netascii"}

VARIABLES
    job, mode,  \* which class is at work, and its mode_
    text,       \* what the sender's file holds
    rest,       \* of it, or of the packets' data: not read yet
    held,       \* overflow_buffer_ or tbw_later_buffer_
    out,        \* the data of the blocks sent, or the bytes written
    phase

vars == <<job, mode, text, rest, held, out, phase>>

Upto(s, k) == SubSeq(s, 1, IF Len(s) < k THEN Len(s) ELSE k)
After(s, k) == SubSeq(s, k + 1, Len(s))

FormatToNETASCII(data) ==
    LET f[i \in 1 .. Len(data) + 1] ==
            IF i > Len(data) THEN <<>>
            ELSE IF data[i] = CR /\ i < Len(data) /\ data[i + 1] = LF
                 THEN <<CR, LF>> \o f[i + 2]
            ELSE IF data[i] = CR THEN <<CR, NUL>> \o f[i + 1]
            ELSE IF data[i] = LF THEN <<CR, LF>> \o f[i + 1]
            ELSE <<data[i]>> \o f[i + 1]
    IN f[1]

\* A '\r' at the very end stays; the caller keeps it for the next block.
FormatFromNETASCII(data) ==
    LET f[i \in 1 .. Len(data) + 1] ==
            IF i > Len(data) THEN <<>>
            ELSE IF data[i] = CR /\ i < Len(data) /\ data[i + 1] = LF
                 THEN <<LF>> \o f[i + 2]
            ELSE IF data[i] = CR /\ i < Len(data) /\ data[i + 1] = NUL
                 THEN <<CR>> \o f[i + 2]
            ELSE <<data[i]>> \o f[i + 1]
    IN f[1]

-----------------------------------------------------------------------------
TypeOK ==
    /\ job \in Jobs /\ mode \in Modes
    /\ text \in Seq(Int) /\ rest \in Seq(Int)
    /\ held \in Seq(Int) /\ out \in Seq(Int)
    /\ phase \in {"block", "end", "crash"}
    /\ mode = "octet" => held = <<>>
    /\ job = "write" => held \in {<<>>, <<CR>>}

\* A writer gets what a correct sender makes of the text.
Init ==
    /\ job \in Jobs
    /\ mode \in Modes
    /\ text \in Texts[job]
    /\ rest = IF job = "write" /\ mode = "netascii"
              THEN FormatToNETASCII(text) ELSE text
    /\ held = <<>>
    /\ out = <<>>
    /\ phase = "block"

\* The block that ends the transfer is short.
Send(block) ==
    /\ out' = out \o block
    /\ phase' = IF Len(block) < n THEN "end" ELSE "block"
    /\ UNCHANGED <<job, mode, text>>

FlatUnresized(source) ==
    [i \in 1 .. n |-> IF i <= Len(source) THEN source[i] ELSE NUL]

\* A read of up to n bytes, resized to what it got.
Flat(source) == Upto(source, n)

\* ReadFile and ReadBytesFromStdin in octet mode.
ReadOctet ==
    /\ phase = "block" /\ job # "write" /\ mode = "octet"
    /\ rest' = After(rest, n)
    /\ held' = held
    /\ Send(Flat(rest))

\* A block that ends in a newline is extended up to the next character that
\* is none, from `source'; at the end of the input by a byte that file_.read
\* has not assigned.  How many characters of the source that takes.
\* StdHandler's second loop looks at the same place for ever and stops only
\* at the end.
Extension(source, onlyAtEnd) ==
    LET stops == {k \in 1 .. Len(source) : ~Newline(source[k])}
    IN IF onlyAtEnd \/ stops = {} THEN Len(source)
       ELSE CHOOSE k \in stops : \A l \in stops : k <= l

\* The end of the input was met while extending.
RanOut(source, onlyAtEnd) ==
    onlyAtEnd \/ \A k \in 1 .. Len(source) : Newline(source[k])

EndsInCRLF(s) == Len(s) >= 2 /\ s[Len(s) - 1] = CR /\ s[Len(s)] = LF

\* A block that is short, or does not end in CR LF, gets one.
EndLine(s) ==
    IF Len(s) < n \/ (Len(s) >= 2 /\ ~EndsInCRLF(s)) THEN s \o <<CR, LF>> ELSE s

LeftUncleared(taken) ==
    IF Len(held) < n THEN held ELSE After(held, taken)

\* What is left of an earlier surplus when a block has taken its characters.
Left(taken) == After(held, taken)

SurplusOffByOne(buffer) == After(buffer, n + 1)

SurplusWithoutLF(buffer) ==
    IF buffer[n] = CR /\ buffer[n + 1] = LF THEN After(buffer, n + 1)
    ELSE After(buffer, n)

\* What a block has too much.
Surplus(buffer) == After(buffer, n)

\* The surplus of an earlier block comes first, and is converted again; the
\* surplus of this one replaces what was left of it.
ReadNetascii ==
    /\ phase = "block" /\ job # "write" /\ mode = "netascii"
    /\ \E byte \in UninitByte :
        LET source == held \o rest
            base == Upto(source, n)
            more == After(source, n)
            extend == Len(base) = n /\ Newline(base[n])
            stuck == job = "stdin" /\ Len(held) < n
            k == IF extend THEN Extension(more, stuck) ELSE 0
            taken == Len(base) + k
            buffer == EndLine(FormatToNETASCII(
                          Upto(source, taken)
                          \o IF extend /\ RanOut(more, stuck)
                             THEN <<byte>> ELSE <<>>))
        IN /\ rest' = IF taken <= Len(held) THEN rest
                      ELSE After(rest, taken - Len(held))
           /\ held' = IF Len(buffer) > n THEN Surplus(buffer)
                      ELSE Left(taken)
           /\ Send(Upto(buffer, n))

\* WriteFile of the next block's data, and ~Writer after the last one.
WriteOctet ==
    /\ phase = "block" /\ job = "write" /\ mode = "octet"
    /\ rest' = After(rest, n)
    /\ held' = held
    /\ Send(Upto(rest, n))

KeepNothing(s) == <<>>

KeepLineEnd(s) == IF Newline(s[Len(s)]) THEN <<s[Len(s)]>> ELSE <<>>

\* A '\r' at the end of a block waits for the character that follows it.
KeepBack(s) == IF s[Len(s)] = CR THEN <<CR>> ELSE <<>>

WriteNetascii ==
    /\ phase = "block" /\ job = "write" /\ mode = "netascii"
    /\ LET block == Upto(rest, n)
           data == FormatFromNETASCII(held \o block)
           last == Len(block) < n
       IN /\ data # <<>>
          /\ LET keep == KeepBack(data)
                 now == Upto(data, Len(data) - Len(keep))
             IN /\ out' = out \o now \o IF last THEN keep ELSE <<>>
                /\ held' = IF last THEN <<>> ELSE keep
          /\ rest' = After(rest, n)
          /\ phase' = IF last THEN "end" ELSE "block"
    /\ UNCHANGED <<job, mode, text>>

\* data[data.size() - 1] of an empty vector: there is no such byte.
WriteNothing ==
    /\ phase = "block" /\ job = "write" /\ mode = "netascii"
    /\ held = <<>> /\ rest = <<>>
    /\ phase' = "crash"
    /\ UNCHANGED <<job, mode, text, rest, held, out>>

Next == ReadOctet \/ ReadNetascii \/ WriteOctet \/ WriteNetascii \/ WriteNothing

Spec == Init /\ [][Next]_vars

-----------------------------------------------------------------------------
(* Properties.                                                              *)

\* The data characters of a text, in their order: line ends, nulls and what may
\* be a byte that was never assigned are left out.
Kept(c) == Data(c) /\ c \notin UninitByte

DataOf(s) ==
    LET f[i \in 1 .. Len(s) + 1] ==
            IF i > Len(s) THEN <<>>
            ELSE (IF Kept(s[i]) THEN <<s[i]>> ELSE <<>>) \o f[i + 1]
    IN f[1]

Increasing(s) == \A i \in 2 .. Len(s) : s[i - 1] < s[i]

NoCR(s) == \A i \in 1 .. Len(s) : s[i] # CR

\* In octet mode nothing is changed: the bytes so far are the file's first,
\* and the short block is the last of it, also when it is empty.
OctetExact ==
    mode = "octet" =>
        /\ out \o rest = text
        /\ phase = "end" => rest = <<>>

\* In netascii mode the senders repeat and move no data character, however the
\* conversion stretches the blocks and the surplus is carried over and converted
\* again; and of a text with plain newlines Reader loses none.  (StdHandler does
\* when it runs to the end of the input for a block that ends in a newline.)
\* Of the line ends between them this says nothing: see LinesKept and
\* LineEndOnlyAtEnd.
DataKept ==
    job # "write" /\ mode = "netascii" =>
        /\ Increasing(DataOf(text)) => Increasing(DataOf(out))
        /\ job = "read" /\ NoCR(text) =>
              /\ \E k \in 0 .. Len(DataOf(text)) :
                    DataOf(out) = Upto(DataOf(text), k)
              /\ phase = "end" => DataOf(out) = DataOf(text)

\* s is what t has left when some of its characters are struck out.
Within(s, t) ==
    LET at[i \in 0 .. Len(s)] ==
            IF i = 0 THEN 0
            ELSE LET later == {k \in at[i - 1] + 1 .. Len(t) : t[k] = s[i]}
                 IN IF later = {} THEN Len(t) + 1
                    ELSE CHOOSE k \in later : \A l \in later : k <= l
    IN at[Len(s)] <= Len(t)

\* Of a text with plain newlines no line end is lost either and none is moved
\* past a character, whether a block ends between the CR and the LF that one has
\* become, or inside a run of them, or the surplus begins with one.
LinesKept ==
    job = "read" /\ mode = "netascii" /\ NoCR(text) /\ phase = "end" =>
        Within(text, out)

\* "if buffer len < num bytes to be read => we found EOF and we need to ensure
\* that the last line" (Reader.cpp:111): what goes out is the text converted,
\* with at most a line end added, where it ends.
LineEndOnlyAtEnd ==
    job = "read" /\ mode = "netascii" /\ NoCR(text) /\ phase = "end" =>
        out \in {FormatToNETASCII(text), FormatToNETASCII(text) \o <<CR, LF>>}

NoNulAfterCR(s) == \A i \in 1 .. Len(s) - 1 : ~(s[i] = CR /\ s[i + 1] = NUL)

\* Writer undoes the conversion wherever the blocks cut the text, also between
\* CR and what belongs to it; CR LF in the sender's file arrives as LF.  Only
\* an empty last block with nothing held back makes it read before its data.
\* (The CR held back may be one that is decoded already: a null that follows
\* it in the text is then taken for its second half.)
WriterDecodes ==
    job = "write" /\ mode = "netascii" /\ NoNulAfterCR(text) =>
        /\ phase = "end" => out = FormatFromNETASCII(FormatToNETASCII(text))
        /\ phase = "crash" => Len(FormatToNETASCII(text)) % n = 0

\* Carrying a surplus over, converting it again and ending lines does not go
\* on for ever: every file and every input comes to a short block, after at
\* most forty times its length and one block.
ComesToAnEnd == job # "write" => Len(out) <= 40 * Len(text) + n

-----------------------------------------------------------------------------
(* The inductive invariant of the proofs.                                   *)

\* A CR and the null that belongs to it are not followed by what would belong
\* to a CR as well.
Unambiguous(s) ==
    \A i \in 1 .. Len(s) - 2 :
        s[i] = CR /\ s[i + 1] = NUL => s[i + 2] \notin {LF, NUL}

\* Only full blocks so far.  What is written, with what the rest decodes to
\* behind the CR that is held back, is the whole.
WriterInv ==
    job = "write" /\ mode = "netascii" /\ phase = "block" =>
        /\ Len(rest) <= Len(FormatToNETASCII(text))
        /\ (Len(FormatToNETASCII(text)) - Len(rest)) % n = 0
        /\ NoNulAfterCR(text) =>
              /\ out \o FormatFromNETASCII(held \o rest)
                    = FormatFromNETASCII(FormatToNETASCII(text))
              /\ Unambiguous(held \o rest)

\* A CR that no LF follows comes from the byte at the end of the input: nothing
\* that is kept is behind it.
LoneCRLast(s) ==
    \A i \in 1 .. Len(s) :
        s[i] = CR /\ ~(i < Len(s) /\ s[i + 1] = LF) =>
            \A j \in i + 1 .. Len(s) : ~Kept(s[j])

\* What is held is in order behind what was sent.  Of a surplus longer than a
\* block, the part that the next block will not take has nothing to be kept.
KeptInv ==
    job # "write" /\ mode = "netascii" =>
        /\ Increasing(DataOf(text)) =>
              Increasing(DataOf(out \o (held \o rest)))
        /\ job = "read" /\ NoCR(text) =>
              /\ DataOf(out \o (held \o rest)) = DataOf(text)
              /\ LoneCRLast(held \o rest)
              /\ \A i \in n + 1 .. Len(held) :
                    Kept(held[i]) => \A j \in n .. i - 1 : Newline(held[j])
              /\ phase = "end" => held = <<>> /\ rest = <<>>

\* CR is followed by LF or by a null, and LF follows a CR: so is every text that
\* was converted, and every part of it.
Paired(s) ==
    \A i \in 1 .. Len(s) - 1 :
        /\ s[i] = CR => s[i + 1] \in {LF, NUL}
        /\ s[i + 1] = LF => s[i] = CR

\* The surplus of a block ends a line.
HeldEnds == Paired(held) /\ (held # <<>> => held[Len(held)] = LF)

\* What is sent is paid for by what was read of the text: a full block, by the
\* characters that it takes from the surplus or from the rest.  A surplus that
\* begins with an LF grows by one more, and only once.
StartsWithLF(s) == s # <<>> /\ s[1] = LF
Credit == 20 * Len(held) + 40 * Len(rest) + (IF StartsWithLF(held) THEN n ELSE 0)

LengthInv ==
    job # "write" /\ mode = "netascii" =>
        /\ HeldEnds
        /\ phase = "block" => Len(out) + Credit <= 40 * Len(text)
        /\ phase # "block" => Len(out) <= 40 * Len(text) + n

IInv ==
    /\ TypeOK /\ OctetExact
    /\ WriterInv /\ WriterDecodes
=============================================================================
