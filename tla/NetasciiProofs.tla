--------------------------- MODULE NetasciiProofs ---------------------------
(***************************************************************************)
(* Proofs about the senders of module FileIO in netascii mode: what becomes *)
(* of the characters of a text when the surplus of a block is carried over  *)
(* and converted again, and that this comes to an end.                      *)
(***************************************************************************)
EXTENDS FileIOProofs

-----------------------------------------------------------------------------
(* Texts.                                                                   *)

\* Texts may be joined in any order.
LEMMA PutAssoc ==
    \A x, y, z \in Seq(Int) :
       Put(x, y) \in Seq(Int) /\ Put(Put(x, y), z) = Put(x, Put(y, z))
BY Concat, Assoc DEF Put

\* Texts are built by putting characters in front.
LEMMA FrontInduction ==
    ASSUME NEW S, <<>> \in S,
           \A c \in Int, r \in Seq(Int) : r \in S => <<c>> \o r \in S
    PROVE  \A s \in Seq(Int) : s \in S
<1> DEFINE T == {m \in Nat : \A x \in Seq(Int) : Len(x) <= m => x \in S}
<1>1. 0 \in T
  <2>1. \A x \in Seq(Int) : Len(x) <= 0 => x = <<>>
    BY EmptySeq
  <2> QED
    BY <2>1
<1>2. ASSUME NEW m \in Nat, m \in T PROVE m + 1 \in T
  <2> SUFFICES ASSUME NEW x \in Seq(Int), Len(x) <= m + 1, x # <<>> PROVE x \in S
    OBVIOUS
  <2>1. PICK a \in Int, r \in Seq(Int) : x = <<a>> \o r
    BY FirstAndRest
  <2>2. Len(x) = Len(r) + 1
    BY <2>1, Front
  <2>3. r \in S
    BY <1>2, <2>2
  <2> QED
    BY <2>1, <2>3
<1>3. \A m \in Nat : m \in T
  <2> HIDE DEF T
  <2> QED
    BY <1>1, <1>2, SetInduction
<1> SUFFICES ASSUME NEW s \in Seq(Int) PROVE s \in S
  OBVIOUS
<1>4. Len(s) \in Nat /\ Len(s) <= Len(s)
  OBVIOUS
<1> QED
  BY <1>3, <1>4

\* They are also built of CR LF and of characters that are no part of one.
LEMMA TextInduction ==
    ASSUME NEW S, <<>> \in S,
           \A r \in Seq(Int) : r \in S => <<CR, LF>> \o r \in S,
           \A c \in Int, r \in Seq(Int) :
              r \in S /\ ~(c = CR /\ r # <<>> /\ r[1] = LF) => <<c>> \o r \in S
    PROVE  \A s \in Seq(Int) : s \in S
<1> DEFINE T == {m \in Nat : \A x \in Seq(Int) : Len(x) <= m => x \in S}
<1>0. CR \in Int /\ LF \in Int /\ {LF} \in SUBSET Int
  BY DEF CR, LF
<1>1. 0 \in T
  <2>1. \A x \in Seq(Int) : Len(x) <= 0 => x = <<>>
    BY EmptySeq
  <2> QED
    BY <2>1
<1>2. ASSUME NEW m \in Nat, m \in T PROVE m + 1 \in T
  <2> SUFFICES ASSUME NEW x \in Seq(Int), Len(x) <= m + 1, x # <<>> PROVE x \in S
    OBVIOUS
  <2>1. CASE \E c \in {LF}, r \in Seq(Int) : x = <<CR, c>> \o r
    <3>1. PICK r \in Seq(Int) : x = <<CR, LF>> \o r
      BY <2>1
    <3>2. Len(x) = Len(r) + 2
      BY <1>0, <3>1, FrontPair
    <3>3. r \in S
      BY <1>2, <3>2
    <3> QED
      BY <3>1, <3>3
  <2>2. CASE \E c \in Int, r \in Seq(Int) :
                x = <<c>> \o r /\ ~(c = CR /\ r # <<>> /\ r[1] \in {LF})
    <3>1. PICK c \in Int, r \in Seq(Int) :
                x = <<c>> \o r /\ ~(c = CR /\ r # <<>> /\ r[1] = LF)
      BY <2>2
    <3>2. Len(x) = Len(r) + 1
      BY <3>1, Front
    <3>3. r \in S
      BY <1>2, <3>2
    <3> QED
      BY <3>1, <3>3
  <2> QED
    BY <1>0, <2>1, <2>2, Decompose
<1>3. \A m \in Nat : m \in T
  <2> HIDE DEF T
  <2> QED
    BY <1>1, <1>2, SetInduction
<1> SUFFICES ASSUME NEW s \in Seq(Int) PROVE s \in S
  OBVIOUS
<1>4. Len(s) \in Nat /\ Len(s) <= Len(s)
  OBVIOUS
<1> QED
  BY <1>3, <1>4

-----------------------------------------------------------------------------
(* The characters of a text.                                                *)

\* What one character contributes.
One(c) == IF Kept(c) THEN <<c>> ELSE <<>>

CharPiece(s) == [i \in 1 .. Len(s) |-> One(s[i])]
CharNext(s) == [i \in 1 .. Len(s) |-> i + 1]

\* Taking the characters out of a text follows a plan.
LEMMA CharPlan ==
    ASSUME NEW s \in Seq(Int)
    PROVE  IsPlan(CharPiece(s), CharNext(s), Len(s))
<1>1. Len(s) \in Nat /\ \A i \in 1 .. Len(s) : s[i] \in Int
  OBVIOUS
<1>2. <<>> \in Seq(Int) /\ \A a \in Int : <<a>> \in Seq(Int)
  OBVIOUS
<1>3. CharPiece(s) \in [1 .. Len(s) -> Seq(Int)]
  BY <1>1, <1>2 DEF CharPiece, One
<1>4. CharNext(s) \in [1 .. Len(s) -> 1 .. Len(s) + 1]
      /\ \A i \in 1 .. Len(s) : CharNext(s)[i] > i
  BY <1>1 DEF CharNext
<1> QED
  BY <1>3, <1>4 DEF IsPlan

\* DataOf is the plan's function at the first place.
LEMMA CharFormats ==
    ASSUME NEW s \in Seq(Int)
    PROVE  \E f \in [1 .. Len(s) + 1 -> Seq(Int)] :
              /\ Formats(f, CharPiece(s), CharNext(s), Len(s))
              /\ DataOf(s) = f[1]
<1> DEFINE L == Len(s)
           Body(g) ==
              [i \in 1 .. Len(s) + 1 |->
                 IF i > Len(s) THEN <<>>
                 ELSE (IF Kept(s[i]) THEN <<s[i]>> ELSE <<>>) \o g[i + 1]]
           f == CHOOSE g : g = Body(g)
<1>1. L \in Nat /\ \A i \in 1 .. L + 1 : ~(i > L) => i \in 1 .. L
  OBVIOUS
<1>2. ASSUME NEW g
      PROVE  g = Body(g) <=> Formats(g, CharPiece(s), CharNext(s), L)
  <2> DEFINE Plan(i) == Put(CharPiece(s)[i], g[CharNext(s)[i]])
             Loop(i) == (IF Kept(s[i]) THEN <<s[i]>> ELSE <<>>) \o g[i + 1]
  <2>1. \A i \in 1 .. L : Loop(i) = Plan(i)
    <3> SUFFICES ASSUME NEW i \in 1 .. L PROVE Loop(i) = Plan(i)
      OBVIOUS
    <3>1. CharPiece(s)[i] = One(s[i]) /\ CharNext(s)[i] = i + 1
      BY DEF CharPiece, CharNext
    <3> QED
      BY <3>1 DEF Put, One
  <2>2. Body(g) = [i \in 1 .. L + 1 |-> IF i > L THEN <<>> ELSE Loop(i)]
    OBVIOUS
  <2> HIDE DEF Body, Loop
  <2>3. Body(g) = [i \in 1 .. L + 1 |-> IF i > L THEN <<>> ELSE Plan(i)]
    <3> HIDE DEF Plan, L
    <3> QED
      BY <1>1, <2>1, <2>2
  <2> QED
    BY <2>3 DEF Formats
<1>3. PICK g \in [1 .. L + 1 -> Seq(Int)] : Formats(g, CharPiece(s), CharNext(s), L)
  BY <1>1, CharPlan, FormatExists
<1>4. DataOf(s) = f[1]
  BY DEF DataOf
<1> HIDE DEF Body
<1>5. f = Body(f)
  BY <1>2, <1>3
<1> HIDE DEF f
<1>6. Formats(f, CharPiece(s), CharNext(s), L)
  BY <1>2, <1>5
<1>7. 1 \in 1 .. L + 1
  BY <1>1
<1>8. f[1] = g[1]
  <2> HIDE DEF L
  <2> QED
    BY <1>1, <1>3, <1>6, <1>7, CharPlan, FormatUnique DEF L
<1> QED
  BY <1>3, <1>4, <1>8

\* The characters of a text are a text.
LEMMA CharType ==
    ASSUME NEW s \in Seq(Int)
    PROVE  DataOf(s) \in Seq(Int)
<1>1. PICK f \in [1 .. Len(s) + 1 -> Seq(Int)] : DataOf(s) = f[1]
  BY CharFormats
<1>2. 1 \in 1 .. Len(s) + 1
  OBVIOUS
<1> QED
  BY <1>1, <1>2

\* An empty text has none.
LEMMA CharEmpty == DataOf(<<>>) = <<>>
<1>1. <<>> \in Seq(Int) /\ Len(<<>>) = 0
  OBVIOUS
<1>2. PICK f : Formats(f, CharPiece(<<>>), CharNext(<<>>), 0) /\ DataOf(<<>>) = f[1]
  BY <1>1, CharFormats
<1>3. f[0 + 1] = <<>>
  BY <1>2, FormatsFacts
<1> QED
  BY <1>2, <1>3

\* A character in front of a text is in front of its characters.
LEMMA CharFront ==
    ASSUME NEW c \in Int, NEW r \in Seq(Int)
    PROVE  DataOf(<<c>> \o r) = One(c) \o DataOf(r)
<1> DEFINE p == <<c>>
           d == p \o r
<1>1. /\ d \in Seq(Int) /\ Len(d) = 1 + Len(r) /\ d[1] = c
      /\ Len(d) \in Nat /\ Len(r) \in Nat /\ p \in Seq(Int) /\ Len(p) = 1
  BY Front
<1>2. ASSUME NEW j \in 1 .. Len(r)
      PROVE  /\ CharPiece(d)[1 + j] = CharPiece(r)[j]
             /\ CharNext(d)[1 + j] = 1 + CharNext(r)[j]
  <2>1. 1 + j \in 1 .. Len(d) /\ d[1 + j] = r[j]
    <3> HIDE DEF p
    <3>1. Len(p) + j \in 1 .. Len(p \o r) /\ (p \o r)[Len(p) + j] = r[j]
      BY <1>1, PlanShift
    <3> QED
      BY <1>1, <3>1
  <2> HIDE DEF d
  <2>2. CharPiece(d)[1 + j] = CharPiece(r)[j]
    BY <2>1 DEF CharPiece
  <2>3. CharNext(d)[1 + j] = 1 + j + 1 /\ CharNext(r)[j] = j + 1
    BY <2>1 DEF CharNext
  <2> QED
    BY <2>2, <2>3
<1> HIDE DEF d, p
<1>3. PICK f : Formats(f, CharPiece(d), CharNext(d), Len(d)) /\ DataOf(d) = f[1]
  BY <1>1, CharFormats
<1>4. PICK g : Formats(g, CharPiece(r), CharNext(r), Len(r)) /\ DataOf(r) = g[1]
  BY CharFormats
<1>5. f[1 + 1] = g[1]
  <2>1. GoesOnAs(CharPiece(d), CharNext(d), 1, CharPiece(r), CharNext(r), Len(r))
    BY <1>2 DEF GoesOnAs
  <2>2. IsPlan(CharPiece(r), CharNext(r), Len(r))
    BY CharPlan
  <2> QED
    BY <1>1, <1>3, <1>4, <2>1, <2>2, FormatShift
<1>6. 1 \in 1 .. Len(d)
  BY <1>1
<1>7. CharPiece(d)[1] = One(c) /\ CharNext(d)[1] = 1 + 1
  BY <1>1, <1>6 DEF CharPiece, CharNext
<1>8. f[1] = Put(CharPiece(d)[1], f[CharNext(d)[1]])
  BY <1>1, <1>3, <1>6, FormatsFacts
<1>9. DataOf(d) = Put(One(c), DataOf(r))
  BY <1>3, <1>4, <1>5, <1>7, <1>8
<1> QED
  BY <1>9 DEF Put, d, p

\* No character that is kept is a newline or a null, and no unassigned byte is.
LEMMA NotKept ==
    /\ ~Kept(CR) /\ ~Kept(LF) /\ ~Kept(NUL)
    /\ \A byte \in UninitByte : ~Kept(byte)
    /\ One(CR) = <<>> /\ One(LF) = <<>> /\ One(NUL) = <<>>
BY DEF Kept, Data, CR, LF, NUL, One

\* What one character contributes is a text.
LEMMA OneType ==
    ASSUME NEW c \in Int
    PROVE  One(c) \in Seq(Int)
BY DEF One

\* The characters of two texts, one behind the other.
LEMMA CharConcat ==
    ASSUME NEW s \in Seq(Int), NEW t \in Seq(Int)
    PROVE  DataOf(s \o t) = DataOf(s) \o DataOf(t)
<1> DEFINE C(x) == DataOf(x)
           S == {x \in Seq(Int) : C(x \o t) = C(x) \o C(t)}
<1>0. \A x \in Seq(Int) : C(x) \in Seq(Int)
  BY CharType
<1>1. <<>> \in S
  <2>1. <<>> \o t = t /\ <<>> \o C(t) = C(t)
    BY <1>0, NoText
  <2>2. C(<<>>) = <<>> /\ <<>> \in Seq(Int)
    BY CharEmpty
  <2> HIDE DEF C
  <2>3. C(<<>> \o t) = C(<<>>) \o C(t)
    BY <2>1, <2>2
  <2> QED
    BY <2>2, <2>3
<1>2. ASSUME NEW c \in Int, NEW r \in Seq(Int), r \in S PROVE <<c>> \o r \in S
  <2> DEFINE p == <<c>>
             o == One(c)
  <2>1. p \in Seq(Int) /\ p \o r \in Seq(Int) /\ r \o t \in Seq(Int) /\ o \in Seq(Int)
    BY Front, Concat, OneType
  <2>2. \A y \in Seq(Int) : C(p \o y) = o \o C(y)
    BY CharFront
  <2>3. C(r \o t) = C(r) \o C(t)
    BY <1>2
  <2> HIDE DEF p, o, C
  <2>4. (p \o r) \o t = p \o (r \o t)
    <3>a. Put(Put(p, r), t) = Put(p, Put(r, t))
      BY <2>1, PutAssoc
    <3> QED
      BY <3>a DEF Put
  <2>5. (o \o C(r)) \o C(t) = o \o (C(r) \o C(t))
    <3>1. C(r) \in Seq(Int) /\ C(t) \in Seq(Int)
      BY <1>0
    <3>2. \A y, z \in Seq(Int) : (o \o y) \o z = o \o (y \o z)
      <4>a. \A y, z \in Seq(Int) : Put(Put(o, y), z) = Put(o, Put(y, z))
        BY <2>1, PutAssoc
      <4> QED
        BY <4>a DEF Put
    <3> QED
      BY <3>1, <3>2
  <2>6. C((p \o r) \o t) = C(p \o r) \o C(t)
    BY <2>1, <2>2, <2>3, <2>4, <2>5
  <2> QED
    BY <2>1, <2>6 DEF p
<1>3. s \in S
  <2> HIDE DEF S
  <2> QED
    BY <1>1, <1>2, FrontInduction
<1> QED
  BY <1>3

NoneKept(s) == \A i \in 1 .. Len(s) : ~Kept(s[i])

\* A character in front of a text.
LEMMA NoneKeptFront ==
    ASSUME NEW c \in Int, NEW r \in Seq(Int)
    PROVE  NoneKept(<<c>> \o r) <=> ~Kept(c) /\ NoneKept(r)
<1> DEFINE p == <<c>>
           d == p \o r
<1>1. /\ d[1] = c /\ Len(d) = Len(r) + 1 /\ Len(r) \in Nat
      /\ \A j \in 1 .. Len(r) : d[1 + j] = r[j]
  <2>1. p \in Seq(Int) /\ Len(p) = 1 /\ p[1] = c
    OBVIOUS
  <2> HIDE DEF p
  <2>2. /\ Len(p \o r) = Len(p) + Len(r)
        /\ \A i \in 1 .. Len(p) : (p \o r)[i] = p[i]
        /\ \A j \in 1 .. Len(r) : (p \o r)[Len(p) + j] = r[j]
    BY <2>1, Concat
  <2>3. 1 \in 1 .. Len(p) /\ Len(r) \in Nat
    BY <2>1
  <2> QED
    BY <2>1, <2>2, <2>3
<1> HIDE DEF d
<1>2. \A i \in 1 .. Len(d) : i = 1 \/ (i - 1 \in 1 .. Len(r) /\ i = 1 + (i - 1))
  BY <1>1
<1>3. 1 \in 1 .. Len(d) /\ \A j \in 1 .. Len(r) : 1 + j \in 1 .. Len(d)
  BY <1>1
<1>4. NoneKept(d) <=> ~Kept(c) /\ NoneKept(r)
  BY <1>1, <1>2, <1>3 DEF NoneKept
<1> QED
  BY <1>4 DEF d, p

\* A text has no characters when none of it is kept.
LEMMA CharNone ==
    ASSUME NEW s \in Seq(Int)
    PROVE  NoneKept(s) <=> DataOf(s) = <<>>
<1> DEFINE S == {x \in Seq(Int) : NoneKept(x) <=> DataOf(x) = <<>>}
<1>1. <<>> \in S
  BY CharEmpty DEF NoneKept
<1>2. ASSUME NEW c \in Int, NEW r \in Seq(Int), r \in S PROVE <<c>> \o r \in S
  <2>1. <<c>> \o r \in Seq(Int)
    BY Front
  <2>2. DataOf(<<c>> \o r) = One(c) \o DataOf(r)
    BY CharFront
  <2>3. NoneKept(<<c>> \o r) <=> ~Kept(c) /\ NoneKept(r)
    BY NoneKeptFront
  <2>4. DataOf(r) \in Seq(Int)
    BY CharType
  <2>5. CASE Kept(c)
    <3>1. One(c) = <<c>>
      BY <2>5 DEF One
    <3>2. \A y \in Seq(Int) : <<c>> \o y # <<>>
      BY Ends, Front
    <3> QED
      BY <2>1, <2>2, <2>3, <2>4, <2>5, <3>1, <3>2
  <2>6. CASE ~Kept(c)
    <3>1. One(c) = <<>>
      BY <2>6 DEF One
    <3>2. <<>> \o DataOf(r) = DataOf(r)
      BY <2>4, NoText
    <3> QED
      BY <1>2, <2>1, <2>2, <2>3, <2>6, <3>1, <3>2
  <2> QED
    BY <2>5, <2>6
<1>3. s \in S
  <2> HIDE DEF S
  <2> QED
    BY <1>1, <1>2, FrontInduction
<1> QED
  BY <1>3

\* Two characters in front of a text.
LEMMA CharFrontPair ==
    ASSUME NEW a \in Int, NEW b \in Int, NEW r \in Seq(Int)
    PROVE  DataOf(<<a, b>> \o r) = One(a) \o (One(b) \o DataOf(r))
<1>1. <<b>> \o r \in Seq(Int) /\ <<a>> \o (<<b>> \o r) = <<a, b>> \o r
  <2>1. <<b>> \o r \in Seq(Int)
    BY Front
  <2> QED
    BY <2>1, TwoInFront
<1>2. DataOf(<<a>> \o (<<b>> \o r)) = One(a) \o DataOf(<<b>> \o r)
  BY <1>1, CharFront
<1>3. DataOf(<<b>> \o r) = One(b) \o DataOf(r)
  BY CharFront
<1> QED
  BY <1>1, <1>2, <1>3

\* The conversion keeps the characters.
LEMMA CharTo ==
    ASSUME NEW s \in Seq(Int)
    PROVE  DataOf(FormatToNETASCII(s)) = DataOf(s)
<1> DEFINE C(x) == DataOf(x)
           F(x) == FormatToNETASCII(x)
           S == {x \in Seq(Int) : C(F(x)) = C(x)}
<1>0. /\ \A x \in Seq(Int) : F(x) \in Seq(Int) /\ C(x) \in Seq(Int)
      /\ CR \in Int /\ LF \in Int /\ NUL \in Int
  BY Types, CharType DEF CR, LF, NUL
<1>1. /\ \A y \in Seq(Int) : C(<<CR, LF>> \o y) = C(y)
      /\ \A y \in Seq(Int) : C(<<CR, NUL>> \o y) = C(y)
  <2>1. \A y \in Seq(Int) : <<>> \o (<<>> \o C(y)) = C(y)
    BY <1>0, NoText
  <2>2. \A b \in Int, y \in Seq(Int) :
           C(<<CR, b>> \o y) = One(CR) \o (One(b) \o C(y))
    BY <1>0, CharFrontPair
  <2>3. One(CR) = <<>> /\ One(LF) = <<>> /\ One(NUL) = <<>>
    BY NotKept
  <2> SUFFICES ASSUME NEW y \in Seq(Int)
               PROVE  C(<<CR, LF>> \o y) = C(y) /\ C(<<CR, NUL>> \o y) = C(y)
    OBVIOUS
  <2> DEFINE o(c) == One(c)
  <2>4. C(<<CR, LF>> \o y) = o(CR) \o (o(LF) \o C(y))
    BY <1>0, <2>2
  <2>5. C(<<CR, NUL>> \o y) = o(CR) \o (o(NUL) \o C(y))
    BY <1>0, <2>2
  <2>6. o(CR) = <<>> /\ o(LF) = <<>> /\ o(NUL) = <<>>
    BY <2>3
  <2> HIDE DEF C, o
  <2> QED
    BY <2>1, <2>4, <2>5, <2>6
<1>2. <<>> \in S
  BY OfEmpty
<1>3. ASSUME NEW r \in Seq(Int), r \in S PROVE <<CR, LF>> \o r \in S
  <2>1. F(<<CR, LF>> \o r) = <<CR, LF>> \o F(r)
    BY ToEquations
  <2>2. <<CR, LF>> \o r \in Seq(Int)
    BY <1>0, FrontPair
  <2> HIDE DEF F, C
  <2> QED
    BY <1>0, <1>1, <1>3, <2>1, <2>2
<1>4. ASSUME NEW c \in Int, NEW r \in Seq(Int),
             r \in S /\ ~(c = CR /\ r # <<>> /\ r[1] = LF)
      PROVE  <<c>> \o r \in S
  <2>1. F(<<c>> \o r) = Encoded(c) \o F(r)
    BY <1>4, ToEquations
  <2>2. <<c>> \o r \in Seq(Int)
    BY Front
  <2>3. \A y \in Seq(Int) : C(<<c>> \o y) = One(c) \o C(y) /\ <<>> \o C(y) = C(y)
    BY <1>0, CharFront, NoText
  <2>4. \A y \in Seq(Int) : C(Encoded(c) \o y) = One(c) \o C(y)
    <3> HIDE DEF C
    <3>1. CASE c = CR
      BY <1>1, <2>3, <3>1, NotKept DEF Encoded
    <3>2. CASE c = LF
      <4>1. CR # LF
        BY DEF CR, LF
      <4> QED
        BY <1>1, <2>3, <3>2, <4>1, NotKept DEF Encoded
    <3>3. CASE c # CR /\ c # LF
      BY <2>3, <3>3 DEF Encoded
    <3> QED
      BY <3>1, <3>2, <3>3
  <2> HIDE DEF F, C
  <2> QED
    BY <1>0, <1>4, <2>1, <2>2, <2>3, <2>4
<1>5. s \in S
  <2> HIDE DEF S
  <2> QED
    BY <1>2, <1>3, <1>4, TextInduction
<1> QED
  BY <1>5

-----------------------------------------------------------------------------
(* Converting a text in two parts.                                          *)

\* The cut is not between CR and LF.
Apart(s, t) == ~(s # <<>> /\ t # <<>> /\ s[Len(s)] = CR /\ t[1] = LF)

\* Behind a part of the first text the cut is the same.
LEMMA ApartRest ==
    ASSUME NEW p \in Seq(Int), NEW r \in Seq(Int), NEW t \in Seq(Int), Apart(p \o r, t)
    PROVE  Apart(r, t)
<1>1. r # <<>> => (p \o r)[Len(p \o r)] = r[Len(r)] /\ p \o r # <<>>
  BY Ends
<1> QED
  BY <1>1 DEF Apart

\* The two parts are converted one by one.
LEMMA ToJoin ==
    ASSUME NEW s \in Seq(Int), NEW t \in Seq(Int), Apart(s, t)
    PROVE  FormatToNETASCII(s \o t) = FormatToNETASCII(s) \o FormatToNETASCII(t)
<1> DEFINE F(x) == FormatToNETASCII(x)
           Holds(x) == Apart(x, t) => F(x \o t) = F(x) \o F(t)
           S == {x \in Seq(Int) : Holds(x)}
<1>0. /\ \A x \in Seq(Int) : F(x) \in Seq(Int)
      /\ F(<<>>) = <<>> /\ <<>> \in Seq(Int)
      /\ CR \in Int /\ LF \in Int /\ NUL \in Int
  BY Types, OfEmpty DEF CR, LF, NUL
<1>1. <<>> \in S
  <2>1. <<>> \o t = t /\ <<>> \o F(t) = F(t)
    BY <1>0, NoText
  <2> HIDE DEF F
  <2>2. F(<<>> \o t) = F(<<>>) \o F(t)
    BY <1>0, <2>1
  <2> QED
    BY <1>0, <2>2
<1>2. ASSUME NEW p \in Seq(Int), NEW e \in Seq(Int), NEW r \in Seq(Int), r \in S,
             F(p \o r) = e \o F(r),
             Apart(p \o r, t) => F(p \o (r \o t)) = e \o F(r \o t)
      PROVE  p \o r \in S
  <2>1. p \o r \in Seq(Int) /\ (p \o r) \o t = p \o (r \o t)
    <3>1. p \o r \in Seq(Int)
      BY Concat
    <3>2. Put(Put(p, r), t) = Put(p, Put(r, t))
      BY PutAssoc
    <3> QED
      BY <3>1, <3>2 DEF Put
  <2> SUFFICES ASSUME Apart(p \o r, t) PROVE F((p \o r) \o t) = F(p \o r) \o F(t)
    BY <2>1
  <2>2. F(r \o t) = F(r) \o F(t)
    BY <1>2, ApartRest
  <2>3. F((p \o r) \o t) = e \o F(r \o t)
    BY <1>2, <2>1
  <2> HIDE DEF F
  <2>4. (e \o F(r)) \o F(t) = e \o (F(r) \o F(t))
    <3>1. F(r) \in Seq(Int) /\ F(t) \in Seq(Int)
      BY <1>0
    <3>2. \A y, z \in Seq(Int) : (e \o y) \o z = e \o (y \o z)
      <4>a. \A y, z \in Seq(Int) : Put(Put(e, y), z) = Put(e, Put(y, z))
        BY PutAssoc
      <4> QED
        BY <4>a DEF Put
    <3> QED
      BY <3>1, <3>2
  <2> QED
    BY <1>2, <2>2, <2>3, <2>4
<1>3. ASSUME NEW r \in Seq(Int), r \in S PROVE <<CR, LF>> \o r \in S
  <2> DEFINE p == <<CR, LF>>
  <2>1. \A y \in Seq(Int) : F(p \o y) = p \o F(y)
    BY ToEquations
  <2>2. p \in Seq(Int) /\ r \o t \in Seq(Int)
    BY <1>0, FrontPair, Concat
  <2> HIDE DEF F, S, p
  <2>3. p \o r \in S
    BY <1>2, <1>3, <2>1, <2>2
  <2> QED
    BY <2>3 DEF p
<1>4. ASSUME NEW c \in Int, NEW r \in Seq(Int),
             r \in S /\ ~(c = CR /\ r # <<>> /\ r[1] = LF)
      PROVE  <<c>> \o r \in S
  <2> DEFINE p == <<c>>
  <2>1. \A y \in Seq(Int) : ~(c = CR /\ y # <<>> /\ y[1] = LF) =>
                                F(p \o y) = Encoded(c) \o F(y)
    BY ToEquations
  <2>2. /\ p \in Seq(Int) /\ r \o t \in Seq(Int) /\ Encoded(c) \in Seq(Int)
        /\ Len(p) = 1 /\ p[1] = c /\ p # <<>>
    BY Front, Concat, EncodedFacts
  <2> HIDE DEF p
  <2>3. Apart(p \o r, t) => ~(c = CR /\ r \o t # <<>> /\ (r \o t)[1] = LF)
    <3>1. CASE r = <<>>
      <4>1. r \o t = t /\ p \o r = p
        BY <2>2, <3>1, NoText
      <4> QED
        BY <2>2, <4>1 DEF Apart
    <3>2. CASE r # <<>>
      <4>1. (r \o t)[1] = r[1]
        BY <3>2, Ends
      <4> QED
        BY <1>4, <3>2, <4>1
    <3> QED
      BY <3>1, <3>2
  <2> HIDE DEF F, S
  <2>4. p \o r \in S
    BY <1>2, <1>4, <2>1, <2>2, <2>3
  <2> QED
    BY <2>4 DEF p
<1>5. s \in S
  <2> HIDE DEF S
  <2> QED
    BY <1>1, <1>3, <1>4, TextInduction
<1> QED
  BY <1>5

\* One character, and CR LF, by themselves.
LEMMA ToSingle ==
    /\ \A c \in Int : FormatToNETASCII(<<c>>) = Encoded(c)
    /\ FormatToNETASCII(<<CR, LF>>) = <<CR, LF>>
<1> DEFINE e == <<>>
<1>0. e \in Seq(Int) /\ CR \in Int /\ LF \in Int
  BY DEF CR, LF
<1>1. ASSUME NEW c \in Int PROVE FormatToNETASCII(<<c>>) = Encoded(c)
  <2>1. <<c>> \in Seq(Int) /\ Encoded(c) \in Seq(Int)
    BY EncodedFacts
  <2>2. <<c>> \o e = <<c>> /\ Encoded(c) \o e = Encoded(c)
    BY <2>1, NoText
  <2>3. FormatToNETASCII(<<c>> \o e) = Encoded(c) \o FormatToNETASCII(e)
    BY <1>0, ToEquations
  <2> QED
    BY <2>2, <2>3, OfEmpty
<1>2. FormatToNETASCII(<<CR, LF>>) = <<CR, LF>>
  <2>1. <<CR, LF>> \in Seq(Int)
    BY <1>0
  <2>2. <<CR, LF>> \o e = <<CR, LF>>
    BY <2>1, NoText
  <2>3. FormatToNETASCII(<<CR, LF>> \o e) = <<CR, LF>> \o FormatToNETASCII(e)
    BY <1>0, ToEquations
  <2> QED
    BY <2>2, <2>3, OfEmpty
<1> QED
  BY <1>1, <1>2

\* A last character that is no newline stays the last.
LEMMA ToLast ==
    ASSUME NEW q \in Seq(Int), NEW c \in Int, ~Newline(c)
    PROVE  FormatToNETASCII(q \o <<c>>) = FormatToNETASCII(q) \o <<c>>
<1>1. c # CR /\ c # LF
  BY DEF Newline
<1>2. <<c>> \in Seq(Int) /\ <<c>>[1] = c
  OBVIOUS
<1>3. Apart(q, <<c>>)
  BY <1>1, <1>2 DEF Apart
<1>4. FormatToNETASCII(<<c>>) = <<c>>
  BY <1>1, ToSingle DEF Encoded
<1> QED
  BY <1>2, <1>3, <1>4, ToJoin

-----------------------------------------------------------------------------
(* One block of a sender in netascii mode.                                  *)

\* Where a text is cut is all there is to know of its parts.
LEMMA SameSplit ==
    ASSUME NEW x \in Seq(Int), NEW y \in Seq(Int), NEW z \in Seq(Int), NEW w \in Seq(Int),
           x \o y = z \o w, Len(x) = Len(z)
    PROVE  x = z /\ y = w
<1>1. /\ Len(x \o y) = Len(x) + Len(y)
      /\ \A i \in 1 .. Len(x) : (x \o y)[i] = x[i]
      /\ \A j \in 1 .. Len(y) : (x \o y)[Len(x) + j] = y[j]
  BY Concat
<1>2. /\ Len(z \o w) = Len(z) + Len(w)
      /\ \A i \in 1 .. Len(z) : (z \o w)[i] = z[i]
      /\ \A j \in 1 .. Len(w) : (z \o w)[Len(z) + j] = w[j]
  BY Concat
<1>3. Len(x) \in Nat /\ Len(y) \in Nat /\ Len(w) \in Nat
  OBVIOUS
<1>4. Len(y) = Len(w)
  BY <1>1, <1>2, <1>3
<1>5. \A i \in 1 .. Len(x) : x[i] = z[i]
  BY <1>1, <1>2
<1>6. \A j \in 1 .. Len(y) : y[j] = w[j]
  BY <1>1, <1>2, <1>4
<1>7. x = z
  BY <1>5, SeqEqual
<1>8. y = w
  BY <1>4, <1>6, SeqEqual
<1> QED
  BY <1>7, <1>8

\* The characters before and behind a cut.
LEMMA CutAt ==
    ASSUME NEW s \in Seq(Int), NEW k \in Nat, k <= Len(s)
    PROVE  /\ Upto(s, k) \in Seq(Int) /\ Len(Upto(s, k)) = k
           /\ After(s, k) \in Seq(Int) /\ Len(After(s, k)) = Len(s) - k
           /\ Upto(s, k) \o After(s, k) = s
           /\ \A i \in 1 .. k : Upto(s, k)[i] = s[i]
           /\ \A j \in 1 .. Len(s) - k : After(s, k)[j] = s[k + j]
<1> DEFINE x == Upto(s, k)
           y == After(s, k)
<1>0. Len(s) \in Nat
  OBVIOUS
<1>1. /\ x \in Seq(Int) /\ y \in Seq(Int) /\ x \o y = s
      /\ Len(x) = IF Len(s) < k THEN Len(s) ELSE k
      /\ Len(y) = IF Len(s) < k THEN 0 ELSE Len(s) - k
  BY Cut
<1>2. Len(x) = k /\ Len(y) = Len(s) - k
  BY <1>0, <1>1
<1> HIDE DEF x, y
<1>3. /\ \A i \in 1 .. Len(x) : (x \o y)[i] = x[i]
      /\ \A j \in 1 .. Len(y) : (x \o y)[Len(x) + j] = y[j]
  BY <1>1, Concat
<1>4. /\ \A i \in 1 .. k : x[i] = s[i]
      /\ \A j \in 1 .. Len(s) - k : y[j] = s[k + j]
  BY <1>1, <1>2, <1>3
<1> QED
  BY <1>1, <1>2, <1>4 DEF x, y

\* A cut through one of two texts.
LEMMA CutConcat ==
    ASSUME NEW a \in Seq(Int), NEW b \in Seq(Int), NEW k \in Nat, k <= Len(a) + Len(b)
    PROVE  LET u == Upto(a \o b, k)
           IN  /\ k <= Len(a) => a = u \o After(a, k)
               /\ k > Len(a) => LET p == Upto(b, k - Len(a))
                                IN /\ p \in Seq(Int) /\ p # <<>>
                                   /\ u = a \o p /\ b = p \o After(b, k - Len(a))
<1> DEFINE s == a \o b
           u == Upto(s, k)
           v == After(s, k)
<1>0. /\ s \in Seq(Int) /\ Len(s) = Len(a) + Len(b)
      /\ Len(a) \in Nat /\ Len(b) \in Nat /\ Len(s) \in Nat
  BY Concat
<1>1. u \in Seq(Int) /\ Len(u) = k /\ v \in Seq(Int) /\ u \o v = s
  <2> HIDE DEF s
  <2> QED
    BY <1>0, CutAt
<1> HIDE DEF u, v
<1>2. ASSUME k <= Len(a) PROVE a = u \o After(a, k)
  <2> DEFINE x == Upto(a, k)
             y == After(a, k)
  <2>1. x \in Seq(Int) /\ Len(x) = k /\ y \in Seq(Int) /\ x \o y = a
    BY <1>2, CutAt
  <2> HIDE DEF x, y
  <2>2. (x \o y) \o b = x \o (y \o b) /\ y \o b \in Seq(Int)
    <3>1. y \o b \in Seq(Int)
      BY <2>1, Concat
    <3>2. Put(Put(x, y), b) = Put(x, Put(y, b))
      BY <2>1, PutAssoc
    <3> QED
      BY <3>1, <3>2 DEF Put
  <2>3. u \o v = x \o (y \o b)
    BY <1>1, <2>1, <2>2
  <2>4. u = x
    BY <1>1, <2>1, <2>2, <2>3, SameSplit
  <2> QED
    BY <2>1, <2>4 DEF y
<1>3. ASSUME k > Len(a)
      PROVE  LET p == Upto(b, k - Len(a))
             IN  /\ p \in Seq(Int) /\ p # <<>>
                 /\ u = a \o p /\ b = p \o After(b, k - Len(a))
  <2> DEFINE l == k - Len(a)
             p == Upto(b, l)
             y == After(b, l)
  <2>1. l \in Nat /\ l <= Len(b) /\ l > 0 /\ Len(a) + l = k
    BY <1>0, <1>3
  <2> HIDE DEF l
  <2>2. p \in Seq(Int) /\ Len(p) = l /\ y \in Seq(Int) /\ p \o y = b
    BY <2>1, CutAt
  <2> HIDE DEF p, y
  <2>3. a \o p \in Seq(Int) /\ Len(a \o p) = Len(a) + Len(p)
    BY <2>2, Concat
  <2>4. (a \o p) \o y = a \o (p \o y)
    <3>a. Put(Put(a, p), y) = Put(a, Put(p, y))
      BY <2>2, PutAssoc
    <3> QED
      BY <3>a DEF Put
  <2>5. u \o v = (a \o p) \o y
    BY <1>1, <2>2, <2>4
  <2>6. u = a \o p
    BY <1>1, <2>1, <2>2, <2>3, <2>5, SameSplit
  <2>7. p # <<>>
    BY <2>1, <2>2, EmptySeq
  <2> QED
    BY <2>2, <2>6, <2>7 DEF p, y, l
<1> QED
  BY <1>2, <1>3 DEF u

\* How far a block that ends in a newline is extended.
LEMMA ExtensionFacts ==
    ASSUME NEW s \in Seq(Int), NEW stuck \in BOOLEAN
    PROVE  LET k == Extension(s, stuck)
           IN  /\ k \in Nat /\ k <= Len(s)
               /\ RanOut(s, stuck) => k = Len(s)
               /\ RanOut(s, stuck) /\ ~stuck => \A l \in 1 .. k : Newline(s[l])
               /\ ~RanOut(s, stuck) => /\ k >= 1 /\ ~Newline(s[k])
                                       /\ \A l \in 1 .. k - 1 : Newline(s[l])
<1> DEFINE stops == {k \in 1 .. Len(s) : ~Newline(s[k])}
           c == CHOOSE k \in stops : \A l \in stops : k <= l
<1>1. Len(s) \in Nat /\ stops \subseteq Nat
  OBVIOUS
<1>2. CASE RanOut(s, stuck)
  <2>1. stuck \/ stops = {}
    BY <1>2 DEF RanOut
  <2>2. Extension(s, stuck) = Len(s)
    BY <2>1 DEF Extension
  <2> QED
    BY <1>1, <1>2, <2>2 DEF RanOut
<1>3. CASE ~RanOut(s, stuck)
  <2>1. ~stuck /\ stops # {}
    BY <1>3 DEF RanOut
  <2>2. Extension(s, stuck) = c
    BY <2>1 DEF Extension
  <2>3. \E k \in stops : \A l \in stops : k <= l
    <3> HIDE DEF stops
    <3> QED
      BY <1>1, <2>1, LeastNatural
  <2>4. c \in stops /\ \A l \in stops : c <= l
    BY <2>3
  <2> HIDE DEF c
  <2>5. c \in 1 .. Len(s) /\ ~Newline(s[c])
    BY <2>4
  <2>6. \A l \in 1 .. c - 1 : Newline(s[l])
    <3> SUFFICES ASSUME NEW l \in 1 .. c - 1, ~Newline(s[l]) PROVE FALSE
      OBVIOUS
    <3>1. l \in 1 .. Len(s) /\ ~(c <= l)
      BY <1>1, <2>5
    <3>2. l \in stops
      BY <3>1
    <3> QED
      BY <2>4, <3>1, <3>2
  <2> QED
    BY <1>1, <1>3, <2>2, <2>5, <2>6
<1> QED
  BY <1>2, <1>3

\* A line is ended or it has an end.
LEMMA EndLineCases ==
    ASSUME NEW s \in Seq(Int)
    PROVE  /\ EndLine(s) \in Seq(Int)
           /\ \/ EndLine(s) = s /\ Len(s) >= n /\ EndsInCRLF(s)
              \/ EndLine(s) = s \o <<CR, LF>>
           /\ Len(s) <= Len(EndLine(s)) /\ Len(EndLine(s)) <= Len(s) + 2
           /\ Len(s) >= n /\ s[Len(s)] # LF => EndLine(s) = s \o <<CR, LF>>
<1> DEFINE t == s \o <<CR, LF>>
<1>0. Len(s) \in Nat /\ n \in Nat /\ n >= 8
  BY BlockAssumption
<1>1. t \in Seq(Int) /\ Len(t) = Len(s) + 2
  BY BlockFacts, Concat
<1> HIDE DEF t
<1>2. EndLine(s) = IF Len(s) < n \/ (Len(s) >= 2 /\ ~EndsInCRLF(s)) THEN t ELSE s
  BY DEF EndLine, t
<1>3. Len(s) >= n => Len(s) >= 2
  BY <1>0
<1>4. s[Len(s)] # LF => ~EndsInCRLF(s)
  BY DEF EndsInCRLF
<1>5. EndLine(s) = t \/ (EndLine(s) = s /\ Len(s) >= n /\ EndsInCRLF(s))
  BY <1>0, <1>2, <1>3
<1>6. Len(s) >= n /\ s[Len(s)] # LF => EndLine(s) = t
  BY <1>2, <1>3, <1>4
<1>7. Len(s) <= Len(EndLine(s)) /\ Len(EndLine(s)) <= Len(s) + 2
  BY <1>0, <1>1, <1>5
<1> QED
  BY <1>1, <1>5, <1>6, <1>7 DEF t

Buffer(u, b) == EndLine(FormatToNETASCII(u \o b))

\* A block takes u of what is held and of the rest; lost is what follows it of
\* what is held, b the byte at the end of the input.
Takes(u, lost) ==
    \/ held = u \o lost /\ rest' = rest
    \/ lost = <<>> /\ \E p \in Seq(Int) : p # <<>> /\ u = held \o p /\ rest = p \o rest'

TakesAll(u, b, lost) == Len(u) < n /\ b = <<>> /\ lost = <<>> /\ rest' = <<>>
TakesPlain(u, b) == Len(u) = n /\ ~Newline(u[n]) /\ b = <<>>
TakesLine(u, b) ==
    /\ Len(u) > n /\ ~Newline(u[Len(u)]) /\ b = <<>>
    /\ \A j \in n .. Len(u) - 1 : Newline(u[j])
RunsOut(u, b, lost) ==
    /\ Len(u) >= n /\ lost = <<>> /\ rest' = <<>>
    /\ \E byte \in UninitByte : b = <<byte>>
    /\ (\A j \in n .. Len(u) : Newline(u[j])) \/ (job = "stdin" /\ Len(held) < n)

Sends(u, b) ==
    /\ out' = out \o Upto(Buffer(u, b), n)
    /\ held' = After(Buffer(u, b), n)
    /\ phase' = IF Len(Buffer(u, b)) < n THEN "end" ELSE "block"
    /\ UNCHANGED <<job, mode, text>>

\* What a block takes and what it sends.
LEMMA ReadBlock ==
    ASSUME IInv, ReadNetascii
    PROVE  \E u, b, lost \in Seq(Int) :
              /\ Takes(u, lost) /\ Sends(u, b)
              /\ \/ TakesAll(u, b, lost)
                 \/ TakesPlain(u, b) \/ TakesLine(u, b)
                 \/ RunsOut(u, b, lost)
              /\ Len(Buffer(u, b)) <= n => TakesAll(u, b, lost)
              /\ TakesPlain(u, b) \/ TakesLine(u, b) =>
                    Buffer(u, b) = FormatToNETASCII(u) \o <<CR, LF>>
<1>0. /\ phase = "block" /\ job # "write" /\ mode = "netascii"
      /\ out \in Seq(Int) /\ rest \in Seq(Int) /\ held \in Seq(Int)
      /\ n \in Nat /\ n >= 8
  BY BlockAssumption DEF ReadNetascii, IInv, TypeOK
<1> DEFINE source == held \o rest
           base == Upto(source, n)
           more == After(source, n)
           extend == Len(base) = n /\ Newline(base[n])
           stuck == job = "stdin" /\ Len(held) < n
           k == IF extend THEN Extension(more, stuck) ELSE 0
           taken == Len(base) + k
           u == Upto(source, taken)
           tail(byte) == IF extend /\ RanOut(more, stuck) THEN <<byte>> ELSE <<>>
           lost == After(held, taken)
<1>1. PICK byte \in UninitByte :
         /\ rest' = IF taken <= Len(held) THEN rest ELSE After(rest, taken - Len(held))
         /\ held' = IF Len(Buffer(u, tail(byte))) > n THEN Surplus(Buffer(u, tail(byte)))
                    ELSE Left(taken)
         /\ Send(Upto(Buffer(u, tail(byte)), n))
  BY DEF ReadNetascii, Buffer
<1> DEFINE b == tail(byte)
           buf == Buffer(u, b)
<1>2. byte \in Int
  BY ByteAssumption
<1>3. source \in Seq(Int) /\ Len(source) = Len(held) + Len(rest)
      /\ Len(held) \in Nat /\ Len(rest) \in Nat /\ Len(source) \in Nat
  <2>1. source \in Seq(Int) /\ Len(source) = Len(held) + Len(rest)
    BY <1>0, Concat
  <2>2. Len(held) \in Nat /\ Len(rest) \in Nat
    BY <1>0
  <2> HIDE DEF source
  <2> QED
    BY <2>1, <2>2
<1> USE DEF stuck
<1>4. /\ base \in Seq(Int) /\ more \in Seq(Int) /\ Len(base) \in Nat /\ Len(more) \in Nat
      /\ Len(base) <= n /\ Len(base) + Len(more) = Len(source)
      /\ Len(base) < n => Len(more) = 0
      /\ Len(base) = n => /\ base[n] = source[n]
                          /\ \A l \in 1 .. Len(more) : more[l] = source[n + l]
  <2> HIDE DEF source
  <2>1. /\ base \in Seq(Int) /\ more \in Seq(Int)
        /\ Len(base) = IF Len(source) < n THEN Len(source) ELSE n
        /\ Len(more) = IF Len(source) < n THEN 0 ELSE Len(source) - n
    BY <1>0, <1>3, Cut
  <2>2. Len(base) = n => n <= Len(source)
    BY <1>0, <1>3, <2>1
  <2>3. n <= Len(source) => /\ \A i \in 1 .. n : base[i] = source[i]
                            /\ \A l \in 1 .. Len(source) - n : more[l] = source[n + l]
    BY <1>0, <1>3, CutAt
  <2>4. n \in 1 .. n
    BY <1>0
  <2> QED
    <3>1. Len(base) \in Nat /\ Len(more) \in Nat
      BY <2>1
    <3>2. /\ Len(base) <= n /\ Len(base) + Len(more) = Len(source)
          /\ Len(base) < n => Len(more) = 0
          /\ Len(base) = n => Len(more) = Len(source) - n
      BY <1>0, <1>3, <2>1
    <3> HIDE DEF base, more
    <3> QED
      BY <2>1, <2>2, <2>3, <2>4, <3>1, <3>2
<1>5. /\ k \in Nat /\ k <= Len(more) /\ (~extend => k = 0)
      /\ extend /\ RanOut(more, stuck) => k = Len(more)
      /\ extend /\ RanOut(more, stuck) /\ ~stuck => \A l \in 1 .. k : Newline(more[l])
      /\ extend /\ ~RanOut(more, stuck) => /\ k >= 1 /\ ~Newline(more[k])
                                           /\ \A l \in 1 .. k - 1 : Newline(more[l])
  <2>1. stuck \in BOOLEAN
    OBVIOUS
  <2> HIDE DEF more, stuck, extend
  <2> DEFINE e == Extension(more, stuck)
  <2>2. /\ e \in Nat /\ e <= Len(more)
        /\ RanOut(more, stuck) => e = Len(more)
        /\ RanOut(more, stuck) /\ ~stuck => \A l \in 1 .. e : Newline(more[l])
        /\ ~RanOut(more, stuck) => /\ e >= 1 /\ ~Newline(more[e])
                                   /\ \A l \in 1 .. e - 1 : Newline(more[l])
    BY <1>4, <2>1, ExtensionFacts
  <2>3. k = IF extend THEN e ELSE 0
    OBVIOUS
  <2> HIDE DEF k, e
  <2> QED
    BY <1>4, <2>2, <2>3
<1>6. taken \in Nat /\ taken <= Len(source) /\ taken = Len(base) + k
  <2> HIDE DEF k, base, more, source
  <2>1. k \in Nat /\ k <= Len(more)
    BY <1>5
  <2>2. Len(base) \in Nat /\ Len(more) \in Nat /\ Len(base) + Len(more) = Len(source)
    BY <1>4
  <2> QED
    BY <2>1, <2>2
<1>7. /\ u \in Seq(Int) /\ Len(u) = taken
      /\ \A i \in 1 .. taken : u[i] = source[i]
  <2> HIDE DEF taken, source
  <2> QED
    BY <1>3, <1>6, CutAt
<1>8. b \in Seq(Int) /\ (b = <<>> \/ b = <<byte>>)
  <2>1. <<byte>> \in Seq(Int)
    BY <1>2
  <2> HIDE DEF extend, stuck, more
  <2> QED
    BY <2>1, BlockFacts
<1>9. lost \in Seq(Int) /\ (taken >= Len(held) => lost = <<>>)
  <2> HIDE DEF taken
  <2>1. lost \in Seq(Int) /\ Len(lost) = IF Len(held) < taken THEN 0 ELSE Len(held) - taken
    BY <1>0, <1>6, Cut
  <2>2. taken >= Len(held) => Len(lost) = 0
    BY <1>3, <1>6, <2>1
  <2> QED
    BY <2>1, <2>2, EmptySeq
<1>10. Takes(u, lost)
  <2>1. taken <= Len(held) + Len(rest)
    BY <1>3, <1>6
  <2> HIDE DEF taken
  <2> DEFINE p == Upto(rest, taken - Len(held))
  <2>2. /\ taken <= Len(held) => held = u \o After(held, taken)
        /\ taken > Len(held) =>
              /\ p \in Seq(Int) /\ p # <<>>
              /\ u = held \o p /\ rest = p \o After(rest, taken - Len(held))
    <3>1. held \in Seq(Int) /\ rest \in Seq(Int) /\ taken \in Nat
      BY <1>0, <1>6
    <3> QED
      BY <2>1, <3>1, CutConcat
  <2> HIDE DEF u, p
  <2>3. CASE taken <= Len(held)
    BY <1>1, <2>2, <2>3 DEF Takes
  <2>4. CASE ~(taken <= Len(held))
    <3>1. taken > Len(held) /\ taken >= Len(held)
      BY <1>3, <1>6, <2>4
    <3>2. rest' = After(rest, taken - Len(held))
      BY <1>1, <2>4
    <3> QED
      BY <1>9, <2>2, <3>1, <3>2 DEF Takes
  <2> QED
    BY <2>3, <2>4
<1>11. taken = Len(source) => lost = <<>> /\ rest' = <<>>
  <2> HIDE DEF taken, source
  <2> SUFFICES ASSUME taken = Len(source) PROVE lost = <<>> /\ rest' = <<>>
    OBVIOUS
  <2>1. taken >= Len(held) /\ taken - Len(held) = Len(rest) /\ Len(rest) \in Nat
    BY <1>3
  <2>2. Len(After(rest, Len(rest))) = 0 /\ After(rest, Len(rest)) \in Seq(Int)
    <3>1. Len(rest) <= Len(rest)
      BY <1>3
    <3> QED
      BY <1>0, <1>3, <3>1, CutAt
  <2>3. After(rest, Len(rest)) = <<>>
    BY <2>2, EmptySeq
  <2>4. taken <= Len(held) => Len(rest) = 0
    BY <1>3, <1>6, <2>1
  <2>5. Len(rest) = 0 => rest = <<>>
    BY <1>0, EmptySeq
  <2> QED
    BY <1>1, <1>9, <2>1, <2>3, <2>4, <2>5
<1>12. /\ u \o b \in Seq(Int) /\ FormatToNETASCII(u \o b) \in Seq(Int)
       /\ buf \in Seq(Int) /\ Len(buf) \in Nat
       /\ Len(buf) >= Len(u) + Len(b) /\ Len(u) \in Nat /\ Len(b) \in Nat
  <2> HIDE DEF u, b
  <2> DEFINE f == FormatToNETASCII(u \o b)
  <2>1. u \o b \in Seq(Int) /\ Len(u \o b) = Len(u) + Len(b)
    BY <1>7, <1>8, Concat
  <2>2. f \in Seq(Int) /\ Len(f) >= Len(u \o b)
    BY <2>1, Types, ToNotShorter
  <2>3. buf = EndLine(f)
    BY DEF Buffer
  <2> HIDE DEF f, buf
  <2>4. buf \in Seq(Int) /\ Len(f) <= Len(buf)
    BY <2>2, <2>3, EndLineCases
  <2>5. Len(f) \in Nat /\ Len(buf) \in Nat /\ Len(u) \in Nat /\ Len(b) \in Nat
    <3>1. u \in Seq(Int) /\ b \in Seq(Int) /\ f \in Seq(Int) /\ buf \in Seq(Int)
      BY <1>7, <1>8, <2>2, <2>4
    <3> QED
      BY <3>1
  <2>6. Len(buf) >= Len(u) + Len(b)
    BY <2>1, <2>2, <2>4, <2>5
  <2> QED
    BY <2>1, <2>2, <2>4, <2>5, <2>6 DEF f
<1>13. /\ out' = out \o Upto(buf, n) /\ UNCHANGED <<job, mode, text>>
       /\ phase' = IF Len(buf) < n THEN "end" ELSE "block"
       /\ held' = IF Len(buf) > n THEN After(buf, n) ELSE lost
  <2>1. Send(Upto(buf, n)) /\ held' = IF Len(buf) > n THEN After(buf, n) ELSE lost
    BY <1>1 DEF Surplus, Left
  <2> HIDE DEF buf, lost
  <2>2. Len(Upto(buf, n)) = IF Len(buf) < n THEN Len(buf) ELSE n
    BY <1>0, <1>12, Cut
  <2>3. Len(Upto(buf, n)) < n <=> Len(buf) < n
    BY <1>0, <1>12, <2>2
  <2> QED
    BY <2>1, <2>3 DEF Send
<1> HIDE DEF lost, b
<1>14. CASE Len(base) < n
  <2>1. ~extend /\ k = 0 /\ b = <<>>
    BY <1>4, <1>5, <1>14 DEF b
  <2>2. taken = Len(source) /\ Len(u) < n
    <3> HIDE DEF k, base, more, source, u
    <3> QED
      BY <1>0, <1>3, <1>4, <1>6, <1>7, <1>14, <2>1
  <2>3. TakesAll(u, b, lost)
    BY <1>11, <2>1, <2>2 DEF TakesAll
  <2> HIDE DEF taken, u, buf
  <2>4. Len(buf) <= n => After(buf, n) = <<>>
    <3>1. After(buf, n) \in Seq(Int) /\ Len(After(buf, n)) = IF Len(buf) < n THEN 0 ELSE Len(buf) - n
      BY <1>0, <1>12, Cut
    <3>2. Len(buf) <= n => Len(After(buf, n)) = 0
      BY <1>0, <1>12, <3>1
    <3> QED
      BY <3>1, <3>2, EmptySeq
  <2>5. held' = After(buf, n)
    <3>1. lost = <<>>
      BY <2>3 DEF TakesAll
    <3> QED
      BY <1>0, <1>12, <1>13, <2>4, <3>1
  <2>6. Sends(u, b)
    BY <1>13, <2>5 DEF Sends, buf
  <2>7. ~TakesPlain(u, b) /\ ~TakesLine(u, b)
    BY <1>0, <1>12, <2>2 DEF TakesPlain, TakesLine
  <2> QED
    BY <1>7, <1>8, <1>9, <1>10, <2>3, <2>6, <2>7
<1>15. CASE Len(base) = n
  <2>1. /\ Len(u) = n + k /\ n <= Len(source) /\ Len(source) = n + Len(more)
        /\ u[n] = base[n] /\ \A l \in 1 .. k : u[n + l] = more[l]
    <3>1. Len(u) = n + k /\ Len(source) = n + Len(more)
      BY <1>4, <1>6, <1>7, <1>15
    <3>2. n \in 1 .. taken /\ \A l \in 1 .. k : n + l \in 1 .. taken /\ l \in 1 .. Len(more)
      <4> HIDE DEF taken, k, base, more
      <4> QED
        <5>1. n \in Nat /\ n >= 8 /\ taken = n + k /\ k \in Nat /\ k <= Len(more) /\ Len(more) \in Nat
          BY <1>0, <1>4, <1>5, <1>6, <1>15
        <5> QED
          BY <5>1
    <3> HIDE DEF taken, k, base, more, source, u
    <3>3. n <= Len(source)
      BY <1>0, <1>4, <3>1
    <3> QED
      BY <1>4, <1>7, <1>15, <3>1, <3>2, <3>3
  <2>2. extend <=> Newline(base[n])
    BY <1>15
  <2>3. /\ extend /\ RanOut(more, stuck) => b = <<byte>>
        /\ ~(extend /\ RanOut(more, stuck)) => b = <<>>
    BY DEF b
  <2> HIDE DEF base, more, taken, source, extend, u, k
  <2>4. /\ RunsOut(u, b, lost) \/ TakesPlain(u, b) \/ TakesLine(u, b)
        /\ b = <<>> => TakesPlain(u, b) \/ TakesLine(u, b)
    <3>1. CASE ~extend
      <4>1. Len(u) = n /\ b = <<>> /\ ~Newline(u[n])
        BY <1>0, <1>5, <2>1, <2>2, <2>3, <3>1
      <4> QED
        BY <4>1 DEF TakesPlain
    <3>2. CASE extend /\ ~RanOut(more, stuck)
      <4>1. Len(u) > n /\ b = <<>> /\ Len(u) = n + k /\ k \in Nat /\ k >= 1
        BY <1>0, <1>5, <2>1, <2>3, <3>2
      <4>2. ~Newline(u[n + k])
        <5>1. k \in 1 .. k
          BY <4>1
        <5> QED
          BY <1>5, <2>1, <3>2, <5>1
      <4>3. \A j \in n .. Len(u) - 1 : Newline(u[j])
        <5>0. Len(u) - 1 = n + k - 1
          BY <1>0, <4>1
        <5> SUFFICES ASSUME NEW j \in n .. n + k - 1 PROVE Newline(u[j])
          BY <5>0, Zenon
        <5>1. j = n \/ (j - n \in 1 .. k - 1 /\ j - n \in 1 .. k /\ n + (j - n) = j)
          BY <1>0, <4>1
        <5>2. Newline(u[n])
          BY <2>1, <2>2, <3>2
        <5>3. \A l \in 1 .. k - 1 : Newline(more[l])
          BY <1>5, <3>2
        <5>4. j - n \in 1 .. k - 1 /\ j - n \in 1 .. k /\ n + (j - n) = j => Newline(u[j])
          <6> DEFINE l == j - n
          <6> HIDE DEF l
          <6>1. l \in 1 .. k - 1 /\ l \in 1 .. k /\ n + l = j => Newline(u[j])
            BY <2>1, <5>3
          <6> QED
            BY <6>1 DEF l
        <5> QED
          BY <5>1, <5>2, <5>4
      <4> QED
        BY <4>1, <4>2, <4>3 DEF TakesLine
    <3>3. CASE extend /\ RanOut(more, stuck)
      <4>1. /\ Len(u) >= n /\ Len(u) = n + k /\ k \in Nat /\ k = Len(more)
            /\ taken = Len(source) /\ b = <<byte>>
        BY <1>0, <1>4, <1>5, <1>7, <2>1, <2>3, <3>3
      <4>2. ~stuck => \A j \in n .. Len(u) : Newline(u[j])
        <5> SUFFICES ASSUME ~stuck, NEW j \in n .. n + k PROVE Newline(u[j])
          <6>1. Len(u) = n + k
            BY <4>1
          <6> QED
            BY <6>1
        <5>1. j = n \/ (j - n \in 1 .. k /\ n + (j - n) = j)
          BY <1>0, <4>1
        <5>2. Newline(u[n])
          BY <2>1, <2>2, <3>3
        <5>3. \A l \in 1 .. k : Newline(more[l])
          BY <1>5, <3>3
        <5>4. j - n \in 1 .. k /\ n + (j - n) = j => Newline(u[j])
          <6> DEFINE l == j - n
          <6> HIDE DEF l
          <6>1. l \in 1 .. k /\ n + l = j => Newline(u[j])
            BY <2>1, <5>3
          <6> QED
            BY <6>1 DEF l
        <5> QED
          BY <5>1, <5>2, <5>4
      <4>3. lost = <<>> /\ rest' = <<>>
        BY <1>11, <4>1
      <4>4. <<byte>> # <<>>
        BY <1>2, Front, BlockFacts
      <4> QED
        BY <4>1, <4>2, <4>3, <4>4 DEF RunsOut
    <3> QED
      BY <3>1, <3>2, <3>3
  <2>5. TakesPlain(u, b) \/ TakesLine(u, b) =>
           /\ buf = FormatToNETASCII(u) \o <<CR, LF>>
           /\ Len(buf) > n
    <3> SUFFICES ASSUME TakesPlain(u, b) \/ TakesLine(u, b)
                 PROVE  buf = FormatToNETASCII(u) \o <<CR, LF>> /\ Len(buf) > n
      OBVIOUS
    <3> DEFINE f == FormatToNETASCII(u)
               c == u[Len(u)]
    <3>1. Len(u) >= n /\ ~Newline(u[Len(u)]) /\ b = <<>>
      <4>1. Len(u) \in Nat /\ n \in Nat
        BY <1>0, <1>12
      <4>2. CASE TakesPlain(u, b)
        BY <4>1, <4>2 DEF TakesPlain
      <4>3. CASE TakesLine(u, b)
        BY <4>1, <4>3 DEF TakesLine
      <4> QED
        BY <4>2, <4>3
    <3>2. u # <<>> /\ u \o b = u
      <4>1. u # <<>>
        BY <1>0, <3>1, BlockFacts
      <4> QED
        BY <1>7, <3>1, <4>1, NoText
    <3>3. c \in Int /\ \E q \in Seq(Int) : u = q \o <<c>>
      BY <1>7, <3>2, RestAndLast
    <3>4. f \in Seq(Int) /\ Len(f) >= Len(u) /\ Len(f) \in Nat
      <4>1. f \in Seq(Int) /\ Len(f) >= Len(u)
        BY <1>7, Types, ToNotShorter
      <4> HIDE DEF f
      <4> QED
        BY <4>1
    <3>5. f[Len(f)] # LF
      <4>1. PICK q \in Seq(Int) : u = q \o <<c>>
        BY <3>3
      <4> DEFINE g == FormatToNETASCII(q)
                 d == <<c>>
      <4>2. f = g \o d /\ g \in Seq(Int)
        <5> HIDE DEF c
        <5>1. ~Newline(c)
          BY <3>1 DEF c
        <5>2. FormatToNETASCII(q \o <<c>>) = FormatToNETASCII(q) \o <<c>>
          BY <3>3, <5>1, ToLast
        <5> QED
          BY <4>1, <5>2, Types
      <4>3. d \in Seq(Int) /\ d # <<>> /\ Len(d) = 1 /\ d[1] = c
        <5> HIDE DEF c
        <5> QED
          BY <3>3, Front, BlockFacts
      <4> HIDE DEF f, g, d, c
      <4>4. f[Len(f)] = d[Len(d)]
        BY <4>2, <4>3, Ends
      <4> QED
        BY <3>1, <4>3, <4>4 DEF Newline, c
    <3>6. buf = EndLine(f)
      BY <3>2 DEF buf, Buffer
    <3> HIDE DEF f, buf
    <3>7. EndLine(f) = f \o <<CR, LF>>
      <4>1. Len(f) >= n
        BY <1>0, <1>12, <3>1, <3>4
      <4> QED
        BY <3>4, <3>5, <4>1, EndLineCases
    <3>8. Len(f \o <<CR, LF>>) = Len(f) + 2
      BY <3>4, BlockFacts, Concat
    <3> QED
      BY <1>0, <1>12, <3>1, <3>4, <3>6, <3>7, <3>8 DEF f
  <2> HIDE DEF buf
  <2>6. Len(buf) > n
    <3>1. CASE b = <<>>
      BY <2>4, <2>5, <3>1
    <3>2. CASE b # <<>>
      <4>1. Len(b) > 0
        BY <1>8, <1>12, <3>2, EmptySeq
      <4> QED
        BY <1>0, <1>5, <1>12, <2>1, <4>1
    <3> QED
      BY <3>1, <3>2
  <2>7. Sends(u, b)
    BY <1>0, <1>12, <1>13, <2>6 DEF Sends, buf
  <2>8. ~(Len(buf) <= n)
    BY <1>0, <1>12, <2>6
  <2> QED
    BY <1>7, <1>8, <1>9, <1>10, <2>4, <2>5, <2>7, <2>8 DEF buf
<1>16. Len(base) < n \/ Len(base) = n
  <2> HIDE DEF base
  <2> QED
    BY <1>0, <1>4
<1> QED
  BY <1>14, <1>15, <1>16

-----------------------------------------------------------------------------
(* Where a text keeps its characters.                                       *)

\* A place in one of two texts.
LEMMA PlaceIn ==
    ASSUME NEW s \in Seq(Int), NEW t \in Seq(Int), NEW i \in 1 .. Len(s \o t)
    PROVE  \/ i \in 1 .. Len(s) /\ (s \o t)[i] = s[i]
           \/ \E j \in 1 .. Len(t) : i = Len(s) + j /\ (s \o t)[i] = t[j]
<1>1. /\ Len(s \o t) = Len(s) + Len(t)
      /\ \A k \in 1 .. Len(s) : (s \o t)[k] = s[k]
      /\ \A j \in 1 .. Len(t) : (s \o t)[Len(s) + j] = t[j]
  BY Concat
<1>2. Len(s) \in Nat /\ Len(t) \in Nat
  OBVIOUS
<1>3. i \in 1 .. Len(s) \/ (i - Len(s) \in 1 .. Len(t) /\ i = Len(s) + (i - Len(s)))
  BY <1>1, <1>2
<1>4. CASE i \in 1 .. Len(s)
  BY <1>1, <1>4
<1>5. CASE i - Len(s) \in 1 .. Len(t) /\ i = Len(s) + (i - Len(s))
  <2> DEFINE j == i - Len(s)
  <2>1. j \in 1 .. Len(t) /\ i = Len(s) + j
    BY <1>5
  <2> HIDE DEF j
  <2> QED
    BY <1>1, <2>1
<1> QED
  BY <1>3, <1>4, <1>5

\* None of two texts is kept when none of each is.
LEMMA NoneKeptConcat ==
    ASSUME NEW s \in Seq(Int), NEW t \in Seq(Int)
    PROVE  NoneKept(s \o t) <=> NoneKept(s) /\ NoneKept(t)
<1>1. DataOf(s \o t) = DataOf(s) \o DataOf(t)
  BY CharConcat
<1>2. s \o t \in Seq(Int) /\ DataOf(s) \in Seq(Int) /\ DataOf(t) \in Seq(Int)
  BY Concat, CharType
<1> DEFINE x == DataOf(s)
           y == DataOf(t)
<1> HIDE DEF x, y
<1>3. x \in Seq(Int) /\ y \in Seq(Int) => (x \o y = <<>> <=> x = <<>> /\ y = <<>>)
  BY Ends, NoText
<1>4. /\ NoneKept(s \o t) <=> DataOf(s \o t) = <<>>
      /\ NoneKept(s) <=> x = <<>>
      /\ NoneKept(t) <=> y = <<>>
  BY <1>2, CharNone DEF x, y
<1> QED
  BY <1>1, <1>2, <1>3, <1>4 DEF x, y

\* Nor is then any of what it is converted to.
LEMMA NoneKeptTo ==
    ASSUME NEW s \in Seq(Int), NoneKept(s)
    PROVE  NoneKept(FormatToNETASCII(s))
<1>1. FormatToNETASCII(s) \in Seq(Int)
  BY Types
<1> QED
  BY <1>1, CharNone, CharTo

\* CR LF has nothing to be kept, nor has CR and a null.
LEMMA NoneKeptPair ==
    /\ NoneKept(<<CR, LF>>) /\ NoneKept(<<CR, NUL>>)
    /\ \A byte \in UninitByte : NoneKept(<<byte>>)
<1>1. \A byte \in UninitByte : NoneKept(<<byte>>)
  BY NotKept DEF NoneKept
<1>2. NoneKept(<<CR, LF>>) /\ NoneKept(<<CR, NUL>>)
  <2>1. \A a, b : ~Kept(a) /\ ~Kept(b) => NoneKept(<<a, b>>)
    BY DEF NoneKept
  <2> QED
    BY <2>1, NotKept
<1> QED
  BY <1>1, <1>2

\* Every CR has its LF.
NoLone(s) == \A i \in 1 .. Len(s) : s[i] = CR => i < Len(s) /\ s[i + 1] = LF

\* Of the end of a text.
LEMMA LoneSuffix ==
    ASSUME NEW s \in Seq(Int), NEW t \in Seq(Int)
    PROVE  /\ LoneCRLast(s \o t) => LoneCRLast(t)
           /\ NoLone(s \o t) => NoLone(t)
<1> DEFINE d == s \o t
<1>1. /\ Len(d) = Len(s) + Len(t) /\ Len(s) \in Nat /\ Len(t) \in Nat
      /\ \A j \in 1 .. Len(t) : d[Len(s) + j] = t[j]
  BY Concat
<1> HIDE DEF d
<1>2. ASSUME LoneCRLast(d) PROVE LoneCRLast(t)
  <2> SUFFICES ASSUME NEW i \in 1 .. Len(t), t[i] = CR, ~(i < Len(t) /\ t[i + 1] = LF),
                      NEW j \in i + 1 .. Len(t)
               PROVE  ~Kept(t[j])
    BY DEF LoneCRLast
  <2> DEFINE k == Len(s) + i
             l == Len(s) + j
  <2>1. k \in 1 .. Len(d) /\ l \in k + 1 .. Len(d) /\ j \in 1 .. Len(t)
    BY <1>1
  <2>2. d[k] = CR /\ d[l] = t[j]
    BY <1>1, <2>1
  <2>3. ~(k < Len(d) /\ d[k + 1] = LF)
    <3>1. k < Len(d) => i < Len(t) /\ i + 1 \in 1 .. Len(t) /\ k + 1 = Len(s) + (i + 1)
      <4>1. Len(d) = Len(s) + Len(t) /\ Len(s) \in Nat /\ Len(t) \in Nat /\ i \in 1 .. Len(t)
        BY <1>1
      <4> QED
        BY <4>1
    <3>2. i + 1 \in 1 .. Len(t) => d[Len(s) + (i + 1)] = t[i + 1]
      BY <1>1
    <3> QED
      BY <3>1, <3>2
  <2> HIDE DEF k, l
  <2> QED
    BY <1>2, <2>1, <2>2, <2>3 DEF LoneCRLast
<1>3. ASSUME NoLone(d) PROVE NoLone(t)
  <2> SUFFICES ASSUME NEW i \in 1 .. Len(t), t[i] = CR
               PROVE  i < Len(t) /\ t[i + 1] = LF
    BY DEF NoLone
  <2> DEFINE k == Len(s) + i
  <2>1. k \in 1 .. Len(d) /\ (k < Len(d) => i + 1 \in 1 .. Len(t) /\ i < Len(t))
    BY <1>1
  <2>2. d[k] = CR
    BY <1>1
  <2>3. k < Len(d) /\ d[k + 1] = LF
    <3> HIDE DEF k
    <3> QED
      BY <1>3, <2>1, <2>2 DEF NoLone
  <2>4. i + 1 \in 1 .. Len(t) /\ k + 1 = Len(s) + (i + 1)
    BY <1>1, <2>1, <2>3
  <2>5. d[Len(s) + (i + 1)] = t[i + 1]
    BY <1>1, <2>4
  <2> QED
    BY <2>1, <2>3, <2>4, <2>5
<1> QED
  BY <1>2, <1>3 DEF d

\* Two texts, one behind the other.
LEMMA LoneConcat ==
    ASSUME NEW s \in Seq(Int), NEW t \in Seq(Int)
    PROVE  /\ LoneCRLast(s) /\ LoneCRLast(t) /\ (NoneKept(t) \/ NoLone(s)) =>
                 LoneCRLast(s \o t)
           /\ NoLone(s) /\ NoLone(t) => NoLone(s \o t)
<1> DEFINE d == s \o t
<1>1. /\ Len(d) = Len(s) + Len(t) /\ Len(s) \in Nat /\ Len(t) \in Nat
      /\ \A i \in 1 .. Len(s) : d[i] = s[i]
      /\ \A j \in 1 .. Len(t) : d[Len(s) + j] = t[j]
  BY Concat
<1>2. \A i \in 1 .. Len(d) : \/ i \in 1 .. Len(s) /\ d[i] = s[i]
                             \/ \E j \in 1 .. Len(t) : i = Len(s) + j /\ d[i] = t[j]
  BY PlaceIn
<1> HIDE DEF d
<1>3. ASSUME NEW i \in 1 .. Len(s), i < Len(s), s[i + 1] = LF
      PROVE  i < Len(d) /\ d[i + 1] = LF
  <2>1. i + 1 \in 1 .. Len(s) /\ i < Len(d)
    BY <1>1, <1>3
  <2> QED
    BY <1>1, <1>3, <2>1
<1>4. ASSUME NEW j \in 1 .. Len(t), j < Len(t), t[j + 1] = LF
      PROVE  Len(s) + j < Len(d) /\ d[Len(s) + j + 1] = LF
  <2>1. j + 1 \in 1 .. Len(t) /\ Len(s) + j < Len(d) /\ Len(s) + j + 1 = Len(s) + (j + 1)
    BY <1>1, <1>4
  <2>2. d[Len(s) + (j + 1)] = t[j + 1]
    BY <1>1, <2>1
  <2> QED
    BY <1>4, <2>1, <2>2
<1>5. ASSUME LoneCRLast(s), LoneCRLast(t), NoneKept(t) \/ NoLone(s)
      PROVE  LoneCRLast(d)
  <2> SUFFICES ASSUME NEW i \in 1 .. Len(d), d[i] = CR, ~(i < Len(d) /\ d[i + 1] = LF),
                      NEW k \in i + 1 .. Len(d)
               PROVE  ~Kept(d[k])
    BY DEF LoneCRLast
  <2>0. k \in 1 .. Len(d)
    BY <1>1
  <2>1. CASE i \in 1 .. Len(s) /\ d[i] = s[i]
    <3>1. ~(i < Len(s) /\ s[i + 1] = LF) /\ s[i] = CR
      BY <1>3, <2>1
    <3>2. ~NoLone(s)
      BY <2>1, <3>1 DEF NoLone
    <3>3. CASE k \in 1 .. Len(s) /\ d[k] = s[k]
      <4>1. k \in i + 1 .. Len(s)
        BY <1>1, <3>3
      <4> QED
        BY <1>5, <2>1, <3>1, <3>3, <4>1 DEF LoneCRLast
    <3>4. CASE \E j \in 1 .. Len(t) : k = Len(s) + j /\ d[k] = t[j]
      BY <1>5, <3>2, <3>4 DEF NoneKept
    <3> QED
      BY <1>2, <2>0, <3>3, <3>4
  <2>2. CASE \E j \in 1 .. Len(t) : i = Len(s) + j /\ d[i] = t[j]
    <3>1. PICK j \in 1 .. Len(t) : i = Len(s) + j /\ d[i] = t[j]
      BY <2>2
    <3>2. ~(j < Len(t) /\ t[j + 1] = LF) /\ t[j] = CR
      BY <1>4, <3>1
    <3> DEFINE l == k - Len(s)
    <3>3. l \in j + 1 .. Len(t) /\ l \in 1 .. Len(t) /\ k = Len(s) + l
      BY <1>1, <3>1
    <3> HIDE DEF l
    <3>4. d[k] = t[l]
      BY <1>1, <3>3
    <3> QED
      BY <1>5, <3>2, <3>3, <3>4 DEF LoneCRLast
  <2> QED
    BY <1>2, <2>1, <2>2
<1>6. ASSUME NoLone(s), NoLone(t) PROVE NoLone(d)
  <2> SUFFICES ASSUME NEW i \in 1 .. Len(d), d[i] = CR
               PROVE  i < Len(d) /\ d[i + 1] = LF
    BY DEF NoLone
  <2>1. CASE i \in 1 .. Len(s) /\ d[i] = s[i]
    BY <1>3, <1>6, <2>1 DEF NoLone
  <2>2. CASE \E j \in 1 .. Len(t) : i = Len(s) + j /\ d[i] = t[j]
    <3>1. PICK j \in 1 .. Len(t) : i = Len(s) + j /\ d[i] = t[j]
      BY <2>2
    <3>2. j < Len(t) /\ t[j + 1] = LF
      BY <1>6, <3>1 DEF NoLone
    <3> QED
      BY <1>4, <3>1, <3>2
  <2> QED
    BY <1>2, <2>1, <2>2
<1> QED
  BY <1>5, <1>6 DEF d

\* A CR without its LF before the end of the first of two texts has nothing to
\* be kept behind it in either.
LEMMA LoneSplit ==
    ASSUME NEW s \in Seq(Int), NEW t \in Seq(Int), LoneCRLast(s \o t),
           s # <<>> => s[Len(s)] # CR
    PROVE  LoneCRLast(s) /\ (NoneKept(t) \/ NoLone(s))
<1> DEFINE d == s \o t
<1>1. /\ Len(d) = Len(s) + Len(t) /\ Len(s) \in Nat /\ Len(t) \in Nat
      /\ \A i \in 1 .. Len(s) : d[i] = s[i]
      /\ \A j \in 1 .. Len(t) : d[Len(s) + j] = t[j]
  BY Concat
<1>2. LoneCRLast(d)
  OBVIOUS
<1> HIDE DEF d
<1>3. ASSUME NEW i \in 1 .. Len(s), s[i] = CR
      PROVE  i < Len(s) /\ i \in 1 .. Len(d) /\ d[i] = CR /\ d[i + 1] = s[i + 1]
  <2>1. s # <<>>
    BY <1>1, BlockFacts
  <2>2. i # Len(s)
    BY <1>3, <2>1
  <2>3. i < Len(s) /\ i + 1 \in 1 .. Len(s) /\ i \in 1 .. Len(d)
    BY <1>1, <2>2
  <2> QED
    BY <1>1, <1>3, <2>3
<1>4. LoneCRLast(s)
  <2> SUFFICES ASSUME NEW i \in 1 .. Len(s), s[i] = CR, ~(i < Len(s) /\ s[i + 1] = LF),
                      NEW j \in i + 1 .. Len(s)
               PROVE  ~Kept(s[j])
    BY DEF LoneCRLast
  <2>1. j \in i + 1 .. Len(d) /\ j \in 1 .. Len(s)
    BY <1>1
  <2>2. ~(i < Len(d) /\ d[i + 1] = LF) /\ i \in 1 .. Len(d) /\ d[i] = CR
    BY <1>3
  <2>3. ~Kept(d[j])
    BY <1>2, <2>1, <2>2 DEF LoneCRLast
  <2> QED
    BY <1>1, <2>1, <2>3
<1>5. ASSUME ~NoLone(s) PROVE NoneKept(t)
  <2>1. PICK i \in 1 .. Len(s) : s[i] = CR /\ ~(i < Len(s) /\ s[i + 1] = LF)
    BY <1>5 DEF NoLone
  <2> SUFFICES ASSUME NEW j \in 1 .. Len(t) PROVE ~Kept(t[j])
    BY DEF NoneKept
  <2>2. ~(i < Len(d) /\ d[i + 1] = LF) /\ i \in 1 .. Len(d) /\ d[i] = CR
    BY <1>3, <2>1
  <2>3. Len(s) + j \in i + 1 .. Len(d)
    BY <1>1
  <2>4. ~Kept(d[Len(s) + j])
    BY <1>2, <2>2, <2>3 DEF LoneCRLast
  <2> QED
    BY <1>1, <2>4
<1> QED
  BY <1>4, <1>5

\* Short texts.
LEMMA LonePieces ==
    /\ NoLone(<<>>) /\ LoneCRLast(<<>>)
    /\ NoLone(<<CR, LF>>) /\ LoneCRLast(<<CR, LF>>)
    /\ LoneCRLast(<<CR, NUL>>)
    /\ \A c \in Int : LoneCRLast(<<c>>) /\ (c # CR => NoLone(<<c>>))
<1>1. NoLone(<<>>) /\ LoneCRLast(<<>>)
  BY DEF NoLone, LoneCRLast
<1>2. \A c \in Int : LoneCRLast(<<c>>) /\ (c # CR => NoLone(<<c>>))
  BY DEF NoLone, LoneCRLast
<1>3. \A a, b \in Int : ~Kept(b) => LoneCRLast(<<a, b>>)
  <2> SUFFICES ASSUME NEW a \in Int, NEW b \in Int, ~Kept(b) PROVE LoneCRLast(<<a, b>>)
    OBVIOUS
  <2>1. \A i \in 1 .. 2 : \A j \in i + 1 .. 2 : j = 2
    OBVIOUS
  <2>2. Len(<<a, b>>) = 2 /\ <<a, b>>[2] = b
    OBVIOUS
  <2> QED
    BY <2>1, <2>2 DEF LoneCRLast
<1>4. NoLone(<<CR, LF>>)
  <2> DEFINE p == <<CR, LF>>
  <2>1. Len(p) = 2 /\ p[1] = CR /\ p[2] = LF /\ LF # CR
    BY DEF CR, LF
  <2> HIDE DEF p
  <2>2. \A i \in 1 .. 2 : i = 1 \/ i = 2
    OBVIOUS
  <2>3. NoLone(p)
    BY <2>1, <2>2 DEF NoLone
  <2> QED
    BY <2>3 DEF p
<1> QED
  BY <1>1, <1>2, <1>3, <1>4, NotKept, BlockFacts

\* The conversion adds a CR without LF only where there was one.
LEMMA LoneTo ==
    ASSUME NEW s \in Seq(Int)
    PROVE  /\ LoneCRLast(s) => LoneCRLast(FormatToNETASCII(s))
           /\ NoLone(s) => NoLone(FormatToNETASCII(s))
<1> DEFINE F(x) == FormatToNETASCII(x)
           Holds(x) == (LoneCRLast(x) => LoneCRLast(F(x))) /\ (NoLone(x) => NoLone(F(x)))
           S == {x \in Seq(Int) : Holds(x)}
<1>0. /\ \A x \in Seq(Int) : F(x) \in Seq(Int)
      /\ CR \in Int /\ LF \in Int /\ NUL \in Int /\ CR # LF
  BY Types DEF CR, LF, NUL
<1>1. <<>> \in S
  BY OfEmpty, LonePieces
<1>2. ASSUME NEW p \in Seq(Int), NEW e \in Seq(Int), NEW r \in Seq(Int), r \in S,
             F(p \o r) = e \o F(r), NoLone(e), LoneCRLast(e)
      PROVE  p \o r \in S
  <2>1. p \o r \in Seq(Int)
    BY Concat
  <2>2. (LoneCRLast(p \o r) => LoneCRLast(r)) /\ (NoLone(p \o r) => NoLone(r))
    BY LoneSuffix
  <2> DEFINE f == F(r)
  <2>3. f \in Seq(Int) /\ (LoneCRLast(r) => LoneCRLast(f)) /\ (NoLone(r) => NoLone(f))
    BY <1>0, <1>2
  <2> HIDE DEF f
  <2>4. (LoneCRLast(f) => LoneCRLast(e \o f)) /\ (NoLone(f) => NoLone(e \o f))
    BY <1>2, <2>3, LoneConcat
  <2>5. F(p \o r) = e \o f
    BY <1>2 DEF f
  <2> HIDE DEF F
  <2> QED
    BY <2>1, <2>2, <2>3, <2>4, <2>5
<1>3. ASSUME NEW r \in Seq(Int), r \in S PROVE <<CR, LF>> \o r \in S
  <2> DEFINE p == <<CR, LF>>
  <2>1. F(p \o r) = p \o F(r)
    BY ToEquations
  <2>2. p \in Seq(Int) /\ NoLone(p) /\ LoneCRLast(p)
    BY LonePieces, BlockFacts
  <2> HIDE DEF F, S, p
  <2>3. p \o r \in S
    BY <1>2, <1>3, <2>1, <2>2
  <2> QED
    BY <2>3 DEF p
<1>4. ASSUME NEW c \in Int, NEW r \in Seq(Int),
             r \in S /\ ~(c = CR /\ r # <<>> /\ r[1] = LF)
      PROVE  <<c>> \o r \in S
  <2> DEFINE p == <<c>>
             e == Encoded(c)
  <2>1. F(p \o r) = e \o F(r)
    BY <1>4, ToEquations
  <2>2. p \in Seq(Int) /\ e \in Seq(Int) /\ Len(p) = 1 /\ p[1] = c
    BY EncodedFacts
  <2>3. CASE c # CR
    <3>1. e = <<CR, LF>> \/ e = <<c>>
      BY <2>3 DEF Encoded
    <3>2. NoLone(e) /\ LoneCRLast(e)
      BY <2>3, <3>1, LonePieces
    <3> HIDE DEF F, S, p, e
    <3>3. p \o r \in S
      BY <1>2, <1>4, <2>1, <2>2, <3>2
    <3> QED
      BY <3>3 DEF p
  <2>4. CASE c = CR
    <3>1. e = <<CR, NUL>> /\ LoneCRLast(e)
      BY <2>4, LonePieces DEF Encoded
    <3> DEFINE d == p \o r
    <3> HIDE DEF p, e
    <3>2. /\ d \in Seq(Int) /\ Len(d) = 1 + Len(r) /\ Len(r) \in Nat
          /\ \A i \in 1 .. Len(p) : d[i] = p[i]
          /\ \A j \in 1 .. Len(r) : d[Len(p) + j] = r[j]
      <4>1. /\ d \in Seq(Int) /\ Len(d) = Len(p) + Len(r)
            /\ \A i \in 1 .. Len(p) : d[i] = p[i]
            /\ \A j \in 1 .. Len(r) : d[Len(p) + j] = r[j]
        BY <2>2, Concat
      <4>2. Len(r) \in Nat
        OBVIOUS
      <4> HIDE DEF d
      <4> QED
        BY <2>2, <4>1, <4>2
    <3> HIDE DEF d
    <3>3. /\ 1 \in 1 .. Len(d) /\ d[1] = CR /\ \A j \in 1 .. Len(r) : d[1 + j] = r[j]
      <4>1. 1 \in 1 .. 1
        OBVIOUS
      <4>2. 1 \in 1 .. Len(d)
        BY <3>2
      <4> QED
        BY <2>2, <2>4, <3>2, <4>1, <4>2
    <3>4. ~(1 < Len(d) /\ d[1 + 1] = LF)
      <4>1. 1 < Len(d) => 1 \in 1 .. Len(r)
        BY <3>2
      <4>2. 1 \in 1 .. Len(r) => r # <<>> /\ d[1 + 1] = r[1]
        BY <3>3, BlockFacts
      <4> QED
        BY <1>4, <2>4, <4>1, <4>2
    <3>5. ~NoLone(d)
      BY <3>3, <3>4 DEF NoLone
    <3>6. ASSUME LoneCRLast(d) PROVE LoneCRLast(F(d))
      <4>1. NoneKept(r)
        <5> SUFFICES ASSUME NEW j \in 1 .. Len(r) PROVE ~Kept(r[j])
          BY DEF NoneKept
        <5>1. 1 + j \in 1 + 1 .. Len(d)
          BY <3>2
        <5> QED
          BY <3>3, <3>4, <3>6, <5>1 DEF LoneCRLast
      <4> DEFINE f == F(r)
      <4>2. NoneKept(f) /\ f \in Seq(Int)
        BY <1>0, <4>1, NoneKeptTo
      <4>3. LoneCRLast(f)
        <5>1. LoneCRLast(r)
          BY <2>2, <3>6, LoneSuffix DEF d
        <5> QED
          BY <1>4, <5>1
      <4> HIDE DEF f
      <4>4. LoneCRLast(e \o f)
        BY <2>2, <3>1, <4>2, <4>3, LoneConcat
      <4> QED
        BY <2>1, <4>4 DEF f, d
    <3> HIDE DEF F
    <3>7. d \in S
      BY <3>2, <3>5, <3>6
    <3> QED
      BY <3>7 DEF d, p
  <2> QED
    BY <2>3, <2>4
<1>5. s \in S
  <2> HIDE DEF S
  <2> QED
    BY <1>1, <1>3, <1>4, TextInduction
<1> QED
  BY <1>5

AllNewlines(s) == \A i \in 1 .. Len(s) : Newline(s[i])

\* Newlines that are all complete stay newlines.
LEMMA NewlinesTo ==
    ASSUME NEW s \in Seq(Int), AllNewlines(s), NoLone(s)
    PROVE  AllNewlines(FormatToNETASCII(s))
<1> DEFINE F(x) == FormatToNETASCII(x)
           Holds(x) == AllNewlines(x) /\ NoLone(x) => AllNewlines(F(x))
           S == {x \in Seq(Int) : Holds(x)}
<1>0. /\ \A x \in Seq(Int) : F(x) \in Seq(Int)
      /\ CR \in Int /\ LF \in Int /\ NUL \in Int /\ CR # LF
  BY Types DEF CR, LF, NUL
<1>1. <<>> \in S
  BY OfEmpty
<1>2. ASSUME NEW x \in Seq(Int), NEW y \in Seq(Int)
      PROVE  AllNewlines(x \o y) <=> AllNewlines(x) /\ AllNewlines(y)
  <2>1. /\ Len(x \o y) = Len(x) + Len(y) /\ Len(x) \in Nat /\ Len(y) \in Nat
        /\ \A i \in 1 .. Len(x) : (x \o y)[i] = x[i]
        /\ \A j \in 1 .. Len(y) : (x \o y)[Len(x) + j] = y[j]
    BY Concat
  <2>2. \A i \in 1 .. Len(x \o y) :
           \/ i \in 1 .. Len(x) /\ (x \o y)[i] = x[i]
           \/ \E j \in 1 .. Len(y) : i = Len(x) + j /\ (x \o y)[i] = y[j]
    BY PlaceIn
  <2> DEFINE d == x \o y
  <2> HIDE DEF d
  <2>3. /\ \A i \in 1 .. Len(x) : i \in 1 .. Len(d)
        /\ \A j \in 1 .. Len(y) : Len(x) + j \in 1 .. Len(d)
    BY <2>1 DEF d
  <2>4. AllNewlines(d) <=> AllNewlines(x) /\ AllNewlines(y)
    BY <2>1, <2>2, <2>3 DEF AllNewlines, d
  <2> QED
    BY <2>4 DEF d
<1>3. AllNewlines(<<CR, LF>>)
  <2> DEFINE p == <<CR, LF>>
  <2>1. Len(p) = 2 /\ p[1] = CR /\ p[2] = LF
    OBVIOUS
  <2> HIDE DEF p
  <2>2. \A i \in 1 .. 2 : i = 1 \/ i = 2
    OBVIOUS
  <2>3. AllNewlines(p)
    BY <2>1, <2>2 DEF AllNewlines, Newline
  <2> QED
    BY <2>3 DEF p
<1>4. ASSUME NEW p \in Seq(Int), NEW e \in Seq(Int), NEW r \in Seq(Int), r \in S,
             F(p \o r) = e \o F(r), AllNewlines(p) /\ NoLone(p \o r) => AllNewlines(e)
      PROVE  p \o r \in S
  <2>1. p \o r \in Seq(Int)
    BY Concat
  <2>2. NoLone(p \o r) => NoLone(r)
    BY LoneSuffix
  <2> DEFINE f == F(r)
  <2>3. f \in Seq(Int) /\ (AllNewlines(r) /\ NoLone(r) => AllNewlines(f))
    BY <1>0, <1>4
  <2>4. F(p \o r) = e \o f
    BY <1>4
  <2>5. AllNewlines(p \o r) <=> AllNewlines(p) /\ AllNewlines(r)
    BY <1>2
  <2> HIDE DEF f
  <2>6. AllNewlines(e \o f) <=> AllNewlines(e) /\ AllNewlines(f)
    BY <1>2, <2>3
  <2> HIDE DEF F
  <2> QED
    BY <1>4, <2>1, <2>2, <2>3, <2>4, <2>5, <2>6
<1>5. ASSUME NEW r \in Seq(Int), r \in S PROVE <<CR, LF>> \o r \in S
  <2> DEFINE p == <<CR, LF>>
  <2>1. F(p \o r) = p \o F(r)
    BY ToEquations
  <2>2. p \in Seq(Int)
    BY BlockFacts
  <2> HIDE DEF F, S, p
  <2>3. p \o r \in S
    BY <1>4, <1>5, <2>1, <2>2
  <2> QED
    BY <2>3 DEF p
<1>6. ASSUME NEW c \in Int, NEW r \in Seq(Int),
             r \in S /\ ~(c = CR /\ r # <<>> /\ r[1] = LF)
      PROVE  <<c>> \o r \in S
  <2> DEFINE p == <<c>>
             e == Encoded(c)
  <2>1. F(p \o r) = e \o F(r)
    BY <1>6, ToEquations
  <2>2. p \in Seq(Int) /\ e \in Seq(Int) /\ Len(p) = 1 /\ p[1] = c
    BY EncodedFacts
  <2>3. AllNewlines(p) /\ NoLone(p \o r) => AllNewlines(e)
    <3> SUFFICES ASSUME AllNewlines(p), NoLone(p \o r) PROVE AllNewlines(e)
      OBVIOUS
    <3>1. c = CR \/ c = LF
      <4>1. 1 \in 1 .. 1
        OBVIOUS
      <4> QED
        BY <2>2, <4>1 DEF AllNewlines, Newline
    <3>2. c # CR
      <4> SUFFICES ASSUME c = CR PROVE FALSE
        OBVIOUS
      <4> DEFINE d == p \o r
      <4>0. NoLone(d)
        OBVIOUS
      <4> HIDE DEF p
      <4>1. /\ d \in Seq(Int) /\ Len(d) = 1 + Len(r) /\ Len(r) \in Nat
            /\ \A i \in 1 .. Len(p) : d[i] = p[i]
            /\ \A j \in 1 .. Len(r) : d[Len(p) + j] = r[j]
        <5>1. /\ d \in Seq(Int) /\ Len(d) = Len(p) + Len(r)
              /\ \A i \in 1 .. Len(p) : d[i] = p[i]
              /\ \A j \in 1 .. Len(r) : d[Len(p) + j] = r[j]
          BY <2>2, Concat
        <5>2. Len(r) \in Nat
          OBVIOUS
        <5> HIDE DEF d
        <5> QED
          BY <2>2, <5>1, <5>2
      <4> HIDE DEF d
      <4>2. 1 \in 1 .. Len(p) /\ 1 \in 1 .. Len(d)
        BY <2>2, <4>1
      <4>3. 1 < Len(d) /\ d[1 + 1] = LF
        BY <2>2, <4>0, <4>1, <4>2 DEF NoLone
      <4>4. 1 \in 1 .. Len(r)
        BY <4>1, <4>3
      <4>5. r # <<>> /\ r[1] = LF
        BY <2>2, <4>1, <4>3, <4>4, BlockFacts
      <4> QED
        BY <1>6, <4>5
    <3> QED
      BY <1>3, <3>1, <3>2 DEF Encoded
  <2> HIDE DEF F, S, p, e
  <2>4. p \o r \in S
    BY <1>4, <1>6, <2>1, <2>2, <2>3
  <2> QED
    BY <2>4 DEF p
<1>7. s \in S
  <2> HIDE DEF S
  <2> QED
    BY <1>1, <1>5, <1>6, TextInduction
<1> QED
  BY <1>7

\* No text more than doubles.
LEMMA ToAtMostTwice ==
    ASSUME NEW s \in Seq(Int)
    PROVE  Len(FormatToNETASCII(s)) <= 2 * Len(s)
<1> DEFINE F(x) == FormatToNETASCII(x)
           S == {x \in Seq(Int) : Len(F(x)) <= 2 * Len(x)}
<1>0. \A x \in Seq(Int) : F(x) \in Seq(Int) /\ Len(F(x)) \in Nat
  <2> SUFFICES ASSUME NEW x \in Seq(Int) PROVE F(x) \in Seq(Int) /\ Len(F(x)) \in Nat
    OBVIOUS
  <2>1. F(x) \in Seq(Int)
    BY Types
  <2> HIDE DEF F
  <2> QED
    BY <2>1
<1>1. <<>> \in S
  BY OfEmpty
<1>2. ASSUME NEW p \in Seq(Int), NEW e \in Seq(Int), NEW r \in Seq(Int), r \in S,
             F(p \o r) = e \o F(r), Len(e) <= 2 * Len(p)
      PROVE  p \o r \in S
  <2>1. p \o r \in Seq(Int) /\ Len(p \o r) = Len(p) + Len(r)
    BY Concat
  <2> DEFINE f == F(r)
  <2>2. f \in Seq(Int) /\ Len(f) \in Nat /\ Len(f) <= 2 * Len(r) /\ F(p \o r) = e \o f
    BY <1>0, <1>2
  <2> HIDE DEF f
  <2>3. Len(e \o f) = Len(e) + Len(f)
    BY <2>2, Concat
  <2>4. Len(p) \in Nat /\ Len(r) \in Nat /\ Len(e) \in Nat
    OBVIOUS
  <2>5. Len(e \o f) <= 2 * Len(p \o r)
    BY <1>2, <2>1, <2>2, <2>3, <2>4
  <2> HIDE DEF F
  <2> QED
    BY <2>1, <2>2, <2>5
<1>3. ASSUME NEW r \in Seq(Int), r \in S PROVE <<CR, LF>> \o r \in S
  <2> DEFINE p == <<CR, LF>>
  <2>1. F(p \o r) = p \o F(r)
    BY ToEquations
  <2>2. p \in Seq(Int) /\ Len(p) <= 2 * Len(p)
    BY BlockFacts
  <2> HIDE DEF F, S, p
  <2>3. p \o r \in S
    BY <1>2, <1>3, <2>1, <2>2
  <2> QED
    BY <2>3 DEF p
<1>4. ASSUME NEW c \in Int, NEW r \in Seq(Int),
             r \in S /\ ~(c = CR /\ r # <<>> /\ r[1] = LF)
      PROVE  <<c>> \o r \in S
  <2> DEFINE p == <<c>>
             e == Encoded(c)
  <2>1. F(p \o r) = e \o F(r)
    BY <1>4, ToEquations
  <2>2. p \in Seq(Int) /\ e \in Seq(Int) /\ Len(e) <= 2 * Len(p)
    <3>1. e \in Seq(Int)
      BY EncodedFacts
    <3>2. Len(e) <= 2
      BY DEF Encoded
    <3>3. p \in Seq(Int) /\ Len(p) = 1
      OBVIOUS
    <3> QED
      BY <3>1, <3>2, <3>3
  <2> HIDE DEF F, S, p, e
  <2>3. p \o r \in S
    BY <1>2, <1>4, <2>1, <2>2
  <2> QED
    BY <2>3 DEF p
<1>5. s \in S
  <2> HIDE DEF S
  <2> QED
    BY <1>1, <1>3, <1>4, TextInduction
<1> QED
  BY <1>5

-----------------------------------------------------------------------------
(* Where a surplus keeps its characters.                                    *)

\* Behind place m nothing is kept, or one character behind newlines.
Shape(s, m) ==
    \A i \in m + 1 .. Len(s) : Kept(s[i]) => \A j \in m .. i - 1 : Newline(s[j])

\* Behind place m nothing is kept.
LEMMA ShapeNone ==
    ASSUME NEW p \in Seq(Int), NEW q \in Seq(Int), NEW m \in Nat,
           Len(p) <= m, NoneKept(q)
    PROVE  Shape(p \o q, m)
<1> SUFFICES ASSUME NEW i \in m + 1 .. Len(p \o q) PROVE ~Kept((p \o q)[i])
  BY DEF Shape
<1>1. Len(p) \in Nat /\ Len(q) \in Nat /\ Len(p \o q) = Len(p) + Len(q)
  BY Concat
<1>2. i \in 1 .. Len(p \o q) /\ i \notin 1 .. Len(p)
  BY <1>1
<1>3. PICK j \in 1 .. Len(q) : (p \o q)[i] = q[j]
  BY <1>2, PlaceIn
<1> QED
  BY <1>3 DEF NoneKept

\* Behind place m there is one character behind newlines.
LEMMA ShapeLine ==
    ASSUME NEW a \in Seq(Int), NEW w \in Seq(Int), NEW x \in Int, NEW z \in Seq(Int),
           NEW m \in Nat, Len(a) < m, AllNewlines(w), NoneKept(z)
    PROVE  Shape(a \o (w \o (<<x>> \o z)), m)
<1> DEFINE y == <<x>> \o z
           v == w \o y
           d == a \o v
<1>1. y \in Seq(Int) /\ Len(y) = Len(z) + 1
  BY Front
<1>2. \A l \in 1 .. Len(y) : l = 1 \/ ~Kept(y[l])
  <2> DEFINE p == <<x>>
  <2>1. p \in Seq(Int) /\ Len(p) = 1
    OBVIOUS
  <2> HIDE DEF p
  <2>2. \A l \in 1 .. Len(p \o z) :
           l \in 1 .. Len(p) \/ \E j \in 1 .. Len(z) : (p \o z)[l] = z[j]
    BY <2>1, PlaceIn
  <2>3. \A l \in 1 .. 1 : l = 1
    OBVIOUS
  <2> QED
    BY <2>1, <2>2, <2>3 DEF NoneKept, p
<1> HIDE DEF y
<1>3. /\ v \in Seq(Int) /\ Len(v) = Len(w) + Len(y)
      /\ \A i \in 1 .. Len(w) : v[i] = w[i]
  BY <1>1, Concat
<1>4. \A i \in 1 .. Len(v) : \/ i \in 1 .. Len(w) /\ v[i] = w[i]
                             \/ \E l \in 1 .. Len(y) : i = Len(w) + l /\ v[i] = y[l]
  BY <1>1, PlaceIn
<1>5. \A k \in 1 .. Len(v) : Kept(v[k]) => k = Len(w) + 1
  <2> SUFFICES ASSUME NEW k \in 1 .. Len(v), Kept(v[k]) PROVE k = Len(w) + 1
    OBVIOUS
  <2>1. ~(k \in 1 .. Len(w) /\ v[k] = w[k])
    BY NotKept DEF AllNewlines, Newline
  <2>2. PICK l \in 1 .. Len(y) : k = Len(w) + l /\ v[k] = y[l]
    BY <1>4, <2>1
  <2> QED
    BY <1>2, <2>2
<1> HIDE DEF v
<1>6. /\ Len(d) = Len(a) + Len(v) /\ \A k \in 1 .. Len(v) : d[Len(a) + k] = v[k]
  BY <1>3, Concat
<1>7. \A i \in 1 .. Len(d) : \/ i \in 1 .. Len(a)
                             \/ \E k \in 1 .. Len(v) : i = Len(a) + k /\ d[i] = v[k]
  BY <1>3, PlaceIn
<1> HIDE DEF d
<1>8. Len(a) \in Nat /\ Len(w) \in Nat /\ Len(v) \in Nat /\ Len(y) \in Nat
  BY <1>1, <1>3
<1> SUFFICES Shape(d, m)
  BY DEF d, v, y
<1> SUFFICES ASSUME NEW i \in m + 1 .. Len(d), Kept(d[i]), NEW j \in m .. i - 1
             PROVE  Newline(d[j])
  BY DEF Shape
<1>9. i \in 1 .. Len(d) /\ i \notin 1 .. Len(a)
  BY <1>6, <1>8
<1>10. PICK k \in 1 .. Len(v) : i = Len(a) + k /\ d[i] = v[k]
  BY <1>7, <1>9
<1>11. k = Len(w) + 1
  BY <1>5, <1>10
<1> DEFINE l == j - Len(a)
<1>12. l \in 1 .. Len(w) /\ l \in 1 .. Len(v) /\ j = Len(a) + l
  <2>1. i = Len(a) + (Len(w) + 1) /\ Len(v) = Len(w) + Len(y)
    BY <1>3, <1>10, <1>11
  <2> QED
    BY <1>8, <1>10, <1>11, <2>1
<1> HIDE DEF l
<1> QED
  BY <1>3, <1>6, <1>12 DEF AllNewlines

\* The surplus of a block begins one block later.
LEMMA ShapeAfter ==
    ASSUME NEW s \in Seq(Int), Shape(s, 2 * n)
    PROVE  Shape(After(s, n), n)
<1>1. n \in Nat /\ Len(s) \in Nat
  BY BlockFacts
<1> DEFINE t == After(s, n)
<1>2. CASE n <= Len(s)
  <2>1. Len(t) = Len(s) - n /\ \A j \in 1 .. Len(s) - n : t[j] = s[n + j]
    BY <1>1, <1>2, CutAt
  <2> HIDE DEF t
  <2> SUFFICES ASSUME NEW i \in n + 1 .. Len(t), Kept(t[i]), NEW j \in n .. i - 1
               PROVE  Newline(t[j])
    BY DEF Shape, t
  <2>2. i \in 1 .. Len(s) - n
    BY <1>1, <2>1
  <2>3. n + i \in 2 * n + 1 .. Len(s) /\ n + j \in 2 * n .. (n + i) - 1
    BY <1>1, <2>1
  <2>4. j \in 1 .. Len(s) - n
    <3>1. n > 0
      BY BlockFacts
    <3> QED
      BY <1>1, <2>1, <3>1
  <2>5. t[i] = s[n + i] /\ t[j] = s[n + j]
    BY <2>1, <2>2, <2>4
  <2> QED
    BY <2>3, <2>5 DEF Shape
<1>3. CASE ~(n <= Len(s))
  <2>1. Len(t) = IF Len(s) < n THEN 0 ELSE Len(s) - n
    BY <1>1, Cut
  <2> HIDE DEF t
  <2>2. \A i : i \notin n + 1 .. Len(t)
    BY <1>1, <1>3, <2>1
  <2> QED
    BY <2>2 DEF Shape, t
<1> QED
  BY <1>2, <1>3

\* More text behind the second part changes nothing.
LEMMA ApartMore ==
    ASSUME NEW a \in Seq(Int), NEW w \in Seq(Int), NEW t \in Seq(Int), w # <<>>, Apart(a, w)
    PROVE  Apart(a, w \o t)
<1>1. (w \o t)[1] = w[1]
  BY Ends
<1> QED
  BY <1>1 DEF Apart

\* A text of a block or more is cut before its last place of a block, or before
\* the CR that belongs to an LF there.
LEMMA CutLine ==
    ASSUME NEW u \in Seq(Int), Len(u) >= n
    PROVE  \E a, w \in Seq(Int) :
              /\ u = a \o w /\ Len(a) < n /\ w # <<>> /\ Apart(a, w)
              /\ \A j \in 1 .. Len(w) :
                    w[j] = CR \/ (Len(a) + j \in n .. Len(u) /\ w[j] = u[Len(a) + j])
<1>0. n \in Nat /\ n >= 8 /\ Len(u) \in Nat /\ CR # LF
  BY BlockAssumption DEF CR, LF
<1> DEFINE pair == u[n - 1] = CR /\ u[n] = LF
           m == IF pair THEN n - 2 ELSE n - 1
           a == Upto(u, m)
           w == After(u, m)
<1>1. /\ m \in Nat /\ m <= Len(u) /\ m < n /\ m >= 1 /\ m \in 1 .. m
      /\ Len(u) - m >= 1 /\ Len(u) - m \in Nat
      /\ pair => m = n - 2 /\ m + 1 = n - 1
      /\ ~pair => m = n - 1 /\ m + 1 = n
  <2> HIDE DEF pair
  <2> QED
    BY <1>0
<1> HIDE DEF m
<1>2. /\ a \in Seq(Int) /\ Len(a) = m /\ w \in Seq(Int) /\ Len(w) = Len(u) - m
      /\ a \o w = u
      /\ \A i \in 1 .. m : a[i] = u[i]
      /\ \A j \in 1 .. Len(u) - m : w[j] = u[m + j]
  BY <1>1, CutAt
<1> HIDE DEF a, w
<1>3. 1 \in 1 .. Len(w) /\ w # <<>>
  <2>1. 1 \in 1 .. Len(w)
    BY <1>1, <1>2
  <2> QED
    BY <2>1, BlockFacts
<1>4. a[Len(a)] = u[m] /\ w[1] = u[m + 1]
  BY <1>1, <1>2, <1>3
<1>5. Apart(a, w)
  <2>1. CASE pair
    BY <1>0, <1>1, <1>4, <2>1 DEF Apart
  <2>2. CASE ~pair
    <3>1. u[m] = u[n - 1] /\ u[m + 1] = u[n]
      <4> HIDE DEF pair
      <4> QED
        BY <1>1, <2>2
    <3> QED
      BY <1>4, <2>2, <3>1 DEF Apart
  <2> QED
    BY <2>1, <2>2
<1>6. ASSUME NEW j \in 1 .. Len(w)
      PROVE  w[j] = CR \/ (Len(a) + j \in n .. Len(u) /\ w[j] = u[Len(a) + j])
  <2>1. w[j] = u[Len(a) + j]
    BY <1>2
  <2>2. CASE pair /\ j = 1
    BY <1>1, <1>4, <2>2
  <2>3. CASE ~(pair /\ j = 1)
    <3> HIDE DEF pair
    <3>1. j >= 2 \/ ~pair
      BY <2>3, <1>2, <1>1
    <3>2. Len(a) + j \in n .. Len(u)
      BY <1>0, <1>1, <1>2, <3>1
    <3> QED
      BY <2>1, <3>2
  <2> QED
    BY <2>2, <2>3
<1> QED
  BY <1>1, <1>2, <1>3, <1>5, <1>6

\* Newlines are not kept.
LEMMA NewlinesNotKept ==
    ASSUME NEW s \in Seq(Int), AllNewlines(s)
    PROVE  NoneKept(s)
BY NotKept DEF AllNewlines, NoneKept, Newline

\* A block that was extended to the next character.
LEMMA LineShape ==
    ASSUME NEW u \in Seq(Int), NEW v \in Seq(Int), LoneCRLast(u \o v), TakesLine(u, <<>>)
    PROVE  Shape(FormatToNETASCII(u) \o <<CR, LF>>, 2 * n)
<1> DEFINE F(s) == FormatToNETASCII(s)
           x == u[Len(u)]
           e == <<CR, LF>>
<1>0. n \in Nat /\ n >= 8 /\ Len(u) \in Nat
  BY BlockAssumption
<1>1. Len(u) > n /\ ~Newline(x) /\ \A j \in n .. Len(u) - 1 : Newline(u[j])
  BY DEF TakesLine
<1>2. PICK a \in Seq(Int), w \in Seq(Int) :
         /\ u = a \o w /\ Len(a) < n /\ w # <<>> /\ Apart(a, w)
         /\ \A j \in 1 .. Len(w) :
               w[j] = CR \/ (Len(a) + j \in n .. Len(u) /\ w[j] = u[Len(a) + j])
  <2>1. Len(u) >= n
    BY <1>0, <1>1
  <2> QED
    BY <2>1, CutLine
<1>3. /\ x = w[Len(w)] /\ x \in Int /\ x # CR /\ x # LF /\ u # <<>>
      /\ Len(u) = Len(a) + Len(w) /\ Len(a) \in Nat /\ Len(w) \in Nat
  <2>1. (a \o w)[Len(a \o w)] = w[Len(w)] /\ a \o w # <<>>
    BY <1>2, Ends
  <2>2. Len(a \o w) = Len(a) + Len(w) /\ Len(a) \in Nat /\ Len(w) \in Nat
    BY Concat
  <2>3. w[Len(w)] \in Int
    BY <1>2, RestAndLast
  <2> QED
    BY <1>1, <1>2, <2>1, <2>2, <2>3 DEF Newline
<1> HIDE DEF x
<1>4. PICK q \in Seq(Int) : w = q \o <<x>>
  BY <1>2, <1>3, RestAndLast
<1>5. /\ Len(w) = Len(q) + 1 /\ Len(q) \in Nat
      /\ \A j \in 1 .. Len(q) : w[j] = q[j] /\ j \in 1 .. Len(w)
  <2>1. <<x>> \in Seq(Int) /\ Len(<<x>>) = 1
    BY <1>3
  <2> DEFINE p == <<x>>
  <2> HIDE DEF p
  <2>2. p \in Seq(Int) => /\ Len(q \o p) = Len(q) + Len(p)
                          /\ \A j \in 1 .. Len(q) : (q \o p)[j] = q[j]
    BY Concat
  <2>3. /\ Len(w) = Len(q) + 1 /\ \A j \in 1 .. Len(q) : w[j] = q[j]
    BY <1>4, <2>1, <2>2 DEF p
  <2>4. Len(q) \in Nat
    OBVIOUS
  <2> QED
    BY <2>3, <2>4
<1>6. AllNewlines(q)
  <2> SUFFICES ASSUME NEW j \in 1 .. Len(q) PROVE Newline(q[j])
    BY DEF AllNewlines
  <2>1. j \in 1 .. Len(w) /\ w[j] = q[j] /\ Len(a) + j <= Len(u) - 1
    BY <1>3, <1>5
  <2>2. CASE w[j] = CR
    BY <2>1, <2>2 DEF Newline
  <2>3. CASE Len(a) + j \in n .. Len(u) /\ w[j] = u[Len(a) + j]
    <3>1. Len(a) + j \in n .. Len(u) - 1
      BY <1>0, <2>1, <2>3
    <3> QED
      BY <1>1, <2>1, <2>3, <3>1
  <2> QED
    BY <1>2, <2>1, <2>2, <2>3
<1>7. /\ F(a) \in Seq(Int) /\ F(q) \in Seq(Int) /\ <<x>> \in Seq(Int) /\ e \in Seq(Int)
      /\ F(u) = F(a) \o (F(q) \o <<x>>)
  <2>1. F(a) \in Seq(Int) /\ F(q) \in Seq(Int) /\ <<x>> \in Seq(Int) /\ e \in Seq(Int)
    BY <1>3, Types, BlockFacts
  <2>2. F(a \o w) = F(a) \o F(w)
    BY <1>2, ToJoin
  <2>3. F(q \o <<x>>) = F(q) \o <<x>>
    BY <1>3, ToLast DEF Newline
  <2> HIDE DEF F
  <2> QED
    BY <1>2, <1>4, <2>1, <2>2, <2>3
<1>8. Len(F(a)) < 2 * n /\ Len(F(a)) <= 2 * n /\ 2 * n \in Nat
  <2>1. Len(F(a)) <= 2 * Len(a)
    BY ToAtMostTwice
  <2>2. Len(F(a)) \in Nat
    <3> HIDE DEF F
    <3> QED
      BY <1>7
  <2> QED
    BY <1>0, <1>2, <1>3, <2>1, <2>2
<1> DEFINE f == F(a)
           g == F(q)
           p == <<x>>
<1>9. NoneKept(g) /\ NoneKept(e) /\ f \in Seq(Int) /\ g \in Seq(Int) /\ p \in Seq(Int)
  BY <1>6, <1>7, NewlinesNotKept, NoneKeptTo, NoneKeptPair
<1>10. p \o e \in Seq(Int) /\ g \o (p \o e) \in Seq(Int) /\ g \o p \in Seq(Int)
  <2> HIDE DEF p, e, g
  <2>1. p \o e \in Seq(Int) /\ g \o p \in Seq(Int)
    BY <1>7, <1>9, Concat DEF p
  <2> QED
    BY <1>9, <2>1, Concat
<1>11. F(u) \o e = f \o (g \o (p \o e))
  <2>1. F(u) = f \o (g \o p)
    BY <1>7
  <2> HIDE DEF f, g, p, e, F
  <2>0. f \in Seq(Int) /\ g \in Seq(Int) /\ p \in Seq(Int) /\ e \in Seq(Int)
    BY <1>7, <1>9
  <2>2. (f \o (g \o p)) \o e = f \o ((g \o p) \o e)
    <3>1. Put(Put(f, Put(g, p)), e) = Put(f, Put(Put(g, p), e))
      BY <2>0, PutAssoc
    <3> QED
      BY <3>1 DEF Put
  <2>3. (g \o p) \o e = g \o (p \o e)
    <3>1. Put(Put(g, p), e) = Put(g, Put(p, e))
      BY <2>0, PutAssoc
    <3> QED
      BY <3>1 DEF Put
  <2> QED
    BY <2>1, <2>2, <2>3
<1>12. CASE ~Kept(x)
  <2>1. NoneKept(p)
    BY <1>12 DEF NoneKept
  <2> HIDE DEF f, g, p, e, F
  <2>2. NoneKept(p \o e)
    BY <1>7, <1>9, <2>1, NoneKeptConcat
  <2>3. NoneKept(g \o (p \o e))
    BY <1>9, <1>10, <2>2, NoneKeptConcat
  <2>4. Shape(f \o (g \o (p \o e)), 2 * n)
    BY <1>8, <1>9, <1>10, <2>3, ShapeNone DEF f
  <2> QED
    BY <1>11, <2>4 DEF F, e
<1>13. CASE Kept(x)
  <2>1. LoneCRLast(w)
    <3>1. LoneCRLast(u)
      BY <1>3, LoneSplit DEF x
    <3> QED
      BY <1>2, <3>1, LoneSuffix
  <2>2. NoLone(q)
    <3> SUFFICES ASSUME NEW i \in 1 .. Len(q), q[i] = CR
                 PROVE  i < Len(q) /\ q[i + 1] = LF
      BY DEF NoLone
    <3>1. i \in 1 .. Len(w) /\ w[i] = CR /\ i < Len(w) /\ Len(w) \in i + 1 .. Len(w)
      <4>1. Len(w) = Len(q) + 1 /\ Len(q) \in Nat /\ i \in 1 .. Len(q)
        BY <1>5
      <4>2. i < Len(w) /\ Len(w) \in i + 1 .. Len(w)
        BY <4>1
      <4> QED
        BY <1>5, <4>2
    <3>2. w[i + 1] = LF
      BY <1>3, <1>13, <2>1, <3>1 DEF LoneCRLast
    <3>3. i + 1 # Len(w)
      BY <1>3, <3>2
    <3>4. i < Len(q) /\ i + 1 \in 1 .. Len(q)
      <4>1. Len(w) = Len(q) + 1 /\ Len(q) \in Nat /\ i \in 1 .. Len(q)
        BY <1>5
      <4>2. \A L \in Nat : \A h \in 1 .. L : h + 1 # L + 1 => h < L /\ h + 1 \in 1 .. L
        OBVIOUS
      <4> QED
        BY <3>3, <4>1, <4>2, Zenon
    <3> QED
      BY <1>5, <3>2, <3>4
  <2>3. AllNewlines(g)
    BY <1>6, <2>2, NewlinesTo
  <2> HIDE DEF f, g, e, F
  <2>4. Shape(f \o (g \o (<<x>> \o e)), 2 * n)
    BY <1>3, <1>7, <1>8, <1>9, <2>3, ShapeLine DEF f
  <2> QED
    BY <1>11, <2>4 DEF F, e
<1> QED
  BY <1>12, <1>13

\* A block that was extended to the end of the input.
LEMMA RunShape ==
    ASSUME NEW u \in Seq(Int), Len(u) >= n, \A j \in n .. Len(u) : Newline(u[j]),
           NEW b \in Seq(Int), NoneKept(b)
    PROVE  Shape(Buffer(u, b), 2 * n)
<1> DEFINE F(s) == FormatToNETASCII(s)
           e == <<CR, LF>>
<1>0. n \in Nat /\ n >= 8 /\ Len(u) \in Nat /\ 2 * n \in Nat
  BY BlockAssumption
<1>1. PICK a \in Seq(Int), w \in Seq(Int) :
         /\ u = a \o w /\ Len(a) < n /\ w # <<>> /\ Apart(a, w)
         /\ \A j \in 1 .. Len(w) :
               w[j] = CR \/ (Len(a) + j \in n .. Len(u) /\ w[j] = u[Len(a) + j])
  BY CutLine
<1>2. AllNewlines(w)
  BY <1>1 DEF AllNewlines, Newline
<1>3. w \o b \in Seq(Int) /\ NoneKept(w \o b)
  <2>1. NoneKept(w)
    BY <1>2, NewlinesNotKept
  <2> QED
    BY <2>1, Concat, NoneKeptConcat
<1> DEFINE f == F(a)
           g == F(w \o b)
<1>4. F(u \o b) = f \o g
  <2>1. u \o b = a \o (w \o b)
    <3>a. Put(Put(a, w), b) = Put(a, Put(w, b))
      BY <1>1, PutAssoc
    <3> QED
      BY <1>1, <3>a DEF Put
  <2>2. Apart(a, w \o b)
    BY <1>1, ApartMore
  <2> DEFINE t == w \o b
  <2> HIDE DEF t
  <2>3. t \in Seq(Int) /\ Apart(a, t) => F(a \o t) = F(a) \o F(t)
    BY ToJoin
  <2> QED
    BY <1>3, <2>1, <2>2, <2>3 DEF t
<1>5. /\ f \in Seq(Int) /\ g \in Seq(Int) /\ e \in Seq(Int)
      /\ NoneKept(g) /\ NoneKept(e)
  BY <1>3, Types, NoneKeptTo, NoneKeptPair, BlockFacts
<1>6. Len(f) <= 2 * n
  <2>1. Len(f) <= 2 * Len(a)
    BY ToAtMostTwice
  <2> HIDE DEF f
  <2>2. Len(f) \in Nat /\ Len(a) \in Nat
    BY <1>5
  <2> QED
    BY <1>0, <1>1, <2>1, <2>2
<1>7. F(u \o b) \in Seq(Int)
  BY <1>4, <1>5, Concat
<1>8. Buffer(u, b) = f \o g \/ Buffer(u, b) = (f \o g) \o e
  <2> DEFINE h == F(u \o b)
  <2>1. Buffer(u, b) = EndLine(h)
    BY DEF Buffer
  <2> HIDE DEF h
  <2>2. h \in Seq(Int)
    BY <1>7 DEF h
  <2>3. EndLine(h) = h \/ EndLine(h) = h \o e
    BY <2>2, EndLineCases
  <2> QED
    BY <1>4, <2>1, <2>3 DEF h
<1> HIDE DEF f, g, e, F
<1>9. (f \o g) \o e = f \o (g \o e) /\ g \o e \in Seq(Int)
  <2>1. f \in Seq(Int) /\ g \in Seq(Int) /\ e \in Seq(Int)
    BY <1>5
  <2>2. g \o e \in Seq(Int)
    BY <2>1, Concat
  <2>3. Put(Put(f, g), e) = Put(f, Put(g, e))
    BY <2>1, PutAssoc
  <2> QED
    BY <2>2, <2>3 DEF Put
<1>10. NoneKept(g \o e)
  BY <1>5, NoneKeptConcat
<1>11. Shape(f \o g, 2 * n)
  BY <1>0, <1>5, <1>6, ShapeNone
<1>12. Shape(f \o (g \o e), 2 * n)
  BY <1>0, <1>5, <1>6, <1>9, <1>10, ShapeNone
<1> QED
  BY <1>8, <1>9, <1>11, <1>12

-----------------------------------------------------------------------------
(* The order of the characters.                                             *)

\* Of any two the later one is the greater.
LEMMA IncreasingPairs ==
    ASSUME NEW s \in Seq(Int), Increasing(s), NEW i \in 1 .. Len(s), NEW j \in 1 .. Len(s),
           i < j
    PROVE  s[i] < s[j]
<1> DEFINE T == {m \in Nat : i + 1 + m <= Len(s) => s[i] < s[i + 1 + m]}
<1>0. Len(s) \in Nat /\ \A k \in 1 .. Len(s) : s[k] \in Int
  OBVIOUS
<1>1. 0 \in T
  <2>1. i + 1 <= Len(s) => i + 1 \in 2 .. Len(s) /\ (i + 1) - 1 = i
    BY <1>0
  <2>2. i + 1 <= Len(s) => s[i] < s[i + 1]
    <3> SUFFICES ASSUME i + 1 <= Len(s) PROVE s[i] < s[i + 1]
      OBVIOUS
    <3>1. s[(i + 1) - 1] < s[i + 1]
      BY <2>1 DEF Increasing
    <3> QED
      BY <2>1, <3>1
  <2>3. i + 1 + 0 = i + 1
    OBVIOUS
  <2> QED
    BY <2>2, <2>3
<1>2. ASSUME NEW m \in Nat, m \in T PROVE m + 1 \in T
  <2> SUFFICES ASSUME i + 1 + (m + 1) <= Len(s) PROVE s[i] < s[i + 1 + (m + 1)]
    OBVIOUS
  <2> DEFINE k == i + 1 + m
             l == i + 1 + (m + 1)
  <2>1. k \in 1 .. Len(s) /\ l \in 2 .. Len(s) /\ l - 1 = k /\ l \in 1 .. Len(s)
    BY <1>0
  <2>2. s[i] < s[k]
    BY <1>2, <2>1
  <2>3. s[k] < s[l]
    <3> HIDE DEF k, l
    <3>1. s[l - 1] < s[l]
      BY <2>1 DEF Increasing
    <3> QED
      BY <2>1, <3>1
  <2>4. s[i] \in Int /\ s[k] \in Int /\ s[l] \in Int
    BY <1>0, <2>1
  <2> HIDE DEF k
  <2>5. s[i] < s[l]
    BY <2>2, <2>3, <2>4
  <2> QED
    BY <2>5
<1>3. \A m \in Nat : m \in T
  <2> HIDE DEF T
  <2> QED
    BY <1>1, <1>2, SetInduction
<1> DEFINE m == j - (i + 1)
<1>4. m \in Nat /\ i + 1 + m = j
  OBVIOUS
<1> HIDE DEF m
<1>5. m \in T
  BY <1>3, <1>4
<1> QED
  BY <1>0, <1>4, <1>5

\* Leaving out a part in the middle keeps the order.
LEMMA IncreasingDrop ==
    ASSUME NEW p \in Seq(Int), NEW z \in Seq(Int), NEW w \in Seq(Int),
           Increasing(p \o (z \o w))
    PROVE  Increasing(p \o w)
<1> DEFINE v == z \o w
           d == p \o v
           e == p \o w
<1>1. /\ v \in Seq(Int) /\ Len(v) = Len(z) + Len(w)
      /\ \A j \in 1 .. Len(w) : v[Len(z) + j] = w[j]
  BY Concat
<1>2. Increasing(d)
  OBVIOUS
<1> HIDE DEF v
<1>3. /\ d \in Seq(Int) /\ Len(d) = Len(p) + Len(v)
      /\ \A i \in 1 .. Len(p) : d[i] = p[i]
      /\ \A j \in 1 .. Len(v) : d[Len(p) + j] = v[j]
  BY <1>1, Concat
<1>4. /\ e \in Seq(Int) /\ Len(e) = Len(p) + Len(w)
      /\ \A i \in 1 .. Len(e) : \/ i \in 1 .. Len(p) /\ e[i] = p[i]
                                \/ \E j \in 1 .. Len(w) : i = Len(p) + j /\ e[i] = w[j]
  BY Concat, PlaceIn
<1>5. Len(p) \in Nat /\ Len(z) \in Nat /\ Len(w) \in Nat /\ Len(v) \in Nat
  BY <1>1
<1> HIDE DEF d, e
<1>6. ASSUME NEW j \in 1 .. Len(w)
      PROVE  Len(p) + (Len(z) + j) \in 1 .. Len(d) /\ d[Len(p) + (Len(z) + j)] = w[j]
  <2>1. Len(z) + j \in 1 .. Len(v)
    BY <1>1, <1>5
  <2>2. Len(p) + (Len(z) + j) \in 1 .. Len(d)
    BY <1>3, <1>5, <2>1
  <2>3. d[Len(p) + (Len(z) + j)] = v[Len(z) + j]
    BY <1>3, <2>1
  <2> QED
    BY <1>1, <2>2, <2>3
<1> SUFFICES ASSUME NEW i \in 2 .. Len(e) PROVE e[i - 1] < e[i]
  BY DEF Increasing, e
<1>7. i \in 1 .. Len(e) /\ i - 1 \in 1 .. Len(e)
  BY <1>4, <1>5
<1>8. CASE i \in 1 .. Len(p) /\ e[i] = p[i]
  <2>1. i - 1 \in 1 .. Len(p) /\ i \in 1 .. Len(d) /\ i - 1 \in 1 .. Len(d) /\ i - 1 < i
    BY <1>3, <1>5, <1>7, <1>8
  <2>2. e[i - 1] = p[i - 1]
    <3>1. ~\E j \in 1 .. Len(w) : i - 1 = Len(p) + j
      BY <1>5, <2>1
    <3> QED
      BY <1>4, <1>7, <3>1
  <2>3. d[i - 1] < d[i]
    BY <1>2, <1>3, <2>1, IncreasingPairs
  <2> QED
    BY <1>3, <1>8, <2>1, <2>2, <2>3
<1>9. CASE \E j \in 1 .. Len(w) : i = Len(p) + j /\ e[i] = w[j]
  <2>1. PICK j \in 1 .. Len(w) : i = Len(p) + j /\ e[i] = w[j]
    BY <1>9
  <2> DEFINE k == Len(p) + (Len(z) + j)
  <2>2. k \in 1 .. Len(d) /\ d[k] = w[j]
    BY <1>6
  <2>3. CASE i - 1 \in 1 .. Len(p) /\ e[i - 1] = p[i - 1]
    <3>1. i - 1 \in 1 .. Len(d) /\ i - 1 < k
      <4>1. i = Len(p) + j /\ i - 1 \in 1 .. Len(p) /\ Len(d) = Len(p) + Len(v)
        BY <1>3, <2>1, <2>3
      <4> QED
        BY <1>5, <4>1
    <3> HIDE DEF k
    <3>2. d[i - 1] < d[k]
      BY <1>2, <1>3, <2>2, <3>1, IncreasingPairs
    <3> QED
      BY <1>3, <2>1, <2>2, <2>3, <3>2
  <2>4. CASE \E h \in 1 .. Len(w) : i - 1 = Len(p) + h /\ e[i - 1] = w[h]
    <3>1. PICK h \in 1 .. Len(w) : i - 1 = Len(p) + h /\ e[i - 1] = w[h]
      BY <2>4
    <3> DEFINE l == Len(p) + (Len(z) + h)
    <3>2. l \in 1 .. Len(d) /\ d[l] = w[h]
      BY <1>6
    <3>3. l < k
      BY <1>5, <2>1, <3>1
    <3> HIDE DEF k, l
    <3>4. d[l] < d[k]
      BY <1>2, <1>3, <2>2, <3>2, <3>3, IncreasingPairs
    <3> QED
      BY <2>1, <2>2, <3>1, <3>2, <3>4
  <2> QED
    BY <1>4, <1>7, <2>3, <2>4
<1> QED
  BY <1>4, <1>7, <1>8, <1>9

-----------------------------------------------------------------------------
(* No character is repeated or moved, and Reader loses none.                *)

\* What a block takes stands in front of the rest.
LEMMA BlockSource ==
    ASSUME IInv, IInv', NEW u \in Seq(Int), NEW lost \in Seq(Int), Takes(u, lost)
    PROVE  held \o rest = u \o (lost \o rest')
<1>0. held \in Seq(Int) /\ rest \in Seq(Int) /\ rest' \in Seq(Int)
  BY DEF IInv, TypeOK
<1> DEFINE r == rest'
<1> HIDE DEF r
<1>1. CASE held = u \o lost /\ rest' = rest
  <2>1. Put(Put(u, lost), r) = Put(u, Put(lost, r))
    BY <1>0, PutAssoc DEF r
  <2> QED
    BY <1>1, <2>1 DEF Put, r
<1>2. CASE lost = <<>> /\ \E p \in Seq(Int) : p # <<>> /\ u = held \o p /\ rest = p \o rest'
  <2>1. PICK p \in Seq(Int) : u = held \o p /\ rest = p \o r
    BY <1>2 DEF r
  <2>2. Put(Put(held, p), r) = Put(held, Put(p, r))
    BY <1>0, PutAssoc DEF r
  <2>3. lost \o r = r
    BY <1>0, <1>2, NoText DEF r
  <2> QED
    BY <2>1, <2>2, <2>3 DEF Put, r
<1> QED
  BY <1>1, <1>2 DEF Takes

\* What a block sends and leaves has the characters of what it took.
LEMMA BlockText ==
    ASSUME IInv, IInv', NEW u \in Seq(Int), NEW b \in Seq(Int), Sends(u, b)
    PROVE  LET buf == Buffer(u, b)
           IN  /\ buf \in Seq(Int)
               /\ out' \o (held' \o rest') = out \o (buf \o rest')
               /\ DataOf(buf) = DataOf(u \o b)
<1> DEFINE buf == Buffer(u, b)
           x == Upto(buf, n)
           y == After(buf, n)
           r == rest'
           d == u \o b
           f == FormatToNETASCII(d)
           e == <<CR, LF>>
<1>0. out \in Seq(Int) /\ r \in Seq(Int) /\ n \in Nat
  BY BlockFacts DEF IInv, TypeOK
<1>1. d \in Seq(Int) /\ e \in Seq(Int)
  BY Concat, BlockFacts
<1> HIDE DEF d
<1>2. f \in Seq(Int) /\ DataOf(f) = DataOf(d)
  BY <1>1, Types, CharTo
<1>3. buf = EndLine(f)
  BY DEF Buffer, d
<1> HIDE DEF f, buf, e
<1>4. buf \in Seq(Int) /\ (buf = f \/ buf = f \o e)
  BY <1>2, <1>3, EndLineCases DEF e
<1>5. DataOf(buf) = DataOf(d)
  <2>1. DataOf(e) = <<>>
    BY <1>1, CharNone, NoneKeptPair DEF e
  <2>2. DataOf(f \o e) = DataOf(f) \o DataOf(e)
    BY <1>1, <1>2, CharConcat
  <2>3. DataOf(f) \in Seq(Int)
    BY <1>2, CharType
  <2>4. DataOf(f) \o <<>> = DataOf(f)
    BY <2>3, NoText
  <2> QED
    BY <1>2, <1>4, <2>1, <2>2, <2>4
<1>6. x \in Seq(Int) /\ y \in Seq(Int) /\ x \o y = buf
  BY <1>0, <1>4, Cut
<1>7. out' = out \o x /\ held' = y
  BY DEF Sends, buf
<1> HIDE DEF x, y, r
<1>8. Put(Put(out, x), Put(y, r)) = Put(out, Put(Put(x, y), r))
  <2>1. Put(y, r) \in Seq(Int)
    BY <1>0, <1>6, PutAssoc
  <2>2. Put(Put(out, x), Put(y, r)) = Put(out, Put(x, Put(y, r)))
    BY <1>0, <1>6, <2>1, PutAssoc
  <2>3. Put(x, Put(y, r)) = Put(Put(x, y), r)
    BY <1>0, <1>6, PutAssoc
  <2> QED
    BY <2>2, <2>3
<1>9. out' \o (held' \o r) = out \o (buf \o r)
  BY <1>6, <1>7, <1>8 DEF Put
<1> QED
  BY <1>4, <1>5, <1>9 DEF buf, d, r

\* At the start nothing has been taken.
LEMMA KeptInit == ASSUME Init PROVE KeptInv
<1>1. text \in Seq(Int) /\ held = <<>> /\ out = <<>> /\ phase = "block"
      /\ (job # "write" => rest = text)
  BY InitInv DEF Init, IInv, TypeOK
<1>2. job # "write" => held \o rest = text /\ out \o (held \o rest) = text
  BY <1>1, NoText
<1>3. NoCR(text) => LoneCRLast(text)
  BY DEF NoCR, LoneCRLast
<1>4. \A i : i \notin n + 1 .. Len(held)
  BY <1>1, BlockFacts
<1> QED
  BY <1>1, <1>2, <1>3, <1>4 DEF KeptInv

\* The characters of three parts.
LEMMA CharParts ==
    \A x, y, z \in Seq(Int) :
       DataOf(Put(x, Put(y, z))) = Put(DataOf(x), Put(DataOf(y), DataOf(z)))
<1> SUFFICES ASSUME NEW x \in Seq(Int), NEW y \in Seq(Int), NEW z \in Seq(Int)
             PROVE  DataOf(x \o (y \o z)) = DataOf(x) \o (DataOf(y) \o DataOf(z))
  BY DEF Put
<1>1. y \o z \in Seq(Int)
  BY Concat
<1>2. DataOf(x \o (y \o z)) = DataOf(x) \o DataOf(y \o z)
  BY <1>1, CharConcat
<1>3. DataOf(y \o z) = DataOf(y) \o DataOf(z)
  BY CharConcat
<1> QED
  BY <1>2, <1>3

\* What becomes of the characters with one block.
LEMMA BlockData ==
    ASSUME IInv, IInv', NEW u \in Seq(Int), NEW b \in Seq(Int), NEW lost \in Seq(Int),
           Takes(u, lost), Sends(u, b), NoneKept(b)
    PROVE  LET C(s) == DataOf(s)
               whole == C(out \o (held \o rest))
           IN  /\ Increasing(whole) => Increasing(C(out' \o (held' \o rest')))
               /\ NoneKept(lost) => C(out' \o (held' \o rest')) = whole
<1> DEFINE C(s) == DataOf(s)
           buf == Buffer(u, b)
           r == rest'
           v == lost \o r
           o == C(out)
           cu == C(u)
           cl == C(lost)
           cr == C(r)
<1>0. out \in Seq(Int) /\ r \in Seq(Int)
  BY DEF IInv, TypeOK
<1>1. /\ buf \in Seq(Int) /\ out' \o (held' \o r) = out \o (buf \o r)
      /\ C(buf) = C(u \o b)
  BY BlockText
<1>2. held \o rest = u \o v
  BY BlockSource
<1> HIDE DEF r, buf
<1>3. v \in Seq(Int)
  BY <1>0, Concat
<1> HIDE DEF v
<1>4. o \in Seq(Int) /\ cu \in Seq(Int) /\ cl \in Seq(Int) /\ cr \in Seq(Int)
  BY <1>0, CharType
<1>5. C(buf) = cu
  <2>1. C(u \o b) = cu \o C(b)
    BY CharConcat
  <2>2. C(b) = <<>>
    BY CharNone
  <2>3. cu \o <<>> = cu
    BY <1>4, NoText
  <2> QED
    BY <1>1, <2>1, <2>2, <2>3
<1>6. C(out \o (buf \o r)) = o \o (C(buf) \o cr)
  <2>1. out \in Seq(Int) /\ buf \in Seq(Int) /\ r \in Seq(Int)
    BY <1>0, <1>1
  <2>2. DataOf(Put(out, Put(buf, r)))
           = Put(DataOf(out), Put(DataOf(buf), DataOf(r)))
    BY <2>1, CharParts
  <2> QED
    BY <2>2 DEF Put
<1>7. C(out \o (u \o v)) = o \o (cu \o C(v))
  <2>1. out \in Seq(Int) /\ u \in Seq(Int) /\ v \in Seq(Int)
    BY <1>0, <1>3
  <2>2. DataOf(Put(out, Put(u, v)))
           = Put(DataOf(out), Put(DataOf(u), DataOf(v)))
    BY <2>1, CharParts
  <2> QED
    BY <2>2 DEF Put
<1>8. C(v) = cl \o cr
  BY <1>0, CharConcat DEF v
<1> HIDE DEF o, cu, cl, cr, C
<1>9. C(out' \o (held' \o r)) = Put(Put(o, cu), cr)
  <2>1. Put(o, Put(cu, cr)) = Put(Put(o, cu), cr)
    BY <1>4, PutAssoc
  <2> QED
    BY <1>1, <1>5, <1>6, <2>1 DEF Put
<1>10. C(out \o (held \o rest)) = Put(Put(o, cu), Put(cl, cr))
  <2>1. Put(cl, cr) \in Seq(Int)
    BY <1>4, PutAssoc
  <2>2. Put(o, Put(cu, Put(cl, cr))) = Put(Put(o, cu), Put(cl, cr))
    BY <1>4, <2>1, PutAssoc
  <2> QED
    BY <1>2, <1>7, <1>8, <2>2 DEF Put
<1>11. Increasing(Put(Put(o, cu), Put(cl, cr))) => Increasing(Put(Put(o, cu), cr))
  <2> DEFINE p == Put(o, cu)
  <2>1. p \in Seq(Int)
    BY <1>4, PutAssoc
  <2> HIDE DEF p
  <2>2. Increasing(p \o (cl \o cr)) => Increasing(p \o cr)
    BY <1>4, <2>1, IncreasingDrop
  <2> QED
    BY <2>2 DEF Put, p
<1>12. NoneKept(lost) => Put(cl, cr) = cr
  <2>1. NoneKept(lost) => cl = <<>>
    BY CharNone DEF cl, C
  <2>2. <<>> \o cr = cr
    BY <1>4, NoText
  <2> QED
    BY <2>1, <2>2 DEF Put
<1>13. /\ Increasing(C(out \o (held \o rest))) => Increasing(C(out' \o (held' \o r)))
       /\ NoneKept(lost) => C(out' \o (held' \o r)) = C(out \o (held \o rest))
  BY <1>9, <1>10, <1>11, <1>12
<1> QED
  BY <1>13 DEF C, r

\* A CR without its LF still has nothing to be kept behind it.
LEMMA BlockLone ==
    ASSUME NEW u \in Seq(Int), NEW b \in Seq(Int), NEW v \in Seq(Int), NEW r \in Seq(Int),
           LoneCRLast(u \o v), LoneCRLast(r), NoneKept(v) => NoneKept(r), NoneKept(b),
           \/ r = <<>> /\ v = <<>> /\ (b = <<>> \/ \E byte \in Int : b = <<byte>>)
           \/ b = <<>> /\ u # <<>> /\ ~Newline(u[Len(u)])
    PROVE  LoneCRLast(After(Buffer(u, b), n) \o r)
<1> DEFINE d == u \o b
           f == FormatToNETASCII(d)
           e == <<CR, LF>>
           buf == Buffer(u, b)
<1>1. d \in Seq(Int) /\ e \in Seq(Int) /\ NoLone(e) /\ LoneCRLast(e) /\ NoneKept(e)
  BY Concat, BlockFacts, LonePieces, NoneKeptPair
<1>2. buf = EndLine(f)
  BY DEF Buffer
<1> HIDE DEF d, buf, e
<1>3. /\ f \in Seq(Int) /\ (LoneCRLast(d) => LoneCRLast(f)) /\ (NoLone(d) => NoLone(f))
  BY <1>1, Types, LoneTo
<1> HIDE DEF f
<1>4. buf \in Seq(Int) /\ (buf = f \/ buf = f \o e)
  BY <1>2, <1>3, EndLineCases DEF e
<1>5. /\ LoneCRLast(f) => LoneCRLast(f \o e)
      /\ NoLone(f) => NoLone(f \o e)
  BY <1>1, <1>3, LoneConcat
<1>6. LoneCRLast(buf) /\ (NoneKept(r) \/ NoLone(buf))
  <2>1. CASE r = <<>> /\ v = <<>> /\ (b = <<>> \/ \E byte \in Int : b = <<byte>>)
    <3>1. LoneCRLast(u)
      BY <2>1, NoText
    <3>2. LoneCRLast(b)
      BY <2>1, LonePieces
    <3>3. LoneCRLast(d)
      BY <3>1, <3>2, LoneConcat DEF d
    <3>4. NoneKept(r)
      BY <2>1 DEF NoneKept
    <3> QED
      BY <1>3, <1>4, <1>5, <3>3, <3>4
  <2>2. CASE b = <<>> /\ u # <<>> /\ ~Newline(u[Len(u)])
    <3>1. d = u
      BY <2>2, NoText DEF d
    <3>2. LoneCRLast(u) /\ (NoneKept(v) \/ NoLone(u))
      BY <2>2, LoneSplit DEF Newline
    <3> QED
      BY <1>3, <1>4, <1>5, <3>1, <3>2
  <2> QED
    BY <2>1, <2>2
<1>7. LoneCRLast(buf \o r)
  BY <1>4, <1>6, LoneConcat
<1> DEFINE x == Upto(buf, n)
           y == After(buf, n)
<1>8. x \in Seq(Int) /\ y \in Seq(Int) /\ x \o y = buf
  BY <1>4, BlockFacts, Cut
<1> HIDE DEF x, y
<1>9. Put(Put(x, y), r) = Put(x, Put(y, r)) /\ Put(y, r) \in Seq(Int)
  BY <1>8, PutAssoc
<1>10. buf \o r = x \o (y \o r) /\ y \o r \in Seq(Int)
  BY <1>8, <1>9 DEF Put
<1>11. LoneCRLast(y \o r)
  <2> DEFINE t == y \o r
  <2>1. t \in Seq(Int) /\ LoneCRLast(x \o t)
    BY <1>7, <1>10
  <2> HIDE DEF t
  <2>2. LoneCRLast(t)
    BY <1>8, <2>1, LoneSuffix
  <2> QED
    BY <2>2 DEF t
<1> QED
  BY <1>11 DEF y, buf

\* A surplus is of the shape that the next block relies on.
LEMMA BlockShape ==
    ASSUME NEW u \in Seq(Int), NEW b \in Seq(Int), NEW v \in Seq(Int), NEW lost,
           LoneCRLast(u \o v), NoneKept(b), job = "read",
           TakesAll(u, b, lost) \/ TakesPlain(u, b) \/ TakesLine(u, b) \/ RunsOut(u, b, lost),
           TakesPlain(u, b) \/ TakesLine(u, b) =>
              Buffer(u, b) = FormatToNETASCII(u) \o <<CR, LF>>
    PROVE  Shape(After(Buffer(u, b), n), n)
<1> DEFINE f == FormatToNETASCII(u)
           e == <<CR, LF>>
           buf == Buffer(u, b)
<1>0. n \in Nat /\ n >= 8 /\ 2 * n \in Nat /\ Len(u) \in Nat
  BY BlockAssumption
<1>1. /\ f \in Seq(Int) /\ e \in Seq(Int) /\ Len(e) = 2 /\ NoneKept(e)
      /\ Len(f) <= 2 * Len(u)
  BY Types, BlockFacts, NoneKeptPair, ToAtMostTwice
<1>2. buf \in Seq(Int)
  <2>1. u \o b \in Seq(Int)
    BY Concat
  <2>2. FormatToNETASCII(u \o b) \in Seq(Int)
    BY <2>1, Types
  <2> QED
    BY <2>2, EndLineCases DEF Buffer
<1>3. CASE TakesAll(u, b, lost)
  <2>1. u \o b = u /\ Len(u) < n
    BY <1>3, NoText DEF TakesAll
  <2>2. buf = EndLine(f)
    BY <2>1 DEF Buffer
  <2> HIDE DEF f, buf, e
  <2>3. Len(buf) <= Len(f) + 2
    BY <1>1, <2>2, EndLineCases
  <2>4. Len(buf) \in Nat /\ Len(f) \in Nat
    BY <1>1, <1>2
  <2>5. Len(buf) <= 2 * n
    BY <1>0, <1>1, <2>1, <2>3, <2>4
  <2>6. \A i : i \notin 2 * n + 1 .. Len(buf)
    BY <1>0, <2>4, <2>5
  <2>7. Shape(buf, 2 * n)
    BY <2>6 DEF Shape
  <2> QED
    BY <1>2, <2>7, ShapeAfter DEF buf
<1>4. CASE TakesPlain(u, b)
  <2>1. buf = f \o e /\ Len(u) = n
    BY <1>4 DEF TakesPlain
  <2> HIDE DEF f, buf, e
  <2>2. Len(f) <= 2 * n
    BY <1>1, <2>1
  <2>3. Shape(f \o e, 2 * n)
    BY <1>0, <1>1, <2>2, ShapeNone
  <2> QED
    BY <1>2, <2>1, <2>3, ShapeAfter DEF buf
<1>5. CASE TakesLine(u, b)
  <2>1. buf = f \o e /\ TakesLine(u, <<>>)
    BY <1>5 DEF TakesLine
  <2>2. Shape(f \o e, 2 * n)
    BY <2>1, LineShape
  <2> HIDE DEF f, buf, e
  <2> QED
    BY <1>2, <2>1, <2>2, ShapeAfter DEF buf
<1>6. CASE RunsOut(u, b, lost)
  <2>1. Len(u) >= n /\ \A j \in n .. Len(u) : Newline(u[j])
    BY <1>6 DEF RunsOut
  <2>2. Shape(buf, 2 * n)
    BY <2>1, RunShape
  <2> HIDE DEF buf
  <2> QED
    BY <1>2, <2>2, ShapeAfter DEF buf
<1> QED
  BY <1>3, <1>4, <1>5, <1>6

\* One more block.
LEMMA KeptRead == ASSUME IInv, IInv', KeptInv, ReadNetascii PROVE KeptInv'
<1>0. /\ job # "write" /\ mode = "netascii"
      /\ n \in Nat /\ n >= 8 /\ rest' \in Seq(Int) /\ held \in Seq(Int)
  BY BlockAssumption DEF ReadNetascii, IInv, TypeOK
<1>1. PICK u \in Seq(Int), b \in Seq(Int), lost \in Seq(Int) :
         /\ Takes(u, lost) /\ Sends(u, b)
         /\ \/ TakesAll(u, b, lost)
            \/ TakesPlain(u, b) \/ TakesLine(u, b)
            \/ RunsOut(u, b, lost)
         /\ Len(Buffer(u, b)) <= n => TakesAll(u, b, lost)
         /\ TakesPlain(u, b) \/ TakesLine(u, b) =>
               Buffer(u, b) = FormatToNETASCII(u) \o <<CR, LF>>
  BY ReadBlock
<1>2. job' = job /\ mode' = mode /\ text' = text
  BY <1>1 DEF Sends
<1>3. NoneKept(b) /\ (b = <<>> \/ \E byte \in Int : b = <<byte>>)
  <2>1. CASE b = <<>>
    BY <2>1 DEF NoneKept
  <2>2. CASE b # <<>>
    <3>1. PICK byte \in UninitByte : b = <<byte>>
      BY <1>1, <2>2 DEF TakesAll, TakesPlain, TakesLine, RunsOut
    <3> QED
      BY <3>1, NoneKeptPair, ByteAssumption
  <2> QED
    BY <2>1, <2>2
<1> DEFINE whole == DataOf(out \o (held \o rest))
           next == DataOf(out' \o (held' \o rest'))
<1>4. (Increasing(whole) => Increasing(next)) /\ (NoneKept(lost) => next = whole)
  BY <1>1, <1>3, BlockData
<1>5. ASSUME job = "read", NoCR(text)
      PROVE  /\ next = DataOf(text)
             /\ LoneCRLast(held' \o rest')
             /\ Shape(held', n)
             /\ phase' = "end" => held' = <<>> /\ rest' = <<>>
  <2> DEFINE r == rest'
             v == lost \o r
             buf == Buffer(u, b)
  <2>1. /\ whole = DataOf(text) /\ LoneCRLast(held \o rest)
        /\ \A i \in n + 1 .. Len(held) : Kept(held[i]) => \A j \in n .. i - 1 : Newline(held[j])
    BY <1>0, <1>5 DEF KeptInv
  <2>2. held \o rest = u \o v
    BY <1>1, BlockSource
  <2>3. v \in Seq(Int) /\ r \in Seq(Int)
    BY <1>0, Concat
  <2>4. Len(u) \in Nat
    OBVIOUS
  <2>5. (lost = <<>> /\ r = <<>>) \/ (b = <<>> /\ Len(u) >= n /\ ~Newline(u[Len(u)]))
    <3>1. CASE TakesAll(u, b, lost) \/ RunsOut(u, b, lost)
      BY <3>1 DEF TakesAll, RunsOut
    <3>2. CASE TakesPlain(u, b)
      BY <1>0, <3>2 DEF TakesPlain
    <3>3. CASE TakesLine(u, b)
      BY <1>0, <2>4, <3>3 DEF TakesLine
    <3> QED
      BY <1>1, <3>1, <3>2, <3>3
  <2>6. NoneKept(lost)
    <3>1. CASE lost = <<>>
      BY <3>1 DEF NoneKept
    <3>2. CASE lost # <<>>
      <4>1. held = u \o lost /\ Len(u) >= n /\ ~Newline(u[Len(u)])
        BY <1>1, <2>5, <3>2 DEF Takes
      <4>2. /\ Len(held) = Len(u) + Len(lost) /\ Len(lost) \in Nat
            /\ \A i \in 1 .. Len(u) : held[i] = u[i]
            /\ \A j \in 1 .. Len(lost) : held[Len(u) + j] = lost[j]
        BY <4>1, Concat
      <4>3. Len(u) \in 1 .. Len(u)
        BY <1>0, <2>4, <4>1
      <4> SUFFICES ASSUME NEW j \in 1 .. Len(lost), Kept(lost[j]) PROVE FALSE
        BY DEF NoneKept
      <4>4. Len(u) + j \in n + 1 .. Len(held) /\ Len(u) \in n .. (Len(u) + j) - 1
        BY <1>0, <2>4, <4>1, <4>2
      <4>5. Newline(held[Len(u)])
        BY <2>1, <4>2, <4>4
      <4> QED
        BY <4>1, <4>2, <4>3, <4>5
    <3> QED
      BY <3>1, <3>2
  <2>7. LoneCRLast(u \o v)
    BY <2>1, <2>2
  <2>8. LoneCRLast(r) /\ (NoneKept(v) => NoneKept(r))
    <3> HIDE DEF r
    <3>1. NoneKept(v) => NoneKept(r)
      BY <2>3, NoneKeptConcat
    <3>2. LoneCRLast(v)
      <4> HIDE DEF v
      <4> QED
        BY <2>3, <2>7, LoneSuffix
    <3>3. LoneCRLast(r)
      BY <2>3, <3>2, LoneSuffix
    <3> QED
      BY <3>1, <3>3
  <2>9. held' = After(buf, n)
    BY <1>1 DEF Sends
  <2>10. LoneCRLast(held' \o r)
    <3>1. \/ r = <<>> /\ v = <<>> /\ (b = <<>> \/ \E byte \in Int : b = <<byte>>)
          \/ b = <<>> /\ u # <<>> /\ ~Newline(u[Len(u)])
      <4>1. lost = <<>> /\ r = <<>> => v = <<>>
        BY NoText, BlockFacts
      <4>2. Len(u) >= n => u # <<>>
        BY <1>0, BlockFacts
      <4> HIDE DEF r, v
      <4> QED
        BY <1>3, <2>5, <4>1, <4>2
    <3> HIDE DEF r, v
    <3>2. LoneCRLast(After(Buffer(u, b), n) \o r)
      BY <1>3, <2>3, <2>7, <2>8, <3>1, BlockLone
    <3> QED
      BY <2>9, <3>2
  <2>11. Shape(held', n)
    <3> HIDE DEF v
    <3>1. Shape(After(Buffer(u, b), n), n)
      BY <1>1, <1>3, <1>5, <2>3, <2>7, BlockShape
    <3> QED
      BY <2>9, <3>1
  <2>12. phase' = "end" => held' = <<>> /\ r = <<>>
    <3> SUFFICES ASSUME phase' = "end" PROVE held' = <<>> /\ r = <<>>
      OBVIOUS
    <3>1. buf \in Seq(Int)
      BY <1>1, BlockText
    <3>2. Len(buf) < n
      BY <1>1 DEF Sends
    <3> HIDE DEF buf
    <3>3. Len(buf) \in Nat
      BY <3>1
    <3>4. Len(buf) <= n
      BY <1>0, <3>2, <3>3
    <3>5. rest' = <<>>
      BY <1>1, <3>4 DEF TakesAll, buf
    <3>6. After(buf, n) \in Seq(Int) /\ Len(After(buf, n)) = IF Len(buf) < n THEN 0 ELSE Len(buf) - n
      BY <1>0, <3>1, Cut
    <3>7. After(buf, n) = <<>>
      BY <3>2, <3>6, EmptySeq
    <3> QED
      BY <2>9, <3>5, <3>7
  <2> QED
    BY <1>4, <2>1, <2>6, <2>10, <2>11, <2>12
<1>6. Increasing(DataOf(text)) => Increasing(next)
  BY <1>0, <1>4 DEF KeptInv
<1> HIDE DEF next
<1> QED
  BY <1>2, <1>5, <1>6 DEF KeptInv, Shape, next

\* Every step keeps it.
LEMMA KeptNext == ASSUME IInv, KeptInv, [Next]_vars PROVE KeptInv'
<1>1. IInv'
  BY NextInv
<1>2. CASE ReadNetascii
  BY <1>1, <1>2, KeptRead
<1>3. CASE ReadOctet \/ WriteOctet \/ WriteNetascii \/ WriteNothing
  <2>1. job' = job /\ mode' = mode /\ (job = "write" \/ mode # "netascii")
    BY <1>3 DEF ReadOctet, WriteOctet, WriteNetascii, WriteNothing, Send
  <2> QED
    BY <2>1 DEF KeptInv
<1>4. CASE UNCHANGED vars
  BY <1>4 DEF vars, KeptInv
<1> QED
  BY <1>2, <1>3, <1>4 DEF Next

\* What is sent is in order, and of what Reader sends nothing is missing.
LEMMA KeptImplies == ASSUME IInv, KeptInv PROVE DataKept
<1> SUFFICES ASSUME job # "write", mode = "netascii" PROVE DataKept
  BY DEF DataKept
<1>0. held \o rest \in Seq(Int) /\ out \in Seq(Int) /\ text \in Seq(Int)
  BY Concat DEF IInv, TypeOK
<1> DEFINE t == held \o rest
           o == DataOf(out)
           c == DataOf(t)
           w == DataOf(text)
<1>1. o \in Seq(Int) /\ c \in Seq(Int) /\ w \in Seq(Int)
  BY <1>0, CharType
<1>2. DataOf(out \o t) = o \o c
  BY <1>0, CharConcat
<1>3. /\ Increasing(w) => Increasing(DataOf(out \o t))
      /\ job = "read" /\ NoCR(text) =>
            /\ DataOf(out \o t) = w
            /\ phase = "end" => held = <<>> /\ rest = <<>>
  BY DEF KeptInv
<1>4. phase = "end" /\ held = <<>> /\ rest = <<>> => c = <<>>
  <2>1. held = <<>> /\ rest = <<>> => t = <<>>
    BY NoText, BlockFacts
  <2> QED
    BY <2>1, CharEmpty
<1> HIDE DEF t, o, c, w
<1>5. Increasing(o \o c) => Increasing(o)
  <2> DEFINE e == <<>>
  <2>1. o \o (c \o e) = o \o c /\ o \o e = o /\ e \in Seq(Int)
    BY <1>1, NoText, BlockFacts
  <2> HIDE DEF e
  <2>2. Increasing(o \o (c \o e)) => Increasing(o \o e)
    BY <1>1, <2>1, IncreasingDrop
  <2> QED
    BY <2>1, <2>2
<1>6. ASSUME o \o c = w
      PROVE  /\ \E k \in 0 .. Len(w) : o = Upto(w, k)
             /\ c = <<>> => o = w
  <2> DEFINE k == Len(o)
             x == Upto(w, k)
             y == After(w, k)
  <2>1. Len(w) = Len(o) + Len(c) /\ Len(o) \in Nat /\ Len(c) \in Nat
    BY <1>1, <1>6, Concat
  <2>2. k \in Nat /\ k <= Len(w) /\ k \in 0 .. Len(w)
    BY <2>1
  <2> HIDE DEF k
  <2>3. x \in Seq(Int) /\ Len(x) = k /\ y \in Seq(Int) /\ x \o y = w
    BY <1>1, <2>2, CutAt
  <2> HIDE DEF x, y
  <2>4. o = x
    BY <1>1, <1>6, <2>3, SameSplit DEF k
  <2>5. c = <<>> => o = w
    BY <1>1, <1>6, NoText
  <2> QED
    BY <2>2, <2>4, <2>5 DEF x
<1>7. /\ Increasing(w) => Increasing(o)
      /\ job = "read" /\ NoCR(text) =>
            /\ \E k \in 0 .. Len(w) : o = Upto(w, k)
            /\ phase = "end" => o = w
  BY <1>2, <1>3, <1>4, <1>5, <1>6
<1> QED
  BY <1>7 DEF DataKept, o, w

\* In netascii mode Reader and StdHandler repeat and move no data character of
\* any text, whatever the block size, and Reader loses none of a text with plain
\* newlines: converting again what is carried over adds line ends, CRs and nulls
\* between them (LineEndOnlyAtEnd does not hold), but does not touch them.
THEOREM DataCorrect == Spec => []DataKept
<1>1. Init => IInv /\ KeptInv
  BY InitInv, KeptInit
<1>2. IInv /\ KeptInv /\ [Next]_vars => IInv' /\ KeptInv'
  BY NextInv, KeptNext
<1>3. IInv /\ KeptInv => DataKept
  BY KeptImplies
<1> QED
  BY <1>1, <1>2, <1>3, PTL DEF Spec

-----------------------------------------------------------------------------
(* Every input comes to an end.  How the conversion stretches a text that    *)
(* was converted before.                                                    *)

\* Pairs where two texts meet.
Meet(s, t) ==
    s # <<>> /\ t # <<>> =>
        /\ s[Len(s)] = CR => t[1] \in {LF, NUL}
        /\ t[1] = LF => s[Len(s)] = CR

\* A text of pairs is one of pairs in its parts and where they meet.
LEMMA PairedParts ==
    ASSUME NEW s \in Seq(Int), NEW t \in Seq(Int)
    PROVE  Paired(s \o t) <=> Paired(s) /\ Paired(t) /\ Meet(s, t)
<1> DEFINE d == s \o t
<1>1. /\ d \in Seq(Int) /\ Len(d) = Len(s) + Len(t) /\ Len(s) \in Nat /\ Len(t) \in Nat
      /\ \A i \in 1 .. Len(s) : d[i] = s[i]
      /\ \A j \in 1 .. Len(t) : d[Len(s) + j] = t[j]
  BY Concat
<1>n. /\ Len(d) = Len(s) + Len(t) /\ Len(s) \in Nat /\ Len(t) \in Nat
      /\ (s # <<>> <=> Len(s) >= 1) /\ (t # <<>> <=> Len(t) >= 1)
  <2>1. (s # <<>> <=> Len(s) >= 1) /\ (t # <<>> <=> Len(t) >= 1)
    OBVIOUS
  <2> QED
    BY <1>1, <2>1
<1> HIDE DEF d
<1>2. ASSUME Paired(d) PROVE Paired(s)
  <2> SUFFICES ASSUME NEW i \in 1 .. Len(s) - 1
               PROVE  (s[i] = CR => s[i + 1] \in {LF, NUL}) /\ (s[i + 1] = LF => s[i] = CR)
    BY DEF Paired
  <2>1. i \in 1 .. Len(s) /\ i + 1 \in 1 .. Len(s) /\ i \in 1 .. Len(d) - 1
    BY <1>n
  <2>2. d[i] = s[i] /\ d[i + 1] = s[i + 1]
    BY <1>1, <2>1
  <2> QED
    BY <1>2, <2>1, <2>2 DEF Paired
<1>3. ASSUME Paired(d) PROVE Paired(t)
  <2> SUFFICES ASSUME NEW i \in 1 .. Len(t) - 1
               PROVE  (t[i] = CR => t[i + 1] \in {LF, NUL}) /\ (t[i + 1] = LF => t[i] = CR)
    BY DEF Paired
  <2> DEFINE k == Len(s) + i
  <2>1. i \in 1 .. Len(t) /\ i + 1 \in 1 .. Len(t) /\ k \in 1 .. Len(d) - 1
        /\ k + 1 = Len(s) + (i + 1)
    BY <1>n
  <2>2. d[k] = t[i] /\ d[k + 1] = t[i + 1]
    BY <1>1, <2>1
  <2> HIDE DEF k
  <2> QED
    BY <1>3, <2>1, <2>2 DEF Paired
<1>4. ASSUME s # <<>>, t # <<>>
      PROVE  /\ Len(s) \in 1 .. Len(s) /\ Len(s) \in 1 .. Len(d) - 1
             /\ d[Len(s)] = s[Len(s)] /\ d[Len(s) + 1] = t[1]
  <2>1. Len(s) \in 1 .. Len(s) /\ Len(s) \in 1 .. Len(d) - 1 /\ 1 \in 1 .. Len(t)
    BY <1>n, <1>4
  <2> QED
    BY <1>1, <2>1
<1>5. Paired(d) => Meet(s, t)
  BY <1>4 DEF Meet, Paired
<1>6. ASSUME Paired(s), Paired(t), Meet(s, t) PROVE Paired(d)
  <2> SUFFICES ASSUME NEW i \in 1 .. Len(d) - 1
               PROVE  (d[i] = CR => d[i + 1] \in {LF, NUL}) /\ (d[i + 1] = LF => d[i] = CR)
    BY DEF Paired
  <2>1. CASE i < Len(s)
    <3>1. i \in 1 .. Len(s) - 1 /\ i \in 1 .. Len(s) /\ i + 1 \in 1 .. Len(s)
      BY <1>n, <2>1
    <3> QED
      BY <1>1, <1>6, <3>1 DEF Paired
  <2>2. CASE i = Len(s)
    <3>1. s # <<>> /\ t # <<>>
      BY <1>n, <2>2
    <3> QED
      BY <1>4, <1>6, <2>2, <3>1 DEF Meet
  <2>3. CASE i > Len(s)
    <3> DEFINE j == i - Len(s)
    <3>1. /\ j \in 1 .. Len(t) - 1 /\ j \in 1 .. Len(t) /\ j + 1 \in 1 .. Len(t)
          /\ i = Len(s) + j /\ i + 1 = Len(s) + (j + 1)
      BY <1>n, <2>3
    <3>2. d[i] = t[j] /\ d[i + 1] = t[j + 1]
      <4>1. d[Len(s) + j] = t[j] /\ d[Len(s) + (j + 1)] = t[j + 1]
        BY <1>1, <3>1
      <4>2. i = Len(s) + j /\ i + 1 = Len(s) + (j + 1)
        BY <3>1
      <4> HIDE DEF j
      <4> QED
        BY <4>1, <4>2
    <3> HIDE DEF j
    <3> QED
      BY <1>6, <3>1, <3>2 DEF Paired
  <2>4. i < Len(s) \/ i = Len(s) \/ i > Len(s)
    BY <1>n
  <2> QED
    BY <2>1, <2>2, <2>3, <2>4
<1> QED
  BY <1>2, <1>3, <1>5, <1>6 DEF d

\* The last character is no CR.
NoCRLast(s) == s # <<>> => s[Len(s)] # CR

NoLF(s) == \A i \in 1 .. Len(s) : s[i] # LF

\* A text without LF has none in its parts.
LEMMA NoLFParts ==
    ASSUME NEW s \in Seq(Int), NEW t \in Seq(Int)
    PROVE  NoLF(s \o t) <=> NoLF(s) /\ NoLF(t)
<1> DEFINE d == s \o t
<1>1. /\ Len(d) = Len(s) + Len(t) /\ Len(s) \in Nat /\ Len(t) \in Nat
      /\ \A i \in 1 .. Len(s) : d[i] = s[i]
      /\ \A j \in 1 .. Len(t) : d[Len(s) + j] = t[j]
  BY Concat
<1> HIDE DEF d
<1>2. NoLF(d) => NoLF(s)
  <2> SUFFICES ASSUME NoLF(d), NEW i \in 1 .. Len(s) PROVE s[i] # LF
    BY DEF NoLF
  <2>1. i \in 1 .. Len(d) /\ d[i] = s[i]
    BY <1>1
  <2> QED
    BY <2>1 DEF NoLF
<1>3. NoLF(d) => NoLF(t)
  <2> SUFFICES ASSUME NoLF(d), NEW j \in 1 .. Len(t) PROVE t[j] # LF
    BY DEF NoLF
  <2>1. Len(s) + j \in 1 .. Len(d) /\ d[Len(s) + j] = t[j]
    BY <1>1
  <2> QED
    BY <2>1 DEF NoLF
<1>4. NoLF(s) /\ NoLF(t) => NoLF(d)
  <2> SUFFICES ASSUME NoLF(s), NoLF(t), NEW i \in 1 .. Len(d) PROVE d[i] # LF
    BY DEF NoLF
  <2>1. \/ i \in 1 .. Len(s) /\ d[i] = s[i]
        \/ \E j \in 1 .. Len(t) : i = Len(s) + j /\ d[i] = t[j]
    BY PlaceIn DEF d
  <2> QED
    BY <2>1 DEF NoLF
<1> QED
  BY <1>2, <1>3, <1>4 DEF d

\* What the conversion puts for a character, and the line end.
LEMMA PairedPieces ==
    /\ Paired(<<>>) /\ NoCRLast(<<>>) /\ NoLF(<<>>)
    /\ \A c \in Int : Paired(<<c>>) /\ (c # CR => NoCRLast(<<c>>)) /\ (c # LF => NoLF(<<c>>))
    /\ Paired(<<CR, LF>>) /\ NoCRLast(<<CR, LF>>)
    /\ Paired(<<CR, NUL>>) /\ NoCRLast(<<CR, NUL>>) /\ NoLF(<<CR, NUL>>)
<1>1. CR # LF /\ CR # NUL /\ LF # NUL /\ CR \in Int /\ LF \in Int /\ NUL \in Int
  BY DEF CR, LF, NUL
<1>2. Paired(<<>>) /\ NoCRLast(<<>>) /\ NoLF(<<>>)
  BY DEF Paired, NoCRLast, NoLF
<1>3. ASSUME NEW c \in Int
      PROVE  Paired(<<c>>) /\ (c # CR => NoCRLast(<<c>>)) /\ (c # LF => NoLF(<<c>>))
  BY DEF Paired, NoCRLast, NoLF
<1>4. ASSUME NEW c \in {LF, NUL}
      PROVE  Paired(<<CR, c>>) /\ NoCRLast(<<CR, c>>) /\ (c = NUL => NoLF(<<CR, c>>))
  <2> DEFINE s == <<CR, c>>
  <2>1. Len(s) = 2 /\ s[1] = CR /\ s[2] = c
    OBVIOUS
  <2> HIDE DEF s
  <2>2. Paired(s)
    BY <1>1, <2>1 DEF Paired
  <2>3. NoCRLast(s) /\ (c = NUL => NoLF(s))
    BY <1>1, <2>1 DEF NoCRLast, NoLF
  <2> QED
    BY <2>2, <2>3 DEF s
<1> QED
  BY <1>2, <1>3, <1>4

\* A converted text is one of pairs, and does not end in a CR; it has a LF only
\* if the text had one.
LEMMA PairedTo ==
    ASSUME NEW s \in Seq(Int)
    PROVE  LET t == FormatToNETASCII(s)
           IN  Paired(t) /\ NoCRLast(t) /\ (NoLF(s) => NoLF(t))
<1> DEFINE F(x) == FormatToNETASCII(x)
           Holds(x) == Paired(F(x)) /\ NoCRLast(F(x)) /\ (NoLF(x) => NoLF(F(x)))
           S == {x \in Seq(Int) : Holds(x)}
<1>0. /\ \A x \in Seq(Int) : F(x) \in Seq(Int) /\ (F(x) # <<>> => F(x)[1] # LF)
      /\ CR \in Int /\ LF \in Int /\ NUL \in Int /\ CR # LF /\ LF # NUL
  BY Types, ToFirst, OfEmpty DEF CR, LF, NUL
<1>1. <<>> \in S
  BY OfEmpty, PairedPieces
<1>2. ASSUME NEW p \in Seq(Int), NEW e \in Seq(Int), NEW r \in Seq(Int), r \in S,
             F(p \o r) = e \o F(r), e # <<>>, Paired(e), NoCRLast(e), NoLF(p) => NoLF(e)
      PROVE  p \o r \in S
  <2>1. p \o r \in Seq(Int)
    BY Concat
  <2> DEFINE f == F(r)
  <2>2. /\ f \in Seq(Int) /\ (f # <<>> => f[1] # LF) /\ Paired(f) /\ NoCRLast(f)
        /\ (NoLF(r) => NoLF(f))
    BY <1>0, <1>2
  <2>3. F(p \o r) = e \o f
    BY <1>2 DEF f
  <2> HIDE DEF f
  <2>4. Paired(e \o f)
    <3>1. Meet(e, f)
      BY <1>2, <2>2 DEF Meet, NoCRLast
    <3> QED
      BY <1>2, <2>2, <3>1, PairedParts
  <2>5. NoCRLast(e \o f)
    <3>1. CASE f = <<>>
      BY <1>2, <3>1, NoText
    <3>2. CASE f # <<>>
      BY <2>2, <3>2, Ends DEF NoCRLast
    <3> QED
      BY <3>1, <3>2
  <2>6. (NoLF(p \o r) => NoLF(p) /\ NoLF(r)) /\ (NoLF(e) /\ NoLF(f) => NoLF(e \o f))
    BY <2>2, NoLFParts
  <2> HIDE DEF F
  <2> QED
    BY <1>2, <2>1, <2>2, <2>3, <2>4, <2>5, <2>6
<1>3. ASSUME NEW r \in Seq(Int), r \in S PROVE <<CR, LF>> \o r \in S
  <2> DEFINE p == <<CR, LF>>
  <2>1. F(p \o r) = p \o F(r)
    BY ToEquations
  <2>2. p \in Seq(Int) /\ p # <<>> /\ Paired(p) /\ NoCRLast(p)
    BY PairedPieces, BlockFacts
  <2> HIDE DEF F, S, p
  <2>3. p \o r \in S
    BY <1>2, <1>3, <2>1, <2>2
  <2> QED
    BY <2>3 DEF p
<1>4. ASSUME NEW c \in Int, NEW r \in Seq(Int),
             r \in S /\ ~(c = CR /\ r # <<>> /\ r[1] = LF)
      PROVE  <<c>> \o r \in S
  <2> DEFINE p == <<c>>
             e == Encoded(c)
  <2>1. F(p \o r) = e \o F(r)
    BY <1>4, ToEquations
  <2>2. p \in Seq(Int) /\ e \in Seq(Int) /\ e # <<>> /\ Len(p) = 1 /\ p[1] = c
    <3>1. e \in Seq(Int) /\ e # <<>>
      BY EncodedFacts
    <3> QED
      BY <3>1
  <2>3. Paired(e) /\ NoCRLast(e) /\ (c # LF => NoLF(e))
    BY PairedPieces DEF Encoded
  <2>4. NoLF(p) => c # LF
    <3> HIDE DEF p
    <3> QED
      BY <2>2 DEF NoLF
  <2> HIDE DEF F, S, p, e
  <2>5. p \o r \in S
    BY <1>2, <1>4, <2>1, <2>2, <2>3, <2>4
  <2> QED
    BY <2>5 DEF p
<1>5. s \in S
  <2> HIDE DEF S
  <2> QED
    BY <1>1, <1>3, <1>4, TextInduction
<1> QED
  BY <1>5

\* A text of pairs grows by half at most, and by less where it does not begin
\* with a CR or has a line end; by one more where a pair is cut at its end.
First(s) == IF s # <<>> /\ ~Newline(s[1]) THEN 1 ELSE 0
Lines(s) == IF NoLF(s) THEN 0 ELSE 1
Open(s) == IF NoCRLast(s) THEN 0 ELSE 1
Most(s) == 3 * Len(s) - First(s) - Lines(s) + Open(s)

\* How the bound changes with what is put in front of a text.
LEMMA MostFront ==
    ASSUME NEW p \in Seq(Int), NEW r \in Seq(Int), p # <<>>
    PROVE  /\ First(p \o r) = First(p) /\ Open(p \o r) >= Open(r)
           /\ NoLF(p) => Lines(p \o r) = Lines(r)
           /\ First(r) \in 0 .. 1 /\ Lines(r) \in 0 .. 1 /\ Open(r) \in 0 .. 1
           /\ Lines(p \o r) \in 0 .. 1 /\ Open(p \o r) \in 0 .. 1
<1>1. p \o r # <<>> /\ (p \o r)[1] = p[1]
  BY Ends
<1>2. First(p \o r) = First(p)
  BY <1>1 DEF First
<1>3. NoCRLast(p \o r) => NoCRLast(r)
  BY Ends DEF NoCRLast
<1>4. Open(p \o r) >= Open(r)
  BY <1>3 DEF Open
<1>5. NoLF(p) => Lines(p \o r) = Lines(r)
  BY NoLFParts DEF Lines
<1>6. /\ First(r) \in 0 .. 1 /\ Lines(r) \in 0 .. 1 /\ Open(r) \in 0 .. 1
      /\ Lines(p \o r) \in 0 .. 1 /\ Open(p \o r) \in 0 .. 1
  BY DEF First, Lines, Open
<1> QED
  BY <1>2, <1>4, <1>5, <1>6

\* What is put in front of a text of pairs adds to its length and to what it
\* is converted to.
LEMMA Lengths ==
    ASSUME NEW p \in Seq(Int), NEW e \in Seq(Int), NEW r \in Seq(Int),
           FormatToNETASCII(p \o r) = e \o FormatToNETASCII(r)
    PROVE  /\ p \o r \in Seq(Int) /\ Len(p \o r) = Len(p) + Len(r)
           /\ Len(FormatToNETASCII(p \o r)) = Len(e) + Len(FormatToNETASCII(r))
           /\ Len(p) \in Nat /\ Len(r) \in Nat /\ Len(e) \in Nat
           /\ Len(FormatToNETASCII(r)) \in Nat
<1> DEFINE f == FormatToNETASCII(r)
<1>1. f \in Seq(Int) /\ FormatToNETASCII(p \o r) = e \o f
  BY Types
<1> HIDE DEF f
<1>2. p \o r \in Seq(Int) /\ Len(p \o r) = Len(p) + Len(r) /\ Len(e \o f) = Len(e) + Len(f)
  BY <1>1, Concat
<1>3. Len(p) \in Nat /\ Len(r) \in Nat /\ Len(e) \in Nat /\ Len(f) \in Nat
  BY <1>1
<1> QED
  BY <1>1, <1>2, <1>3 DEF f

\* The bound is kept by what is put in front of a text.
LEMMA MostStep ==
    ASSUME NEW p \in Seq(Int), NEW e \in Seq(Int), NEW r \in Seq(Int), p # <<>>,
           FormatToNETASCII(p \o r) = e \o FormatToNETASCII(r),
           2 * Len(FormatToNETASCII(r)) <= Most(r),
           2 * Len(e) + First(p \o r) + Lines(p \o r) + Open(r)
              <= 3 * Len(p) + First(r) + Lines(r) + Open(p \o r)
    PROVE  2 * Len(FormatToNETASCII(p \o r)) <= Most(p \o r)
<1> DEFINE f == Len(FormatToNETASCII(r))
           g == Len(FormatToNETASCII(p \o r))
           x == First(r)
           y == Lines(r)
           z == Open(r)
           x2 == First(p \o r)
           y2 == Lines(p \o r)
           z2 == Open(p \o r)
           l == Len(r)
           k == Len(p)
           m == Len(e)
           d == Len(p \o r)
<1>1. d = k + l /\ g = m + f /\ k \in Nat /\ l \in Nat /\ m \in Nat /\ f \in Nat
  BY Lengths
<1>2. /\ x \in Int /\ y \in Int /\ z \in Int
      /\ x2 \in Int /\ y2 \in Int /\ z2 \in Int
  BY DEF First, Lines, Open
<1>3. 2 * f <= 3 * l - x - y + z
  BY DEF Most
<1>4. 2 * m + x2 + y2 + z <= 3 * k + x + y + z2
  OBVIOUS
<1>5. Most(p \o r) = 3 * d - x2 - y2 + z2
  BY DEF Most
<1> HIDE DEF f, g, x, y, z, x2, y2, z2, l, k, m, d
<1>6. 2 * g <= 3 * d - x2 - y2 + z2
  BY <1>1, <1>2, <1>3, <1>4
<1> QED
  BY <1>5, <1>6 DEF g

\* The bound holds.
LEMMA PairedGrows ==
    ASSUME NEW s \in Seq(Int), Paired(s), ~StartsWithLF(s)
    PROVE  2 * Len(FormatToNETASCII(s)) <= Most(s)
<1> DEFINE F(x) == FormatToNETASCII(x)
           S == {x \in Seq(Int) : Paired(x) /\ ~StartsWithLF(x) => 2 * Len(F(x)) <= Most(x)}
<1>0. CR \in Int /\ LF \in Int /\ NUL \in Int /\ CR # LF /\ LF # NUL /\ CR # NUL
  BY DEF CR, LF, NUL
<1>1. <<>> \in S
  <2>1. Most(<<>>) = 0
    BY PairedPieces DEF Most, First, Lines, Open
  <2> QED
    BY <2>1, OfEmpty
<1>2. ASSUME NEW r \in Seq(Int), r \in S PROVE <<CR, LF>> \o r \in S
  <2> DEFINE p == <<CR, LF>>
  <2>1. F(p \o r) = p \o F(r)
    BY ToEquations
  <2>2. p \in Seq(Int) /\ Len(p) = 2 /\ p # <<>> /\ p[1] = CR /\ p[Len(p)] = LF
    BY BlockFacts
  <2> HIDE DEF p
  <2>3. /\ p \o r \in Seq(Int) /\ Len(p \o r) = Len(p) + Len(r)
    BY <2>2, Concat
  <2> SUFFICES ASSUME Paired(p \o r) PROVE 2 * Len(F(p \o r)) <= Most(p \o r)
    BY <2>3 DEF p
  <2>4. Paired(r) /\ Meet(p, r)
    BY <2>2, PairedParts
  <2>5. ~StartsWithLF(r)
    BY <1>0, <2>2, <2>4 DEF Meet, StartsWithLF
  <2>6. 2 * Len(F(r)) <= Most(r)
    BY <1>2, <2>4, <2>5
  <2>7. First(p) = 0
    BY <2>2 DEF First, Newline
  <2>8. /\ First(p \o r) = 0 /\ Open(p \o r) >= Open(r)
        /\ First(r) \in 0 .. 1 /\ Lines(r) \in 0 .. 1 /\ Open(r) \in 0 .. 1
        /\ Lines(p \o r) \in 0 .. 1 /\ Open(p \o r) \in 0 .. 1
    BY <2>2, <2>7, MostFront
  <2>9. 2 * Len(p) + First(p \o r) + Lines(p \o r) + Open(r)
           <= 3 * Len(p) + First(r) + Lines(r) + Open(p \o r)
    BY <2>2, <2>8
  <2> QED
    BY <2>1, <2>2, <2>6, <2>9, MostStep
<1>3. ASSUME NEW c \in Int, NEW r \in Seq(Int),
             r \in S /\ ~(c = CR /\ r # <<>> /\ r[1] = LF)
      PROVE  <<c>> \o r \in S
  <2> DEFINE p == <<c>>
             e == Encoded(c)
  <2>1. F(p \o r) = e \o F(r)
    BY <1>3, ToEquations
  <2>2. p \in Seq(Int) /\ Len(p) = 1 /\ p # <<>> /\ p[1] = c /\ p[Len(p)] = c
    OBVIOUS
  <2>3. e \in Seq(Int) /\ (c = CR => Len(e) = 2) /\ (~Newline(c) => Len(e) = 1)
    <3>1. e \in Seq(Int)
      BY EncodedFacts
    <3>2. (c = CR => Len(e) = 2) /\ (~Newline(c) => Len(e) = 1)
      BY DEF Encoded, Newline
    <3> QED
      BY <3>1, <3>2
  <2>n. c # LF => NoLF(p)
    BY PairedPieces
  <2>o. c = CR => Open(p) = 1
    <3> HIDE DEF p
    <3> QED
      BY <2>2 DEF Open, NoCRLast
  <2> HIDE DEF p, e
  <2>4. /\ p \o r \in Seq(Int) /\ Len(p \o r) = Len(p) + Len(r)
    BY <2>2, Concat
  <2> SUFFICES ASSUME Paired(p \o r), ~StartsWithLF(p \o r)
               PROVE  2 * Len(F(p \o r)) <= Most(p \o r)
    BY <2>4 DEF p
  <2>5. c # LF
    BY <2>2, Ends DEF StartsWithLF
  <2>6. Paired(r) /\ Meet(p, r)
    BY <2>2, PairedParts
  <2>7. ~StartsWithLF(r)
    BY <1>3, <2>2, <2>6 DEF Meet, StartsWithLF
  <2>8. 2 * Len(F(r)) <= Most(r)
    BY <1>3, <2>6, <2>7
  <2>9. /\ First(p \o r) = First(p) /\ Open(p \o r) >= Open(r) /\ Lines(p \o r) = Lines(r)
        /\ First(r) \in 0 .. 1 /\ Lines(r) \in 0 .. 1 /\ Open(r) \in 0 .. 1
        /\ Open(p \o r) \in 0 .. 1
    BY <2>2, <2>n, <2>5, MostFront
  <2>10. CASE c = CR /\ r = <<>>
    <3>1. Len(r) = 0 /\ Len(F(r)) = 0 /\ Lines(r) = 0
      BY <2>10, OfEmpty, PairedPieces DEF Lines
    <3>2. Open(p \o r) = 1
      BY <2>2, <2>10, <2>o, NoText
    <3>3. First(p) = 0
      BY <2>2, <2>10 DEF First, Newline
    <3>4. Open(r) = 0 /\ First(r) = 0
      BY <2>10, PairedPieces DEF Open, First
    <3>5. 2 * Len(e) + First(p \o r) + Lines(p \o r) + Open(r)
             <= 3 * Len(p) + First(r) + Lines(r) + Open(p \o r)
      <4>1. /\ Len(e) = 2 /\ Len(p) = 1 /\ First(p \o r) = 0 /\ Lines(p \o r) = 0
            /\ Open(r) = 0 /\ First(r) = 0 /\ Lines(r) = 0 /\ Open(p \o r) = 1
        BY <2>2, <2>3, <2>9, <2>10, <3>1, <3>2, <3>3, <3>4
      <4> QED
        BY <4>1
    <3> QED
      BY <2>1, <2>2, <2>3, <2>8, <3>5, MostStep
  <2>11. CASE c = CR /\ r # <<>>
    <3>1. r[1] = NUL
      BY <2>2, <2>6, <2>7, <2>11 DEF Meet, StartsWithLF
    <3>2. First(r) = 1 /\ First(p) = 0
      BY <1>0, <2>2, <2>11, <3>1 DEF First, Newline
    <3>3. 2 * Len(e) + First(p \o r) + Lines(p \o r) + Open(r)
             <= 3 * Len(p) + First(r) + Lines(r) + Open(p \o r)
      <4>1. /\ Len(e) = 2 /\ Len(p) = 1 /\ First(p \o r) = 0 /\ Lines(p \o r) = Lines(r) /\ First(r) = 1
            /\ Open(p \o r) >= Open(r)
            /\ Lines(r) \in 0 .. 1 /\ Open(r) \in 0 .. 1 /\ Open(p \o r) \in 0 .. 1
        BY <2>2, <2>3, <2>9, <2>11, <3>2
      <4> QED
        BY <4>1
    <3> QED
      BY <2>1, <2>2, <2>3, <2>8, <3>3, MostStep
  <2>12. CASE c # CR
    <3>1. ~Newline(c)
      BY <2>5, <2>12 DEF Newline
    <3>2. First(p) = 1
      BY <2>2, <3>1 DEF First
    <3>3. 2 * Len(e) + First(p \o r) + Lines(p \o r) + Open(r)
             <= 3 * Len(p) + First(r) + Lines(r) + Open(p \o r)
      <4>1. /\ Len(e) = 1 /\ Len(p) = 1 /\ First(p \o r) = 1 /\ Lines(p \o r) = Lines(r) /\ First(r) \in 0 .. 1
            /\ Open(p \o r) >= Open(r)
            /\ Lines(r) \in 0 .. 1 /\ Open(r) \in 0 .. 1 /\ Open(p \o r) \in 0 .. 1
        BY <2>2, <2>3, <2>9, <3>1, <3>2
      <4> QED
        BY <4>1
    <3> QED
      BY <2>1, <2>2, <2>3, <2>8, <3>3, MostStep
  <2> QED
    BY <2>10, <2>11, <2>12
<1>4. s \in S
  <2> HIDE DEF S
  <2> QED
    BY <1>1, <1>2, <1>3, TextInduction
<1> QED
  BY <1>4

\* Newlines up to the last character, which may be any.
Run(s) == \A i \in 1 .. Len(s) - 1 : Newline(s[i])

\* Newlines in pairs do not grow, but for one that is cut off.
LEMMA RunGrows ==
    ASSUME NEW s \in Seq(Int), Paired(s), ~StartsWithLF(s), Run(s)
    PROVE  LET f == Len(FormatToNETASCII(s))
           IN  f <= Len(s) + 1 /\ (s # <<>> /\ s[Len(s)] = LF => f <= Len(s))
<1> DEFINE F(x) == FormatToNETASCII(x)
           Holds(x) == /\ Len(F(x)) <= Len(x) + 1
                       /\ x = <<>> \/ x[Len(x)] = LF => Len(F(x)) <= Len(x)
           S == {x \in Seq(Int) : Paired(x) /\ ~StartsWithLF(x) /\ Run(x) => Holds(x)}
<1>0. CR \in Int /\ LF \in Int /\ NUL \in Int /\ CR # LF /\ LF # NUL /\ CR # NUL
  BY DEF CR, LF, NUL
<1>1. <<>> \in S
  BY OfEmpty
<1>2. ASSUME NEW p \in Seq(Int), NEW r \in Seq(Int), Run(p \o r)
      PROVE  Run(r) /\ (r # <<>> => \A i \in 1 .. Len(p) : Newline(p[i]))
  <2> DEFINE d == p \o r
  <2>1. /\ Len(d) = Len(p) + Len(r) /\ Len(p) \in Nat /\ Len(r) \in Nat
        /\ \A i \in 1 .. Len(p) : d[i] = p[i]
        /\ \A j \in 1 .. Len(r) : d[Len(p) + j] = r[j]
    BY Concat
  <2>2. r # <<>> => Len(r) >= 1
    OBVIOUS
  <2>3. Run(d)
    BY <1>2
  <2> HIDE DEF d
  <2>4. ASSUME NEW i \in 1 .. Len(r) - 1 PROVE Newline(r[i])
    <3>1. i \in 1 .. Len(r) /\ Len(p) + i \in 1 .. Len(d) - 1
      <4>1. Len(d) = Len(p) + Len(r) /\ Len(p) \in Nat /\ Len(r) \in Nat
        BY <2>1
      <4> QED
        BY <4>1
    <3> QED
      BY <2>1, <2>3, <3>1 DEF Run
  <2>5. ASSUME r # <<>>, NEW i \in 1 .. Len(p) PROVE Newline(p[i])
    <3>1. i \in 1 .. Len(d) - 1
      <4>1. Len(d) = Len(p) + Len(r) /\ Len(p) \in Nat /\ Len(r) \in Nat /\ Len(r) >= 1
        BY <2>1, <2>2, <2>5
      <4> QED
        BY <4>1
    <3> QED
      BY <2>1, <2>3, <3>1 DEF Run
  <2> QED
    BY <2>4, <2>5 DEF Run
<1>3. ASSUME NEW r \in Seq(Int), r \in S PROVE <<CR, LF>> \o r \in S
  <2> DEFINE p == <<CR, LF>>
  <2>1. F(p \o r) = p \o F(r)
    BY ToEquations
  <2>2. p \in Seq(Int) /\ Len(p) = 2 /\ p # <<>> /\ p[1] = CR /\ p[Len(p)] = LF
    BY BlockFacts
  <2> HIDE DEF p
  <2>3. /\ p \o r \in Seq(Int) /\ Len(p \o r) = Len(p) + Len(r)
        /\ Len(F(p \o r)) = Len(p) + Len(F(r))
        /\ Len(r) \in Nat /\ Len(F(r)) \in Nat
    BY <2>1, <2>2, Lengths
  <2> SUFFICES ASSUME Paired(p \o r), Run(p \o r) PROVE Holds(p \o r)
    BY <2>3 DEF p
  <2>4. Paired(r) /\ Meet(p, r) /\ Run(r)
    BY <1>2, <2>2, PairedParts
  <2>5. ~StartsWithLF(r)
    BY <1>0, <2>2, <2>4 DEF Meet, StartsWithLF
  <2>6. Holds(r)
    BY <1>3, <2>4, <2>5
  <2>7. p \o r # <<>> /\ (r # <<>> => (p \o r)[Len(p \o r)] = r[Len(r)])
    BY <2>2, Ends
  <2> HIDE DEF F
  <2>8. /\ Len(F(r)) <= Len(r) + 1
        /\ (p \o r)[Len(p \o r)] = LF => Len(F(r)) <= Len(r)
    BY <2>6, <2>7
  <2>9. Len(F(p \o r)) <= Len(p \o r) + 1
    BY <2>2, <2>3, <2>8
  <2>10. Len(F(r)) <= Len(r) => Len(F(p \o r)) <= Len(p \o r)
    BY <2>2, <2>3
  <2> QED
    BY <2>7, <2>8, <2>9, <2>10
<1>4. ASSUME NEW c \in Int, NEW r \in Seq(Int),
             r \in S /\ ~(c = CR /\ r # <<>> /\ r[1] = LF)
      PROVE  <<c>> \o r \in S
  <2> DEFINE p == <<c>>
             e == Encoded(c)
  <2>1. F(p \o r) = e \o F(r)
    BY <1>4, ToEquations
  <2>2. p \in Seq(Int) /\ Len(p) = 1 /\ p # <<>> /\ p[1] = c /\ p[Len(p)] = c
    OBVIOUS
  <2>3. e \in Seq(Int) /\ Len(e) <= 2
    <3>1. e \in Seq(Int)
      BY EncodedFacts
    <3>2. Len(e) <= 2
      BY DEF Encoded
    <3> QED
      BY <3>1, <3>2
  <2> HIDE DEF p, e
  <2>4. /\ p \o r \in Seq(Int) /\ Len(p \o r) = Len(p) + Len(r)
        /\ Len(F(p \o r)) = Len(e) + Len(F(r))
        /\ Len(r) \in Nat /\ Len(F(r)) \in Nat /\ Len(e) \in Nat
    <3>1. p \in Seq(Int) /\ e \in Seq(Int)
      BY <2>2, <2>3
    <3> QED
      BY <2>1, <3>1, Lengths
  <2> SUFFICES ASSUME Paired(p \o r), ~StartsWithLF(p \o r), Run(p \o r)
               PROVE  Holds(p \o r)
    BY <2>4 DEF p
  <2>5. c # LF
    BY <2>2, Ends DEF StartsWithLF
  <2>6. Paired(r) /\ Meet(p, r)
    BY <2>2, PairedParts
  <2>7. ~StartsWithLF(r)
    BY <1>4, <2>2, <2>6 DEF Meet, StartsWithLF
  <2>8. CASE r = <<>>
    <3>1. Len(r) = 0 /\ Len(F(r)) = 0 /\ p \o r = p
      BY <2>2, <2>8, OfEmpty, NoText
    <3>2. Len(F(p \o r)) <= Len(p \o r) + 1
      <4> HIDE DEF F
      <4> QED
        BY <2>2, <2>3, <2>4, <3>1
    <3>3. p \o r # <<>> /\ (p \o r)[Len(p \o r)] # LF
      BY <2>2, <2>5, <3>1
    <3> HIDE DEF F
    <3> QED
      BY <3>2, <3>3
  <2>9. CASE r # <<>>
    <3>1. Run(r) /\ Newline(c)
      <4>1. Run(r) /\ \A i \in 1 .. Len(p) : Newline(p[i])
        BY <1>2, <2>2, <2>9
      <4> QED
        BY <2>2, <4>1
    <3>2. r[1] = NUL
      BY <2>2, <2>5, <2>6, <2>7, <2>9, <3>1 DEF Meet, StartsWithLF, Newline
    <3>3. Len(r) = 1
      <4>1. Len(r) >= 1
        BY <2>9
      <4>2. ~Newline(r[1])
        BY <1>0, <3>2 DEF Newline
      <4>3. ~(1 \in 1 .. Len(r) - 1)
        BY <3>1, <4>2 DEF Run
      <4>4. Len(r) \in Nat
        BY <2>4
      <4>5. \A k \in Nat : k >= 1 /\ ~(1 \in 1 .. k - 1) => k = 1
        OBVIOUS
      <4> QED
        BY <4>1, <4>3, <4>4, <4>5
    <3>4. r = <<NUL>>
      BY <3>2, <3>3
    <3>5. Len(F(r)) = 1
      <4>1. F(<<NUL>>) = <<NUL>>
        BY <1>0, ToSingle DEF Encoded
      <4> QED
        BY <3>4, <4>1
    <3>6. (p \o r)[Len(p \o r)] # LF /\ p \o r # <<>>
      <4>1. (p \o r)[Len(p \o r)] = r[Len(r)] /\ p \o r # <<>>
        BY <2>2, <2>9, Ends
      <4> QED
        BY <1>0, <3>2, <3>3, <4>1
    <3> HIDE DEF F
    <3>7. Len(F(p \o r)) <= Len(p \o r) + 1
      BY <2>2, <2>3, <2>4, <3>3, <3>5
    <3> QED
      BY <3>6, <3>7
  <2> QED
    BY <2>8, <2>9
<1>5. s \in S
  <2> HIDE DEF S
  <2> QED
    BY <1>1, <1>3, <1>4, TextInduction
<1> QED
  BY <1>5

\* A text of pairs that begins with the LF of a pair grows by one more.
LEMMA PairedStart ==
    ASSUME NEW s \in Seq(Int), Paired(s), StartsWithLF(s)
    PROVE  \E r \in Seq(Int) :
              LET f == Len(FormatToNETASCII(s))
              IN  /\ s = <<LF>> \o r /\ FormatToNETASCII(s) = <<CR, LF>> \o FormatToNETASCII(r)
                  /\ 2 * f <= 3 * Len(s) + 1 - Lines(r) + Open(s)
<1>0. CR \in Int /\ LF \in Int /\ NUL \in Int /\ CR # LF /\ LF # NUL
  BY DEF CR, LF, NUL
<1>1. PICK c \in Int, r \in Seq(Int) : s = <<c>> \o r
  BY FirstAndRest DEF StartsWithLF
<1> DEFINE p == <<LF>>
           e == <<CR, LF>>
           f == FormatToNETASCII(s)
           g == Len(FormatToNETASCII(r))
<1>2. p \in Seq(Int) /\ Len(p) = 1 /\ p # <<>> /\ p[Len(p)] = LF
  BY <1>0
<1>3. s = p \o r
  <2>1. (<<c>> \o r)[1] = c
    <3>1. <<c>> \in Seq(Int) /\ <<c>> # <<>> /\ <<c>>[1] = c
      OBVIOUS
    <3> QED
      BY <3>1, Ends
  <2> QED
    BY <1>1, <2>1 DEF StartsWithLF
<1>4. f = e \o FormatToNETASCII(r)
  <2>1. Encoded(LF) = e
    BY <1>0 DEF Encoded
  <2>2. FormatToNETASCII(p \o r) = Encoded(LF) \o FormatToNETASCII(r)
    BY <1>0, ToEquations
  <2> QED
    BY <1>3, <2>1, <2>2
<1>5. e \in Seq(Int) /\ Len(e) = 2
  BY BlockFacts
<1>6. FormatToNETASCII(p \o r) = e \o FormatToNETASCII(r)
  BY <1>3, <1>4
<1> HIDE DEF p, e
<1>7. Len(p \o r) = Len(p) + Len(r) /\ Len(FormatToNETASCII(p \o r)) = Len(e) + g
      /\ Len(r) \in Nat /\ g \in Nat
  <2>1. p \in Seq(Int) /\ e \in Seq(Int)
    BY <1>2, <1>5
  <2> QED
    BY <1>6, <2>1, Lengths
<1>8. Paired(r) /\ Meet(p, r)
  BY <1>2, <1>3, PairedParts
<1>9. ~StartsWithLF(r)
  BY <1>0, <1>2, <1>8 DEF Meet, StartsWithLF
<1>10. 2 * g <= Most(r)
  BY <1>8, <1>9, PairedGrows
<1>11. /\ Open(s) >= Open(r) /\ First(r) \in 0 .. 1 /\ Lines(r) \in 0 .. 1
       /\ Open(r) \in 0 .. 1 /\ Open(s) \in 0 .. 1
  BY <1>2, <1>3, MostFront
<1> DEFINE l == Len(s)
           k == Len(r)
           x == First(r)
           y == Lines(r)
           z == Open(r)
           z2 == Open(s)
           h == Len(f)
<1>12. /\ l = 1 + k /\ h = 2 + g /\ k \in Nat /\ g \in Nat /\ x \in 0 .. 1 /\ y \in 0 .. 1
       /\ z \in 0 .. 1 /\ z2 \in 0 .. 1 /\ z2 >= z
  <2>1. l = Len(p) + k /\ h = Len(e) + g /\ k \in Nat /\ g \in Nat
    BY <1>3, <1>7
  <2>2. /\ x \in 0 .. 1 /\ y \in 0 .. 1 /\ z \in 0 .. 1 /\ z2 \in 0 .. 1 /\ z2 >= z
    BY <1>11
  <2> HIDE DEF l, h, x, y, z, z2, k, g
  <2> QED
    BY <1>2, <1>5, <2>1, <2>2
<1>13. 2 * g <= 3 * k - x - y + z
  BY <1>10 DEF Most
<1> HIDE DEF f, g, l, k, x, y, z, z2, h
<1>14. 2 * h <= 3 * l + 1 - y + z2
  BY <1>12, <1>13
<1> QED
  BY <1>3, <1>4, <1>14 DEF p, e, f, h, l, y, z2

\* A block that ends in newlines is cut before them, and between pairs.
LEMMA RunCut ==
    ASSUME NEW u \in Seq(Int), Paired(u), Len(u) >= n, Newline(u[n]),
           \A j \in n .. Len(u) - 1 : Newline(u[j])
    PROVE  \E a, w \in Seq(Int) :
              LET g == Len(FormatToNETASCII(w))
              IN  /\ u = a \o w /\ Len(a) < n /\ Paired(a) /\ Open(a) = 0
                  /\ FormatToNETASCII(u) = FormatToNETASCII(a) \o FormatToNETASCII(w)
                  /\ g <= Len(w) + 1 /\ (u[Len(u)] = LF => g <= Len(w))
<1> DEFINE F(x) == FormatToNETASCII(x)
<1>0. /\ n \in Nat /\ n >= 8 /\ Len(u) \in Nat
      /\ CR \in Int /\ LF \in Int /\ NUL \in Int /\ CR # LF /\ LF # NUL /\ CR # NUL
  BY BlockAssumption DEF CR, LF, NUL
<1>1. PICK a \in Seq(Int), w \in Seq(Int) :
         /\ u = a \o w /\ Len(a) < n /\ w # <<>> /\ Apart(a, w)
         /\ \A j \in 1 .. Len(w) :
               w[j] = CR \/ (Len(a) + j \in n .. Len(u) /\ w[j] = u[Len(a) + j])
  BY CutLine
<1>2. Paired(a) /\ Paired(w) /\ Meet(a, w)
  BY <1>1, PairedParts
<1>3. Len(u) = Len(a) + Len(w) /\ Len(a) \in Nat /\ Len(w) \in Nat /\ Len(w) >= 1
  <2>1. Len(u) = Len(a) + Len(w)
    BY <1>1, Concat
  <2>2. Len(a) \in Nat /\ Len(w) \in Nat /\ Len(w) >= 1
    BY <1>1
  <2> QED
    BY <2>1, <2>2
<1>4. ASSUME NEW j \in 1 .. Len(w), w[j] # CR
      PROVE  Len(a) + j \in n .. Len(u) /\ w[j] = u[Len(a) + j]
  BY <1>1, <1>4
<1>5. Run(w)
  <2> SUFFICES ASSUME NEW j \in 1 .. Len(w) - 1, w[j] # CR PROVE Newline(w[j])
    BY DEF Run, Newline
  <2>1. j \in 1 .. Len(w) /\ Len(a) + j < Len(u)
    BY <1>3
  <2>2. Len(a) + j \in n .. Len(u) /\ w[j] = u[Len(a) + j]
    BY <1>4, <2>1
  <2>3. Len(a) + j \in n .. Len(u) - 1
    BY <1>0, <2>1, <2>2
  <2> QED
    BY <2>2, <2>3
<1>6. w[1] = CR
  <2> SUFFICES ASSUME w[1] # CR PROVE FALSE
    OBVIOUS
  <2>1. Len(a) + 1 \in n .. Len(u) /\ w[1] = u[Len(a) + 1]
    BY <1>3, <1>4
  <2>2. Len(a) + 1 = n /\ Len(a) >= 7
    BY <1>0, <1>1, <1>3, <2>1
  <2>3. w[1] = LF
    BY <2>1, <2>2 DEF Newline
  <2>4. a # <<>>
    BY <2>2
  <2> QED
    BY <1>1, <1>2, <2>3, <2>4 DEF Meet, Apart
<1>7. ~StartsWithLF(w)
  BY <1>0, <1>6 DEF StartsWithLF
<1>8. Open(a) = 0
  BY <1>0, <1>1, <1>2, <1>6 DEF Open, NoCRLast, Meet
<1>9. /\ Len(F(w)) <= Len(w) + 1
      /\ w[Len(w)] = LF => Len(F(w)) <= Len(w)
  BY <1>1, <1>2, <1>5, <1>7, RunGrows
<1>10. u[Len(u)] = w[Len(w)]
  BY <1>1, Ends
<1>11. F(u) = F(a) \o F(w)
  BY <1>1, ToJoin
<1> HIDE DEF F
<1>12. /\ u = a \o w /\ Len(a) < n /\ Paired(a) /\ Open(a) = 0 /\ F(u) = F(a) \o F(w)
       /\ Len(F(w)) <= Len(w) + 1 /\ (u[Len(u)] = LF => Len(F(w)) <= Len(w))
  BY <1>1, <1>2, <1>8, <1>9, <1>10, <1>11
<1> QED
  BY <1>12 DEF F

\* How the surplus of a block grows when it is converted again, if it is short
\* or the block after it is made of newlines.
LEMMA HeldGrows ==
    ASSUME NEW s \in Seq(Int), Paired(s), s # <<>> => s[Len(s)] = LF,
           \A j \in n .. Len(s) : Newline(s[j])
    PROVE  LET f == FormatToNETASCII(s)
           IN  \/ 2 * Len(f) <= 2 * Len(s) + n - 1
               \/ /\ StartsWithLF(s) /\ 2 * Len(f) <= 2 * Len(s) + n
                  /\ n = 8 /\ Len(f) >= Len(s) + 4 => Len(f) >= 9 /\ f[9] # LF
<1> DEFINE F(x) == FormatToNETASCII(x)
           f == F(s)
<1>0. /\ n \in Nat /\ n >= 8 /\ Len(s) \in Nat
      /\ CR \in Int /\ LF \in Int /\ NUL \in Int /\ CR # LF /\ LF # NUL /\ CR # NUL
  BY BlockAssumption DEF CR, LF, NUL
<1>1. \A x \in Seq(Int) : F(x) \in Seq(Int)
  BY Types
<1>l. Len(f) \in Nat
  BY <1>1
<1>2. CASE s = <<>>
  <2>1. Len(f) = 0 /\ Len(s) = 0
    BY <1>2, OfEmpty
  <2> HIDE DEF f
  <2>2. 2 * Len(f) <= 2 * Len(s) + n - 1
    BY <1>0, <2>1
  <2> QED
    BY <2>2 DEF f
<1>3. CASE s # <<>> /\ Len(s) < n
  <2>1. Open(s) = 0 /\ ~NoLF(s) /\ Len(s) >= 1
    <3>1. Len(s) >= 1 /\ Len(s) \in 1 .. Len(s)
      BY <1>3
    <3> QED
      BY <1>0, <1>3, <3>1 DEF Open, NoCRLast, NoLF
  <2>2. 2 * Len(f) <= 3 * Len(s) \/ (Len(s) = 1 /\ Len(f) <= 2)
    <3>1. CASE ~StartsWithLF(s)
      <4>1. 2 * Len(f) <= Most(s)
        BY <3>1, PairedGrows
      <4>2. First(s) \in 0 .. 1 /\ Lines(s) \in 0 .. 1
        BY DEF First, Lines
      <4> HIDE DEF f
      <4> QED
        BY <1>0, <1>l, <2>1, <4>1, <4>2 DEF Most
    <3>2. CASE StartsWithLF(s)
      <4>1. PICK r \in Seq(Int) :
               s = <<LF>> \o r /\ 2 * Len(f) <= 3 * Len(s) + 1 - Lines(r) + Open(s)
        BY <3>2, PairedStart
      <4>2. CASE r = <<>>
        <5>1. Len(s) = 1
          <6>1. <<LF>> \in Seq(Int) /\ Len(<<LF>>) = 1
            BY <1>0
          <6> QED
            BY <4>1, <4>2, <6>1, NoText
        <5>2. Len(f) <= 2 * Len(s)
          BY ToAtMostTwice
        <5> HIDE DEF f
        <5> QED
          BY <5>1, <5>2
      <4>3. CASE r # <<>>
        <5>1. r[Len(r)] = LF
          <6>1. <<LF>> \in Seq(Int)
            BY <1>0
          <6> QED
            BY <1>3, <4>1, <4>3, <6>1, Ends
        <5>2. Len(r) \in 1 .. Len(r)
          BY <4>3
        <5>3. Lines(r) = 1
          BY <5>1, <5>2 DEF Lines, NoLF
        <5> HIDE DEF f
        <5> QED
          BY <1>0, <1>l, <2>1, <4>1, <5>3
      <4> QED
        BY <4>2, <4>3
    <3> QED
      BY <3>1, <3>2
  <2> HIDE DEF f
  <2>3. 2 * Len(f) <= 2 * Len(s) + n - 1
    BY <1>0, <1>3, <1>l, <2>2
  <2> QED
    BY <2>3 DEF f
<1>4. CASE Len(s) >= n
  <2>1. PICK a \in Seq(Int), w \in Seq(Int) :
           /\ s = a \o w /\ Len(a) < n /\ Paired(a) /\ Open(a) = 0 /\ f = F(a) \o F(w)
           /\ s[Len(s)] = LF => Len(F(w)) <= Len(w)
    <3>1. n \in n .. Len(s) /\ \A j \in n .. Len(s) - 1 : j \in n .. Len(s)
      BY <1>0, <1>4
    <3> QED
      BY <1>4, <3>1, RunCut
  <2>2. s[Len(s)] = LF
    <3>1. s # <<>>
      BY <1>0, <1>4
    <3> QED
      BY <3>1
  <2> DEFINE fa == F(a)
             fw == F(w)
  <2>10. fa \in Seq(Int) /\ fw \in Seq(Int) /\ f = fa \o fw /\ Len(fw) <= Len(w)
    BY <1>1, <2>1, <2>2
  <2>a. ~StartsWithLF(a) => 2 * Len(fa) <= Most(a)
    BY <2>1, PairedGrows
  <2>b. StartsWithLF(a) =>
           \E r \in Seq(Int) : /\ a = <<LF>> \o r /\ fa = <<CR, LF>> \o F(r)
                               /\ 2 * Len(fa) <= 3 * Len(a) + 1 - Lines(r) + Open(a)
    BY <2>1, PairedStart
  <2> HIDE DEF fa, fw, f
  <2>11. /\ Len(f) = Len(fa) + Len(fw) /\ Len(s) = Len(a) + Len(w)
         /\ \A i \in 1 .. Len(fa) : f[i] = fa[i]
    BY <2>1, <2>10, Concat
  <2>12. Len(fa) \in Nat /\ Len(fw) \in Nat /\ Len(a) \in Nat /\ Len(w) \in Nat
    BY <2>10
  <2> DEFINE x == Len(fa)
             y == Len(fw)
             k == Len(a)
             l == Len(w)
             h == Len(f)
             m == Len(s)
  <2>13. /\ x \in Nat /\ y \in Nat /\ k \in Nat /\ l \in Nat /\ h = x + y /\ m = k + l
         /\ y <= l /\ k < n
    BY <2>1, <2>10, <2>11, <2>12
  <2>14. CASE ~StartsWithLF(a)
    <3>1. First(a) \in 0 .. 1 /\ Lines(a) \in 0 .. 1
      BY DEF First, Lines
    <3>2. 2 * x <= 3 * k
      <4>1. 2 * x <= 3 * k - First(a) - Lines(a) + 0
        BY <2>1, <2>14, <2>a DEF Most
      <4> HIDE DEF x, k
      <4> QED
        BY <2>13, <3>1, <4>1
    <3> HIDE DEF x, y, k, l, h, m
    <3>3. 2 * h <= 2 * m + n - 1
      BY <1>0, <2>13, <3>2
    <3> QED
      BY <3>3 DEF h, m, f
  <2>15. CASE StartsWithLF(a)
    <3>1. PICK r \in Seq(Int) : /\ a = <<LF>> \o r /\ fa = <<CR, LF>> \o F(r)
                                /\ 2 * x <= 3 * k + 1 - Lines(r) + Open(a)
      BY <2>15, <2>b
    <3>2. Lines(r) \in 0 .. 1
      BY DEF Lines
    <3>3. 2 * h <= 2 * m + n
      <4> HIDE DEF x, y, k, l, h, m
      <4> QED
        BY <1>0, <2>1, <2>13, <3>1, <3>2
    <3>4. StartsWithLF(s)
      BY <2>1, <2>15, Ends DEF StartsWithLF
    <3>5. ASSUME n = 8, h >= m + 4 PROVE h >= 9 /\ f[9] # LF
      <4>1. x >= 11 /\ h >= 9 /\ Lines(r) = 0
        <5> HIDE DEF x, y, k, l, h, m
        <5> QED
          BY <1>0, <2>1, <2>13, <3>1, <3>2, <3>5
      <4>2. NoLF(r)
        BY <4>1 DEF Lines
      <4> DEFINE g == F(r)
                 e == <<CR, LF>>
      <4>3. g \in Seq(Int) /\ NoLF(g)
        BY <1>1, <4>2, PairedTo
      <4>4. e \in Seq(Int) /\ Len(e) = 2 /\ fa = e \o g
        BY <3>1, BlockFacts
      <4> HIDE DEF g, e
      <4>5. Len(fa) = Len(e) + Len(g) /\ \A j \in 1 .. Len(g) : fa[Len(e) + j] = g[j]
        BY <4>3, <4>4, Concat
      <4>6. Len(g) \in Nat
        BY <4>3
      <4>7. 7 \in 1 .. Len(g) /\ 9 \in 1 .. Len(fa)
        <5>1. Len(fa) >= 11 /\ Len(fa) = 2 + Len(g)
          BY <4>1, <4>4, <4>5
        <5> QED
          BY <4>6, <5>1
      <4>8. fa[9] = g[7]
        <5>1. fa[2 + 7] = g[7]
          BY <4>4, <4>5, <4>7
        <5> QED
          BY <5>1
      <4>9. f[9] = g[7] /\ g[7] # LF
        BY <2>11, <4>3, <4>7, <4>8 DEF NoLF
      <4> QED
        BY <4>1, <4>9
    <3> HIDE DEF f
    <3>6. /\ StartsWithLF(s) /\ 2 * Len(f) <= 2 * Len(s) + n
          /\ n = 8 /\ Len(f) >= Len(s) + 4 => Len(f) >= 9 /\ f[9] # LF
      BY <3>3, <3>4, <3>5
    <3> QED
      BY <3>6 DEF f
  <2> QED
    BY <2>14, <2>15
<1> QED
  <2>1. s = <<>> \/ (s # <<>> /\ Len(s) < n) \/ Len(s) >= n
    BY <1>0
  <2> QED
    BY <1>2, <1>3, <1>4, <2>1

\* How a block grows that is taken from the surplus of an earlier one.
LEMMA PartGrows ==
    ASSUME NEW u \in Seq(Int), NEW b \in Seq(Int), Paired(u),
           TakesPlain(u, b) \/ TakesLine(u, b)
    PROVE  2 * Len(FormatToNETASCII(u)) <= 2 * Len(u) + n + 2
<1> DEFINE F(x) == FormatToNETASCII(x)
<1>0. n \in Nat /\ n >= 8 /\ Len(u) \in Nat
  BY BlockAssumption
<1>1. ASSUME NEW x \in Seq(Int), Paired(x), Open(x) = 0
      PROVE  Len(F(x)) \in Nat /\ 2 * Len(F(x)) <= 3 * Len(x) + 1
  <2>1. Len(F(x)) \in Nat /\ Len(x) \in Nat
    <3>1. F(x) \in Seq(Int)
      BY Types
    <3> HIDE DEF F
    <3> QED
      BY <3>1
  <2>2. CASE ~StartsWithLF(x)
    <3>1. 2 * Len(F(x)) <= Most(x)
      BY <1>1, <2>2, PairedGrows
    <3>2. First(x) \in 0 .. 1 /\ Lines(x) \in 0 .. 1
      BY DEF First, Lines
    <3> HIDE DEF F
    <3> QED
      BY <1>1, <2>1, <3>1, <3>2 DEF Most
  <2>3. CASE StartsWithLF(x)
    <3>1. PICK r \in Seq(Int) : 2 * Len(F(x)) <= 3 * Len(x) + 1 - Lines(r) + Open(x)
      BY <1>1, <2>3, PairedStart
    <3>2. Lines(r) \in 0 .. 1
      BY DEF Lines
    <3> HIDE DEF F
    <3> QED
      BY <1>1, <2>1, <3>1, <3>2
  <2> QED
    BY <2>1, <2>2, <2>3
<1>2. CASE TakesPlain(u, b)
  <2>1. Open(u) = 0 /\ Len(u) = n
    BY <1>2 DEF TakesPlain, Open, NoCRLast, Newline
  <2>2. Len(F(u)) \in Nat /\ 2 * Len(F(u)) <= 3 * Len(u) + 1
    BY <1>1, <2>1
  <2> HIDE DEF F
  <2>3. 2 * Len(F(u)) <= 2 * Len(u) + n + 2
    BY <1>0, <2>1, <2>2
  <2> QED
    BY <2>3 DEF F
<1>3. CASE TakesLine(u, b)
  <2>1. Len(u) > n /\ \A j \in n .. Len(u) - 1 : Newline(u[j])
    BY <1>3 DEF TakesLine
  <2>2. Len(u) >= n /\ n \in n .. Len(u) - 1
    BY <1>0, <2>1
  <2>3. PICK a \in Seq(Int), w \in Seq(Int) :
           /\ u = a \o w /\ Len(a) < n /\ Paired(a) /\ Open(a) = 0
           /\ F(u) = F(a) \o F(w) /\ Len(F(w)) <= Len(w) + 1
    BY <2>1, <2>2, RunCut
  <2>4. Len(F(a)) \in Nat /\ 2 * Len(F(a)) <= 3 * Len(a) + 1
    BY <1>1, <2>3
  <2>5. Len(F(u)) = Len(F(a)) + Len(F(w)) /\ Len(F(w)) \in Nat
    <3>1. F(a) \in Seq(Int) /\ F(w) \in Seq(Int)
      BY Types
    <3> HIDE DEF F
    <3>2. Len(F(a) \o F(w)) = Len(F(a)) + Len(F(w)) /\ Len(F(w)) \in Nat
      BY <3>1, Concat
    <3> QED
      BY <2>3, <3>2
  <2>6. Len(u) = Len(a) + Len(w) /\ Len(a) \in Nat /\ Len(w) \in Nat
    BY <2>3, Concat
  <2> DEFINE x == Len(F(a))
             y == Len(F(w))
             z == Len(F(u))
             k == Len(a)
             l == Len(w)
  <2>7. /\ x \in Nat /\ y \in Nat /\ k \in Nat /\ l \in Nat /\ z = x + y /\ Len(u) = k + l
        /\ 2 * x <= 3 * k + 1 /\ y <= l + 1 /\ k < n
    BY <2>3, <2>4, <2>5, <2>6
  <2> HIDE DEF x, y, z, k, l
  <2>8. 2 * z <= 2 * Len(u) + n + 2
    BY <1>0, <2>7
  <2> QED
    BY <2>8 DEF z
<1> QED
  BY <1>2, <1>3

\* A block is a text of pairs that ends a line, and so is its surplus.
LEMMA SurplusEnds ==
    ASSUME NEW u \in Seq(Int), NEW b \in Seq(Int)
    PROVE  LET t == After(Buffer(u, b), n)
           IN  t \in Seq(Int) /\ Paired(t) /\ (t # <<>> => t[Len(t)] = LF)
<1> DEFINE f == FormatToNETASCII(u \o b)
           buf == EndLine(f)
           e == <<CR, LF>>
           t == After(buf, n)
           x == Upto(buf, n)
<1>0. n \in Nat /\ e \in Seq(Int) /\ e # <<>> /\ Len(e) = 2 /\ e[1] = CR /\ e[Len(e)] = LF
      /\ CR # LF /\ CR # NUL
  BY BlockFacts DEF CR, LF, NUL
<1>1. f \in Seq(Int) /\ Paired(f) /\ NoCRLast(f)
  <2>1. u \o b \in Seq(Int)
    BY Concat
  <2> QED
    BY <2>1, Types, PairedTo
<1> HIDE DEF f
<1>2. /\ buf \in Seq(Int)
      /\ (buf = f /\ Len(f) >= n /\ EndsInCRLF(f)) \/ buf = f \o e
  BY <1>1, EndLineCases
<1> HIDE DEF buf
<1>3. Paired(e)
  BY PairedPieces
<1> HIDE DEF e
<1>4. Paired(buf)
  <2>1. Meet(f, e)
    BY <1>0, <1>1 DEF Meet, NoCRLast
  <2>2. Paired(f \o e)
    BY <1>0, <1>1, <1>3, <2>1, PairedParts
  <2> QED
    BY <1>1, <1>2, <2>2
<1>5. buf[Len(buf)] = LF
  <2>1. (f \o e)[Len(f \o e)] = LF
    BY <1>0, <1>1, Ends
  <2>2. EndsInCRLF(f) => f[Len(f)] = LF
    BY DEF EndsInCRLF
  <2> QED
    BY <1>2, <2>1, <2>2
<1>6. x \in Seq(Int) /\ t \in Seq(Int) /\ x \o t = buf
  BY <1>0, <1>2, Cut
<1> HIDE DEF x, t
<1>7. Paired(t)
  BY <1>4, <1>6, PairedParts
<1>8. t # <<>> => t[Len(t)] = LF
  BY <1>5, <1>6, Ends
<1> QED
  BY <1>6, <1>7, <1>8 DEF t, buf, f, Buffer

\* The surplus of a block that takes all that was held, and p of the rest.
LEMMA WholeGrows ==
    ASSUME NEW hd \in Seq(Int), NEW p \in Seq(Int), NEW b \in Seq(Int), Len(b) <= 1,
           Paired(hd), hd # <<>> => hd[Len(hd)] = LF,
           \A j \in n .. Len(hd) : Newline(hd[j]),
           Len(Buffer(hd \o p, b)) >= n
    PROVE  LET t == After(Buffer(hd \o p, b), n)
               k == 2 * Len(hd) + 4 * Len(p) - n
           IN  \/ 2 * Len(t) <= k + 7
               \/ /\ StartsWithLF(hd) /\ 2 * Len(t) <= k + 8
                  /\ n = 8 /\ 2 * Len(t) >= k + 8 => ~StartsWithLF(t)
<1> DEFINE F(x) == FormatToNETASCII(x)
           f == F(hd)
           y == p \o b
           g == F(y)
           buf == Buffer(hd \o p, b)
           t == After(buf, n)
           e == <<CR, LF>>
<1>0. n \in Nat /\ n >= 8 /\ e \in Seq(Int) /\ Len(e) = 2 /\ CR # LF
  BY BlockAssumption, BlockFacts DEF CR, LF
<1>1. y \in Seq(Int) /\ Len(y) = Len(p) + Len(b)
  BY Concat
<1>2. (hd \o p) \o b = hd \o y
  <2>a. Put(Put(hd, p), b) = Put(hd, Put(p, b))
    BY PutAssoc
  <2> QED
    BY <2>a DEF Put
<1>3. F(hd \o y) = f \o g
  <2>1. Apart(hd, y)
    BY <1>0 DEF Apart
  <2> QED
    BY <1>1, <2>1, ToJoin
<1>4. f \in Seq(Int) /\ g \in Seq(Int) /\ Len(g) <= 2 * Len(y)
  BY <1>1, Types, ToAtMostTwice
<1>5. buf = EndLine(f \o g)
  BY <1>2, <1>3 DEF Buffer
<1>h. \/ 2 * Len(f) <= 2 * Len(hd) + n - 1
      \/ /\ StartsWithLF(hd) /\ 2 * Len(f) <= 2 * Len(hd) + n
         /\ n = 8 /\ Len(f) >= Len(hd) + 4 => Len(f) >= 9 /\ f[9] # LF
  BY HeldGrows
<1> HIDE DEF f, g, y, buf
<1>6. f \o g \in Seq(Int) /\ Len(f \o g) = Len(f) + Len(g)
  BY <1>4, Concat
<1>7. buf \in Seq(Int) /\ (buf = f \o g \/ buf = (f \o g) \o e) /\ Len(buf) <= Len(f \o g) + 2
  BY <1>5, <1>6, EndLineCases
<1>8. \E z \in Seq(Int) : buf = f \o z
  <2> HIDE DEF e
  <2>1. g \o e \in Seq(Int)
    BY <1>0, <1>4, Concat
  <2>2. (f \o g) \o e = f \o (g \o e)
    <3>1. f \in Seq(Int) /\ g \in Seq(Int) /\ e \in Seq(Int)
      BY <1>0, <1>4
    <3>2. Put(Put(f, g), e) = Put(f, Put(g, e))
      BY <3>1, PutAssoc
    <3> QED
      BY <3>2 DEF Put
  <2> QED
    BY <1>4, <1>7, <2>1, <2>2
<1>9. Len(f) \in Nat /\ Len(g) \in Nat /\ Len(hd) \in Nat /\ Len(p) \in Nat /\ Len(b) \in Nat
      /\ Len(buf) \in Nat
  BY <1>4, <1>7
<1>10. Len(buf) <= Len(f) + 2 * Len(p) + 4
  <2>1. Len(buf) <= Len(f) + Len(g) + 2 /\ Len(g) <= 2 * (Len(p) + Len(b)) /\ Len(b) <= 1
    BY <1>1, <1>4, <1>6, <1>7
  <2> QED
    BY <1>9, <2>1
<1>11. Len(buf) >= n
  BY DEF buf
<1>12. /\ t \in Seq(Int) /\ Len(t) = Len(buf) - n
       /\ \A j \in 1 .. Len(buf) - n : t[j] = buf[n + j]
  BY <1>0, <1>7, <1>11, CutAt
<1> HIDE DEF t
<1> DEFINE T == Len(t)
           L == Len(buf)
           G == Len(f)
           H == Len(hd)
           P == Len(p)
<1>13. T = L - n /\ L <= G + 2 * P + 4 /\ L >= n /\ L \in Nat /\ G \in Nat /\ H \in Nat /\ P \in Nat
  BY <1>9, <1>10, <1>11, <1>12
<1>14. CASE 2 * G <= 2 * H + n - 1
  <2> HIDE DEF T, L, G, H, P
  <2>1. 2 * T <= 2 * H + 4 * P - n + 7
    BY <1>0, <1>13, <1>14
  <2> QED
    BY <2>1 DEF T, H, P, t, buf
<1>15. CASE /\ StartsWithLF(hd) /\ 2 * G <= 2 * H + n
            /\ n = 8 /\ G >= H + 4 => G >= 9 /\ f[9] # LF
  <2>1. 2 * T <= 2 * H + 4 * P - n + 8
    <3> HIDE DEF T, L, G, H, P
    <3> QED
      BY <1>0, <1>13, <1>15
  <2>2. ASSUME n = 8, 2 * T >= 2 * H + 4 * P - n + 8 PROVE ~StartsWithLF(t)
    <3>1. G >= H + 4
      <4> HIDE DEF T, L, G, H, P
      <4> QED
        BY <1>0, <1>13, <2>2
    <3>2. G >= 9 /\ f[9] # LF
      BY <1>15, <2>2, <3>1
    <3>3. PICK z \in Seq(Int) : buf = f \o z
      BY <1>8
    <3>4. 9 \in 1 .. Len(f)
      BY <1>13, <3>2
    <3>5. buf[9] = f[9] /\ Len(buf) >= 9
      <4>1. buf[9] = f[9] /\ Len(buf) = Len(f) + Len(z)
        BY <1>4, <3>3, <3>4, Concat
      <4>2. Len(z) \in Nat
        OBVIOUS
      <4> QED
        BY <1>13, <3>2, <4>1, <4>2
    <3>6. 1 \in 1 .. Len(buf) - n /\ n + 1 = 9
      <4>1. n = 8 /\ Len(buf) >= 9 /\ Len(buf) \in Nat
        BY <1>9, <2>2, <3>5
      <4> QED
        BY <4>1
    <3>7. t[1] = buf[9]
      BY <1>12, <3>6
    <3> QED
      BY <3>2, <3>5, <3>7 DEF StartsWithLF
  <2>3. /\ StartsWithLF(hd) /\ 2 * T <= 2 * H + 4 * P - n + 8
        /\ n = 8 /\ 2 * T >= 2 * H + 4 * P - n + 8 => ~StartsWithLF(t)
    BY <1>15, <2>1, <2>2
  <2> QED
    BY <2>3 DEF T, H, P, t, buf
<1> QED
  BY <1>h, <1>14, <1>15

\* Where a block takes all that was held, it is short, or there are but
\* newlines behind its first n - 1 characters.
LEMMA TakesWhole ==
    ASSUME IInv, NEW u \in Seq(Int), NEW b \in Seq(Int), NEW lost \in Seq(Int),
           Takes(u, lost),
           TakesAll(u, b, lost) \/ TakesPlain(u, b) \/ TakesLine(u, b) \/ RunsOut(u, b, lost),
           ~(held = u \o lost /\ rest' = rest /\ (TakesPlain(u, b) \/ TakesLine(u, b)))
    PROVE  /\ \E p \in Seq(Int) : u = held \o p /\ rest = p \o rest'
           /\ \A j \in n .. Len(held) : Newline(held[j])
           /\ Len(b) <= 1
<1>0. /\ n \in Nat /\ held \in Seq(Int) /\ rest \in Seq(Int)
      /\ Len(held) \in Nat /\ Len(u) \in Nat
  <2>1. held \in Seq(Int) /\ rest \in Seq(Int)
    BY DEF IInv, TypeOK
  <2> QED
    BY <2>1, BlockFacts
<1>1. Len(b) <= 1
  <2>1. b = <<>> \/ \E byte \in UninitByte : b = <<byte>>
    BY DEF TakesAll, TakesPlain, TakesLine, RunsOut
  <2>2. Len(<<>>) = 0 /\ \A byte \in UninitByte : Len(<<byte>>) = 1
    OBVIOUS
  <2>3. \A k \in {0, 1} : k <= 1
    OBVIOUS
  <2>4. Len(b) \in {0, 1}
    BY <2>1, <2>2
  <2> QED
    BY <2>3, <2>4
<1>2. CASE held = u \o lost /\ rest' = rest
  <2>1. TakesAll(u, b, lost) \/ RunsOut(u, b, lost)
    BY <1>2
  <2>2. lost = <<>>
    BY <2>1 DEF TakesAll, RunsOut
  <2>3. held = u
    BY <1>2, <2>2, NoText
  <2>4. u = held \o <<>> /\ rest = <<>> \o rest' /\ <<>> \in Seq(Int)
    BY <1>0, <1>2, <2>3, NoText
  <2>5. CASE TakesAll(u, b, lost)
    <3>1. Len(held) < n
      BY <2>3, <2>5 DEF TakesAll
    <3>2. \A j \in n .. Len(held) : FALSE
      BY <1>0, <3>1
    <3> QED
      BY <1>1, <2>4, <3>2
  <2>6. CASE RunsOut(u, b, lost)
    <3>1. \A j \in n .. Len(held) : Newline(held[j])
      <4>1. /\ Len(held) >= n
            /\ (\A j \in n .. Len(held) : Newline(held[j])) \/ Len(held) < n
        BY <2>3, <2>6 DEF RunsOut
      <4> QED
        BY <1>0, <4>1
    <3> QED
      BY <1>1, <2>4, <3>1
  <2> QED
    BY <2>1, <2>5, <2>6
<1>3. CASE \E p \in Seq(Int) : p # <<>> /\ u = held \o p /\ rest = p \o rest'
  <2>1. PICK p \in Seq(Int) : p # <<>> /\ u = held \o p /\ rest = p \o rest'
    BY <1>3
  <2>2. Len(p) \in Nat /\ Len(p) >= 1
    BY <2>1
  <2>3. /\ Len(u) = Len(held) + Len(p) /\ \A i \in 1 .. Len(held) : u[i] = held[i]
    BY <1>0, <2>1, Concat
  <2>n. Len(u) = Len(held) + Len(p)
    BY <2>3
  <2>4. ASSUME NEW j \in n .. Len(held)
        PROVE  Newline(held[j])
    <3>1. j \in 1 .. Len(held) /\ j \in n .. Len(u) - 1 /\ j \in n .. Len(u)
          /\ Len(u) > n /\ ~(Len(held) < n)
      <4> DEFINE h == Len(held)
                 l == Len(u)
                 k == Len(p)
      <4>1. n \in Nat /\ n >= 8 /\ h \in Nat /\ k \in Nat /\ k >= 1 /\ l = h + k /\ j \in n .. h
        BY <1>0, <2>2, <2>n, BlockAssumption
      <4> HIDE DEF h, l, k
      <4>2. j \in 1 .. h /\ j \in n .. l - 1 /\ j \in n .. l /\ l > n /\ ~(h < n)
        BY <4>1
      <4> QED
        BY <4>2 DEF h, l
    <3>2. ~TakesAll(u, b, lost) /\ ~TakesPlain(u, b)
      BY <1>0, <3>1 DEF TakesAll, TakesPlain
    <3>3. Newline(u[j])
      BY <3>1, <3>2 DEF TakesLine, RunsOut
    <3> QED
      BY <2>3, <3>1, <3>3
  <2> QED
    BY <1>1, <2>1, <2>4
<1> QED
  BY <1>2, <1>3 DEF Takes

\* A full block is paid for.
LEMMA BlockPays ==
    ASSUME IInv, IInv', HeldEnds,
           NEW u \in Seq(Int), NEW b \in Seq(Int), NEW lost \in Seq(Int),
           Takes(u, lost), Sends(u, b), Len(Buffer(u, b)) >= n,
           TakesAll(u, b, lost) \/ TakesPlain(u, b) \/ TakesLine(u, b) \/ RunsOut(u, b, lost)
    PROVE  Credit' + n <= Credit
<1> DEFINE t == After(Buffer(u, b), n)
           x == IF StartsWithLF(held) THEN n ELSE 0
           x2 == IF StartsWithLF(t) THEN n ELSE 0
           h == Len(held)
           r == Len(rest)
           h2 == Len(t)
           r2 == Len(rest')
<1>0. /\ n \in Nat /\ n >= 8 /\ held \in Seq(Int) /\ rest \in Seq(Int) /\ rest' \in Seq(Int)
      /\ t \in Seq(Int)
  BY BlockAssumption, SurplusEnds DEF IInv, TypeOK
<1>1. held' = t
  BY DEF Sends
<1>2. Credit' = 20 * h2 + 40 * r2 + x2
  BY <1>1 DEF Credit, StartsWithLF
<1>3. Credit = 20 * h + 40 * r + x
  BY DEF Credit
<1>4. h \in Nat /\ r \in Nat /\ h2 \in Nat /\ r2 \in Nat
  <2> HIDE DEF t
  <2> QED
    BY <1>0
<1>5. x \in 0 .. n /\ x2 \in 0 .. n
  BY <1>0
<1>6. CASE held = u \o lost /\ rest' = rest /\ (TakesPlain(u, b) \/ TakesLine(u, b))
  <2> DEFINE f == Len(FormatToNETASCII(u))
             k == Len(u)
  <2>1. Paired(u)
    BY <1>6, PairedParts DEF HeldEnds
  <2>2. 2 * f <= 2 * k + n + 2
    BY <1>6, <2>1, PartGrows
  <2>3. k \in Nat /\ k <= h
    <3>1. h = Len(u) + Len(lost)
      BY <1>6, Concat
    <3>2. Len(u) \in Nat /\ Len(lost) \in Nat
      OBVIOUS
    <3> HIDE DEF h
    <3> QED
      BY <3>1, <3>2
  <2>4. h2 <= f + 2 - n /\ f \in Nat
    <3> DEFINE g == FormatToNETASCII(u)
    <3>1. g \in Seq(Int) /\ Buffer(u, b) = EndLine(g)
      <4>1. u \o b = u
        BY <1>6, NoText DEF TakesPlain, TakesLine
      <4> QED
        BY <4>1, Types DEF Buffer
    <3> HIDE DEF g
    <3>2. Buffer(u, b) \in Seq(Int) /\ Len(Buffer(u, b)) <= Len(g) + 2 /\ Len(g) \in Nat
      BY <3>1, EndLineCases
    <3>3. h2 = Len(Buffer(u, b)) - n
      BY <1>0, <3>2, CutAt
    <3>4. Len(Buffer(u, b)) \in Nat
      BY <3>2
    <3> HIDE DEF h2, t
    <3>5. h2 <= Len(g) + 2 - n
      BY <1>0, <3>2, <3>3, <3>4
    <3> QED
      BY <3>2, <3>5 DEF g
  <2>5. r2 = r
    BY <1>6
  <2> HIDE DEF f, k, x, x2, h, r, h2, r2
  <2>6. 20 * h2 + 40 * r2 + x2 + n <= 20 * h + 40 * r + x
    BY <1>0, <1>4, <1>5, <2>2, <2>3, <2>4, <2>5
  <2> QED
    BY <1>2, <1>3, <2>6
<1>7. CASE ~(held = u \o lost /\ rest' = rest /\ (TakesPlain(u, b) \/ TakesLine(u, b)))
  <2>1. /\ \E p \in Seq(Int) : u = held \o p /\ rest = p \o rest'
        /\ \A j \in n .. Len(held) : Newline(held[j])
        /\ Len(b) <= 1
    BY <1>7, TakesWhole
  <2>2. PICK p \in Seq(Int) : u = held \o p /\ rest = p \o rest'
    BY <2>1
  <2> DEFINE d == Len(p)
  <2>3. r = d + r2 /\ d \in Nat
    BY <1>0, <2>2, Concat
  <2>4. \/ 2 * h2 <= 2 * h + 4 * d - n + 7
        \/ /\ StartsWithLF(held) /\ 2 * h2 <= 2 * h + 4 * d - n + 8
           /\ n = 8 /\ 2 * h2 >= 2 * h + 4 * d - n + 8 => ~StartsWithLF(t)
    <3>1. Len(Buffer(held \o p, b)) >= n
      BY <2>2
    <3>2. Paired(held) /\ (held # <<>> => held[Len(held)] = LF)
      BY DEF HeldEnds
    <3>3. t = After(Buffer(held \o p, b), n)
      BY <2>2
    <3> HIDE DEF t
    <3> QED
      BY <1>0, <2>1, <3>1, <3>2, <3>3, WholeGrows
  <2>5. /\ StartsWithLF(held) => x = n
        /\ ~StartsWithLF(t) => x2 = 0
    OBVIOUS
  <2> HIDE DEF x, x2, h, r, h2, r2, d, t
  <2>6. 20 * h2 + 40 * r2 + x2 + n <= 20 * h + 40 * r + x
    <3>1. CASE 2 * h2 <= 2 * h + 4 * d - n + 7
      <4> DEFINE D == h2 - h - 2 * d
      <4>1. D \in Int /\ h2 = h + 2 * d + D
        BY <1>4, <2>3
      <4> HIDE DEF D
      <4>2. 2 * D <= 7 - n
        BY <1>0, <1>4, <2>3, <3>1, <4>1
      <4>3. 20 * D + 2 * n <= 0
        <5>1. CASE n = 8
          <6>1. D <= -1
            BY <4>1, <4>2, <5>1
          <6> QED
            BY <4>1, <5>1, <6>1
        <5>2. CASE n >= 9
          BY <1>0, <4>1, <4>2, <5>2
        <5> QED
          BY <1>0, <5>1, <5>2
      <4> QED
        BY <1>0, <1>4, <1>5, <2>3, <4>1, <4>3
    <3>2. CASE /\ StartsWithLF(held) /\ 2 * h2 <= 2 * h + 4 * d - n + 8
               /\ n = 8 /\ 2 * h2 >= 2 * h + 4 * d - n + 8 => ~StartsWithLF(t)
      <4>1. x = n
        BY <2>5, <3>2
      <4>2. CASE n = 8 /\ 2 * h2 >= 2 * h + 4 * d - n + 8
        <5>1. x2 = 0
          BY <2>5, <3>2, <4>2
        <5> QED
          BY <1>4, <2>3, <3>2, <4>1, <4>2, <5>1
      <4>3. CASE n # 8 \/ 2 * h2 < 2 * h + 4 * d - n + 8
        BY <1>0, <1>4, <1>5, <2>3, <3>2, <4>1, <4>3
      <4>4. \/ n = 8 /\ 2 * h2 >= 2 * h + 4 * d - n + 8
            \/ n # 8 \/ 2 * h2 < 2 * h + 4 * d - n + 8
        BY <1>0, <1>4, <2>3
      <4> QED
        BY <4>2, <4>3, <4>4
    <3> QED
      BY <2>4, <3>1, <3>2
  <2> QED
    BY <1>2, <1>3, <2>6
<1> QED
  BY <1>6, <1>7

\* At the start nothing is sent or held.
LEMMA LengthInit == ASSUME Init PROVE LengthInv
<1>1. held = <<>> /\ out = <<>> /\ phase = "block" /\ text \in Seq(Int)
      /\ (job # "write" => rest = text)
  BY InitInv DEF Init, IInv, TypeOK
<1>2. Len(text) \in Nat /\ Len(<<>>) = 0
  BY <1>1
<1>3. HeldEnds
  BY <1>1, PairedPieces DEF HeldEnds
<1>4. Credit = 20 * Len(held) + 40 * Len(rest) + 0
  BY <1>1 DEF Credit, StartsWithLF
<1>5. job # "write" => Len(out) = 0 /\ Credit = 20 * 0 + 40 * Len(text) + 0
  BY <1>1, <1>2, <1>4
<1>6. job # "write" => Len(out) + Credit <= 40 * Len(text)
  BY <1>2, <1>5
<1> QED
  BY <1>1, <1>3, <1>6 DEF LengthInv

\* A block of a file or of the standard input.
LEMMA LengthRead == ASSUME IInv, IInv', LengthInv, ReadNetascii PROVE LengthInv'
<1>1. /\ phase = "block" /\ job # "write" /\ mode = "netascii"
      /\ HeldEnds /\ Len(out) + Credit <= 40 * Len(text)
  BY DEF LengthInv, ReadNetascii
<1>2. PICK u \in Seq(Int), b \in Seq(Int), lost \in Seq(Int) :
         /\ Takes(u, lost) /\ Sends(u, b)
         /\ \/ TakesAll(u, b, lost)
            \/ TakesPlain(u, b) \/ TakesLine(u, b)
            \/ RunsOut(u, b, lost)
  BY ReadBlock
<1> DEFINE buf == Buffer(u, b)
           t == After(buf, n)
           x == Upto(buf, n)
<1>3. /\ out' = out \o x /\ held' = t /\ text' = text
      /\ phase' = IF Len(buf) < n THEN "end" ELSE "block"
  BY <1>2 DEF Sends
<1>4. HeldEnds'
  <2>1. t \in Seq(Int) /\ Paired(t) /\ (t # <<>> => t[Len(t)] = LF)
    BY SurplusEnds
  <2> HIDE DEF t
  <2>2. Paired(held') /\ (held' # <<>> => held'[Len(held')] = LF)
    BY <1>3, <2>1
  <2> QED
    BY <2>2 DEF HeldEnds, Paired
<1>5. /\ n \in Nat /\ out \in Seq(Int) /\ text \in Seq(Int) /\ held \in Seq(Int)
      /\ rest \in Seq(Int) /\ held' \in Seq(Int) /\ rest' \in Seq(Int)
  BY BlockFacts DEF IInv, TypeOK
<1>6. /\ Len(out) \in Nat /\ Len(text) \in Nat /\ Len(held) \in Nat /\ Len(rest) \in Nat
      /\ Len(held') \in Nat /\ Len(rest') \in Nat
  BY <1>5
<1>7. Credit \in Nat /\ Credit' \in Nat
  <2>1. Credit \in Nat
    <3>1. (IF StartsWithLF(held) THEN n ELSE 0) \in Nat
      BY <1>5
    <3> QED
      BY <1>6, <3>1 DEF Credit
  <2>2. Credit' \in Nat
    <3>1. (IF StartsWithLF(held)' THEN n ELSE 0) \in Nat
      BY <1>5
    <3> QED
      BY <1>6, <3>1 DEF Credit
  <2> QED
    BY <2>1, <2>2
<1>8. buf \in Seq(Int)
  <2>1. u \o b \in Seq(Int)
    BY Concat
  <2>2. FormatToNETASCII(u \o b) \in Seq(Int)
    BY <2>1, Types
  <2> QED
    BY <2>2, EndLineCases DEF Buffer
<1> HIDE DEF buf
<1>9. x \in Seq(Int) /\ Len(x) = (IF Len(buf) < n THEN Len(buf) ELSE n) /\ Len(buf) \in Nat
  BY <1>5, <1>8, Cut
<1> HIDE DEF x, t
<1>10. Len(out') = Len(out) + Len(x)
  BY <1>3, <1>5, <1>9, Concat
<1>11. CASE Len(buf) < n
  <2>1. phase' = "end" /\ Len(x) < n /\ Len(x) \in Nat
    BY <1>3, <1>9, <1>11
  <2>2. Len(out') <= 40 * Len(text) + n
    BY <1>1, <1>5, <1>6, <1>7, <1>10, <2>1
  <2> QED
    BY <1>3, <1>4, <2>1, <2>2 DEF LengthInv
<1>12. CASE ~(Len(buf) < n)
  <2>1. phase' = "block" /\ Len(x) = n /\ Len(buf) >= n
    BY <1>3, <1>5, <1>9, <1>12
  <2>2. Credit' + n <= Credit
    <3>1. Len(Buffer(u, b)) >= n
      BY <2>1 DEF buf
    <3> QED
      BY <1>1, <1>2, <3>1, BlockPays
  <2>3. Len(out') + Credit' <= 40 * Len(text)
    <3> DEFINE c == Credit
               c2 == Credit'
               o == Len(out)
               o2 == Len(out')
               l == 40 * Len(text)
    <3>1. /\ n \in Nat /\ o \in Nat /\ l \in Nat /\ c \in Nat /\ c2 \in Nat
          /\ o + c <= l /\ c2 + n <= c
      <4>1. l \in Nat
        BY <1>6
      <4>2. n \in Nat /\ o \in Nat /\ c \in Nat /\ c2 \in Nat
        BY <1>5, <1>6, <1>7
      <4>3. o + c <= l
        BY <1>1
      <4>4. c2 + n <= c
        BY <2>2
      <4> QED
        BY <4>1, <4>2, <4>3, <4>4
    <3>2. o2 = o + n
      BY <1>10, <2>1
    <3> HIDE DEF c, c2, o, o2, l
    <3>3. o2 + c2 <= l
      BY <3>1, <3>2
    <3> QED
      BY <3>3 DEF c2, o2, l
  <2> QED
    BY <1>3, <1>4, <2>1, <2>3 DEF LengthInv
<1> QED
  BY <1>11, <1>12

\* Every step keeps it.
LEMMA LengthNext == ASSUME IInv, LengthInv, [Next]_vars PROVE LengthInv'
<1>1. IInv'
  BY NextInv
<1>2. CASE ReadNetascii
  BY <1>1, <1>2, LengthRead
<1>3. CASE ReadOctet \/ WriteOctet
  <2>1. mode' = "octet"
    BY <1>3 DEF ReadOctet, WriteOctet, Send
  <2> QED
    BY <2>1 DEF LengthInv
<1>4. CASE WriteNetascii \/ WriteNothing
  <2>1. job' = "write"
    BY <1>4 DEF WriteNetascii, WriteNothing
  <2> QED
    BY <2>1 DEF LengthInv
<1>5. CASE UNCHANGED vars
  <2>1. /\ job' = job /\ mode' = mode /\ phase' = phase /\ out' = out /\ text' = text
        /\ held' = held /\ rest' = rest
    BY <1>5 DEF vars
  <2>2. HeldEnds' = HeldEnds /\ Credit' = Credit
    BY <2>1 DEF HeldEnds, Paired, Credit, StartsWithLF
  <2> QED
    BY <2>1, <2>2 DEF LengthInv
<1> QED
  BY <1>2, <1>3, <1>4, <1>5 DEF Next

\* What was sent is bounded.
LEMMA LengthImplies == ASSUME IInv, LengthInv PROVE ComesToAnEnd
<1>1. /\ n \in Nat /\ out \in Seq(Int) /\ text \in Seq(Int) /\ rest \in Seq(Int)
      /\ held \in Seq(Int) /\ mode \in Modes
  BY BlockFacts DEF IInv, TypeOK
<1>2. Len(out) \in Nat /\ Len(text) \in Nat /\ Len(rest) \in Nat /\ Len(held) \in Nat
  BY <1>1
<1>3. CASE mode = "octet"
  <2>1. out \o rest = text
    BY <1>3 DEF IInv, OctetExact
  <2>2. Len(out) + Len(rest) = Len(text)
    BY <1>1, <2>1, Concat
  <2>3. Len(out) <= 40 * Len(text) + n
    BY <1>1, <1>2, <2>2
  <2> QED
    BY <2>3 DEF ComesToAnEnd
<1>4. CASE mode = "netascii" /\ job # "write"
  <2>1. phase # "block" => Len(out) <= 40 * Len(text) + n
    BY <1>4 DEF LengthInv
  <2>2. phase = "block" => Len(out) + Credit <= 40 * Len(text)
    BY <1>4 DEF LengthInv
  <2>3. Credit \in Nat
    <3>1. (IF StartsWithLF(held) THEN n ELSE 0) \in Nat
      BY <1>1
    <3> QED
      BY <1>2, <3>1 DEF Credit
  <2>4. Len(out) <= 40 * Len(text) + n
    BY <1>1, <1>2, <2>1, <2>2, <2>3
  <2> QED
    BY <2>4 DEF ComesToAnEnd
<1> QED
  BY <1>1, <1>3, <1>4 DEF Modes, ComesToAnEnd

\* Reader and StdHandler bring every file and every input to a short block, for
\* every text and every block size that can be negotiated: converting again what
\* is carried over never makes more than the blocks take away.
THEOREM EndCorrect == Spec => []ComesToAnEnd
<1>1. Init => IInv /\ LengthInv
  BY InitInv, LengthInit
<1>2. IInv /\ LengthInv /\ [Next]_vars => IInv' /\ LengthInv'
  BY NextInv, LengthNext
<1>3. IInv /\ LengthInv => ComesToAnEnd
  BY LengthImplies
<1> QED
  BY <1>1, <1>2, <1>3, PTL DEF Spec
=============================================================================
