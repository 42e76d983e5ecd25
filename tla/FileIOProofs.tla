---------------------------- MODULE FileIOProofs ----------------------------
(***************************************************************************)
(* Proofs about module FileIO, for texts of every length and every block    *)
(* size.                                                                    *)
(***************************************************************************)
EXTENDS FileIO, Induction, SequenceTheorems

USE BlockAssumption

-----------------------------------------------------------------------------
(* Formatters: a loop that puts a piece in front of what a later index       *)
(* gives.                                                                    *)

\* The piece for each index and where the loop goes on.
IsPlan(piece, next, L) ==
    /\ piece \in [1 .. L -> Seq(Int)]
    /\ next \in [1 .. L -> 1 .. L + 1]
    /\ \A i \in 1 .. L : next[i] > i

Put(s, t) == s \o t

Formats(f, piece, next, L) ==
    f = [i \in 1 .. L + 1 |-> IF i > L THEN <<>> ELSE Put(piece[i], f[next[i]])]

\* What it says of such a function, place by place.
LEMMA FormatsFacts ==
    ASSUME NEW L \in Nat, NEW piece, NEW next, NEW f, Formats(f, piece, next, L)
    PROVE  /\ DOMAIN f = 1 .. L + 1
           /\ f[L + 1] = <<>>
           /\ \A i \in 1 .. L : f[i] = Put(piece[i], f[next[i]])
<1> DEFINE h == [i \in 1 .. L + 1 |-> IF i > L THEN <<>> ELSE Put(piece[i], f[next[i]])]
<1>1. f = h
  BY DEF Formats
<1>2. /\ DOMAIN h = 1 .. L + 1 /\ h[L + 1] = <<>>
      /\ \A i \in 1 .. L : h[i] = Put(piece[i], f[next[i]])
  <2>1. /\ L + 1 \in 1 .. L + 1 /\ L + 1 > L
        /\ \A i \in 1 .. L : i \in 1 .. L + 1 /\ ~(i > L)
    OBVIOUS
  <2> QED
    BY <2>1
<1> HIDE DEF h
<1> QED
  BY <1>1, <1>2

\* Two functions that follow one plan are the same.
LEMMA FormatUnique ==
    ASSUME NEW L \in Nat, NEW piece, NEW next, IsPlan(piece, next, L),
           NEW f, Formats(f, piece, next, L), NEW g, Formats(g, piece, next, L)
    PROVE  \A i \in 1 .. L + 1 : f[i] = g[i]
<1> DEFINE S == {i \in 1 .. L + 1 : f[i] = g[i]}
<1>1. /\ f[L + 1] = <<>> /\ \A i \in 1 .. L : f[i] = Put(piece[i], f[next[i]])
  BY FormatsFacts
<1>2. /\ g[L + 1] = <<>> /\ \A i \in 1 .. L : g[i] = Put(piece[i], g[next[i]])
  BY FormatsFacts
<1>3. L + 1 \in S
  BY <1>1, <1>2
<1>4. ASSUME NEW i \in 1 .. L, \A j \in i + 1 .. L + 1 : j \in S PROVE i \in S
  <2>1. next[i] \in i + 1 .. L + 1 /\ i \in 1 .. L + 1
    BY DEF IsPlan
  <2>2. f[next[i]] = g[next[i]]
    BY <1>4, <2>1
  <2> QED
    BY <1>1, <1>2, <2>1, <2>2
<1>5. \A i \in 1 .. L + 1 : i \in S
  <2> HIDE DEF S
  <2> QED
    BY <1>3, <1>4, BackInduction
<1> QED
  BY <1>5

\* There is one for every plan.
LEMMA FormatExists ==
    ASSUME NEW L \in Nat, NEW piece, NEW next, IsPlan(piece, next, L)
    PROVE  \E f \in [1 .. L + 1 -> Seq(Int)] : Formats(f, piece, next, L)
<1> DEFINE step == [i \in 1 .. L |-> [s \in Seq(Int) |-> Put(piece[i], s)]]
<1>1. \A i \in 1 .. L : piece[i] \in Seq(Int)
  BY DEF IsPlan
<1>2. \A i \in 1 .. L : \A s \in Seq(Int) : Put(piece[i], s) \in Seq(Int)
  BY <1>1, ConcatProperties DEF Put
<1>3. /\ step \in [1 .. L -> [Seq(Int) -> Seq(Int)]]
      /\ \A i \in 1 .. L : \A s \in Seq(Int) : step[i][s] = Put(piece[i], s)
  BY <1>2
<1>4. IsBackStep(step, next, L, Seq(Int)) /\ <<>> \in Seq(Int)
  BY <1>3 DEF IsBackStep, IsPlan
<1>5. PICK g : ComputesBack(g, <<>>, step, next, L, Seq(Int))
  <2> HIDE DEF step
  <2> QED
    BY <1>4, BackRecursion
<1>6. /\ g \in [1 .. L + 1 -> Seq(Int)] /\ g[L + 1] = <<>>
      /\ \A i \in 1 .. L : g[i] = step[i][g[next[i]]]
  BY <1>5 DEF ComputesBack
<1> HIDE DEF step
<1>7. \A i \in 1 .. L : g[i] = Put(piece[i], g[next[i]])
  BY <1>3, <1>6 DEF IsPlan
<1>8. \A i \in 1 .. L + 1 : i > L => i = L + 1
  OBVIOUS
<1>9. \A i \in 1 .. L + 1 : ~(i > L) => i \in 1 .. L
  OBVIOUS
<1>10. \A i \in 1 .. L + 1 : g[i] = IF i > L THEN <<>> ELSE Put(piece[i], g[next[i]])
  BY <1>6, <1>7, <1>8, <1>9
<1>11. Formats(g, piece, next, L)
  BY <1>6, <1>10 DEF Formats
<1> QED
  BY <1>6, <1>11

\* A plan after the first k indices is another plan.
GoesOnAs(piece, next, k, piece2, next2, M) ==
    \A j \in 1 .. M : piece[k + j] = piece2[j] /\ next[k + j] = k + next2[j]

\* The loop over the end of a text does what the loop over that end alone does.
LEMMA FormatShift ==
    ASSUME NEW L \in Nat, NEW piece, NEW next, NEW f, Formats(f, piece, next, L),
           NEW M \in Nat, NEW piece2, NEW next2, IsPlan(piece2, next2, M),
           NEW g, Formats(g, piece2, next2, M),
           NEW k \in Nat, L = k + M, GoesOnAs(piece, next, k, piece2, next2, M)
    PROVE  f[k + 1] = g[1]
<1>0. \A j \in 1 .. M : piece[k + j] = piece2[j] /\ next[k + j] = k + next2[j]
  BY DEF GoesOnAs
<1> DEFINE h == [j \in 1 .. M + 1 |-> f[k + j]]
<1>1. /\ f[L + 1] = <<>> /\ \A i \in 1 .. L : f[i] = Put(piece[i], f[next[i]])
  BY FormatsFacts
<1>2. \A j \in 1 .. M : next2[j] \in 1 .. M + 1
  BY DEF IsPlan
<1>3. \A j \in 1 .. M + 1 : h[j] = f[k + j]
  OBVIOUS
<1>4. ASSUME NEW j \in 1 .. M + 1
      PROVE  f[k + j] = IF j > M THEN <<>> ELSE Put(piece2[j], h[next2[j]])
  <2>1. CASE j > M
    <3>1. k + j = L + 1
      BY <2>1
    <3> QED
      BY <1>1, <2>1, <3>1
  <2>2. CASE ~(j > M)
    <3>1. j \in 1 .. M /\ k + j \in 1 .. L
      BY <2>2
    <3>2. f[k + j] = Put(piece2[j], f[k + next2[j]])
      BY <1>0, <1>1, <3>1
    <3>3. h[next2[j]] = f[k + next2[j]]
      BY <1>2, <3>1
    <3> QED
      BY <2>2, <3>2, <3>3
  <2> QED
    BY <2>1, <2>2
<1>5. h = [j \in 1 .. M + 1 |-> IF j > M THEN <<>> ELSE Put(piece2[j], h[next2[j]])]
  <2>1. h = [j \in 1 .. M + 1 |-> h[j]]
    OBVIOUS
  <2> HIDE DEF h
  <2> QED
    BY <1>3, <1>4, <2>1
<1>6. 1 \in 1 .. M + 1
  OBVIOUS
<1> HIDE DEF h
<1>7. Formats(h, piece2, next2, M)
  BY <1>5 DEF Formats
<1>8. h[1] = g[1]
  BY <1>6, <1>7, FormatUnique
<1> QED
  BY <1>3, <1>6, <1>8

-----------------------------------------------------------------------------
(* FormatToNETASCII and FormatFromNETASCII as such loops.                   *)

\* What concatenation does, index by index.
LEMMA Concat ==
    ASSUME NEW s \in Seq(Int), NEW t \in Seq(Int)
    PROVE  /\ s \o t \in Seq(Int) /\ Len(s \o t) = Len(s) + Len(t)
           /\ \A i \in 1 .. Len(s) : (s \o t)[i] = s[i]
           /\ \A j \in 1 .. Len(t) : (s \o t)[Len(s) + j] = t[j]
<1>1. /\ s \o t \in Seq(Int) /\ Len(s \o t) = Len(s) + Len(t)
      /\ \A i \in 1 .. Len(s) + Len(t) : (s \o t)[i] =
            IF i <= Len(s) THEN s[i] ELSE t[i - Len(s)]
  BY ConcatProperties
<1>2. Len(s) \in Nat /\ Len(t) \in Nat
  OBVIOUS
<1>3. /\ \A i \in 1 .. Len(s) : i \in 1 .. Len(s) + Len(t) /\ i <= Len(s)
      /\ \A j \in 1 .. Len(t) : /\ Len(s) + j \in 1 .. Len(s) + Len(t)
                                /\ ~(Len(s) + j <= Len(s)) /\ Len(s) + j - Len(s) = j
  BY <1>2
<1> QED
  BY <1>1, <1>3

\* An index and the one after it are CR and c.
PairAt(data, i, c) == data[i] = CR /\ i < Len(data) /\ data[i + 1] = c

ToPiece(data) ==
    [i \in 1 .. Len(data) |->
        IF PairAt(data, i, LF) THEN <<CR, LF>>
        ELSE IF data[i] = CR THEN <<CR, NUL>>
        ELSE IF data[i] = LF THEN <<CR, LF>> ELSE <<data[i]>>]
ToNext(data) ==
    [i \in 1 .. Len(data) |-> IF PairAt(data, i, LF) THEN i + 2 ELSE i + 1]

FromPiece(data) ==
    [i \in 1 .. Len(data) |->
        IF PairAt(data, i, LF) THEN <<LF>>
        ELSE IF PairAt(data, i, NUL) THEN <<CR>> ELSE <<data[i]>>]
FromNext(data) ==
    [i \in 1 .. Len(data) |->
        IF PairAt(data, i, LF) \/ PairAt(data, i, NUL) THEN i + 2 ELSE i + 1]

\* Both conversions follow a plan: their pieces are texts, and they move on.
LEMMA Plans ==
    ASSUME NEW data \in Seq(Int)
    PROVE  /\ IsPlan(ToPiece(data), ToNext(data), Len(data))
           /\ IsPlan(FromPiece(data), FromNext(data), Len(data))
<1>1. /\ Len(data) \in Nat /\ CR \in Int /\ LF \in Int /\ NUL \in Int
      /\ \A i \in 1 .. Len(data) : data[i] \in Int
  BY DEF CR, LF, NUL
<1>2. /\ \A a \in Int : <<a>> \in Seq(Int)
      /\ \A a, b \in Int : <<a, b>> \in Seq(Int)
  OBVIOUS
<1>3. \A i \in 1 .. Len(data) : \A c \in {LF, NUL} :
         PairAt(data, i, c) => i + 2 \in 1 .. Len(data) + 1
  BY <1>1 DEF PairAt
<1>4. \A i \in 1 .. Len(data) : i + 1 \in 1 .. Len(data) + 1 /\ i + 1 > i /\ i + 2 > i
  BY <1>1
<1>5. ToPiece(data) \in [1 .. Len(data) -> Seq(Int)]
  BY <1>1, <1>2 DEF ToPiece
<1>6. FromPiece(data) \in [1 .. Len(data) -> Seq(Int)]
  BY <1>1, <1>2 DEF FromPiece
<1>7. ToNext(data) \in [1 .. Len(data) -> 1 .. Len(data) + 1]
      /\ \A i \in 1 .. Len(data) : ToNext(data)[i] > i
  BY <1>3, <1>4 DEF ToNext
<1>8. FromNext(data) \in [1 .. Len(data) -> 1 .. Len(data) + 1]
      /\ \A i \in 1 .. Len(data) : FromNext(data)[i] > i
  BY <1>3, <1>4 DEF FromNext
<1> QED
  BY <1>5, <1>6, <1>7, <1>8 DEF IsPlan

\* FormatToNETASCII is the plan's function at the first place.
LEMMA ToFormats ==
    ASSUME NEW data \in Seq(Int)
    PROVE  \E f \in [1 .. Len(data) + 1 -> Seq(Int)] :
              /\ Formats(f, ToPiece(data), ToNext(data), Len(data))
              /\ FormatToNETASCII(data) = f[1]
<1> DEFINE L == Len(data)
           Body(g) ==
              [i \in 1 .. Len(data) + 1 |->
                 IF i > Len(data) THEN <<>>
                 ELSE IF data[i] = CR /\ i < Len(data) /\ data[i + 1] = LF
                      THEN <<CR, LF>> \o g[i + 2]
                 ELSE IF data[i] = CR THEN <<CR, NUL>> \o g[i + 1]
                 ELSE IF data[i] = LF THEN <<CR, LF>> \o g[i + 1]
                 ELSE <<data[i]>> \o g[i + 1]]
           f == CHOOSE g : g = Body(g)
<1>1. L \in Nat /\ \A i \in 1 .. L + 1 : ~(i > L) => i \in 1 .. L
  OBVIOUS
<1>2. ASSUME NEW g
      PROVE  g = Body(g) <=> Formats(g, ToPiece(data), ToNext(data), L)
  <2> DEFINE Plan(i) == Put(ToPiece(data)[i], g[ToNext(data)[i]])
             Loop(i) == IF data[i] = CR /\ i < Len(data) /\ data[i + 1] = LF
                           THEN <<CR, LF>> \o g[i + 2]
                        ELSE IF data[i] = CR THEN <<CR, NUL>> \o g[i + 1]
                        ELSE IF data[i] = LF THEN <<CR, LF>> \o g[i + 1]
                        ELSE <<data[i]>> \o g[i + 1]
  <2>1. \A i \in 1 .. L : Loop(i) = Plan(i)
    <3> SUFFICES ASSUME NEW i \in 1 .. L PROVE Loop(i) = Plan(i)
      OBVIOUS
    <3>1. /\ ToPiece(data)[i] = IF PairAt(data, i, LF) THEN <<CR, LF>>
                                ELSE IF data[i] = CR THEN <<CR, NUL>>
                                ELSE IF data[i] = LF THEN <<CR, LF>> ELSE <<data[i]>>
          /\ ToNext(data)[i] = IF PairAt(data, i, LF) THEN i + 2 ELSE i + 1
      BY DEF ToPiece, ToNext
    <3>2. CASE PairAt(data, i, LF)
      <4>1. Plan(i) = Put(<<CR, LF>>, g[i + 2])
        BY <3>1, <3>2
      <4>2. Loop(i) = <<CR, LF>> \o g[i + 2]
        BY <3>2 DEF PairAt
      <4> QED
        BY <4>1, <4>2 DEF Put
    <3>3. CASE ~PairAt(data, i, LF) /\ data[i] = CR
      <4>1. Plan(i) = Put(<<CR, NUL>>, g[i + 1])
        BY <3>1, <3>3
      <4>2. Loop(i) = <<CR, NUL>> \o g[i + 1]
        BY <3>3 DEF PairAt
      <4> QED
        BY <4>1, <4>2 DEF Put
    <3>4. CASE data[i] = LF /\ data[i] # CR
      <4>1. Plan(i) = Put(<<CR, LF>>, g[i + 1])
        BY <3>1, <3>4 DEF PairAt
      <4>2. Loop(i) = <<CR, LF>> \o g[i + 1]
        BY <3>4
      <4> QED
        BY <4>1, <4>2 DEF Put
    <3>5. CASE data[i] # LF /\ data[i] # CR
      <4>1. Plan(i) = Put(<<data[i]>>, g[i + 1])
        BY <3>1, <3>5 DEF PairAt
      <4>2. Loop(i) = <<data[i]>> \o g[i + 1]
        BY <3>5
      <4> QED
        BY <4>1, <4>2 DEF Put
    <3> QED
      BY <3>2, <3>3, <3>4, <3>5
  <2>2. Body(g) = [i \in 1 .. L + 1 |-> IF i > L THEN <<>> ELSE Loop(i)]
    OBVIOUS
  <2> HIDE DEF Body, Loop
  <2>3. Body(g) = [i \in 1 .. L + 1 |-> IF i > L THEN <<>> ELSE Plan(i)]
    <3> HIDE DEF Plan, L
    <3> QED
      BY <1>1, <2>1, <2>2
  <2> QED
    BY <2>3 DEF Formats
<1>3. PICK g \in [1 .. L + 1 -> Seq(Int)] : Formats(g, ToPiece(data), ToNext(data), L)
  BY <1>1, Plans, FormatExists
<1>4. FormatToNETASCII(data) = f[1]
  BY DEF FormatToNETASCII
<1> HIDE DEF Body
<1>5. f = Body(f)
  BY <1>2, <1>3
<1> HIDE DEF f
<1>6. Formats(f, ToPiece(data), ToNext(data), L)
  BY <1>2, <1>5
<1>7. 1 \in 1 .. L + 1
  BY <1>1
<1>8. f[1] = g[1]
  <2> HIDE DEF L
  <2> QED
    BY <1>1, <1>3, <1>6, <1>7, Plans, FormatUnique DEF L
<1> QED
  BY <1>3, <1>4, <1>8

\* So is FormatFromNETASCII.
LEMMA FromFormats ==
    ASSUME NEW data \in Seq(Int)
    PROVE  \E f \in [1 .. Len(data) + 1 -> Seq(Int)] :
              /\ Formats(f, FromPiece(data), FromNext(data), Len(data))
              /\ FormatFromNETASCII(data) = f[1]
<1> DEFINE L == Len(data)
           Body(g) ==
              [i \in 1 .. Len(data) + 1 |->
                 IF i > Len(data) THEN <<>>
                 ELSE IF data[i] = CR /\ i < Len(data) /\ data[i + 1] = LF
                      THEN <<LF>> \o g[i + 2]
                 ELSE IF data[i] = CR /\ i < Len(data) /\ data[i + 1] = NUL
                      THEN <<CR>> \o g[i + 2]
                 ELSE <<data[i]>> \o g[i + 1]]
           f == CHOOSE g : g = Body(g)
<1>1. L \in Nat /\ \A i \in 1 .. L + 1 : ~(i > L) => i \in 1 .. L
  OBVIOUS
<1>2. ASSUME NEW g
      PROVE  g = Body(g) <=> Formats(g, FromPiece(data), FromNext(data), L)
  <2> DEFINE Plan(i) == Put(FromPiece(data)[i], g[FromNext(data)[i]])
             Loop(i) == IF data[i] = CR /\ i < Len(data) /\ data[i + 1] = LF
                           THEN <<LF>> \o g[i + 2]
                        ELSE IF data[i] = CR /\ i < Len(data) /\ data[i + 1] = NUL
                           THEN <<CR>> \o g[i + 2]
                        ELSE <<data[i]>> \o g[i + 1]
  <2>1. \A i \in 1 .. L : Loop(i) = Plan(i)
    <3> SUFFICES ASSUME NEW i \in 1 .. L PROVE Loop(i) = Plan(i)
      OBVIOUS
    <3>1. /\ FromPiece(data)[i] = IF PairAt(data, i, LF) THEN <<LF>>
                                  ELSE IF PairAt(data, i, NUL) THEN <<CR>>
                                  ELSE <<data[i]>>
          /\ FromNext(data)[i] = IF PairAt(data, i, LF) \/ PairAt(data, i, NUL)
                                 THEN i + 2 ELSE i + 1
      BY DEF FromPiece, FromNext
    <3>2. CASE PairAt(data, i, LF)
      <4>1. Plan(i) = Put(<<LF>>, g[i + 2])
        BY <3>1, <3>2
      <4>2. Loop(i) = <<LF>> \o g[i + 2]
        BY <3>2 DEF PairAt
      <4> QED
        BY <4>1, <4>2 DEF Put
    <3>3. CASE ~PairAt(data, i, LF) /\ PairAt(data, i, NUL)
      <4>1. Plan(i) = Put(<<CR>>, g[i + 2])
        BY <3>1, <3>3
      <4>2. Loop(i) = <<CR>> \o g[i + 2]
        BY <3>3 DEF PairAt
      <4> QED
        BY <4>1, <4>2 DEF Put
    <3>4. CASE ~PairAt(data, i, LF) /\ ~PairAt(data, i, NUL)
      <4>1. Plan(i) = Put(<<data[i]>>, g[i + 1])
        BY <3>1, <3>4
      <4>2. Loop(i) = <<data[i]>> \o g[i + 1]
        BY <3>4 DEF PairAt
      <4> QED
        BY <4>1, <4>2 DEF Put
    <3> QED
      BY <3>2, <3>3, <3>4
  <2>2. Body(g) = [i \in 1 .. L + 1 |-> IF i > L THEN <<>> ELSE Loop(i)]
    OBVIOUS
  <2> HIDE DEF Body, Loop
  <2>3. Body(g) = [i \in 1 .. L + 1 |-> IF i > L THEN <<>> ELSE Plan(i)]
    <3> HIDE DEF Plan, L
    <3> QED
      BY <1>1, <2>1, <2>2
  <2> QED
    BY <2>3 DEF Formats
<1>3. PICK g \in [1 .. L + 1 -> Seq(Int)] : Formats(g, FromPiece(data), FromNext(data), L)
  BY <1>1, Plans, FormatExists
<1>4. FormatFromNETASCII(data) = f[1]
  BY DEF FormatFromNETASCII
<1> HIDE DEF Body
<1>5. f = Body(f)
  BY <1>2, <1>3
<1> HIDE DEF f
<1>6. Formats(f, FromPiece(data), FromNext(data), L)
  BY <1>2, <1>5
<1>7. 1 \in 1 .. L + 1
  BY <1>1
<1>8. f[1] = g[1]
  <2> HIDE DEF L
  <2> QED
    BY <1>1, <1>3, <1>6, <1>7, Plans, FormatUnique DEF L
<1> QED
  BY <1>3, <1>4, <1>8

\* The plan for the end of a text is the plan for that end alone.
LEMMA PlanShift ==
    ASSUME NEW p \in Seq(Int), NEW r \in Seq(Int), NEW j \in 1 .. Len(r)
    PROVE  /\ Len(p) + j \in 1 .. Len(p \o r)
           /\ (p \o r)[Len(p) + j] = r[j]
           /\ \A c \in Int : PairAt(p \o r, Len(p) + j, c) <=> PairAt(r, j, c)
<1> DEFINE d == p \o r
           k == Len(p)
<1>1. /\ Len(d) = k + Len(r) /\ d \in Seq(Int)
      /\ \A i \in 1 .. Len(r) : d[k + i] = r[i]
  BY Concat
<1>2. k \in Nat /\ Len(r) \in Nat
  OBVIOUS
<1> HIDE DEF d, k
<1>3. k + j \in 1 .. Len(d) /\ (k + j < Len(d) <=> j < Len(r)) /\ k + j + 1 = k + (j + 1)
  BY <1>1, <1>2
<1>4. \A c \in Int : PairAt(d, k + j, c) <=> PairAt(r, j, c)
  <2>1. j < Len(r) => d[k + j + 1] = r[j + 1]
    <3> SUFFICES ASSUME j < Len(r) PROVE d[k + j + 1] = r[j + 1]
      OBVIOUS
    <3>1. j + 1 \in 1 .. Len(r)
      BY <1>2
    <3> QED
      BY <1>1, <1>3, <3>1
  <2> QED
    BY <1>1, <1>3, <2>1 DEF PairAt
<1> QED
  BY <1>1, <1>3, <1>4 DEF d, k

\* When the first piece of the plan is what p gives, the rest is converted on its
\* own.
LEMMA ToSplit ==
    ASSUME NEW p \in Seq(Int), NEW r \in Seq(Int), p # <<>>,
           ToNext(p \o r)[1] = Len(p) + 1
    PROVE  FormatToNETASCII(p \o r) = ToPiece(p \o r)[1] \o FormatToNETASCII(r)
<1> DEFINE d == p \o r
           k == Len(p)
<1>1. /\ d \in Seq(Int) /\ Len(d) = k + Len(r) /\ k \in Nat /\ k > 0
      /\ Len(d) \in Nat /\ Len(r) \in Nat
  <2>1. k \in Nat /\ k > 0 /\ Len(r) \in Nat
    BY EmptySeq
  <2> QED
    BY <2>1, Concat
<1>2. ASSUME NEW j \in 1 .. Len(r)
      PROVE  /\ ToPiece(d)[k + j] = ToPiece(r)[j]
             /\ ToNext(d)[k + j] = k + ToNext(r)[j]
  <2>1. /\ k + j \in 1 .. Len(d) /\ d[k + j] = r[j]
        /\ PairAt(d, k + j, LF) <=> PairAt(r, j, LF)
    <3>1. LF \in Int
      BY DEF LF
    <3> QED
      BY <3>1, PlanShift
  <2> HIDE DEF d, k
  <2>2. ToPiece(d)[k + j] = ToPiece(r)[j]
    BY <2>1 DEF ToPiece
  <2>3. ToNext(d)[k + j] = k + ToNext(r)[j]
    <3>1. /\ ToNext(d)[k + j] = IF PairAt(d, k + j, LF) THEN k + j + 2 ELSE k + j + 1
          /\ ToNext(r)[j] = IF PairAt(r, j, LF) THEN j + 2 ELSE j + 1
      BY <2>1 DEF ToNext
    <3> QED
      BY <1>1, <2>1, <3>1
  <2> QED
    BY <2>2, <2>3
<1>3. ToNext(d)[1] = k + 1
  OBVIOUS
<1> HIDE DEF d, k
<1>4. PICK f : /\ Formats(f, ToPiece(d), ToNext(d), Len(d))
               /\ FormatToNETASCII(d) = f[1]
  BY <1>1, ToFormats
<1>5. PICK g : /\ Formats(g, ToPiece(r), ToNext(r), Len(r))
               /\ FormatToNETASCII(r) = g[1]
  BY ToFormats
<1>6. f[k + 1] = g[1]
  <2>1. GoesOnAs(ToPiece(d), ToNext(d), k, ToPiece(r), ToNext(r), Len(r))
    BY <1>2 DEF GoesOnAs
  <2>2. IsPlan(ToPiece(r), ToNext(r), Len(r))
    BY Plans
  <2> QED
    BY <1>1, <1>4, <1>5, <2>1, <2>2, FormatShift
<1>7. 1 \in 1 .. Len(d)
  BY <1>1
<1>8. f[1] = Put(ToPiece(d)[1], f[k + 1])
  BY <1>1, <1>3, <1>4, <1>7, FormatsFacts
<1>9. FormatToNETASCII(d) = Put(ToPiece(d)[1], FormatToNETASCII(r))
  BY <1>4, <1>5, <1>6, <1>8
<1> QED
  BY <1>9 DEF Put, d

\* The same of decoding.
LEMMA FromSplit ==
    ASSUME NEW p \in Seq(Int), NEW r \in Seq(Int), p # <<>>,
           FromNext(p \o r)[1] = Len(p) + 1
    PROVE  FormatFromNETASCII(p \o r) = FromPiece(p \o r)[1] \o FormatFromNETASCII(r)
<1> DEFINE d == p \o r
           k == Len(p)
<1>1. /\ d \in Seq(Int) /\ Len(d) = k + Len(r) /\ k \in Nat /\ k > 0
      /\ Len(d) \in Nat /\ Len(r) \in Nat
  <2>1. k \in Nat /\ k > 0 /\ Len(r) \in Nat
    BY EmptySeq
  <2> QED
    BY <2>1, Concat
<1>2. ASSUME NEW j \in 1 .. Len(r)
      PROVE  /\ FromPiece(d)[k + j] = FromPiece(r)[j]
             /\ FromNext(d)[k + j] = k + FromNext(r)[j]
  <2>1. /\ k + j \in 1 .. Len(d) /\ d[k + j] = r[j]
        /\ PairAt(d, k + j, LF) <=> PairAt(r, j, LF)
        /\ PairAt(d, k + j, NUL) <=> PairAt(r, j, NUL)
    <3>1. LF \in Int /\ NUL \in Int
      BY DEF LF, NUL
    <3> QED
      BY <3>1, PlanShift
  <2> HIDE DEF d, k
  <2>2. FromPiece(d)[k + j] = FromPiece(r)[j]
    BY <2>1 DEF FromPiece
  <2>3. FromNext(d)[k + j] = k + FromNext(r)[j]
    <3>1. /\ FromNext(d)[k + j] = IF PairAt(d, k + j, LF) \/ PairAt(d, k + j, NUL)
                                  THEN k + j + 2 ELSE k + j + 1
          /\ FromNext(r)[j] = IF PairAt(r, j, LF) \/ PairAt(r, j, NUL)
                              THEN j + 2 ELSE j + 1
      BY <2>1 DEF FromNext
    <3> QED
      BY <1>1, <2>1, <3>1
  <2> QED
    BY <2>2, <2>3
<1>3. FromNext(d)[1] = k + 1
  OBVIOUS
<1> HIDE DEF d, k
<1>4. PICK f : /\ Formats(f, FromPiece(d), FromNext(d), Len(d))
               /\ FormatFromNETASCII(d) = f[1]
  BY <1>1, FromFormats
<1>5. PICK g : /\ Formats(g, FromPiece(r), FromNext(r), Len(r))
               /\ FormatFromNETASCII(r) = g[1]
  BY FromFormats
<1>6. f[k + 1] = g[1]
  <2>1. GoesOnAs(FromPiece(d), FromNext(d), k, FromPiece(r), FromNext(r), Len(r))
    BY <1>2 DEF GoesOnAs
  <2>2. IsPlan(FromPiece(r), FromNext(r), Len(r))
    BY Plans
  <2> QED
    BY <1>1, <1>4, <1>5, <2>1, <2>2, FormatShift
<1>7. 1 \in 1 .. Len(d)
  BY <1>1
<1>8. f[1] = Put(FromPiece(d)[1], f[k + 1])
  BY <1>1, <1>3, <1>4, <1>7, FormatsFacts
<1>9. FormatFromNETASCII(d) = Put(FromPiece(d)[1], FormatFromNETASCII(r))
  BY <1>4, <1>5, <1>6, <1>8
<1> QED
  BY <1>9 DEF Put, d

-----------------------------------------------------------------------------
(* What they make of a text, character by character.                        *)

\* Both conversions yield texts.
LEMMA Types ==
    ASSUME NEW s \in Seq(Int)
    PROVE  FormatToNETASCII(s) \in Seq(Int) /\ FormatFromNETASCII(s) \in Seq(Int)
<1>1. 1 \in 1 .. Len(s) + 1
  OBVIOUS
<1>2. FormatToNETASCII(s) \in Seq(Int)
  <2>1. PICK f \in [1 .. Len(s) + 1 -> Seq(Int)] : FormatToNETASCII(s) = f[1]
    BY ToFormats
  <2> QED
    BY <1>1, <2>1
<1>3. FormatFromNETASCII(s) \in Seq(Int)
  <2>1. PICK f \in [1 .. Len(s) + 1 -> Seq(Int)] : FormatFromNETASCII(s) = f[1]
    BY FromFormats
  <2> QED
    BY <1>1, <2>1
<1> QED
  BY <1>2, <1>3

\* Nothing becomes nothing.
LEMMA OfEmpty == FormatToNETASCII(<<>>) = <<>> /\ FormatFromNETASCII(<<>>) = <<>>
<1>1. <<>> \in Seq(Int) /\ Len(<<>>) = 0 /\ 0 \in Nat /\ 0 + 1 = 1
  OBVIOUS
<1>2. FormatToNETASCII(<<>>) = <<>>
  <2>1. PICK f : /\ Formats(f, ToPiece(<<>>), ToNext(<<>>), 0)
                 /\ FormatToNETASCII(<<>>) = f[1]
    BY <1>1, ToFormats
  <2> QED
    BY <1>1, <2>1, FormatsFacts
<1>3. FormatFromNETASCII(<<>>) = <<>>
  <2>1. PICK f : /\ Formats(f, FromPiece(<<>>), FromNext(<<>>), 0)
                 /\ FormatFromNETASCII(<<>>) = f[1]
    BY <1>1, FromFormats
  <2> QED
    BY <1>1, <2>1, FormatsFacts
<1> QED
  BY <1>2, <1>3

\* The first characters of a text: one or two, and the rest.
LEMMA Front ==
    ASSUME NEW r \in Seq(Int), NEW a \in Int
    PROVE  LET d == <<a>> \o r
           IN /\ d \in Seq(Int) /\ Len(d) = Len(r) + 1 /\ 1 \in 1 .. Len(d) /\ d[1] = a
              /\ \A c \in Int : PairAt(d, 1, c) <=> a = CR /\ r # <<>> /\ r[1] = c
              /\ Len(<<a>>) = 1 /\ <<a>> \in Seq(Int) /\ <<a>> # <<>>
<1> DEFINE p == <<a>>
           d == p \o r
<1>1. p \in Seq(Int) /\ Len(p) = 1 /\ p[1] = a /\ p # <<>>
  OBVIOUS
<1> HIDE DEF p
<1>2. /\ d \in Seq(Int) /\ Len(d) = 1 + Len(r) /\ d[1] = a
      /\ \A j \in 1 .. Len(r) : d[1 + j] = r[j]
  <2>1. /\ d \in Seq(Int) /\ Len(d) = Len(p) + Len(r)
        /\ \A i \in 1 .. Len(p) : d[i] = p[i]
        /\ \A j \in 1 .. Len(r) : d[Len(p) + j] = r[j]
    BY <1>1, Concat
  <2> HIDE DEF d
  <2>2. 1 \in 1 .. Len(p)
    BY <1>1
  <2> QED
    BY <1>1, <2>1, <2>2
<1>3. Len(r) \in Nat /\ (r # <<>> <=> Len(r) > 0)
  BY EmptySeq
<1> HIDE DEF d
<1>4. r # <<>> => d[1 + 1] = r[1]
  BY <1>2, <1>3
<1>5. \A c \in Int : PairAt(d, 1, c) <=> a = CR /\ r # <<>> /\ r[1] = c
  BY <1>2, <1>3, <1>4 DEF PairAt
<1>6. 1 \in 1 .. Len(d) /\ Len(d) = Len(r) + 1
  BY <1>2, <1>3
<1> QED
  BY <1>1, <1>2, <1>5, <1>6 DEF d, p

\* What a text has with two characters in front of it.
LEMMA FrontPair ==
    ASSUME NEW r \in Seq(Int), NEW a \in Int, NEW b \in Int
    PROVE  LET d == <<a, b>> \o r
           IN /\ d \in Seq(Int) /\ Len(d) = Len(r) + 2 /\ 1 \in 1 .. Len(d)
              /\ d[1] = a /\ d[2] = b
              /\ \A j \in 1 .. Len(r) : d[2 + j] = r[j]
              /\ \A c \in Int : PairAt(d, 1, c) <=> a = CR /\ b = c
              /\ Len(<<a, b>>) = 2 /\ <<a, b>> \in Seq(Int) /\ <<a, b>> # <<>>
<1> DEFINE p == <<a, b>>
           d == p \o r
<1>1. p \in Seq(Int) /\ Len(p) = 2 /\ p[1] = a /\ p[2] = b /\ p # <<>>
  OBVIOUS
<1> HIDE DEF p
<1>2. /\ d \in Seq(Int) /\ Len(d) = 2 + Len(r) /\ d[1] = a /\ d[2] = b
      /\ \A j \in 1 .. Len(r) : d[2 + j] = r[j]
  <2>1. /\ d \in Seq(Int) /\ Len(d) = Len(p) + Len(r)
        /\ \A i \in 1 .. Len(p) : d[i] = p[i]
        /\ \A j \in 1 .. Len(r) : d[Len(p) + j] = r[j]
    BY <1>1, Concat
  <2> HIDE DEF d
  <2>2. 1 \in 1 .. Len(p) /\ 2 \in 1 .. Len(p)
    BY <1>1
  <2> QED
    BY <1>1, <2>1, <2>2
<1>3. Len(r) \in Nat
  OBVIOUS
<1> HIDE DEF d
<1>5. \A c \in Int : PairAt(d, 1, c) <=> a = CR /\ b = c
  BY <1>2, <1>3 DEF PairAt
<1>6. 1 \in 1 .. Len(d) /\ Len(d) = Len(r) + 2
  BY <1>2, <1>3
<1> QED
  BY <1>1, <1>2, <1>5, <1>6 DEF d, p

\* What FormatToNETASCII makes of a character that is no CR before an LF.
Encoded(c) == IF c = CR THEN <<CR, NUL>> ELSE IF c = LF THEN <<CR, LF>> ELSE <<c>>

\* FormatToNETASCII from its front: a line end stays one, any other character is
\* encoded by itself (Reader.cpp, FormatToNETASCII).
LEMMA ToEquations ==
    ASSUME NEW r \in Seq(Int)
    PROVE  /\ FormatToNETASCII(<<CR, LF>> \o r) = <<CR, LF>> \o FormatToNETASCII(r)
           /\ \A c \in Int : ~(c = CR /\ r # <<>> /\ r[1] = LF) =>
                 FormatToNETASCII(<<c>> \o r) = Encoded(c) \o FormatToNETASCII(r)
<1>1. CR \in Int /\ LF \in Int /\ NUL \in Int /\ CR # LF
  BY DEF CR, LF, NUL
<1>2. FormatToNETASCII(<<CR, LF>> \o r) = <<CR, LF>> \o FormatToNETASCII(r)
  <2> DEFINE d == <<CR, LF>> \o r
  <2>1. /\ d \in Seq(Int) /\ 1 \in 1 .. Len(d) /\ PairAt(d, 1, LF)
        /\ Len(<<CR, LF>>) = 2 /\ <<CR, LF>> \in Seq(Int) /\ <<CR, LF>> # <<>>
    BY <1>1, FrontPair
  <2> HIDE DEF d
  <2>2. ToPiece(d)[1] = <<CR, LF>> /\ ToNext(d)[1] = 2 + 1
    BY <2>1 DEF ToPiece, ToNext
  <2> QED
    BY <2>1, <2>2, ToSplit DEF d
<1>3. ASSUME NEW c \in Int, ~(c = CR /\ r # <<>> /\ r[1] = LF)
      PROVE  FormatToNETASCII(<<c>> \o r) = Encoded(c) \o FormatToNETASCII(r)
  <2> DEFINE d == <<c>> \o r
  <2>1. /\ d \in Seq(Int) /\ 1 \in 1 .. Len(d) /\ d[1] = c /\ ~PairAt(d, 1, LF)
        /\ Len(<<c>>) = 1 /\ <<c>> \in Seq(Int) /\ <<c>> # <<>>
    BY <1>1, <1>3, Front
  <2> HIDE DEF d
  <2>2. ToPiece(d)[1] = Encoded(c)
    BY <2>1 DEF ToPiece, Encoded
  <2>3. ToNext(d)[1] = 1 + 1
    BY <2>1 DEF ToNext
  <2> QED
    BY <2>1, <2>2, <2>3, ToSplit DEF d
<1> QED
  BY <1>2, <1>3

\* FormatFromNETASCII from its front: pairs become one character, any other
\* character stays (Writer.cpp, FormatFromNETASCII).
LEMMA FromEquations ==
    ASSUME NEW r \in Seq(Int)
    PROVE  /\ FormatFromNETASCII(<<CR, LF>> \o r) = <<LF>> \o FormatFromNETASCII(r)
           /\ FormatFromNETASCII(<<CR, NUL>> \o r) = <<CR>> \o FormatFromNETASCII(r)
           /\ \A c \in Int : ~(c = CR /\ r # <<>> /\ r[1] \in {LF, NUL}) =>
                 FormatFromNETASCII(<<c>> \o r) = <<c>> \o FormatFromNETASCII(r)
<1>1. CR \in Int /\ LF \in Int /\ NUL \in Int /\ LF # NUL
  BY DEF CR, LF, NUL
<1>2. ASSUME NEW b \in {LF, NUL}
      PROVE  FormatFromNETASCII(<<CR, b>> \o r) =
                (IF b = LF THEN <<LF>> ELSE <<CR>>) \o FormatFromNETASCII(r)
  <2> DEFINE d == <<CR, b>> \o r
  <2>1. /\ d \in Seq(Int) /\ 1 \in 1 .. Len(d)
        /\ PairAt(d, 1, LF) <=> b = LF
        /\ PairAt(d, 1, NUL) <=> b = NUL
        /\ Len(<<CR, b>>) = 2 /\ <<CR, b>> \in Seq(Int) /\ <<CR, b>> # <<>>
    BY <1>1, FrontPair
  <2> HIDE DEF d
  <2>2. FromPiece(d)[1] = (IF b = LF THEN <<LF>> ELSE <<CR>>) /\ FromNext(d)[1] = 2 + 1
    BY <1>1, <2>1 DEF FromPiece, FromNext
  <2> QED
    BY <2>1, <2>2, FromSplit DEF d
<1>3. ASSUME NEW c \in Int, ~(c = CR /\ r # <<>> /\ r[1] \in {LF, NUL})
      PROVE  FormatFromNETASCII(<<c>> \o r) = <<c>> \o FormatFromNETASCII(r)
  <2> DEFINE d == <<c>> \o r
  <2>1. /\ d \in Seq(Int) /\ 1 \in 1 .. Len(d) /\ d[1] = c
        /\ ~PairAt(d, 1, LF) /\ ~PairAt(d, 1, NUL)
        /\ Len(<<c>>) = 1 /\ <<c>> \in Seq(Int) /\ <<c>> # <<>>
    BY <1>1, <1>3, Front
  <2> HIDE DEF d
  <2>2. FromPiece(d)[1] = <<c>>
    BY <2>1 DEF FromPiece
  <2>3. FromNext(d)[1] = 1 + 1
    BY <2>1 DEF FromNext
  <2> QED
    BY <2>1, <2>2, <2>3, FromSplit DEF d
<1>4. /\ FormatFromNETASCII(<<CR, LF>> \o r) =
           (IF LF = LF THEN <<LF>> ELSE <<CR>>) \o FormatFromNETASCII(r)
      /\ FormatFromNETASCII(<<CR, NUL>> \o r) =
           (IF NUL = LF THEN <<LF>> ELSE <<CR>>) \o FormatFromNETASCII(r)
  <2>1. LF \in {LF, NUL} /\ NUL \in {LF, NUL}
    OBVIOUS
  <2> QED
    BY <1>2, <2>1
<1>5. /\ (IF LF = LF THEN <<LF>> ELSE <<CR>>) = <<LF>>
      /\ (IF NUL = LF THEN <<LF>> ELSE <<CR>>) = <<CR>>
  BY <1>1
<1> QED
  BY <1>3, <1>4, <1>5

\* A text is a first character and the rest, or what comes before the last one
\* and that one.
LEMMA FirstAndRest ==
    ASSUME NEW s \in Seq(Int), s # <<>>
    PROVE  \E a \in Int, r \in Seq(Int) : s = <<a>> \o r
<1>1. Len(s) \in Nat /\ Len(s) > 0
  BY EmptySeq
<1>2. 1 \in 1 .. Len(s) /\ Len(s) \in 1 .. Len(s)
  BY <1>1
<1>3. SubSeq(s, 1, Len(s)) = <<s[1]>> \o SubSeq(s, 1 + 1, Len(s))
  BY <1>2, SubSeqRecursiveFirst
<1>4. SubSeq(s, 1, Len(s)) = s
  BY SubSeqFull
<1>5. SubSeq(s, 1 + 1, Len(s)) \in Seq(Int)
  <2>1. \A i \in 2 .. Len(s) : s[i] \in Int
    BY <1>1
  <2> QED
    BY <1>1, <2>1, SubSeqProperties
<1>6. s[1] \in Int
  BY <1>2
<1> QED
  BY <1>3, <1>4, <1>5, <1>6

\* A text that is not empty has a last character.
LEMMA RestAndLast ==
    ASSUME NEW s \in Seq(Int), s # <<>>
    PROVE  /\ s[Len(s)] \in Int
           /\ \E q \in Seq(Int) : s = q \o <<s[Len(s)]>>
<1>1. Len(s) \in Nat /\ Len(s) > 0
  BY EmptySeq
<1>2. 1 \in 1 .. Len(s) /\ Len(s) \in 1 .. Len(s)
  BY <1>1
<1>3. SubSeq(s, 1, Len(s)) = SubSeq(s, 1, Len(s) - 1) \o <<s[Len(s)]>>
  BY <1>2, SubSeqRecursiveSecond
<1>4. SubSeq(s, 1, Len(s)) = s
  BY SubSeqFull
<1>5. SubSeq(s, 1, Len(s) - 1) \in Seq(Int)
  <2>1. \A i \in 1 .. Len(s) - 1 : s[i] \in Int
    BY <1>1
  <2> QED
    BY <1>1, <2>1, SubSeqProperties
<1>6. s[Len(s)] \in Int
  BY <1>2
<1> QED
  BY <1>3, <1>4, <1>5, <1>6

\* Two characters are a text of two.
LEMMA PairOf ==
    ASSUME NEW a \in Int, NEW b \in Int
    PROVE  <<a>> \in Seq(Int) /\ <<b>> \in Seq(Int) /\ <<a>> \o <<b>> = <<a, b>>
<1> DEFINE x == <<a>>
           y == <<b>>
           z == <<a, b>>
<1>1. /\ x \in Seq(Int) /\ Len(x) = 1 /\ x[1] = a
      /\ y \in Seq(Int) /\ Len(y) = 1 /\ y[1] = b
      /\ z \in Seq(Int) /\ Len(z) = 2 /\ z[1] = a /\ z[2] = b
  OBVIOUS
<1> HIDE DEF x, y, z
<1>2. /\ x \o y \in Seq(Int) /\ Len(x \o y) = Len(x) + Len(y)
      /\ \A i \in 1 .. Len(x) : (x \o y)[i] = x[i]
      /\ \A j \in 1 .. Len(y) : (x \o y)[Len(x) + j] = y[j]
  BY <1>1, Concat
<1>3. (x \o y)[1] = a /\ (x \o y)[2] = b /\ Len(x \o y) = 2
  <2>1. 1 \in 1 .. 1 /\ 1 + 1 = 2
    OBVIOUS
  <2> QED
    BY <1>1, <1>2, <2>1
<1>4. \A i \in 1 .. 2 : i = 1 \/ i = 2
  OBVIOUS
<1>5. x \o y = z
  BY <1>1, <1>2, <1>3, <1>4, SeqEqual
<1> QED
  BY <1>1, <1>5 DEF x, y, z

\* A character in front of a character and a text.
LEMMA TwoInFront ==
    ASSUME NEW a \in Int, NEW b \in Int, NEW r \in Seq(Int)
    PROVE  <<a>> \o (<<b>> \o r) = <<a, b>> \o r
<1>1. <<a>> \in Seq(Int) /\ <<b>> \in Seq(Int) /\ <<a>> \o <<b>> = <<a, b>>
  BY PairOf
<1>2. (<<a>> \o <<b>>) \o r = <<a>> \o (<<b>> \o r)
  <2> DEFINE x == <<a>>
             y == <<b>>
  <2> HIDE DEF x, y
  <2>1. x \in Seq(Int) /\ y \in Seq(Int)
    BY <1>1 DEF x, y
  <2>2. (x \o y) \o r = x \o (y \o r)
    BY <2>1, ConcatAssociative
  <2> QED
    BY <2>2 DEF x, y
<1> QED
  BY <1>1, <1>2

\* A text begins with a CR and one of the characters in second, or not.
LEMMA Decompose ==
    ASSUME NEW second \in SUBSET Int, NEW s \in Seq(Int), s # <<>>
    PROVE  \/ \E c \in second, r \in Seq(Int) : s = <<CR, c>> \o r
           \/ \E c \in Int, r \in Seq(Int) :
                 s = <<c>> \o r /\ ~(c = CR /\ r # <<>> /\ r[1] \in second)
<1>1. PICK a \in Int, r \in Seq(Int) : s = <<a>> \o r
  BY FirstAndRest
<1>2. CASE ~(a = CR /\ r # <<>> /\ r[1] \in second)
  BY <1>1, <1>2
<1>3. CASE a = CR /\ r # <<>> /\ r[1] \in second
  <2>1. PICK b \in Int, q \in Seq(Int) : r = <<b>> \o q
    BY <1>3, FirstAndRest
  <2>2. r[1] = b
    BY <2>1, Front
  <2>3. s = <<CR, b>> \o q
    BY <1>1, <1>3, <2>1, TwoInFront
  <2> QED
    BY <1>3, <2>2, <2>3
<1> QED
  BY <1>2, <1>3

-----------------------------------------------------------------------------
(* Decoding a text in two parts.                                            *)

\* The cut is not between CR and what belongs to it.
Joint(s, t) ==
    ~(s # <<>> /\ s[Len(s)] = CR /\ t # <<>> /\ t[1] \in {LF, NUL})

\* Putting texts together is associative.
LEMMA Assoc ==
    ASSUME NEW x \in Seq(Int), NEW y \in Seq(Int), NEW z \in Seq(Int)
    PROVE  (x \o y) \o z = x \o (y \o z)
BY ConcatAssociative

\* The empty text adds nothing.
LEMMA NoText ==
    ASSUME NEW s \in Seq(Int)
    PROVE  s \o <<>> = s /\ <<>> \o s = s
BY ConcatEmptySeq

\* The last and the first character of a concatenation.
LEMMA Ends ==
    ASSUME NEW s \in Seq(Int), NEW t \in Seq(Int)
    PROVE  /\ t # <<>> => (s \o t)[Len(s \o t)] = t[Len(t)] /\ s \o t # <<>>
           /\ s # <<>> => (s \o t)[1] = s[1] /\ s \o t # <<>>
<1>1. /\ s \o t \in Seq(Int) /\ Len(s \o t) = Len(s) + Len(t)
      /\ \A i \in 1 .. Len(s) : (s \o t)[i] = s[i]
      /\ \A j \in 1 .. Len(t) : (s \o t)[Len(s) + j] = t[j]
  BY Concat
<1>2. /\ Len(s) \in Nat /\ Len(t) \in Nat /\ Len(<<>>) = 0
      /\ (s # <<>> => Len(s) > 0) /\ (t # <<>> => Len(t) > 0)
  BY EmptySeq
<1>3. t # <<>> => Len(t) \in 1 .. Len(t)
  BY <1>2
<1>4. s # <<>> => 1 \in 1 .. Len(s)
  BY <1>2
<1>5. Len(s) + Len(t) > 0 => s \o t # <<>>
  BY <1>1, <1>2
<1> QED
  BY <1>1, <1>2, <1>3, <1>4, <1>5

\* The cut moves when the front of the first part is taken away.
LEMMA JointRest ==
    ASSUME NEW p \in Seq(Int), NEW r \in Seq(Int), NEW t \in Seq(Int), Joint(p \o r, t)
    PROVE  Joint(r, t)
BY Ends DEF Joint

\* Two parts of a text may be decoded apart when no pair is cut.
LEMMA JoinLaw ==
    ASSUME NEW s \in Seq(Int), NEW t \in Seq(Int), Joint(s, t)
    PROVE  FormatFromNETASCII(s \o t) = FormatFromNETASCII(s) \o FormatFromNETASCII(t)
<1> DEFINE F(x) == FormatFromNETASCII(x)
           Holds(x) == Joint(x, t) => F(x \o t) = F(x) \o F(t)
           S == {m \in Nat : \A x \in Seq(Int) : Len(x) <= m => Holds(x)}
<1>0. /\ \A x \in Seq(Int) : F(x) \in Seq(Int)
      /\ F(<<>>) = <<>>
      /\ CR \in Int /\ LF \in Int /\ NUL \in Int
      /\ \A a \in Int : <<a>> \in Seq(Int)
      /\ \A a, b \in Int : <<a, b>> \in Seq(Int)
  BY Types, OfEmpty DEF CR, LF, NUL
<1>1. Holds(<<>>)
  <2>1. <<>> \o t = t /\ <<>> \o F(t) = F(t)
    BY <1>0, NoText
  <2> QED
    BY <1>0, <2>1
<1>2. 0 \in S
  <2>1. \A x \in Seq(Int) : Len(x) <= 0 => x = <<>>
    BY EmptySeq
  <2> HIDE DEF Holds
  <2> QED
    BY <1>1, <2>1
<1>3. ASSUME NEW m \in Nat, m \in S PROVE m + 1 \in S
  <2> SUFFICES ASSUME NEW x \in Seq(Int), Len(x) <= m + 1, Joint(x, t)
               PROVE  F(x \o t) = F(x) \o F(t)
    OBVIOUS
  <2>1. CASE x = <<>>
    BY <1>1, <2>1
  <2>2. ASSUME x # <<>>, NEW c \in {LF, NUL}, NEW r \in Seq(Int), x = <<CR, c>> \o r
        PROVE  F(x \o t) = F(x) \o F(t)
    <3> DEFINE p == <<CR, c>>
               e == IF c = LF THEN <<LF>> ELSE <<CR>>
    <3>1. p \in Seq(Int) /\ e \in Seq(Int) /\ x = p \o r /\ Len(x) = Len(r) + 2
          /\ r \o t \in Seq(Int)
      BY <1>0, <2>2, FrontPair, Concat
    <3>2. \A y \in Seq(Int) : F(p \o y) = e \o F(y)
      <4>1. c = LF \/ c = NUL
        OBVIOUS
      <4>2. LF # NUL
        BY DEF LF, NUL
      <4> QED
        BY <4>1, <4>2, FromEquations
    <3> HIDE DEF p, e
    <3>3. Joint(r, t)
      BY <3>1, JointRest
    <3>4. Len(r) <= m
      BY <3>1
    <3>5. F(r \o t) = F(r) \o F(t)
      BY <1>3, <3>3, <3>4
    <3> HIDE DEF F
    <3>6. x \o t = p \o (r \o t)
      <4>1. p \in Seq(Int) /\ x = p \o r
        BY <3>1
      <4>2. (p \o r) \o t = p \o (r \o t)
        BY <4>1, Assoc
      <4> QED
        BY <4>1, <4>2
    <3>7. F(x \o t) = e \o F(r \o t) /\ F(x) = e \o F(r)
      BY <3>1, <3>2, <3>6
    <3>8. (e \o F(r)) \o F(t) = e \o (F(r) \o F(t))
      <4>1. e \in Seq(Int) /\ F(r) \in Seq(Int) /\ F(t) \in Seq(Int)
        BY <1>0, <3>1
      <4>2. \A y, z \in Seq(Int) : (e \o y) \o z = e \o (y \o z)
        BY <4>1, Assoc
      <4> QED
        BY <4>1, <4>2
    <3> QED
      BY <3>5, <3>7, <3>8
  <2>3. ASSUME x # <<>>, NEW c \in Int, NEW r \in Seq(Int), x = <<c>> \o r,
               ~(c = CR /\ r # <<>> /\ r[1] \in {LF, NUL})
        PROVE  F(x \o t) = F(x) \o F(t)
    <3> DEFINE p == <<c>>
    <3>1. /\ p \in Seq(Int) /\ x = p \o r /\ Len(x) = Len(r) + 1 /\ Len(p) = 1 /\ p[1] = c
          /\ r \o t \in Seq(Int) /\ x[1] = c
      BY <1>0, <2>3, Front, Concat
    <3>2. \A y \in Seq(Int) : ~(c = CR /\ y # <<>> /\ y[1] \in {LF, NUL}) =>
                 F(p \o y) = p \o F(y)
      BY FromEquations
    <3> HIDE DEF p
    <3>3. Joint(r, t)
      BY <3>1, JointRest
    <3>4. Len(r) <= m
      BY <3>1
    <3>5. F(r \o t) = F(r) \o F(t)
      BY <1>3, <3>3, <3>4
    <3> HIDE DEF F
    <3>6. x \o t = p \o (r \o t)
      <4>1. p \in Seq(Int) /\ x = p \o r
        BY <3>1
      <4>2. (p \o r) \o t = p \o (r \o t)
        BY <4>1, Assoc
      <4> QED
        BY <4>1, <4>2
    <3>7. F(x) = p \o F(r)
      BY <2>3, <3>1, <3>2
    <3>8. ~(c = CR /\ r \o t # <<>> /\ (r \o t)[1] \in {LF, NUL})
      <4>1. CASE r = <<>>
        <5>1. r \o t = t /\ x = p
          BY <3>1, <4>1, NoText
        <5> QED
          BY <3>1, <5>1 DEF Joint
      <4>2. CASE r # <<>>
        <5>1. (r \o t)[1] = r[1]
          BY <4>2, Ends
        <5> QED
          BY <2>3, <4>2, <5>1
      <4> QED
        BY <4>1, <4>2
    <3>9. F(x \o t) = p \o F(r \o t)
      BY <3>1, <3>2, <3>6, <3>8
    <3>10. (p \o F(r)) \o F(t) = p \o (F(r) \o F(t))
      <4>1. p \in Seq(Int) /\ F(r) \in Seq(Int) /\ F(t) \in Seq(Int)
        BY <1>0, <3>1
      <4>2. \A y, z \in Seq(Int) : (p \o y) \o z = p \o (y \o z)
        BY <4>1, Assoc
      <4> QED
        BY <4>1, <4>2
    <3> QED
      BY <3>5, <3>7, <3>9, <3>10
  <2>4. {LF, NUL} \in SUBSET Int
    BY <1>0
  <2>5. CASE x # <<>>
    <3>1. \/ \E c \in {LF, NUL}, r \in Seq(Int) : x = <<CR, c>> \o r
          \/ \E c \in Int, r \in Seq(Int) :
                x = <<c>> \o r /\ ~(c = CR /\ r # <<>> /\ r[1] \in {LF, NUL})
      BY <2>4, <2>5, Decompose
    <3> HIDE DEF F
    <3> QED
      BY <2>2, <2>3, <2>5, <3>1
  <2> QED
    BY <2>1, <2>5
<1>4. Len(s) \in S
  <2>1. Len(s) \in Nat
    OBVIOUS
  <2> HIDE DEF S
  <2> QED
    BY <1>2, <1>3, <2>1, SetInduction
<1>5. Holds(s)
  <2> HIDE DEF Holds
  <2> QED
    BY <1>4
<1> QED
  BY <1>5

-----------------------------------------------------------------------------
(* One block of a text: what is written and what is held back.              *)

\* What one character and the two pairs decode to.
LEMMA SingleDecoded ==
    /\ \A c \in Int : FormatFromNETASCII(<<c>>) = <<c>>
    /\ FormatFromNETASCII(<<CR, LF>>) = <<LF>>
    /\ FormatFromNETASCII(<<CR, NUL>>) = <<CR>>
<1>1. CR \in Int /\ LF \in Int /\ NUL \in Int /\ <<>> \in Seq(Int)
  BY DEF CR, LF, NUL
<1>2. \A s \in Seq(Int) : s \o <<>> = s
  BY NoText
<1>3. /\ \A c \in Int : <<c>> \in Seq(Int)
      /\ <<CR, LF>> \in Seq(Int) /\ <<CR, NUL>> \in Seq(Int)
  BY <1>1
<1>4. ASSUME NEW c \in Int PROVE FormatFromNETASCII(<<c>>) = <<c>>
  <2> DEFINE p == <<c>>
  <2>1. p \in Seq(Int) /\ FormatFromNETASCII(p \o <<>>) = p \o FormatFromNETASCII(<<>>)
    BY <1>1, <1>3, FromEquations
  <2> HIDE DEF p
  <2>2. FormatFromNETASCII(p) = p
    BY <1>2, <2>1, OfEmpty
  <2> QED
    BY <2>2 DEF p
<1>5. ASSUME NEW b \in {LF, NUL}, NEW e \in Int,
             \A r \in Seq(Int) : FormatFromNETASCII(<<CR, b>> \o r)
                                   = <<e>> \o FormatFromNETASCII(r)
      PROVE  FormatFromNETASCII(<<CR, b>>) = <<e>>
  <2> DEFINE p == <<CR, b>>
             x == <<e>>
  <2>1. /\ p \in Seq(Int) /\ x \in Seq(Int)
        /\ FormatFromNETASCII(p \o <<>>) = x \o FormatFromNETASCII(<<>>)
    BY <1>1, <1>3, <1>5
  <2> HIDE DEF p, x
  <2>2. FormatFromNETASCII(p) = x
    BY <1>2, <2>1, OfEmpty
  <2> QED
    BY <2>2 DEF p, x
<1>6. FormatFromNETASCII(<<CR, LF>>) = <<LF>>
  BY <1>1, <1>5, FromEquations
<1>7. FormatFromNETASCII(<<CR, NUL>>) = <<CR>>
  BY <1>1, <1>5, FromEquations
<1> QED
  BY <1>4, <1>6, <1>7

\* The last character that is decoded: a CR is the last of the text, or the
\* text ends in CR and null.
LEMMA LastDecoded ==
    ASSUME NEW s \in Seq(Int), s # <<>>
    PROVE  /\ s[Len(s)] = CR =>
                 \E q \in Seq(Int) : /\ s = q \o <<CR>>
                                     /\ FormatFromNETASCII(s) = FormatFromNETASCII(q) \o <<CR>>
           /\ LET d == FormatFromNETASCII(s)
              IN s[Len(s)] # CR /\ d # <<>> /\ d[Len(d)] = CR =>
                 \E q \in Seq(Int) : s = q \o <<CR, NUL>>
<1> DEFINE F(x) == FormatFromNETASCII(x)
           c == s[Len(s)]
           u == <<c>>
<1>0. /\ CR \in Int /\ LF \in Int /\ NUL \in Int /\ CR # LF /\ CR # NUL
      /\ \A x \in Seq(Int) : F(x) \in Seq(Int)
  BY Types DEF CR, LF, NUL
<1>1. PICK q \in Seq(Int) : s = q \o u
  BY RestAndLast
<1>2. c \in Int
  BY RestAndLast
<1>3. u \in Seq(Int) /\ Len(u) = 1 /\ u[1] = c /\ u # <<>> /\ F(u) = u /\ (c = CR => u = <<CR>>)
  BY <1>2, SingleDecoded
<1> HIDE DEF u, c
<1>4. CASE c = CR
  <2>1. Joint(q, u)
    BY <1>0, <1>3, <1>4 DEF Joint
  <2>2. F(s) = F(q) \o F(u)
    BY <1>1, <1>3, <2>1, JoinLaw
  <2>3. F(s) = F(q) \o <<CR>> /\ s = q \o <<CR>>
    BY <1>1, <1>3, <1>4, <2>2
  <2> QED
    BY <1>4, <2>3 DEF c
<1>5. CASE c # CR
  <2> SUFFICES ASSUME F(s) # <<>>, F(s)[Len(F(s))] = CR
               PROVE  \E p \in Seq(Int) : s = p \o <<CR, NUL>>
    BY <1>5 DEF c
  <2>1. CASE Joint(q, u)
    <3>1. F(s) = F(q) \o u /\ F(q) \in Seq(Int)
      BY <1>0, <1>1, <1>3, <2>1, JoinLaw
    <3> HIDE DEF F
    <3>2. F(s)[Len(F(s))] = u[Len(u)]
      <4>1. \A y \in Seq(Int) : (y \o u)[Len(y \o u)] = u[Len(u)]
        BY <1>3, Ends
      <4> QED
        BY <3>1, <4>1
    <3> QED
      BY <1>3, <1>5, <3>2
  <2>2. CASE ~Joint(q, u)
    <3>1. q # <<>> /\ q[Len(q)] = CR /\ c \in {LF, NUL}
      BY <1>3, <2>2 DEF Joint
    <3>2. PICK p \in Seq(Int) : q = p \o <<CR>>
      BY <3>1, RestAndLast
    <3> DEFINE v == <<CR>>
               w == <<CR, c>>
    <3>3. v \in Seq(Int) /\ w \in Seq(Int) /\ w # <<>> /\ w[1] = CR /\ v \o u = w /\ Len(w) = 2
      <4>1. <<CR>> \o <<c>> = <<CR, c>>
        BY <1>0, <1>2, PairOf
      <4> QED
        BY <1>0, <1>2, <4>1 DEF u
    <3>4. c = LF => F(w) = <<LF>>
      BY SingleDecoded
    <3>5. /\ q = p \o v
          /\ c = NUL => w = <<CR, NUL>>
      BY <3>2
    <3> HIDE DEF v, w
    <3>6. s = p \o w
      <4>1. (p \o v) \o u = p \o (v \o u)
        BY <1>3, <3>3, Assoc
      <4> QED
        BY <1>1, <3>3, <3>5, <4>1
    <3>7. CASE c = NUL
      BY <3>5, <3>6, <3>7
    <3>8. CASE c = LF
      <4> DEFINE z == <<LF>>
      <4>1. F(w) = z /\ z \in Seq(Int) /\ z # <<>> /\ z[Len(z)] = LF
        BY <1>0, <3>4, <3>8
      <4> HIDE DEF z
      <4>2. Joint(p, w)
        BY <1>0, <3>3 DEF Joint
      <4>3. F(s) = F(p) \o F(w) /\ F(p) \in Seq(Int)
        BY <1>0, <3>3, <3>6, <4>2, JoinLaw
      <4> HIDE DEF F
      <4>4. F(s)[Len(F(s))] = z[Len(z)]
        <5>1. \A y \in Seq(Int) : (y \o z)[Len(y \o z)] = z[Len(z)]
          BY <4>1, Ends
        <5> QED
          BY <4>1, <4>3, <5>1
      <4> QED
        BY <1>0, <4>1, <4>4
    <3> QED
      BY <3>1, <3>7, <3>8
  <2> QED
    BY <2>1, <2>2
<1> QED
  BY <1>4, <1>5

\* What is written now and what is kept are the decoded block.
LEMMA KeptAndWritten ==
    ASSUME NEW s \in Seq(Int), s # <<>>
    PROVE  LET now == Upto(s, Len(s) - Len(KeepBack(s)))
           IN /\ now \in Seq(Int) /\ s = now \o KeepBack(s)
              /\ KeepBack(s) = IF s[Len(s)] = CR THEN <<CR>> ELSE <<>>
<1> DEFINE now == Upto(s, Len(s) - Len(KeepBack(s)))
<1>1. Len(s) \in Nat /\ Len(s) > 0
  BY EmptySeq
<1>2. 1 \in 1 .. Len(s) /\ Len(s) \in 1 .. Len(s)
  BY <1>1
<1>3. SubSeq(s, 1, Len(s)) = s
  BY SubSeqFull
<1>4. CASE s[Len(s)] = CR
  <2>1. KeepBack(s) = <<CR>> /\ Len(<<CR>>) = 1
    BY <1>4 DEF KeepBack
  <2>2. now = SubSeq(s, 1, Len(s) - 1)
    BY <1>1, <2>1 DEF Upto
  <2>3. SubSeq(s, 1, Len(s)) = SubSeq(s, 1, Len(s) - 1) \o <<s[Len(s)]>>
    BY <1>2, SubSeqRecursiveSecond
  <2>4. SubSeq(s, 1, Len(s) - 1) \in Seq(Int)
    <3>1. \A i \in 1 .. Len(s) - 1 : s[i] \in Int
      BY <1>1
    <3> QED
      BY <1>1, <3>1, SubSeqProperties
  <2> QED
    BY <1>3, <1>4, <2>1, <2>2, <2>3, <2>4
<1>5. CASE s[Len(s)] # CR
  <2>1. KeepBack(s) = <<>> /\ Len(<<>>) = 0
    BY <1>5 DEF KeepBack
  <2>2. now = s
    BY <1>1, <1>3, <2>1 DEF Upto
  <2> HIDE DEF now
  <2>3. s \o <<>> = s
    BY NoText
  <2> QED
    BY <1>5, <2>1, <2>2, <2>3 DEF now
<1> QED
  BY <1>4, <1>5

\* Texts with the same end are the same if they are with it.
LEMMA CancelRight ==
    ASSUME NEW s \in Seq(Int), NEW t \in Seq(Int), NEW v \in Seq(Int), s \o v = t \o v
    PROVE  s = t
BY ConcatSimplifications

\* What is behind a cut is unambiguous if the whole is.
LEMMA UnambiguousRest ==
    ASSUME NEW p \in Seq(Int), NEW r \in Seq(Int), Unambiguous(p \o r)
    PROVE  Unambiguous(r)
<1> DEFINE d == p \o r
<1>1. /\ Len(d) = Len(p) + Len(r) /\ Len(p) \in Nat /\ Len(r) \in Nat
      /\ \A j \in 1 .. Len(r) : d[Len(p) + j] = r[j]
  BY Concat
<1>2. \A i \in 1 .. Len(d) - 2 : d[i] = CR /\ d[i + 1] = NUL => d[i + 2] \notin {LF, NUL}
  BY DEF Unambiguous
<1> HIDE DEF d
<1> SUFFICES ASSUME NEW i \in 1 .. Len(r) - 2, r[i] = CR, r[i + 1] = NUL
             PROVE  r[i + 2] \notin {LF, NUL}
  BY DEF Unambiguous
<1>3. /\ i \in 1 .. Len(r) /\ i + 1 \in 1 .. Len(r) /\ i + 2 \in 1 .. Len(r)
      /\ Len(p) + i \in 1 .. Len(d) - 2
      /\ Len(p) + i + 1 = Len(p) + (i + 1) /\ Len(p) + i + 2 = Len(p) + (i + 2)
  BY <1>1
<1>4. d[Len(p) + i] = r[i] /\ d[Len(p) + i + 1] = r[i + 1] /\ d[Len(p) + i + 2] = r[i + 2]
  BY <1>1, <1>3
<1> QED
  BY <1>2, <1>3, <1>4

\* A character in front, and two.
LEMMA UnambiguousFront ==
    ASSUME NEW r \in Seq(Int), Unambiguous(r), NEW a \in Int,
           a # CR \/ r = <<>> \/ r[1] # NUL
    PROVE  Unambiguous(<<a>> \o r)
<1> DEFINE p == <<a>>
           d == p \o r
<1>1. /\ d[1] = a /\ Len(d) = Len(r) + 1 /\ Len(r) \in Nat
      /\ \A j \in 1 .. Len(r) : d[1 + j] = r[j]
  <2>1. p \in Seq(Int) /\ Len(p) = 1
    OBVIOUS
  <2> HIDE DEF p
  <2>2. \A j \in 1 .. Len(r) : d[Len(p) + j] = r[j]
    BY <2>1, Concat
  <2>3. d[1] = a /\ Len(d) = Len(r) + 1
    BY Front DEF p
  <2> HIDE DEF d
  <2> QED
    BY <2>1, <2>2, <2>3
<1> HIDE DEF d
<1> SUFFICES ASSUME NEW i \in 1 .. Len(d) - 2, d[i] = CR, d[i + 1] = NUL
             PROVE  d[i + 2] \notin {LF, NUL}
  BY DEF Unambiguous, d
<1>2. CASE i = 1
  <2>1. d[2] = r[1] /\ r # <<>>
    <3>1. 1 \in 1 .. Len(r) /\ 1 + 1 = 2 /\ Len(<<>>) = 0
      BY <1>1
    <3> QED
      BY <1>1, <3>1
  <2> QED
    BY <1>1, <1>2, <2>1
<1>3. CASE i # 1
  <2> DEFINE k == i - 1
  <2>1. /\ k \in 1 .. Len(r) - 2 /\ 1 + k = i /\ 1 + (k + 1) = i + 1 /\ 1 + (k + 2) = i + 2
        /\ k \in 1 .. Len(r) /\ k + 1 \in 1 .. Len(r) /\ k + 2 \in 1 .. Len(r)
    BY <1>1, <1>3
  <2> HIDE DEF k
  <2>2. d[i] = r[k] /\ d[i + 1] = r[k + 1] /\ d[i + 2] = r[k + 2]
    BY <1>1, <2>1
  <2> QED
    BY <2>1, <2>2 DEF Unambiguous
<1> QED
  BY <1>2, <1>3

\* A pair in front of an unambiguous text, in which a CR NUL is followed by
\* nothing that would belong to a CR.
LEMMA UnambiguousFrontPair ==
    ASSUME NEW r \in Seq(Int), Unambiguous(r), NEW a \in Int, NEW b \in Int, b # CR,
           a = CR /\ b = NUL /\ r # <<>> => r[1] \notin {LF, NUL}
    PROVE  Unambiguous(<<a, b>> \o r)
<1> DEFINE d == <<a, b>> \o r
           e == <<b>> \o r
<1>1. e \in Seq(Int) /\ Unambiguous(e) /\ d = <<a>> \o e
  <2>1. e \in Seq(Int)
    BY Front
  <2>2. Unambiguous(e)
    BY UnambiguousFront
  <2>3. d = <<a>> \o e
    BY TwoInFront
  <2> HIDE DEF d, e
  <2> QED
    BY <2>1, <2>2, <2>3
<1>2. /\ d[1] = a /\ d[2] = b /\ Len(d) = Len(r) + 2 /\ Len(r) \in Nat
      /\ \A j \in 1 .. Len(r) : d[2 + j] = r[j]
  BY FrontPair
<1>3. e[1] = b /\ e # <<>>
  BY Front, EmptySeq
<1> HIDE DEF e
<1>4. CASE a # CR \/ b # NUL
  BY <1>1, <1>3, <1>4, UnambiguousFront
<1>5. CASE a = CR /\ b = NUL
  <2> HIDE DEF d
  <2> SUFFICES ASSUME NEW i \in 1 .. Len(d) - 2, d[i] = CR, d[i + 1] = NUL
               PROVE  d[i + 2] \notin {LF, NUL}
    BY DEF Unambiguous, d
  <2>1. CASE i = 1
    <3>1. r # <<>> /\ d[3] = r[1]
      <4>1. 1 \in 1 .. Len(r) /\ 2 + 1 = 3 /\ Len(<<>>) = 0
        BY <1>2, <2>1
      <4> QED
        BY <1>2, <4>1
    <3> QED
      BY <1>5, <2>1, <3>1
  <2>2. CASE i = 2
    BY <1>2, <2>2
  <2>3. CASE i > 2
    <3> DEFINE k == i - 2
    <3>1. /\ k \in 1 .. Len(r) - 2 /\ 2 + k = i /\ 2 + (k + 1) = i + 1 /\ 2 + (k + 2) = i + 2
          /\ k \in 1 .. Len(r) /\ k + 1 \in 1 .. Len(r) /\ k + 2 \in 1 .. Len(r)
      BY <1>2, <2>3
    <3> HIDE DEF k
    <3>2. d[i] = r[k] /\ d[i + 1] = r[k + 1] /\ d[i + 2] = r[k + 2]
      BY <1>2, <3>1
    <3> QED
      BY <3>1, <3>2 DEF Unambiguous
  <2> QED
    BY <2>1, <2>2, <2>3
<1> QED
  BY <1>4, <1>5

\* Decoding a block and holding back its last CR loses nothing of what follows.
LEMMA DecodeBlock ==
    ASSUME NEW s \in Seq(Int), NEW r \in Seq(Int), FormatFromNETASCII(s) # <<>>,
           Unambiguous(s \o r)
    PROVE  LET d == FormatFromNETASCII(s)
               keep == KeepBack(d)
               now == Upto(d, Len(d) - Len(keep))
           IN /\ now \in Seq(Int) /\ keep \in {<<>>, <<CR>>} /\ d = now \o keep
              /\ FormatFromNETASCII(s \o r) = now \o FormatFromNETASCII(keep \o r)
              /\ Unambiguous(keep \o r)
<1> DEFINE F(x) == FormatFromNETASCII(x)
           d == FormatFromNETASCII(s)
           keep == KeepBack(d)
           now == Upto(d, Len(d) - Len(keep))
           v == <<CR>>
<1>0. /\ CR \in Int /\ LF \in Int /\ NUL \in Int /\ CR # LF /\ CR # NUL
      /\ \A x \in Seq(Int) : F(x) \in Seq(Int)
      /\ v \in Seq(Int) /\ v # <<>> /\ v[1] = CR
      /\ <<>> \in Seq(Int)
  BY Types DEF CR, LF, NUL
<1>1. d \in Seq(Int) /\ d = F(s)
  BY <1>0
<1>2. s # <<>>
  BY OfEmpty
<1>3. now \in Seq(Int) /\ d = now \o keep /\ keep = IF d[Len(d)] = CR THEN v ELSE <<>>
  BY <1>1, KeptAndWritten
<1>4. r = <<>> \o r /\ now = now \o <<>>
  BY <1>3, NoText
<1> SUFFICES /\ F(s \o r) = now \o F(keep \o r)
             /\ Unambiguous(keep \o r)
  BY <1>3
<1> HIDE DEF d, keep, now, v
<1>5. CASE s[Len(s)] = CR
  <2>1. PICK q \in Seq(Int) : s = q \o v /\ d = F(q) \o v
    BY <1>2, <1>5, LastDecoded DEF d, v
  <2>2. F(q) \in Seq(Int) /\ v \o r \in Seq(Int) /\ (v \o r)[1] = CR /\ v \o r # <<>>
    BY <1>0, Concat, Ends
  <2>3. s \o r = q \o (v \o r)
    <3>1. (q \o v) \o r = q \o (v \o r)
      BY <1>0, Assoc
    <3> QED
      BY <2>1, <3>1
  <2>4. Joint(q, v \o r)
    BY <1>0, <2>2 DEF Joint
  <2>5. F(s \o r) = F(q) \o F(v \o r)
    BY <2>2, <2>3, <2>4, JoinLaw
  <2> HIDE DEF F
  <2>6. d[Len(d)] = CR
    <3>1. \A y \in Seq(Int) : (y \o v)[Len(y \o v)] = v[Len(v)]
      BY <1>0, Ends
    <3>2. v[Len(v)] = CR
      BY DEF v
    <3> QED
      BY <2>1, <2>2, <3>1, <3>2
  <2>7. keep = v
    BY <1>3, <2>6
  <2>8. now = F(q)
    <3>1. now \o v = F(q) \o v
      BY <1>3, <2>1, <2>7
    <3>2. \A y \in Seq(Int) : now \o v = y \o v => now = y
      BY <1>0, <1>3, CancelRight
    <3> QED
      BY <2>2, <3>1, <3>2
  <2>9. Unambiguous(v \o r)
    BY <2>2, <2>3, UnambiguousRest
  <2> QED
    BY <2>5, <2>7, <2>8, <2>9
<1>6. CASE s[Len(s)] # CR
  <2>1. Joint(s, r)
    BY <1>6 DEF Joint
  <2>2. F(s \o r) = d \o F(r)
    BY <1>1, <2>1, JoinLaw
  <2>3. Unambiguous(r)
    BY UnambiguousRest
  <2>4. CASE d[Len(d)] # CR
    <3>1. keep = <<>>
      BY <1>3, <2>4
    <3>2. d = now
      BY <1>3, <1>4, <3>1
    <3> HIDE DEF F
    <3> QED
      BY <1>4, <2>2, <2>3, <3>1, <3>2
  <2>5. CASE d[Len(d)] = CR
    <3>1. keep = v
      BY <1>3, <2>5
    <3>2. PICK q \in Seq(Int) : s = q \o <<CR, NUL>>
      <4>1. d # <<>>
        BY DEF d
      <4> QED
        BY <1>2, <1>6, <2>5, <4>1, LastDecoded DEF d
    <3> DEFINE w == <<CR, NUL>>
               x == w \o r
    <3>3. /\ w \in Seq(Int) /\ s = q \o w
          /\ x \in Seq(Int) /\ Len(x) = Len(r) + 2 /\ x[1] = CR /\ x[2] = NUL
          /\ \A j \in 1 .. Len(r) : x[2 + j] = r[j]
      BY <1>0, <3>2, FrontPair
    <3> HIDE DEF w
    <3>4. s \o r = q \o x
      <4>1. (q \o w) \o r = q \o (w \o r)
        BY <3>3, Assoc
      <4> QED
        BY <3>3, <4>1
    <3> HIDE DEF x
    <3>5. Unambiguous(x)
      BY <3>3, <3>4, UnambiguousRest
    <3>6. r = <<>> \/ r[1] \notin {LF, NUL}
      <4> SUFFICES ASSUME r # <<>> PROVE r[1] \notin {LF, NUL}
        OBVIOUS
      <4>1. Len(r) \in Nat /\ Len(r) > 0
        BY EmptySeq
      <4>2. 1 \in 1 .. Len(x) - 2 /\ 1 \in 1 .. Len(r) /\ 2 + 1 = 3 /\ 1 + 1 = 2 /\ 1 + 2 = 3
        BY <3>3, <4>1
      <4>3. x[3] = r[1] /\ x[1] = CR /\ x[2] = NUL
        BY <3>3, <4>2
      <4> QED
        BY <3>5, <4>2, <4>3 DEF Unambiguous
    <3>7. F(v \o r) = v \o F(r)
      BY <1>0, <3>6, FromEquations DEF v
    <3>8. Unambiguous(v \o r)
      <4>1. r = <<>> \/ r[1] # NUL
        BY <3>6
      <4> QED
        BY <1>0, <2>3, <4>1, UnambiguousFront DEF v
    <3>9. F(r) \in Seq(Int)
      BY <1>0
    <3> HIDE DEF F
    <3>10. (now \o v) \o F(r) = now \o (v \o F(r))
      <4>1. \A z \in Seq(Int) : (now \o v) \o z = now \o (v \o z)
        BY <1>0, <1>3, Assoc
      <4> QED
        BY <3>9, <4>1
    <3> QED
      BY <1>3, <2>2, <3>1, <3>7, <3>8, <3>10
  <2> QED
    BY <2>4, <2>5
<1> QED
  BY <1>5, <1>6

-----------------------------------------------------------------------------
(* What FormatToNETASCII sends.                                             *)

\* An encoded character does not begin with an LF, and with a NUL only if it is
\* one.
LEMMA EncodedFacts ==
    ASSUME NEW c \in Int
    PROVE  /\ Encoded(c) \in Seq(Int) /\ Encoded(c) # <<>> /\ Len(Encoded(c)) >= 1
           /\ Encoded(c)[1] # LF /\ (Encoded(c)[1] = NUL => c = NUL)
<1>1. CR # LF /\ CR # NUL /\ CR \in Int /\ LF \in Int /\ NUL \in Int
  BY DEF CR, LF, NUL
<1>2. CASE c = CR
  <2> DEFINE e == <<CR, NUL>>
  <2>1. Encoded(c) = e /\ e \in Seq(Int) /\ Len(e) = 2 /\ e[1] = CR /\ e # <<>>
    BY <1>1, <1>2 DEF Encoded
  <2> HIDE DEF e
  <2> QED
    BY <1>1, <2>1
<1>3. CASE c = LF
  <2> DEFINE e == <<CR, LF>>
  <2>1. Encoded(c) = e /\ e \in Seq(Int) /\ Len(e) = 2 /\ e[1] = CR /\ e # <<>>
    BY <1>1, <1>3 DEF Encoded
  <2> HIDE DEF e
  <2> QED
    BY <1>1, <2>1
<1>4. CASE c # CR /\ c # LF
  <2> DEFINE e == <<c>>
  <2>1. Encoded(c) = e /\ e \in Seq(Int) /\ Len(e) = 1 /\ e[1] = c /\ e # <<>>
    BY <1>1, <1>4 DEF Encoded
  <2> HIDE DEF e
  <2> QED
    BY <1>1, <1>4, <2>1
<1> QED
  BY <1>2, <1>3, <1>4

\* A text does not get shorter, and what it begins with is no LF, and a null
\* only if the text does.
LEMMA ToFirst ==
    ASSUME NEW s \in Seq(Int), s # <<>>
    PROVE  LET t == FormatToNETASCII(s)
           IN t # <<>> /\ t[1] # LF /\ (t[1] = NUL => s[1] = NUL)
<1> DEFINE T(x) == FormatToNETASCII(x)
<1>0. CR # LF /\ CR # NUL /\ CR \in Int /\ LF \in Int /\ {LF} \in SUBSET Int
  BY DEF CR, LF, NUL
<1>1. \/ \E c \in {LF}, r \in Seq(Int) : s = <<CR, c>> \o r
      \/ \E c \in Int, r \in Seq(Int) :
            s = <<c>> \o r /\ ~(c = CR /\ r # <<>> /\ r[1] \in {LF})
  BY <1>0, Decompose
<1>2. ASSUME NEW r \in Seq(Int), s = <<CR, LF>> \o r
      PROVE  T(s) # <<>> /\ T(s)[1] # LF /\ (T(s)[1] = NUL => s[1] = NUL)
  <2>1. T(s) = <<CR, LF>> \o T(r) /\ T(r) \in Seq(Int)
    BY <1>2, ToEquations, Types
  <2> HIDE DEF T
  <2>2. \A y \in Seq(Int) : (<<CR, LF>> \o y)[1] = CR /\ Len(<<CR, LF>> \o y) = Len(y) + 2
    BY <1>0, FrontPair
  <2>3. T(s)[1] = CR /\ Len(T(s)) = Len(T(r)) + 2
    BY <2>1, <2>2
  <2>4. T(s) # <<>>
    BY <2>1, <2>3
  <2> QED
    BY <1>0, <2>3, <2>4
<1>3. ASSUME NEW c \in Int, NEW r \in Seq(Int), s = <<c>> \o r,
             ~(c = CR /\ r # <<>> /\ r[1] \in {LF})
      PROVE  T(s) # <<>> /\ T(s)[1] # LF /\ (T(s)[1] = NUL => s[1] = NUL)
  <2> DEFINE e == Encoded(c)
  <2>1. T(s) = e \o T(r) /\ T(r) \in Seq(Int)
    BY <1>3, ToEquations, Types
  <2>2. e \in Seq(Int) /\ e # <<>> /\ e[1] # LF /\ (e[1] = NUL => c = NUL)
    BY EncodedFacts
  <2>3. s[1] = c
    BY <1>3, Front
  <2> HIDE DEF T, e
  <2>4. \A y \in Seq(Int) : (e \o y)[1] = e[1] /\ e \o y # <<>>
    BY <2>2, Ends
  <2> QED
    BY <2>1, <2>2, <2>3, <2>4
<1> HIDE DEF T
<1>4. T(s) # <<>> /\ T(s)[1] # LF /\ (T(s)[1] = NUL => s[1] = NUL)
  BY <1>1, <1>2, <1>3
<1> QED
  BY <1>4 DEF T

\* Encoding does not shorten a text.
LEMMA ToNotShorter ==
    ASSUME NEW s \in Seq(Int)
    PROVE  Len(FormatToNETASCII(s)) >= Len(s)
<1> DEFINE T(x) == FormatToNETASCII(x)
           S == {m \in Nat : \A x \in Seq(Int) : Len(x) <= m => Len(T(x)) >= Len(x)}
<1>0. /\ CR \in Int /\ LF \in Int /\ {LF} \in SUBSET Int
      /\ \A x \in Seq(Int) : T(x) \in Seq(Int) /\ Len(T(x)) \in Nat /\ Len(x) \in Nat
      /\ T(<<>>) = <<>> /\ Len(<<>>) = 0
  <2>1. \A x \in Seq(Int) : T(x) \in Seq(Int) /\ Len(x) \in Nat
    BY Types
  <2> QED
    BY <2>1, OfEmpty DEF CR, LF
<1>1. 0 \in S
  <2>1. \A x \in Seq(Int) : Len(x) <= 0 => x = <<>>
    BY EmptySeq
  <2> HIDE DEF T
  <2> QED
    BY <1>0, <2>1
<1>2. ASSUME NEW m \in Nat, m \in S PROVE m + 1 \in S
  <2> SUFFICES ASSUME NEW x \in Seq(Int), Len(x) <= m + 1 PROVE Len(T(x)) >= Len(x)
    OBVIOUS
  <2>1. CASE x = <<>>
    BY <1>0, <2>1
  <2>2. ASSUME NEW r \in Seq(Int), x = <<CR, LF>> \o r PROVE Len(T(x)) >= Len(x)
    <3>1. T(x) = <<CR, LF>> \o T(r) /\ Len(x) = Len(r) + 2
      <4>1. T(x) = <<CR, LF>> \o T(r)
        BY <2>2, ToEquations
      <4>2. Len(x) = Len(r) + 2
        BY <1>0, <2>2, FrontPair
      <4> HIDE DEF T
      <4> QED
        BY <4>1, <4>2
    <3>2. Len(r) <= m
      BY <1>0, <3>1
    <3>3. Len(T(r)) >= Len(r)
      BY <1>2, <3>2
    <3> HIDE DEF T
    <3>4. \A y \in Seq(Int) : Len(<<CR, LF>> \o y) = Len(y) + 2
      BY <1>0, FrontPair
    <3>5. Len(T(x)) = Len(T(r)) + 2
      BY <1>0, <3>1, <3>4
    <3> QED
      BY <1>0, <3>1, <3>3, <3>5
  <2>3. ASSUME NEW c \in Int, NEW r \in Seq(Int), x = <<c>> \o r,
               ~(c = CR /\ r # <<>> /\ r[1] \in {LF})
        PROVE  Len(T(x)) >= Len(x)
    <3> DEFINE e == Encoded(c)
    <3>1. T(x) = e \o T(r) /\ Len(x) = Len(r) + 1
      BY <2>3, ToEquations, Front
    <3>2. Len(r) <= m
      BY <1>0, <3>1
    <3>3. Len(T(r)) >= Len(r)
      BY <1>2, <3>2
    <3>4. e \in Seq(Int) /\ Len(e) >= 1
      BY EncodedFacts
    <3> HIDE DEF T, e
    <3>5. \A y \in Seq(Int) : Len(e \o y) = Len(e) + Len(y)
      BY <3>4, Concat
    <3>6. Len(T(x)) = Len(e) + Len(T(r))
      BY <1>0, <3>1, <3>5
    <3>7. Len(e) \in Nat /\ Len(T(r)) \in Nat /\ Len(r) \in Nat
      BY <1>0, <3>4
    <3> QED
      BY <3>1, <3>3, <3>4, <3>6, <3>7
  <2>4. CASE x # <<>>
    <3>1. \/ \E c \in {LF}, r \in Seq(Int) : x = <<CR, c>> \o r
          \/ \E c \in Int, r \in Seq(Int) :
                x = <<c>> \o r /\ ~(c = CR /\ r # <<>> /\ r[1] \in {LF})
      BY <1>0, <2>4, Decompose
    <3> HIDE DEF T
    <3> QED
      BY <2>2, <2>3, <3>1
  <2> QED
    BY <2>1, <2>4
<1>3. Len(s) \in S
  <2>1. Len(s) \in Nat
    OBVIOUS
  <2> HIDE DEF S
  <2> QED
    BY <1>1, <1>2, <2>1, SetInduction
<1> QED
  BY <1>0, <1>3

\* What is behind a cut has no NUL after a CR if the whole has none.
LEMMA NoNulAfterCRRest ==
    ASSUME NEW p \in Seq(Int), NEW r \in Seq(Int), NoNulAfterCR(p \o r)
    PROVE  NoNulAfterCR(r)
<1> DEFINE d == p \o r
<1>1. /\ Len(d) = Len(p) + Len(r) /\ Len(p) \in Nat /\ Len(r) \in Nat
      /\ \A j \in 1 .. Len(r) : d[Len(p) + j] = r[j]
  BY Concat
<1>2. \A i \in 1 .. Len(d) - 1 : ~(d[i] = CR /\ d[i + 1] = NUL)
  BY DEF NoNulAfterCR
<1> HIDE DEF d
<1> SUFFICES ASSUME NEW i \in 1 .. Len(r) - 1, r[i] = CR, r[i + 1] = NUL PROVE FALSE
  BY DEF NoNulAfterCR
<1>3. /\ i \in 1 .. Len(r) /\ i + 1 \in 1 .. Len(r)
      /\ Len(p) + i \in 1 .. Len(d) - 1 /\ Len(p) + i + 1 = Len(p) + (i + 1)
  BY <1>1
<1>4. d[Len(p) + i] = r[i] /\ d[Len(p) + i + 1] = r[i + 1]
  BY <1>1, <1>3
<1> QED
  BY <1>2, <1>3, <1>4

\* What is sent can be cut anywhere.
LEMMA ToUnambiguous ==
    ASSUME NEW s \in Seq(Int), NoNulAfterCR(s)
    PROVE  Unambiguous(FormatToNETASCII(s))
<1> DEFINE T(x) == FormatToNETASCII(x)
           Holds(x) == NoNulAfterCR(x) => Unambiguous(T(x))
           S == {m \in Nat : \A x \in Seq(Int) : Len(x) <= m => Holds(x)}
<1>0. /\ CR \in Int /\ LF \in Int /\ NUL \in Int /\ {LF} \in SUBSET Int
      /\ CR # LF /\ CR # NUL /\ LF # NUL
      /\ \A x \in Seq(Int) : T(x) \in Seq(Int) /\ Len(x) \in Nat
  BY Types DEF CR, LF, NUL
<1>1. Holds(<<>>)
  <2>1. Unambiguous(<<>>)
    <3>1. Len(<<>>) = 0 /\ \A i \in 1 .. 0 - 2 : FALSE
      OBVIOUS
    <3> QED
      BY <3>1 DEF Unambiguous
  <2> QED
    BY <2>1, OfEmpty
<1>2. 0 \in S
  <2>1. \A x \in Seq(Int) : Len(x) <= 0 => x = <<>>
    BY EmptySeq
  <2> HIDE DEF Holds
  <2> QED
    BY <1>1, <2>1
<1>3. ASSUME NEW m \in Nat, m \in S PROVE m + 1 \in S
  <2> SUFFICES ASSUME NEW x \in Seq(Int), Len(x) <= m + 1, NoNulAfterCR(x)
               PROVE  Unambiguous(T(x))
    OBVIOUS
  <2>1. CASE x = <<>>
    BY <1>1, <2>1
  <2>2. ASSUME NEW r \in Seq(Int), x = <<CR, LF>> \o r PROVE Unambiguous(T(x))
    <3>1. T(x) = <<CR, LF>> \o T(r) /\ Len(x) = Len(r) + 2
      <4>1. T(x) = <<CR, LF>> \o T(r)
        BY <2>2, ToEquations
      <4>2. Len(x) = Len(r) + 2
        BY <1>0, <2>2, FrontPair
      <4> HIDE DEF T
      <4> QED
        BY <4>1, <4>2
    <3>2. Len(r) <= m
      BY <1>0, <3>1
    <3>3. NoNulAfterCR(r)
      <4> DEFINE p == <<CR, LF>>
      <4>1. p \in Seq(Int) /\ x = p \o r
        BY <1>0, <2>2
      <4> HIDE DEF p
      <4> QED
        BY <4>1, NoNulAfterCRRest
    <3>4. Unambiguous(T(r)) /\ T(r) \in Seq(Int)
      BY <1>0, <1>3, <3>2, <3>3
    <3> HIDE DEF T
    <3>5. \A y \in Seq(Int) : Unambiguous(y) => Unambiguous(<<CR, LF>> \o y)
      BY <1>0, UnambiguousFrontPair
    <3> QED
      BY <3>1, <3>4, <3>5
  <2>3. ASSUME NEW c \in Int, NEW r \in Seq(Int), x = <<c>> \o r,
               ~(c = CR /\ r # <<>> /\ r[1] \in {LF})
        PROVE  Unambiguous(T(x))
    <3>1. T(x) = Encoded(c) \o T(r) /\ Len(x) = Len(r) + 1 /\ x[1] = c
      BY <2>3, ToEquations, Front
    <3>2. Len(r) <= m
      BY <1>0, <3>1
    <3>3. NoNulAfterCR(r)
      <4> DEFINE p == <<c>>
      <4>1. p \in Seq(Int) /\ x = p \o r
        BY <1>0, <2>3
      <4> HIDE DEF p
      <4> QED
        BY <4>1, NoNulAfterCRRest
    <3>4. Unambiguous(T(r)) /\ T(r) \in Seq(Int)
      BY <1>0, <1>3, <3>2, <3>3
    <3>5. r # <<>> => T(r)[1] # LF /\ (T(r)[1] = NUL => r[1] = NUL)
      BY ToFirst
    <3>6. r = <<>> => T(r) = <<>>
      BY OfEmpty
    <3> HIDE DEF T
    <3>7. CASE c = CR
      <4>1. T(x) = <<CR, NUL>> \o T(r)
        BY <3>1, <3>7 DEF Encoded
      <4>2. r # <<>> => r[1] # NUL
        <5> SUFFICES ASSUME r # <<>>, r[1] = NUL PROVE FALSE
          OBVIOUS
        <5>1. PairAt(x, 1, NUL)
          BY <1>0, <2>3, <3>7, Front
        <5>2. 1 \in 1 .. Len(x) - 1 /\ x[1] = CR /\ x[1 + 1] = NUL
          BY <1>0, <3>1, <5>1 DEF PairAt
        <5> QED
          BY <5>2 DEF NoNulAfterCR
      <4>3. T(r) # <<>> => T(r)[1] \notin {LF, NUL}
        BY <3>5, <3>6, <4>2
      <4>4. \A y \in Seq(Int) : Unambiguous(y) /\ (y # <<>> => y[1] \notin {LF, NUL})
                => Unambiguous(<<CR, NUL>> \o y)
        BY <1>0, UnambiguousFrontPair
      <4> QED
        BY <3>4, <4>1, <4>3, <4>4
    <3>8. CASE c = LF
      <4>1. T(x) = <<CR, LF>> \o T(r)
        BY <1>0, <3>1, <3>8 DEF Encoded
      <4>2. \A y \in Seq(Int) : Unambiguous(y) => Unambiguous(<<CR, LF>> \o y)
        BY <1>0, UnambiguousFrontPair
      <4> QED
        BY <3>4, <4>1, <4>2
    <3>9. CASE c # CR /\ c # LF
      <4>1. T(x) = <<c>> \o T(r)
        BY <3>1, <3>9 DEF Encoded
      <4>2. \A y \in Seq(Int) : Unambiguous(y) => Unambiguous(<<c>> \o y)
        BY <3>9, UnambiguousFront
      <4> QED
        BY <3>4, <4>1, <4>2
    <3> QED
      BY <3>7, <3>8, <3>9
  <2>4. CASE x # <<>>
    <3>1. \/ \E c \in {LF}, r \in Seq(Int) : x = <<CR, c>> \o r
          \/ \E c \in Int, r \in Seq(Int) :
                x = <<c>> \o r /\ ~(c = CR /\ r # <<>> /\ r[1] \in {LF})
      BY <1>0, <2>4, Decompose
    <3> HIDE DEF T
    <3> QED
      BY <2>2, <2>3, <3>1
  <2> QED
    BY <2>1, <2>4
<1>4. Len(s) \in S
  <2>1. Len(s) \in Nat
    OBVIOUS
  <2> HIDE DEF S
  <2> QED
    BY <1>2, <1>3, <2>1, SetInduction
<1>5. Holds(s)
  <2> HIDE DEF Holds
  <2> QED
    BY <1>4
<1> QED
  BY <1>5

-----------------------------------------------------------------------------
(* The invariant.                                                           *)

\* A text is its first k characters and those after them.
LEMMA Cut ==
    ASSUME NEW s \in Seq(Int), NEW k \in Nat
    PROVE  /\ Upto(s, k) \in Seq(Int) /\ After(s, k) \in Seq(Int)
           /\ Upto(s, k) \o After(s, k) = s
           /\ Len(Upto(s, k)) = IF Len(s) < k THEN Len(s) ELSE k
           /\ Len(After(s, k)) = IF Len(s) < k THEN 0 ELSE Len(s) - k
           /\ Len(s) <= k => Upto(s, k) = s
           /\ Len(Upto(s, k)) < k => After(s, k) = <<>>
<1>0. Len(s) \in Nat
  OBVIOUS
<1>1. SubSeq(s, 1, Len(s)) = s /\ s \o <<>> = s
  BY SubSeqFull, NoText
<1>2. CASE Len(s) < k
  <2>1. Upto(s, k) = s
    BY <1>1, <1>2 DEF Upto
  <2>2. After(s, k) = <<>>
    <3>1. k + 1 \in Int /\ Len(s) \in Int /\ Len(s) < k + 1
      BY <1>0, <1>2
    <3> QED
      BY <3>1, SubSeqEmpty DEF After
  <2>3. <<>> \in Seq(Int) /\ Len(<<>>) = 0
    OBVIOUS
  <2> QED
    BY <1>0, <1>1, <1>2, <2>1, <2>2, <2>3
<1>3. CASE ~(Len(s) < k)
  <2>1. Upto(s, k) = SubSeq(s, 1, k) /\ After(s, k) = SubSeq(s, k + 1, Len(s))
    BY <1>3 DEF Upto, After
  <2>2. /\ SubSeq(s, 1, k) \in Seq(Int)
        /\ Len(SubSeq(s, 1, k)) = IF 1 <= k THEN k - 1 + 1 ELSE 0
    <3>1. \A i \in 1 .. k : s[i] \in Int
      BY <1>0, <1>3
    <3> QED
      BY <3>1, SubSeqProperties
  <2>3. /\ SubSeq(s, k + 1, Len(s)) \in Seq(Int)
        /\ Len(SubSeq(s, k + 1, Len(s))) =
              IF k + 1 <= Len(s) THEN Len(s) - (k + 1) + 1 ELSE 0
    <3>1. k + 1 \in Int /\ Len(s) \in Int /\ \A i \in k + 1 .. Len(s) : s[i] \in Int
      BY <1>0
    <3> QED
      BY <3>1, SubSeqProperties
  <2>4. SubSeq(s, 1, k) \o SubSeq(s, k + 1, Len(s)) = SubSeq(s, 1, Len(s))
    <3>1. 1 \in 1 .. Len(s) + 1 /\ k \in 1 - 1 .. Len(s) /\ Len(s) \in k .. Len(s)
      BY <1>0, <1>3
    <3> QED
      BY <3>1, ConcatAdjacentSubSeq
  <2>5. Len(Upto(s, k)) = k /\ Len(After(s, k)) = Len(s) - k
    <3>1. (IF 1 <= k THEN k - 1 + 1 ELSE 0) = k
      OBVIOUS
    <3>2. (IF k + 1 <= Len(s) THEN Len(s) - (k + 1) + 1 ELSE 0) = Len(s) - k
      BY <1>0, <1>3
    <3> QED
      BY <2>1, <2>2, <2>3, <3>1, <3>2
  <2>6. Len(s) <= k => Upto(s, k) = s
    <3>1. Len(s) <= k => Len(s) = k
      BY <1>0, <1>3
    <3> QED
      BY <1>1, <2>1, <3>1
  <2>7. /\ Upto(s, k) \in Seq(Int) /\ After(s, k) \in Seq(Int)
        /\ Upto(s, k) \o After(s, k) = s
    BY <1>1, <2>1, <2>2, <2>3, <2>4
  <2>8. ~(Len(Upto(s, k)) < k)
    BY <2>5
  <2> QED
    BY <1>3, <2>5, <2>6, <2>7, <2>8
<1> QED
  BY <1>2, <1>3

\* The constants, and the short texts the code has literally.
LEMMA BlockFacts ==
    /\ n \in Nat /\ n > 0
    /\ CR \in Int /\ LF \in Int /\ NUL \in Int
    /\ <<>> \in Seq(Int) /\ <<CR>> \in Seq(Int) /\ <<CR, LF>> \in Seq(Int)
    /\ Len(<<>>) = 0 /\ Len(<<CR, LF>>) = 2
BY DEF CR, LF, NUL

\* Before the first block nothing is written, held or read.
LEMMA InitInv == ASSUME Init PROVE IInv
<1> DEFINE whole == FormatToNETASCII(text)
<1>1. text \in Seq(Int)
  BY TextsAssumption DEF Init, Jobs
<1>2. whole \in Seq(Int) /\ Len(whole) \in Nat
  BY <1>1, Types
<1>3. rest \in Seq(Int)
  BY <1>1, <1>2 DEF Init
<1>4. TypeOK
  BY <1>1, <1>3, BlockFacts DEF Init, TypeOK
<1>5. OctetExact
  <2>1. mode = "octet" => out \o rest = text
    BY <1>1, NoText DEF Init
  <2> QED
    BY <2>1 DEF Init, OctetExact
<1>6. WriterDecodes
  BY DEF Init, WriterDecodes
<1>7. WriterInv
  <2> SUFFICES ASSUME job = "write", mode = "netascii" PROVE WriterInv
    BY DEF WriterInv
  <2>1. rest = whole /\ held = <<>> /\ out = <<>>
    BY DEF Init
  <2>2. Len(whole) <= Len(whole) /\ (Len(whole) - Len(whole)) % n = 0
    BY <1>2, BlockFacts
  <2>3. <<>> \o whole = whole
    BY <1>2, NoText
  <2>4. FormatFromNETASCII(whole) \in Seq(Int)
    BY <1>2, Types
  <2>5. <<>> \o FormatFromNETASCII(whole) = FormatFromNETASCII(whole)
    BY <2>4, NoText
  <2>6. NoNulAfterCR(text) => Unambiguous(whole)
    BY <1>1, ToUnambiguous
  <2> QED
    BY <2>1, <2>2, <2>3, <2>5, <2>6 DEF WriterInv
<1> QED
  BY <1>4, <1>5, <1>6, <1>7 DEF IInv

\* One step in octet mode, of a sender or of the writer.
LEMMA OctetStep ==
    ASSUME IInv, phase = "block", mode = "octet",
           rest' = After(rest, n), held' = held, Send(Upto(rest, n))
    PROVE  IInv'
<1> DEFINE block == Upto(rest, n)
           R == After(rest, n)
<1>1. /\ out \in Seq(Int) /\ rest \in Seq(Int) /\ text \in Seq(Int) /\ n \in Nat
      /\ out \o rest = text /\ held = <<>> /\ job \in Jobs
  BY BlockFacts DEF IInv, TypeOK, OctetExact
<1>2. /\ block \in Seq(Int) /\ R \in Seq(Int) /\ block \o R = rest
      /\ Len(block) < n => R = <<>>
  BY <1>1, Cut
<1>3. /\ out' = out \o block /\ phase' = (IF Len(block) < n THEN "end" ELSE "block")
      /\ rest' = R /\ mode' = "octet" /\ job' = job /\ text' = text /\ held' = <<>>
  BY <1>1 DEF Send
<1> HIDE DEF block, R
<1>4. out \o block \in Seq(Int)
  BY <1>1, <1>2, Concat
<1>5. (out \o block) \o R = out \o (block \o R)
  <2>1. out \in Seq(Int) /\ block \in Seq(Int) /\ R \in Seq(Int)
    BY <1>1, <1>2
  <2> QED
    BY <2>1, Assoc
<1>6. TypeOK'
  BY <1>1, <1>2, <1>3, <1>4, BlockFacts DEF TypeOK, Modes
<1>7. OctetExact'
  <2>1. out' \o rest' = text'
    BY <1>1, <1>2, <1>3, <1>5
  <2>2. phase' = "end" => rest' = <<>>
    BY <1>2, <1>3
  <2> QED
    BY <2>1, <2>2 DEF OctetExact
<1>8. WriterInv' /\ WriterDecodes'
  BY <1>3 DEF WriterInv, WriterDecodes
<1> QED
  BY <1>6, <1>7, <1>8 DEF IInv

\* How far a block that ends in a newline is extended.
LEMMA ExtensionNat ==
    ASSUME NEW s \in Seq(Int), NEW b \in BOOLEAN
    PROVE  Extension(s, b) \in Nat
<1> DEFINE stops == {k \in 1 .. Len(s) : ~Newline(s[k])}
<1>1. Len(s) \in Nat /\ stops \subseteq Nat
  OBVIOUS
<1>2. CASE b \/ stops = {}
  BY <1>1, <1>2 DEF Extension
<1>3. CASE ~b /\ stops # {}
  <2> DEFINE c == CHOOSE k \in stops : \A l \in stops : k <= l
  <2>1. Extension(s, b) = c
    BY <1>3 DEF Extension
  <2> HIDE DEF stops
  <2>2. \E k \in stops : \A l \in stops : k <= l
    BY <1>1, <1>3, LeastNatural
  <2>3. c \in stops
    BY <2>2
  <2> HIDE DEF c
  <2> QED
    BY <1>1, <2>1, <2>3
<1> QED
  BY <1>2, <1>3

\* A short block gets a line end.
LEMMA EndLineFacts ==
    ASSUME NEW s \in Seq(Int)
    PROVE  /\ EndLine(s) \in Seq(Int)
           /\ Len(s) < n => EndLine(s) = s \o <<CR, LF>>
<1>1. s \o <<CR, LF>> \in Seq(Int)
  BY BlockFacts, Concat
<1> QED
  BY <1>1 DEF EndLine

\* Reader and StdHandler in netascii mode: a short text goes out whole with the
\* first block.
LEMMA ReadNetasciiInv == ASSUME IInv, ReadNetascii PROVE IInv'
<1>0. /\ phase = "block" /\ job # "write" /\ job \in Jobs /\ mode = "netascii"
      /\ out \in Seq(Int) /\ rest \in Seq(Int) /\ text \in Seq(Int) /\ held \in Seq(Int)
      /\ n \in Nat
  BY BlockFacts DEF ReadNetascii, IInv, TypeOK
<1> DEFINE source == held \o rest
           base == Upto(source, n)
           more == After(source, n)
           extend == Len(base) = n /\ Newline(base[n])
           stuck == job = "stdin" /\ Len(held) < n
           k == IF extend THEN Extension(more, stuck) ELSE 0
           taken == Len(base) + k
           tail(byte) == IF extend /\ RanOut(more, stuck) THEN <<byte>> ELSE <<>>
           input(byte) == Upto(source, taken) \o tail(byte)
           buffer(byte) == EndLine(FormatToNETASCII(input(byte)))
<1>1. PICK byte \in UninitByte :
         /\ rest' = IF taken <= Len(held) THEN rest ELSE After(rest, taken - Len(held))
         /\ held' = IF Len(buffer(byte)) > n THEN Surplus(buffer(byte)) ELSE Left(taken)
         /\ Send(Upto(buffer(byte), n))
  BY DEF ReadNetascii
<1>2. byte \in Int
  BY ByteAssumption
<1>3. source \in Seq(Int)
  BY <1>0, Concat
<1>4. base \in Seq(Int) /\ more \in Seq(Int) /\ Len(base) \in Nat
  <2> HIDE DEF source
  <2>1. base \in Seq(Int) /\ more \in Seq(Int)
    BY <1>0, <1>3, Cut
  <2> HIDE DEF base
  <2> QED
    BY <2>1
<1>5. k \in Nat /\ (~extend => k = 0)
  <2>1. stuck \in BOOLEAN
    OBVIOUS
  <2> HIDE DEF more, stuck, extend
  <2>2. Extension(more, stuck) \in Nat
    BY <1>4, <2>1, ExtensionNat
  <2> QED
    BY <2>2
<1>6. taken \in Nat
  <2> HIDE DEF k, base
  <2> QED
    BY <1>4, <1>5
<1>7. tail(byte) \in Seq(Int) /\ (~extend => tail(byte) = <<>>)
  <2> HIDE DEF extend, stuck, more
  <2> QED
    BY <1>2, BlockFacts
<1>8. input(byte) \in Seq(Int)
  <2> HIDE DEF tail, taken, source
  <2>1. Upto(source, taken) \in Seq(Int)
    BY <1>3, <1>6, Cut
  <2> QED
    BY <1>7, <2>1, Concat
<1>9. buffer(byte) \in Seq(Int)
  <2> HIDE DEF input
  <2> QED
    BY <1>8, Types, EndLineFacts
<1> DEFINE buf == buffer(byte)
           sent == Upto(buf, n)
<1>10. /\ out' = out \o sent /\ phase' = (IF Len(sent) < n THEN "end" ELSE "block")
       /\ mode' = "netascii" /\ job' = job /\ text' = text
  BY <1>0, <1>1 DEF Send
<1>11. held' = IF Len(buf) > n THEN After(buf, n) ELSE After(held, taken)
  BY <1>1 DEF Surplus, Left
<1>12. rest' = IF taken <= Len(held) THEN rest ELSE After(rest, taken - Len(held))
  BY <1>1
<1>13. TypeOK'
  <2> HIDE DEF buf, taken
  <2>1. buf \in Seq(Int)
    BY <1>9 DEF buf
  <2>2. sent \in Seq(Int) /\ After(buf, n) \in Seq(Int) /\ After(held, taken) \in Seq(Int)
    BY <1>0, <1>6, <2>1, Cut
  <2>3. rest' \in Seq(Int)
    <3>1. CASE taken <= Len(held)
      BY <1>0, <1>12, <3>1
    <3>2. CASE ~(taken <= Len(held))
      <4>1. taken - Len(held) \in Nat
        <5>1. Len(held) \in Nat
          BY <1>0
        <5> QED
          BY <1>6, <3>2, <5>1
      <4>2. After(rest, taken - Len(held)) \in Seq(Int)
        BY <1>0, <4>1, Cut
      <4> QED
        BY <1>12, <3>2, <4>2
    <3> QED
      BY <3>1, <3>2
  <2> HIDE DEF sent
  <2>4. out' \in Seq(Int)
    BY <1>0, <1>10, <2>2, Concat
  <2>5. held' \in Seq(Int)
    BY <1>11, <2>2
  <2> QED
    BY <1>0, <1>10, <2>3, <2>4, <2>5 DEF TypeOK, Modes
<1>14. OctetExact' /\ WriterInv' /\ WriterDecodes'
  BY <1>0, <1>10 DEF OctetExact, WriterInv, WriterDecodes
<1> QED
  BY <1>13, <1>14 DEF IInv

\* One more full block.
LEMMA OneMoreBlock ==
    ASSUME NEW a \in Nat, NEW b \in Nat, b <= a, n <= b, (a - b) % n = 0
    PROVE  (a - (b - n)) % n = 0
<1> DEFINE d == a - b
           q == d \div n
<1>1. d \in Nat /\ n \in Nat \ {0} /\ d % n = 0
  OBVIOUS
<1> HIDE DEF d
<1>2. d = n * q + (d % n) /\ q \in Nat
  BY <1>1
<1> HIDE DEF q
<1>3. d + n = (q + 1) * n /\ q + 1 \in Nat
  <2>1. d = n * q
    BY <1>1, <1>2
  <2> QED
    BY <1>1, <1>2, <2>1
<1>4. \A j \in Nat : (j * n) % n = 0
  BY <1>1
<1>5. (d + n) % n = 0
  BY <1>3, <1>4
<1>6. a - (b - n) = d + n
  BY <1>1 DEF d
<1> QED
  BY <1>5, <1>6

\* A block in netascii mode: DecodeBlock for a full one, the whole of the text
\* for the last.
LEMMA WriteNetasciiInv == ASSUME IInv, WriteNetascii PROVE IInv'
<1> DEFINE whole == FormatToNETASCII(text)
           block == Upto(rest, n)
           R == After(rest, n)
           s == held \o block
           data == FormatFromNETASCII(s)
           keep == KeepBack(data)
           now == Upto(data, Len(data) - Len(keep))
           last == Len(block) < n
<1>0. /\ phase = "block" /\ job = "write" /\ mode = "netascii"
      /\ out \in Seq(Int) /\ rest \in Seq(Int) /\ text \in Seq(Int) /\ held \in Seq(Int)
      /\ n \in Nat
  BY BlockFacts DEF WriteNetascii, IInv, TypeOK
<1>1. /\ data # <<>>
      /\ out' = (out \o now) \o (IF last THEN keep ELSE <<>>)
      /\ held' = IF last THEN <<>> ELSE keep
      /\ rest' = R
      /\ phase' = IF last THEN "end" ELSE "block"
      /\ job' = "write" /\ mode' = "netascii" /\ text' = text
  BY <1>0 DEF WriteNetascii
<1>2. /\ block \in Seq(Int) /\ R \in Seq(Int) /\ block \o R = rest
      /\ Len(block) = (IF Len(rest) < n THEN Len(rest) ELSE n)
      /\ Len(R) = (IF Len(rest) < n THEN 0 ELSE Len(rest) - n)
      /\ Len(block) < n => R = <<>>
  BY <1>0, Cut
<1>3. s \in Seq(Int)
  <2> HIDE DEF block
  <2> QED
    BY <1>0, <1>2, Concat
<1>4. s \o R = held \o rest
  <2> HIDE DEF block, R
  <2>1. (held \o block) \o R = held \o (block \o R)
    <3>1. held \in Seq(Int) /\ block \in Seq(Int) /\ R \in Seq(Int)
      BY <1>0, <1>2
    <3> QED
      BY <3>1, Assoc
  <2> QED
    BY <1>2, <2>1
<1>5. data \in Seq(Int)
  <2> HIDE DEF s
  <2> QED
    BY <1>3, Types
<1>6. now \in Seq(Int) /\ data = now \o keep /\ keep \in {<<>>, <<CR>>}
  <2> HIDE DEF data
  <2> QED
    BY <1>1, <1>5, KeptAndWritten
<1>7. NoNulAfterCR(text) =>
         /\ out \o FormatFromNETASCII(s \o R) = FormatFromNETASCII(whole)
         /\ Unambiguous(s \o R)
  <2> HIDE DEF s, R
  <2> QED
    BY <1>0, <1>4 DEF IInv, WriterInv
<1>8. keep \in Seq(Int) /\ <<>> \in Seq(Int)
  <2> HIDE DEF keep, now
  <2> QED
    BY <1>6, BlockFacts
<1>9. out \o now \in Seq(Int)
  <2> HIDE DEF now
  <2> QED
    BY <1>0, <1>6, Concat
<1>10. TypeOK'
  <2> HIDE DEF now, keep, last, R, data
  <2>1. out' \in Seq(Int)
    <3>1. \A t \in Seq(Int) : (out \o now) \o t \in Seq(Int)
      BY <1>9, Concat
    <3> QED
      BY <1>1, <1>8, <3>1
  <2>2. held' \in {<<>>, <<CR>>} /\ rest' \in Seq(Int)
    BY <1>1, <1>2, <1>6
  <2> QED
    BY <1>0, <1>1, <2>1, <2>2, BlockFacts DEF TypeOK, Jobs, Modes
<1>11. OctetExact'
  <2>1. job' = "write" /\ mode' = "netascii"
    BY <1>1
  <2> QED
    BY <2>1 DEF OctetExact
<1>12. CASE last
  <2>1. phase' = "end" /\ R = <<>> /\ out' = (out \o now) \o keep
    BY <1>1, <1>2, <1>12
  <2>2. s \o R = s
    <3> HIDE DEF s, R
    <3> QED
      BY <1>3, <2>1, NoText
  <2>3. out' = out \o data
    <3> HIDE DEF now, keep, data
    <3>1. (out \o now) \o keep = out \o (now \o keep)
      <4>1. out \in Seq(Int) /\ now \in Seq(Int) /\ keep \in Seq(Int)
        BY <1>0, <1>6, <1>8
      <4> QED
        BY <4>1, Assoc
    <3> QED
      BY <1>6, <2>1, <3>1
  <2>4. NoNulAfterCR(text) => out' = FormatFromNETASCII(whole)
    <3> HIDE DEF s, R
    <3> QED
      BY <1>7, <2>2, <2>3
  <2>5. WriterDecodes'
    <3>1. text' = text
      BY <1>1
    <3> HIDE DEF R, s, data, now, keep
    <3> QED
      BY <2>1, <2>4, <3>1 DEF WriterDecodes
  <2>6. WriterInv'
    <3>1. phase' = "end"
      BY <2>1
    <3> QED
      BY <3>1 DEF WriterInv
  <2> QED
    BY <1>10, <1>11, <2>5, <2>6 DEF IInv
<1>13. CASE ~last
  <2>1. phase' = "block" /\ rest' = R /\ held' = keep /\ out' = out \o now
    <3> HIDE DEF now, keep, last, R, data
    <3>1. (out \o now) \o <<>> = out \o now
      BY <1>9, NoText
    <3> QED
      BY <1>1, <1>13, <3>1
  <2>2. Len(rest) \in Nat /\ n <= Len(rest) /\ Len(R) = Len(rest) - n
    <3>1. Len(rest) \in Nat
      BY <1>0
    <3> HIDE DEF R, block
    <3> QED
      BY <1>0, <1>2, <1>13, <3>1
  <2>3. /\ Len(R) <= Len(whole)
        /\ (Len(whole) - Len(R)) % n = 0
    <3>1. Len(rest) <= Len(whole) /\ (Len(whole) - Len(rest)) % n = 0
      BY <1>0 DEF IInv, WriterInv
    <3>2. Len(whole) \in Nat
      <4>1. whole \in Seq(Int)
        BY <1>0, Types
      <4> HIDE DEF whole
      <4> QED
        BY <4>1
    <3> HIDE DEF whole, R
    <3>3. (Len(whole) - (Len(rest) - n)) % n = 0
      BY <2>2, <3>1, <3>2, OneMoreBlock
    <3>4. Len(rest) - n <= Len(whole)
      BY <1>0, <2>2, <3>1, <3>2
    <3> QED
      BY <2>2, <3>3, <3>4
  <2>4. NoNulAfterCR(text) =>
           /\ (out \o now) \o FormatFromNETASCII(keep \o R) = FormatFromNETASCII(whole)
           /\ Unambiguous(keep \o R)
    <3> SUFFICES ASSUME NoNulAfterCR(text)
                 PROVE  /\ (out \o now) \o FormatFromNETASCII(keep \o R)
                             = FormatFromNETASCII(whole)
                        /\ Unambiguous(keep \o R)
      OBVIOUS
    <3> DEFINE more == FormatFromNETASCII(keep \o R)
    <3>1. /\ FormatFromNETASCII(s \o R) = now \o more
          /\ Unambiguous(keep \o R)
      <4>1. s \in Seq(Int) /\ R \in Seq(Int) /\ FormatFromNETASCII(s) # <<>>
        BY <1>1, <1>2, <1>3
      <4>2. Unambiguous(s \o R)
        BY <1>7
      <4> HIDE DEF s, R
      <4> QED
        BY <4>1, <4>2, DecodeBlock
    <3>2. more \in Seq(Int)
      <4> HIDE DEF keep, R
      <4>1. keep \o R \in Seq(Int)
        BY <1>2, <1>8, Concat
      <4> QED
        BY <4>1, Types
    <3> HIDE DEF more, now, s, R
    <3>3. (out \o now) \o more = out \o (now \o more)
      <4>1. out \in Seq(Int) /\ now \in Seq(Int) /\ more \in Seq(Int)
        BY <1>0, <1>6, <3>2
      <4> QED
        BY <4>1, Assoc
    <3>4. (out \o now) \o more = FormatFromNETASCII(whole)
      BY <1>7, <3>1, <3>3
    <3> QED
      BY <3>1, <3>4 DEF more
  <2>5. WriterInv'
    <3>1. text' = text
      BY <1>1
    <3> HIDE DEF now, keep, R
    <3> QED
      BY <2>1, <2>3, <2>4, <3>1 DEF WriterInv
  <2>6. WriterDecodes'
    <3>1. phase' = "block"
      BY <2>1
    <3> QED
      BY <3>1 DEF WriterDecodes
  <2> QED
    BY <1>10, <1>11, <2>5, <2>6 DEF IInv
<1> QED
  BY <1>12, <1>13

\* The empty last block comes only after full ones.
LEMMA WriteNothingInv == ASSUME IInv, WriteNothing PROVE IInv'
<1>1. /\ phase = "block" /\ job = "write" /\ mode = "netascii" /\ rest = <<>>
      /\ phase' = "crash" /\ UNCHANGED <<job, mode, text, rest, held, out>>
  BY DEF WriteNothing
<1>2. TypeOK'
  BY <1>1 DEF IInv, TypeOK
<1>3. OctetExact' /\ WriterInv'
  BY <1>1 DEF OctetExact, WriterInv
<1>4. WriterDecodes'
  <2> DEFINE whole == FormatToNETASCII(text)
  <2>1. (Len(whole) - 0) % n = 0
    BY <1>1, BlockFacts DEF IInv, WriterInv
  <2>2. Len(whole) - 0 = Len(whole)
    <3>1. whole \in Seq(Int)
      BY Types DEF IInv, TypeOK
    <3> HIDE DEF whole
    <3> QED
      BY <3>1
  <2> QED
    BY <1>1, <2>1, <2>2 DEF WriterDecodes
<1> QED
  BY <1>2, <1>3, <1>4 DEF IInv

\* Nothing happens.
LEMMA StutterInv == ASSUME IInv, UNCHANGED vars PROVE IInv'
<1>1. TypeOK' /\ OctetExact'
  BY DEF IInv, vars, TypeOK, OctetExact
<1>2. WriterInv' /\ WriterDecodes'
  BY DEF IInv, vars, WriterInv, WriterDecodes
<1> QED
  BY <1>1, <1>2 DEF IInv

\* Every step keeps the invariant.
LEMMA NextInv == ASSUME IInv, [Next]_vars PROVE IInv'
<1>1. CASE ReadOctet
  BY <1>1, OctetStep DEF ReadOctet, Flat
<1>2. CASE WriteOctet
  BY <1>2, OctetStep DEF WriteOctet
<1> QED
  BY <1>1, <1>2, ReadNetasciiInv, WriteNetasciiInv, WriteNothingInv, StutterInv DEF Next

\* The invariant holds of every reachable state.
LEMMA Invariance == Spec => []IInv
<1>1. Init => IInv
  BY InitInv
<1>2. IInv /\ [Next]_vars => IInv'
  BY NextInv
<1> QED
  BY <1>1, <1>2, PTL DEF Spec

-----------------------------------------------------------------------------
(* The theorems.                                                            *)

\* Blocks, surplus and what is held back are texts whatever is read; in octet
\* mode nothing is carried over, and the writer never holds back more than a CR.
THEOREM TypeCorrect == Spec => []TypeOK
<1>1. IInv => TypeOK
  BY DEF IInv
<1> QED
  BY <1>1, Invariance, PTL

\* In octet mode the blocks are the file, in order, and the short one ends it.
THEOREM OctetCorrect == Spec => []OctetExact
<1>1. IInv => OctetExact
  BY DEF IInv
<1> QED
  BY <1>1, Invariance, PTL

\* The writer decodes what was encoded, wherever the blocks cut it, and fails
\* only on the empty block after a text of full blocks.
THEOREM WriterCorrect == Spec => []WriterDecodes
<1>1. IInv => WriterDecodes
  BY DEF IInv
<1> QED
  BY <1>1, Invariance, PTL

=============================================================================
