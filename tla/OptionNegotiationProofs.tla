----------------------- MODULE OptionNegotiationProofs -----------------------
(***************************************************************************)
(* Proofs about module OptionNegotiation, for option lists of every length  *)
(* and files of every size.                                                 *)
(***************************************************************************)
EXTENDS OptionNegotiation, Induction, FiniteSetTheorems

USE ListsAssumption, SizesAssumption
USE DEF ServerRuns, ClientRuns, Refused

-----------------------------------------------------------------------------
(* What the loops over an option list compute.                              *)

\* The result of a loop that stops at the first outcome that is not "ok".
LEMMA FirstOfFacts ==
    ASSUME NEW k \in Nat, NEW f, DOMAIN f = 1 .. k
    PROVE  /\ FirstOf(f) = "ok" <=> \A i \in 1 .. k : f[i] = "ok"
           /\ FirstOf(f) # "ok" => \E i \in 1 .. k : f[i] = FirstOf(f)
<1> DEFINE bad == {i \in 1 .. k : f[i] # "ok"}
<1>1. CASE bad = {}
  <2>1. FirstOf(f) = "ok"
    BY <1>1 DEF FirstOf
  <2> QED
    BY <1>1, <2>1
<1>2. CASE bad # {}
  <2>1. bad \subseteq Nat
    OBVIOUS
  <2>2. \E m \in bad : \A j \in bad : m <= j
    <3> HIDE DEF bad
    <3> QED
      BY <1>2, <2>1, LeastNatural
  <2> DEFINE c == CHOOSE i \in bad : \A j \in bad : i <= j
  <2>3. c \in bad
    BY <2>2
  <2>4. FirstOf(f) = f[c]
    BY <1>2 DEF FirstOf
  <2> HIDE DEF c
  <2> QED
    BY <2>3, <2>4
<1> QED
  BY <1>1, <1>2

\* A list is parsed if no option has a fault, and else fails for one of them.
LEMMA ParseFacts ==
    ASSUME NEW list \in Seq(Options), NEW inOack \in BOOLEAN
    PROVE  /\ ParseOptions(list, inOack) = "ok" <=>
                \A i \in 1 .. Len(list) : Fault(list, i, inOack) = "ok"
           /\ ParseOptions(list, inOack) # "ok" =>
                \E i \in 1 .. Len(list) :
                    Fault(list, i, inOack) = ParseOptions(list, inOack)
<1> DEFINE f == [i \in 1 .. Len(list) |-> Fault(list, i, inOack)]
<1>1. Len(list) \in Nat /\ DOMAIN f = 1 .. Len(list)
      /\ \A i \in 1 .. Len(list) : f[i] = Fault(list, i, inOack)
  OBVIOUS
<1>2. ParseOptions(list, inOack) = FirstOf(f)
  BY DEF ParseOptions
<1> HIDE DEF f
<1>3. /\ FirstOf(f) = "ok" <=> \A i \in 1 .. Len(list) : f[i] = "ok"
      /\ FirstOf(f) # "ok" => \E i \in 1 .. Len(list) : f[i] = FirstOf(f)
  BY <1>1, FirstOfFacts
<1> QED
  BY <1>1, <1>2, <1>3

\* What Option's constructor accepts and how it refuses.
LEMMA ConstructFacts ==
    ASSUME NEW o \in Options
    PROVE  /\ Construct(o) \in {"ok", "invalid", "out_of_range"}
           /\ Construct(o) = "ok" => InLimits(o)
           /\ Construct(o) = "invalid" =>
                 o.name # "UNSUPPORTED" /\ ~InLimits(o) /\ o.kind # "vast"
           /\ InLimits(o) =>
                 /\ o.name = "BLKSIZE" => o.n \in MIN_BLOCK_SIZE .. MAX_BLOCK_SIZE
                 /\ o.name = "TIMEOUT" => o.n \in MIN_TIMEOUT .. MAX_TIMEOUT
                 /\ o.name # "UNSUPPORTED" => o.kind \in {"int", "huge"}
<1>1. o.name \in {"BLKSIZE", "TIMEOUT", "TSIZE", "UNSUPPORTED"}
  BY DEF Options, OptionNames
<1>2. /\ TooBig["BLKSIZE"] = {"huge", "vast"} /\ TooBig["TIMEOUT"] = {"vast"}
      /\ TooBig["TSIZE"] = {"vast"} /\ TooBig["UNSUPPORTED"] = {}
  BY DEF TooBig
<1>3. CASE o.name = "BLKSIZE"
  BY <1>2, <1>3 DEF Construct, InLimits
<1>4. CASE o.name = "TIMEOUT"
  BY <1>2, <1>4 DEF Construct, InLimits
<1>5. CASE o.name = "TSIZE"
  BY <1>2, <1>5 DEF Construct, InLimits
<1>6. CASE o.name = "UNSUPPORTED"
  BY <1>2, <1>6 DEF Construct, InLimits
<1> QED
  BY <1>1, <1>3, <1>4, <1>5, <1>6

\* The outcomes of the parser for one option.
LEMMA FaultFacts ==
    ASSUME NEW list \in Seq(Options), NEW i \in 1 .. Len(list), NEW inOack \in BOOLEAN
    PROVE  /\ Fault(list, i, inOack) \in {"ok", "illegal", "invalid", "out_of_range"}
           /\ Fault(list, i, inOack) = "ok" =>
                 /\ list[i].kind # "cut" /\ (inOack => list[i].kind # "empty")
                 /\ InLimits(list[i])
                 /\ ~RepeatedBefore(list, i)
           /\ Fault(list, i, inOack) = "illegal" =>
                 \/ list[i].kind = "cut" \/ (inOack /\ list[i].kind = "empty")
                 \/ RepeatedBefore(list, i)
           /\ Fault(list, i, inOack) = "invalid" =>
                 /\ list[i].name # "UNSUPPORTED"
                 /\ \/ list[i].kind \in {"nan", "empty", "huge"}
                    \/ list[i].kind = "int" /\ ~InLimits(list[i])
<1> DEFINE o == list[i]
<1>1. o \in Options /\ o.kind \in {"int", "huge", "vast", "nan", "empty", "cut"}
  <2>1. o \in Options
    OBVIOUS
  <2> HIDE DEF o
  <2> QED
    BY <2>1 DEF Options, ValueKinds
<1>2. /\ Construct(o) \in {"ok", "invalid", "out_of_range"}
      /\ Construct(o) = "ok" => InLimits(o)
      /\ Construct(o) = "invalid" =>
            o.name # "UNSUPPORTED" /\ ~InLimits(o) /\ o.kind # "vast"
  BY <1>1, ConstructFacts
<1> HIDE DEF o
<1>3. Fault(list, i, inOack) =
        IF o.kind = "cut" \/ (inOack /\ o.kind = "empty") THEN "illegal"
        ELSE IF Construct(o) # "ok" THEN Construct(o)
        ELSE IF RepeatedBefore(list, i) THEN "illegal" ELSE "ok"
  BY DEF Fault, o
<1>4. /\ Fault(list, i, inOack) \in {"ok", "illegal", "invalid", "out_of_range"}
      /\ Fault(list, i, inOack) = "ok" =>
            /\ o.kind # "cut" /\ (inOack => o.kind # "empty")
            /\ InLimits(o)
            /\ ~RepeatedBefore(list, i)
      /\ Fault(list, i, inOack) = "illegal" =>
            \/ o.kind = "cut" \/ (inOack /\ o.kind = "empty")
            \/ RepeatedBefore(list, i)
      /\ Fault(list, i, inOack) = "invalid" =>
            /\ o.name # "UNSUPPORTED"
            /\ \/ o.kind \in {"nan", "empty", "huge"}
               \/ o.kind = "int" /\ ~InLimits(o)
  BY <1>1, <1>2, <1>3
<1> QED
  BY <1>4 DEF o

\* A list that names no option twice.
Distinct(list) ==
    \A i, j \in 1 .. Len(list) : list[i].name = list[j].name => i = j

\* No name twice, looking back, is no name twice.
LEMMA DistinctFacts ==
    ASSUME NEW list \in Seq(Options),
           \A i \in 1 .. Len(list) : \A j \in 1 .. i - 1 : list[j].name # list[i].name
    PROVE  Distinct(list)
<1> SUFFICES ASSUME NEW i \in 1 .. Len(list), NEW j \in 1 .. Len(list),
                    list[i].name = list[j].name, i # j
             PROVE  FALSE
  BY DEF Distinct
<1>1. CASE i < j
  BY <1>1
<1>2. CASE j < i
  BY <1>2
<1> QED
  BY <1>1, <1>2

\* A list that has been parsed: what the constructor and the parser ensure.
Parsed(list) ==
    /\ Distinct(list)
    /\ \A i \in 1 .. Len(list) : InLimits(list[i])

\* What ParseOptions of either packet lets pass.
LEMMA ParsedFacts ==
    ASSUME NEW list \in Seq(Options), NEW inOack \in BOOLEAN,
           ParseOptions(list, inOack) = "ok"
    PROVE  Parsed(list)
<1>1. \A i \in 1 .. Len(list) : Fault(list, i, inOack) = "ok"
  BY ParseFacts
<1>2. \A i \in 1 .. Len(list) : InLimits(list[i]) /\ ~RepeatedBefore(list, i)
  BY <1>1, FaultFacts
<1>3. Distinct(list)
  BY <1>2, DistinctFacts DEF RepeatedBefore
<1> QED
  BY <1>2, <1>3 DEF Parsed

\* Our client's own lists would pass.
LEMMA ClientParsed ==
    ASSUME NEW list \in ClientLists
    PROVE  list \in Seq(Options) /\ Parsed(list)
<1>1. list \in Seq(Options)
  OBVIOUS
<1>2. \A i \in 1 .. Len(list) : InLimits(list[i])
  BY <1>1, ClientListsAssumption, ConstructFacts
<1>3. Distinct(list)
  BY <1>1, ClientListsAssumption, DistinctFacts
<1> QED
  BY <1>1, <1>2, <1>3 DEF Parsed

\* The value a list gives a name.
LEMMA ValueOfFacts ==
    ASSUME NEW list \in Seq(Options), NEW name, NEW default
    PROVE  /\ ~Lists(list, name) => ValueOf(list, name, default) = default
           /\ Lists(list, name) =>
                \E i \in 1 .. Len(list) :
                    list[i].name = name /\ ValueOf(list, name, default) = list[i].n
<1>1. CASE ~Lists(list, name)
  BY <1>1 DEF ValueOf
<1>2. CASE Lists(list, name)
  <2> DEFINE c == CHOOSE i \in 1 .. Len(list) : list[i].name = name
  <2>1. c \in 1 .. Len(list) /\ list[c].name = name
    BY <1>2 DEF Lists
  <2>2. ValueOf(list, name, default) = list[c].n
    BY <1>2 DEF ValueOf
  <2> HIDE DEF c
  <2> QED
    BY <1>2, <2>1, <2>2
<1> QED
  BY <1>1, <1>2

\* The value of an option that is listed once.
LEMMA ValueOfListed ==
    ASSUME NEW list \in Seq(Options), Distinct(list), NEW default,
           NEW i \in 1 .. Len(list)
    PROVE  /\ Lists(list, list[i].name)
           /\ ValueOf(list, list[i].name, default) = list[i].n
<1>1. Lists(list, list[i].name)
  BY DEF Lists
<1>2. PICK j \in 1 .. Len(list) : /\ list[j].name = list[i].name
                                  /\ ValueOf(list, list[i].name, default) = list[j].n
  BY <1>1, ValueOfFacts
<1>3. j = i
  BY <1>2 DEF Distinct
<1> QED
  BY <1>1, <1>2, <1>3

\* A parsed list gives values within their limits.
LEMMA ValueInLimits ==
    ASSUME NEW list \in Seq(Options), Parsed(list)
    PROVE  /\ \A d \in MIN_BLOCK_SIZE .. MAX_BLOCK_SIZE :
                 ValueOf(list, "BLKSIZE", d) \in MIN_BLOCK_SIZE .. MAX_BLOCK_SIZE
           /\ \A d \in MIN_TIMEOUT .. MAX_TIMEOUT :
                 ValueOf(list, "TIMEOUT", d) \in MIN_TIMEOUT .. MAX_TIMEOUT
<1>1. \A i \in 1 .. Len(list) :
        /\ list[i].name = "BLKSIZE" => list[i].n \in MIN_BLOCK_SIZE .. MAX_BLOCK_SIZE
        /\ list[i].name = "TIMEOUT" => list[i].n \in MIN_TIMEOUT .. MAX_TIMEOUT
  BY ConstructFacts DEF Parsed
<1> QED
  BY <1>1, ValueOfFacts

\* What a sequence has when one element is appended.
LEMMA AppendFacts ==
    ASSUME NEW S, NEW s \in Seq(S), NEW e \in S
    PROVE  /\ Append(s, e) \in Seq(S) /\ Len(Append(s, e)) = Len(s) + 1
           /\ Append(s, e)[Len(s) + 1] = e
           /\ \A i \in 1 .. Len(s) : Append(s, e)[i] = s[i]
OBVIOUS

\* NegotiateOptions copies every option it knows, and nothing else.
LEMMA NegotiatedFacts ==
    ASSUME NEW list \in Seq(Options)
    PROVE  /\ Negotiated(list) \in Seq(Options)
           /\ \A k \in 1 .. Len(Negotiated(list)) : \E j \in 1 .. Len(list) :
                 Negotiated(list)[k] = list[j] /\ list[j].name # "UNSUPPORTED"
           /\ \A j \in 1 .. Len(list) : list[j].name # "UNSUPPORTED" =>
                 \E k \in 1 .. Len(Negotiated(list)) : Negotiated(list)[k] = list[j]
<1> DEFINE L == Len(list)
           Copy(i, s) == IF list[i].name = "UNSUPPORTED" THEN s ELSE Append(s, list[i])
           Body(f) == [i \in 0 .. L |-> IF i = 0 THEN <<>>
                         ELSE IF list[i].name = "UNSUPPORTED" THEN f[i - 1]
                         ELSE Append(f[i - 1], list[i])]
           step == [i \in 1 .. L |-> [s \in Seq(Options) |-> Copy(i, s)]]
           f == CHOOSE g : g = Body(g)
<1>1. L \in Nat /\ \A i \in 1 .. L : list[i] \in Options
  OBVIOUS
<1>2. \A i \in 1 .. L, s \in Seq(Options) : Copy(i, s) \in Seq(Options)
  BY <1>1, AppendFacts
<1>3. step \in [1 .. L -> [Seq(Options) -> Seq(Options)]]
      /\ \A i \in 1 .. L, s \in Seq(Options) : step[i][s] = Copy(i, s)
  <2> HIDE DEF Copy, L
  <2> QED
    BY <1>2
<1>4. <<>> \in Seq(Options)
  OBVIOUS
<1>5. PICK g : Computes(g, <<>>, step, L, Seq(Options))
  <2>1. IsStep(step, L, Seq(Options))
    BY <1>3 DEF IsStep
  <2> HIDE DEF step, L
  <2> QED
    BY <1>1, <1>4, <2>1, Recursion
<1>6. g = Body(g)
  <2>1. \A i \in 1 .. L : i - 1 \in 0 .. L /\ i # 0
    BY <1>1
  <2>2. \A i \in 1 .. L : g[i] = Copy(i, g[i - 1])
    <3> HIDE DEF step, Copy, L
    <3> QED
      BY <1>3, <1>5, <2>1 DEF Computes
  <2>3. \A i \in 0 .. L : i = 0 \/ i \in 1 .. L
    BY <1>1
  <2>4. \A i \in 0 .. L : g[i] = Body(g)[i]
    <3> HIDE DEF L
    <3> QED
      BY <1>5, <2>2, <2>3 DEF Computes
  <2> HIDE DEF L
  <2> QED
    BY <1>5, <2>4 DEF Computes
<1>7. f = Body(f)
  <2> HIDE DEF Body
  <2> QED
    BY <1>6
<1>8. Negotiated(list) = f[L]
  BY DEF Negotiated
<1> HIDE DEF f
<1>9. f[0] = <<>> /\ \A i \in 1 .. L : f[i] = Copy(i, f[i - 1])
  <2>1. 0 \in 0 .. L /\ \A i \in 1 .. L : i \in 0 .. L /\ i # 0
    BY <1>1
  <2> HIDE DEF L
  <2>2. \A i \in 0 .. L : f[i] = IF i = 0 THEN <<>> ELSE Copy(i, f[i - 1])
    BY <1>7
  <2> QED
    BY <2>1, <2>2
<1> HIDE DEF Body
<1> DEFINE Holds(m) ==
             /\ f[m] \in Seq(Options)
             /\ \A k \in 1 .. Len(f[m]) : \E j \in 1 .. m :
                   f[m][k] = list[j] /\ list[j].name # "UNSUPPORTED"
             /\ \A j \in 1 .. m : list[j].name # "UNSUPPORTED" =>
                   \E k \in 1 .. Len(f[m]) : f[m][k] = list[j]
           S == {m \in Nat : m <= L => Holds(m)}
<1>10. 0 \in S
  <2>1. Len(<<>>) = 0 /\ \A k \in 1 .. 0 : FALSE
    OBVIOUS
  <2>2. Holds(0)
    BY <1>4, <1>9, <2>1
  <2> HIDE DEF Holds, L
  <2> QED
    BY <2>2
<1>11. ASSUME NEW m \in Nat, m \in S PROVE m + 1 \in S
  <2> SUFFICES ASSUME m + 1 <= L PROVE Holds(m + 1)
    OBVIOUS
  <2> DEFINE i == m + 1
             s == f[m]
             r == f[i]
  <2>1. /\ m <= L /\ i \in 1 .. L /\ i - 1 = m
        /\ \A j \in 1 .. i : j \in 1 .. m \/ j = i
        /\ \A j \in 1 .. m : j \in 1 .. i
    BY <1>1
  <2>2. Holds(m)
    BY <1>11, <2>1
  <2>3. r = Copy(i, s)
    BY <1>9, <2>1
  <2>4. /\ s \in Seq(Options)
        /\ \A k \in 1 .. Len(s) : \E j \in 1 .. m :
              s[k] = list[j] /\ list[j].name # "UNSUPPORTED"
        /\ \A j \in 1 .. m : list[j].name # "UNSUPPORTED" =>
              \E k \in 1 .. Len(s) : s[k] = list[j]
    BY <2>2
  <2>5. /\ r \in Seq(Options)
        /\ \A k \in 1 .. Len(r) : \E j \in 1 .. i :
              r[k] = list[j] /\ list[j].name # "UNSUPPORTED"
        /\ \A j \in 1 .. i : list[j].name # "UNSUPPORTED" =>
              \E k \in 1 .. Len(r) : r[k] = list[j]
    <3> HIDE DEF s, r, i, L
    <3>1. CASE list[i].name = "UNSUPPORTED"
      <4>1. r = s
        BY <2>3, <3>1
      <4> QED
        BY <2>1, <2>4, <3>1, <4>1
    <3>2. CASE list[i].name # "UNSUPPORTED"
      <4>1. r = Append(s, list[i]) /\ list[i] \in Options
        BY <1>1, <2>1, <2>3, <3>2
      <4>2. /\ r \in Seq(Options) /\ Len(r) = Len(s) + 1 /\ r[Len(s) + 1] = list[i]
            /\ \A k \in 1 .. Len(s) : r[k] = s[k]
        BY <2>4, <4>1, AppendFacts
      <4>3. Len(s) \in Nat
        BY <2>4
      <4>4. /\ \A k \in 1 .. Len(r) : k \in 1 .. Len(s) \/ k = Len(s) + 1
            /\ \A k \in 1 .. Len(s) : k \in 1 .. Len(r)
            /\ Len(s) + 1 \in 1 .. Len(r)
        BY <4>2, <4>3
      <4> HIDE DEF Copy
      <4>5. ASSUME NEW k \in 1 .. Len(r)
            PROVE  \E j \in 1 .. i : r[k] = list[j] /\ list[j].name # "UNSUPPORTED"
        <5>1. CASE k \in 1 .. Len(s)
          <6>1. PICK j \in 1 .. m : s[k] = list[j] /\ list[j].name # "UNSUPPORTED"
            BY <2>4, <5>1
          <6>2. r[k] = s[k] /\ j \in 1 .. i
            BY <2>1, <4>2, <5>1
          <6> QED
            BY <6>1, <6>2
        <5>2. CASE k = Len(s) + 1
          <6>1. i \in 1 .. i
            BY <2>1
          <6> QED
            BY <3>2, <4>2, <5>2, <6>1
        <5> QED
          BY <4>4, <5>1, <5>2
      <4>6. ASSUME NEW j \in 1 .. i, list[j].name # "UNSUPPORTED"
            PROVE  \E k \in 1 .. Len(r) : r[k] = list[j]
        <5>1. CASE j \in 1 .. m
          <6>1. PICK k \in 1 .. Len(s) : s[k] = list[j]
            BY <2>4, <4>6, <5>1
          <6>2. r[k] = s[k] /\ k \in 1 .. Len(r)
            BY <4>2, <4>4
          <6> QED
            BY <6>1, <6>2
        <5>2. CASE j = i
          BY <4>2, <4>4, <5>2
        <5> QED
          BY <2>1, <5>1, <5>2
      <4> QED
        BY <4>2, <4>5, <4>6
    <3> QED
      BY <3>1, <3>2
  <2> QED
    BY <2>5
<1>12. L \in S
  <2> HIDE DEF S
  <2> QED
    BY <1>1, <1>10, <1>11, SetInduction
<1>13. Holds(L)
  <2> HIDE DEF Holds, L
  <2> QED
    BY <1>1, <1>12
<1> QED
  BY <1>8, <1>13

\* The OACK gives every option the server knows the value of the request.
LEMMA SameValue ==
    ASSUME NEW list \in Seq(Options), Distinct(list),
           NEW name, name # "UNSUPPORTED", NEW default
    PROVE  /\ Lists(Negotiated(list), name) <=> Lists(list, name)
           /\ ValueOf(Negotiated(list), name, default) = ValueOf(list, name, default)
<1> DEFINE r == Negotiated(list)
<1>1. /\ r \in Seq(Options)
      /\ \A k \in 1 .. Len(r) : \E j \in 1 .. Len(list) :
            r[k] = list[j] /\ list[j].name # "UNSUPPORTED"
      /\ \A j \in 1 .. Len(list) : list[j].name # "UNSUPPORTED" =>
            \E k \in 1 .. Len(r) : r[k] = list[j]
  BY NegotiatedFacts
<1> HIDE DEF r
<1>2. Lists(r, name) <=> Lists(list, name)
  BY <1>1 DEF Lists
<1>3. CASE ~Lists(list, name)
  BY <1>1, <1>2, <1>3, ValueOfFacts DEF r
<1>4. CASE Lists(list, name)
  <2>0. r \in Seq(Options) /\ Lists(r, name)
    BY <1>1, <1>2, <1>4
  <2>1. PICK k \in 1 .. Len(r) : r[k].name = name /\ ValueOf(r, name, default) = r[k].n
    BY <2>0, ValueOfFacts
  <2>2. PICK j \in 1 .. Len(list) : r[k] = list[j]
    BY <1>1
  <2>3. ValueOf(list, name, default) = list[j].n
    BY <2>1, <2>2, ValueOfListed
  <2> QED
    BY <1>2, <2>1, <2>2, <2>3 DEF r
<1> QED
  BY <1>3, <1>4

-----------------------------------------------------------------------------
(* How the client judges an OACK.                                           *)

\* The list of an OACK as the client does accept it.
Fits(list) ==
    \A i \in 1 .. Len(list) :
        /\ list[i].kind \in {"int", "huge"}
        /\ \A j \in 1 .. i - 1 : list[j].name # list[i].name
        /\ \E j \in 1 .. Len(request) :
             /\ request[j].name = list[i].name
             /\ IF list[i].name = "BLKSIZE"
                THEN list[i].n <= request[j].n
                ELSE list[i].n = request[j].n

\* ValidateOptionsInOack looks at every option, and fails for one of them.
LEMMA ValidateFacts ==
    ASSUME NEW list \in Seq(Options)
    PROVE  LET out(i) == IF Lists(options, list[i].name)
                         THEN ValidAgainst(list[i], ValueOf(options, list[i].name, 0))
                         ELSE "illegal"
           IN /\ ValidateOptionsInOack(list) = "ok" =>
                    \A i \in 1 .. Len(list) : out(i) = "ok"
              /\ ValidateOptionsInOack(list) = "illegal" =>
                    \E i \in 1 .. Len(list) : out(i) = "illegal"
<1> DEFINE out(i) == IF Lists(options, list[i].name)
                     THEN ValidAgainst(list[i], ValueOf(options, list[i].name, 0))
                     ELSE "illegal"
           f == [i \in 1 .. Len(list) |-> out(i)]
<1>1. ValidateOptionsInOack(list) = FirstOf(f)
  BY DEF ValidateOptionsInOack
<1>2. Len(list) \in Nat
  OBVIOUS
<1> HIDE DEF out
<1>3. DOMAIN f = 1 .. Len(list) /\ \A i \in 1 .. Len(list) : f[i] = out(i)
  OBVIOUS
<1> HIDE DEF f
<1>4. /\ FirstOf(f) = "ok" <=> \A i \in 1 .. Len(list) : f[i] = "ok"
      /\ FirstOf(f) # "ok" => \E i \in 1 .. Len(list) : f[i] = FirstOf(f)
  BY <1>2, <1>3, FirstOfFacts
<1>5. /\ ValidateOptionsInOack(list) = "ok" =>
            \A i \in 1 .. Len(list) : out(i) = "ok"
      /\ ValidateOptionsInOack(list) = "illegal" =>
            \E i \in 1 .. Len(list) : out(i) = "illegal"
  BY <1>1, <1>3, <1>4
<1> QED
  BY <1>5 DEF out

\* A block size may be lower than what was asked for, nothing else may differ.
LEMMA ValidAgainstFacts ==
    ASSUME NEW o \in Options, NEW mine \in Int
    PROVE  /\ ValidAgainst(o, mine) = "ok" =>
                 IF o.name = "BLKSIZE" THEN o.n <= mine ELSE o.n = mine
           /\ ValidAgainst(o, mine) = "illegal" =>
                 \/ o.name = "UNSUPPORTED"
                 \/ IF o.name = "BLKSIZE" THEN ~(o.n <= mine) ELSE o.n # mine
<1>1. o.n \in Int /\ o.name \in {"BLKSIZE", "TIMEOUT", "TSIZE", "UNSUPPORTED"}
  BY DEF Options, OptionNames
<1>2. CASE o.name = "BLKSIZE"
  BY <1>1, <1>2 DEF ValidAgainst
<1>3. CASE o.name # "BLKSIZE"
  BY <1>1, <1>3 DEF ValidAgainst
<1> QED
  BY <1>2, <1>3

\* What has been tested when an OACK is accepted, or called illegal.
LEMMA JudgeFacts ==
    ASSUME NEW list \in Seq(Options)
    PROVE  /\ JudgeOack(list) = "ok" =>
                 /\ ParseOptions(list, TRUE) = "ok"
                 /\ ValidateOptionsInOack(list) = "ok"
           /\ JudgeOack(list) = "illegal" =>
                 \/ ParseOptions(list, TRUE) = "illegal"
                 \/ Len(options) < Len(list)
                 \/ ValidateOptionsInOack(list) = "illegal"
<1> DEFINE a == ParseOptions(list, TRUE)
           b == IF Len(options) < Len(list) THEN "illegal" ELSE "ok"
           c == ValidateOptionsInOack(list)
           d == IF op = "RRQ" /\ Lists(list, "TSIZE")
                      /\ ~(exists /\ HasEnoughSpace(ValueOf(list, "TSIZE", 0)))
                THEN "exception" ELSE "ok"
           f == <<a, b, c, d>>
<1>1. JudgeOack(list) = FirstOf(f)
  BY DEF JudgeOack
<1>2. b = "illegal" => Len(options) < Len(list)
  OBVIOUS
<1>3. d # "illegal"
  OBVIOUS
<1> HIDE DEF a, b, c, d
<1>4. DOMAIN f = 1 .. 4 /\ f[1] = a /\ f[2] = b /\ f[3] = c /\ f[4] = d
  OBVIOUS
<1> HIDE DEF f
<1>5. /\ FirstOf(f) = "ok" <=> \A i \in 1 .. 4 : f[i] = "ok"
      /\ FirstOf(f) # "ok" => \E i \in 1 .. 4 : f[i] = FirstOf(f)
  BY <1>4, FirstOfFacts
<1>6. \A i \in 1 .. 4 : i = 1 \/ i = 2 \/ i = 3 \/ i = 4
  OBVIOUS
<1>7. /\ FirstOf(f) = "ok" => a = "ok" /\ c = "ok"
      /\ FirstOf(f) = "illegal" => a = "illegal" \/ b = "illegal" \/ c = "illegal"
  BY <1>3, <1>4, <1>5, <1>6
<1> QED
  BY <1>1, <1>2, <1>7 DEF a, c

\* Validated against a list without repeated names, an option is compared with
\* the one of its name.
LEMMA OptionJudged ==
    ASSUME request \in ClientLists, options = request, ~Lists(request, "UNSUPPORTED"),
           NEW list \in Seq(Options), NEW i \in 1 .. Len(list),
           NEW j \in 1 .. Len(request), request[j].name = list[i].name
    PROVE  LET out == IF Lists(options, list[i].name)
                      THEN ValidAgainst(list[i], ValueOf(options, list[i].name, 0))
                      ELSE "illegal"
           IN /\ out = "ok" => IF list[i].name = "BLKSIZE"
                               THEN list[i].n <= request[j].n
                               ELSE list[i].n = request[j].n
              /\ out = "illegal" => IF list[i].name = "BLKSIZE"
                                    THEN ~(list[i].n <= request[j].n)
                                    ELSE list[i].n # request[j].n
<1>1. request \in Seq(Options) /\ Distinct(request)
  BY ClientParsed DEF Parsed
<1>2. Lists(options, list[i].name) /\ ValueOf(options, list[i].name, 0) = request[j].n
  BY <1>1, ValueOfListed
<1>3. list[i] \in Options /\ request[j].n \in Int
  <2>1. list[i] \in Options /\ request[j] \in Options
    BY <1>1
  <2> QED
    BY <2>1 DEF Options
<1>4. list[i].name # "UNSUPPORTED"
  BY DEF Lists
<1> QED
  BY <1>2, <1>3, <1>4, ValidAgainstFacts

\* An OACK that is accepted fits the request.
LEMMA AcceptedFits ==
    ASSUME request \in ClientLists, options = request, ~Lists(request, "UNSUPPORTED"),
           NEW list \in Seq(Options), JudgeOack(list) = "ok"
    PROVE  Fits(list)
<1> SUFFICES ASSUME NEW i \in 1 .. Len(list)
             PROVE  /\ list[i].kind \in {"int", "huge"}
                    /\ \A j \in 1 .. i - 1 : list[j].name # list[i].name
                    /\ \E j \in 1 .. Len(request) :
                         /\ request[j].name = list[i].name
                         /\ IF list[i].name = "BLKSIZE"
                            THEN list[i].n <= request[j].n
                            ELSE list[i].n = request[j].n
  BY DEF Fits
<1> DEFINE out == IF Lists(options, list[i].name)
                  THEN ValidAgainst(list[i], ValueOf(options, list[i].name, 0))
                  ELSE "illegal"
<1>1. ParseOptions(list, TRUE) = "ok" /\ ValidateOptionsInOack(list) = "ok"
  BY JudgeFacts
<1>2. out = "ok"
  BY <1>1, ValidateFacts
<1>3. PICK j \in 1 .. Len(request) : request[j].name = list[i].name
  BY <1>2 DEF Lists
<1>4. list[i].name # "UNSUPPORTED"
  BY <1>3 DEF Lists
<1>5. Fault(list, i, TRUE) = "ok"
  BY <1>1, ParseFacts
<1>6. InLimits(list[i]) /\ ~RepeatedBefore(list, i) /\ list[i] \in Options
  <2>1. \A inOack \in BOOLEAN : Fault(list, i, inOack) = "ok" =>
           InLimits(list[i]) /\ ~RepeatedBefore(list, i)
    BY FaultFacts
  <2>2. TRUE \in BOOLEAN /\ list[i] \in Options
    OBVIOUS
  <2> QED
    BY <1>5, <2>1, <2>2
<1>7. list[i].kind \in {"int", "huge"}
  BY <1>4, <1>6, ConstructFacts
<1>8. \A k \in 1 .. i - 1 : list[k].name # list[i].name
  BY <1>6 DEF RepeatedBefore
<1>9. IF list[i].name = "BLKSIZE" THEN list[i].n <= request[j].n
      ELSE list[i].n = request[j].n
  BY <1>2, <1>3, OptionJudged
<1> QED
  BY <1>3, <1>7, <1>8, <1>9

\* A list that fits is not longer than the request.
LEMMA FitsNotLonger ==
    ASSUME request \in Seq(Options), NEW list \in Seq(Options), Fits(list)
    PROVE  ~(Len(request) < Len(list))
<1> SUFFICES ASSUME Len(request) < Len(list) PROVE FALSE
  OBVIOUS
<1> DEFINE f == [i \in 1 .. Len(list) |->
                   CHOOSE j \in 1 .. Len(request) : request[j].name = list[i].name]
           S == 1 .. Len(list)
           T == 1 .. Len(request)
<1>1. \A i \in S : f[i] \in T /\ request[f[i]].name = list[i].name
  BY DEF Fits
<1>2. Len(list) \in Nat /\ Len(request) \in Nat
  OBVIOUS
<1>3. /\ IsFiniteSet(S) /\ Cardinality(S) = Len(list)
      /\ IsFiniteSet(T) /\ Cardinality(T) = Len(request)
  <2>1. \A a, b \in Int : /\ IsFiniteSet(a .. b)
                          /\ Cardinality(a .. b) = IF a > b THEN 0 ELSE b - a + 1
    BY FS_Interval
  <2>2. 1 \in Int /\ Len(list) \in Int /\ Len(request) \in Int
    BY <1>2
  <2>3. /\ IsFiniteSet(S) /\ Cardinality(S) = IF 1 > Len(list) THEN 0 ELSE Len(list) - 1 + 1
        /\ IsFiniteSet(T) /\ Cardinality(T) = IF 1 > Len(request) THEN 0 ELSE Len(request) - 1 + 1
    BY <2>1, <2>2
  <2> HIDE DEF S, T
  <2> QED
    BY <1>2, <2>3
<1>4. f \in [S -> T]
  BY <1>1
<1>5. \E x, y \in S : x # y /\ f[x] = f[y]
  <2> HIDE DEF f, S, T
  <2> QED
    BY <1>2, <1>3, <1>4, FS_PigeonHole
<1>6. PICK x \in S, y \in S : x # y /\ f[x] = f[y]
  BY <1>5
<1>7. list[x].name = list[y].name
  <2> HIDE DEF f
  <2> QED
    BY <1>1, <1>6
<1>8. Distinct(list)
  BY DistinctFacts DEF Fits
<1> QED
  BY <1>6, <1>7, <1>8 DEF Distinct

\* An OACK that is called illegal is not one the client accepts.
LEMMA IllegalUnfit ==
    ASSUME request \in ClientLists, options = request, ~Lists(request, "UNSUPPORTED"),
           NEW list \in Seq(Options), JudgeOack(list) = "illegal", Fits(list)
    PROVE  FALSE
<1>1. CASE ParseOptions(list, TRUE) = "illegal"
  <2>1. PICK i \in 1 .. Len(list) : Fault(list, i, TRUE) = "illegal"
    BY <1>1, ParseFacts
  <2>2. list[i].kind = "cut" \/ list[i].kind = "empty" \/ RepeatedBefore(list, i)
    BY <2>1, FaultFacts
  <2> QED
    BY <2>2 DEF Fits, RepeatedBefore
<1>2. CASE Len(options) < Len(list)
  BY <1>2, FitsNotLonger
<1>3. CASE ValidateOptionsInOack(list) = "illegal"
  <2> DEFINE out(i) == IF Lists(options, list[i].name)
                       THEN ValidAgainst(list[i], ValueOf(options, list[i].name, 0))
                       ELSE "illegal"
  <2>1. PICK i \in 1 .. Len(list) : out(i) = "illegal"
    BY <1>3, ValidateFacts
  <2>2. PICK j \in 1 .. Len(request) :
               /\ request[j].name = list[i].name
               /\ IF list[i].name = "BLKSIZE"
                  THEN list[i].n <= request[j].n
                  ELSE list[i].n = request[j].n
    BY DEF Fits
  <2> QED
    BY <2>1, <2>2, OptionJudged
<1> QED
  BY <1>1, <1>2, <1>3, JudgeFacts

\* What the client accepts is what its comment says, a lower timeout excepted.
LEMMA FitsFacts ==
    ASSUME request \in Seq(Options), NEW list \in Seq(Options)
    PROVE  /\ Fits(list) => OackFits(list)
           /\ OackFits(list) /\ ~LowerTimeout(list) /\ ~Lists(request, "UNSUPPORTED") =>
                 Fits(list)
<1>1. /\ \A i \in 1 .. Len(list) : list[i].n \in Int /\ list[i].name \in OptionNames
      /\ \A j \in 1 .. Len(request) : request[j].n \in Int
  <2>1. /\ \A i \in 1 .. Len(list) : list[i] \in Options
        /\ \A j \in 1 .. Len(request) : request[j] \in Options
    OBVIOUS
  <2>2. \A o \in Options : o.n \in Int /\ o.name \in OptionNames
    BY DEF Options
  <2> QED
    BY <2>1, <2>2
<1>2. ASSUME Fits(list) PROVE OackFits(list)
  <2> SUFFICES ASSUME NEW i \in 1 .. Len(list)
               PROVE  /\ list[i].kind \in {"int", "huge"}
                      /\ \A j \in 1 .. i - 1 : list[j].name # list[i].name
                      /\ \E j \in 1 .. Len(request) :
                            /\ request[j].name = list[i].name
                            /\ IF list[i].name = "TSIZE" THEN list[i].n = request[j].n
                               ELSE list[i].n <= request[j].n
    BY DEF OackFits
  <2>1. PICK j \in 1 .. Len(request) :
               /\ request[j].name = list[i].name
               /\ IF list[i].name = "BLKSIZE" THEN list[i].n <= request[j].n
                  ELSE list[i].n = request[j].n
    BY <1>2 DEF Fits
  <2>2. IF list[i].name = "TSIZE" THEN list[i].n = request[j].n
        ELSE list[i].n <= request[j].n
    BY <1>1, <2>1
  <2> QED
    BY <1>2, <2>1, <2>2 DEF Fits
<1>3. ASSUME OackFits(list), ~LowerTimeout(list), ~Lists(request, "UNSUPPORTED")
      PROVE  Fits(list)
  <2> SUFFICES ASSUME NEW i \in 1 .. Len(list)
               PROVE  /\ list[i].kind \in {"int", "huge"}
                      /\ \A j \in 1 .. i - 1 : list[j].name # list[i].name
                      /\ \E j \in 1 .. Len(request) :
                            /\ request[j].name = list[i].name
                            /\ IF list[i].name = "BLKSIZE" THEN list[i].n <= request[j].n
                               ELSE list[i].n = request[j].n
    BY DEF Fits
  <2>1. PICK j \in 1 .. Len(request) :
               /\ request[j].name = list[i].name
               /\ IF list[i].name = "TSIZE" THEN list[i].n = request[j].n
                  ELSE list[i].n <= request[j].n
    BY <1>3 DEF OackFits
  <2>2. list[i].name # "UNSUPPORTED"
    BY <1>3, <2>1 DEF Lists
  <2>3. list[i].name = "TIMEOUT" => ~(list[i].n < request[j].n)
    BY <1>3, <2>1 DEF LowerTimeout
  <2>4. IF list[i].name = "BLKSIZE" THEN list[i].n <= request[j].n
        ELSE list[i].n = request[j].n
    BY <1>1, <2>1, <2>2, <2>3 DEF OptionNames
  <2> QED
    BY <1>3, <2>1, <2>4 DEF OackFits
<1> QED
  BY <1>2, <1>3

-----------------------------------------------------------------------------
(* The invariant.                                                           *)

\* The defaults are values that could have been negotiated.
LEMMA DefaultsInLimits ==
    /\ DefaultBlksize \in MIN_BLOCK_SIZE .. MAX_BLOCK_SIZE
    /\ DefaultTimeout \in MIN_TIMEOUT .. MAX_TIMEOUT
BY DEF DefaultBlksize, DefaultTimeout, MIN_BLOCK_SIZE, MAX_BLOCK_SIZE,
       MIN_TIMEOUT, MAX_TIMEOUT

\* What the lists a side may hold give it, from the defaults on.
LEMMA ListValues ==
    ASSUME NEW list \in Seq(Options), Parsed(list)
    PROVE  /\ ValueOf(list, "BLKSIZE", DefaultBlksize) \in MIN_BLOCK_SIZE .. MAX_BLOCK_SIZE
           /\ ValueOf(list, "TIMEOUT", DefaultTimeout) \in MIN_TIMEOUT .. MAX_TIMEOUT
BY DefaultsInLimits, ValueInLimits

\* A request without options is parsed.
LEMMA EmptyParsed == <<>> \in Seq(Options) /\ Parsed(<<>>)
BY DEF Parsed, Distinct

\* Before the request both sides have what its options say or the defaults.
LEMMA InitInv == ASSUME Init PROVE IInv
<1>1. request \in Seq(Options) /\ size \in FileSizes \cup {0} /\ exists \in BOOLEAN
  BY DEF Init
<1>2. options \in Seq(Options) /\ Parsed(options)
  <2>1. CASE world = "server"
    BY <2>1, EmptyParsed DEF Init
  <2>2. CASE world # "server"
    <3>1. request \in ClientLists /\ options = request
      BY <2>2 DEF Init
    <3> QED
      BY <3>1, ClientParsed
  <2> QED
    BY <2>1, <2>2
<1>3. cblk \in MIN_BLOCK_SIZE .. MAX_BLOCK_SIZE /\ ctimeout \in MIN_TIMEOUT .. MAX_TIMEOUT
  BY <1>2, ListValues DEF Init
<1>4. TypeOK
  <2>1. bytes_read \in 0 .. 2 * MAX_BLOCK_SIZE
    BY DEF Init, MAX_BLOCK_SIZE
  <2>2. reply \in [op : {"none", "OACK", "DATA", "ACK", "ERROR"},
                   options : Seq(Options), code : Codes \cup {NoError}]
    BY DEF Init, NoReply, Answer
  <2> QED
    BY <1>1, <1>2, <1>3, <2>1, <2>2, DefaultsInLimits DEF Init, TypeOK
<1>5. RequestInv /\ PairInv
  BY DEF Init, RequestInv, PairInv
<1>6. ClientInv
  BY DEF Init, ClientInv
<1>7. ServerInv
  BY DEF Init, ServerInv
<1>8. RefusedForCause /\ OackJudged
  <2>1. sphase = "idle" /\ reply.op = "none"
    BY DEF Init, NoReply, Answer
  <2> QED
    BY <2>1 DEF RefusedForCause, OackJudged
<1> QED
  BY <1>4, <1>5, <1>6, <1>7, <1>8 DEF IInv

\* The client sends its request.
LEMMA SendRequestInv == ASSUME IInv, SendRequest PROVE IInv'
<1> USE DEF SendRequest, fixedVars, serverVars
<1>1. TypeOK'
  BY DEF IInv, TypeOK
<1>2. RequestInv' /\ PairInv'
  BY DEF IInv, RequestInv, PairInv, ClientInv
<1>3. ClientInv'
  BY DEF IInv, ClientInv
<1>4. ServerInv'
  BY DEF IInv, ServerInv, ClientInv
<1>5. RefusedForCause' /\ OackJudged'
  <2>1. reply'.op = "none"
    BY DEF IInv, ClientInv, NoReply, Answer
  <2> QED
    BY <2>1 DEF RefusedForCause, OackJudged
<1> QED
  BY <1>1, <1>2, <1>3, <1>4, <1>5 DEF IInv

\* A step of our server leaves the client where it is, waiting.
LEMMA ServerStepKeeps ==
    ASSUME IInv, cphase = "wait", UNCHANGED <<fixedVars, clientVars>>
    PROVE  RequestInv' /\ ClientInv' /\ PairInv' /\ OackJudged'
<1> USE DEF fixedVars, clientVars
<1>1. RequestInv' /\ PairInv'
  BY DEF IInv, RequestInv, PairInv
<1>2. ClientInv'
  BY DEF IInv, ClientInv
<1>3. OackJudged'
  <2>1. cphase' = "wait" /\ cerror' # "ILLEGAL_OPERATION"
    BY DEF IInv, ClientInv, NoError
  <2> QED
    BY <2>1 DEF OackJudged
<1> QED
  BY <1>1, <1>2, <1>3

\* The types that such a step keeps.
LEMMA ServerTypes ==
    ASSUME IInv, UNCHANGED <<fixedVars, clientVars>>,
           reply' \in [op : {"none", "OACK", "DATA", "ACK", "ERROR"},
                       options : Seq(Options), code : Codes \cup {NoError}],
           sphase' \in {"idle", "tsize", "answer", "transfer", "data", "failed"},
           sblk' \in MIN_BLOCK_SIZE .. MAX_BLOCK_SIZE,
           stimeout' \in MIN_TIMEOUT .. MAX_TIMEOUT,
           bytes_read' \in 0 .. 2 * MAX_BLOCK_SIZE
    PROVE  TypeOK'
BY DEF IInv, TypeOK, fixedVars, clientVars

\* Two options that are one to the parser have one name, if it is known.
LEMMA SameNameStr ==
    ASSUME NEW list \in Seq(Options), NEW i \in 1 .. Len(list), NEW j \in 1 .. Len(list),
           list[i].name = list[j].name, list[i].name # "UNSUPPORTED"
    PROVE  list[i].nameStr = list[j].nameStr
<1>1. list[i] \in Options /\ list[j] \in Options
  OBVIOUS
<1>2. \A o \in Options : o.name # "UNSUPPORTED" =>
         o.nameStr = CASE o.name = "BLKSIZE" -> "blksize"
                       [] o.name = "TIMEOUT" -> "timeout"
                       [] OTHER -> "tsize"
  BY DEF Options, NameOf
<1> QED
  BY <1>1, <1>2

\* The server refuses a list, for a fault of one of its options.
LEMMA RejectRequestInv == ASSUME IInv, RejectRequest PROVE IInv'
<1> DEFINE outcome == ParseOptions(request, FALSE)
<1>1. /\ cphase = "wait" /\ sphase = "idle" /\ world # "client"
      /\ outcome # "ok" /\ reply = NoReply
  BY DEF RejectRequest, Asked, IInv, ServerInv
<1>2. /\ UNCHANGED <<fixedVars, clientVars, sblk, stimeout, bytes_read>>
      /\ sphase' = "failed"
      /\ reply' = IF ErrorCode(outcome) = NoError THEN reply
                  ELSE Answer("ERROR", <<>>, ErrorCode(outcome))
  BY DEF RejectRequest, ServerFails
<1>3. request \in Seq(Options) /\ FALSE \in BOOLEAN
  BY DEF IInv, TypeOK
<1>4. PICK i \in 1 .. Len(request) : Fault(request, i, FALSE) = outcome
  BY <1>1, <1>3, ParseFacts
<1>5. \A inOack \in BOOLEAN :
           /\ Fault(request, i, inOack) = "illegal" =>
                 \/ request[i].kind = "cut" \/ (inOack /\ request[i].kind = "empty")
                 \/ RepeatedBefore(request, i)
           /\ Fault(request, i, inOack) = "invalid" =>
                 /\ request[i].name # "UNSUPPORTED"
                 /\ \/ request[i].kind \in {"nan", "empty", "huge"}
                    \/ request[i].kind = "int" /\ ~InLimits(request[i])
  BY <1>3, FaultFacts
<1>6. /\ outcome = "illegal" => request[i].kind = "cut" \/ RepeatedBefore(request, i)
      /\ outcome = "invalid" =>
            /\ request[i].name # "UNSUPPORTED"
            /\ \/ request[i].kind \in {"nan", "empty", "huge"}
               \/ request[i].kind = "int" /\ ~InLimits(request[i])
  BY <1>3, <1>4, <1>5
<1> HIDE DEF outcome
<1>7. /\ ErrorCode(outcome) \in Codes \cup {NoError}
      /\ ErrorCode(outcome) = "FAILED_NEGOTIATION" => outcome = "invalid"
      /\ ErrorCode(outcome) = "ILLEGAL_OPERATION" => outcome = "illegal"
  BY DEF ErrorCode, Codes, NoError
<1>8. RefusedForCause'
  <2> SUFFICES ASSUME (reply.op = "ERROR")'
               PROVE  RefusedForCause'
    BY DEF RefusedForCause
  <2>1. ErrorCode(outcome) # NoError
    BY <1>1, <1>2 DEF NoReply, Answer
  <2>2. reply'.code = ErrorCode(outcome)
    BY <1>2, <2>1 DEF Answer
  <2>3. request' = request
    BY <1>2 DEF fixedVars
  <2>4. CASE outcome = "invalid"
    <3>1. reply'.code = "FAILED_NEGOTIATION"
      BY <2>2, <2>4 DEF ErrorCode
    <3> QED
      BY <1>6, <2>3, <2>4, <3>1 DEF RefusedForCause, RefusalCause
  <2>5. CASE outcome = "illegal"
    <3>1. reply'.code = "ILLEGAL_OPERATION"
      BY <2>2, <2>5 DEF ErrorCode
    <3>2. \/ request[i].kind = "cut"
          \/ \E k, j \in 1 .. Len(request) : k # j /\ request[k].name = request[j].name
      BY <1>3, <1>6, <2>5 DEF RepeatedBefore
    <3>3. ASSUME OneUnknownName
          PROVE  \/ request[i].kind = "cut"
                 \/ \E k, j \in 1 .. Len(request) :
                       k # j /\ request[k].nameStr = request[j].nameStr
      BY <1>3, <3>2, <3>3, SameNameStr DEF OneUnknownName
    <3>4. OneUnknownName' <=> OneUnknownName
      BY <2>3 DEF OneUnknownName
    <3>5. CASE OneUnknownName
      <4>1. RefusalCause'
        BY <2>3, <3>1, <3>3, <3>5 DEF RefusalCause
      <4> QED
        BY <4>1 DEF RefusedForCause
    <3>6. CASE ~OneUnknownName
      BY <3>1, <3>4, <3>6 DEF RefusedForCause
    <3> QED
      BY <3>5, <3>6
  <2> QED
    BY <1>7, <2>1, <2>4, <2>5 DEF Codes, NoError
<1>9. reply' \in [op : {"none", "OACK", "DATA", "ACK", "ERROR"},
                  options : Seq(Options), code : Codes \cup {NoError}]
  BY <1>2, <1>7 DEF IInv, TypeOK, Answer
<1>10. TypeOK'
  BY <1>2, <1>9, ServerTypes DEF IInv, TypeOK
<1>11. RequestInv' /\ ClientInv' /\ PairInv' /\ OackJudged'
  BY <1>1, <1>2, ServerStepKeeps
<1>12. ServerInv'
  BY <1>1, <1>2 DEF ServerInv, fixedVars, clientVars
<1> QED
  BY <1>8, <1>10, <1>11, <1>12 DEF IInv

\* The tsize of a write does not fit, or that of a read cannot be stored.
LEMMA TsizeFailsInv == ASSUME IInv, TsizeFails PROVE IInv'
<1>1. /\ cphase = "wait" /\ sphase = "idle" /\ world # "client" /\ reply = NoReply
  BY DEF TsizeFails, Asked, IInv, ServerInv
<1>2. /\ UNCHANGED <<fixedVars, clientVars, sblk, stimeout, bytes_read>>
      /\ sphase' = "failed" /\ reply' = reply
  BY DEF TsizeFails, ServerFails, ErrorCode, NoError
<1>3. TypeOK'
  BY <1>2, ServerTypes DEF IInv, TypeOK
<1>4. RequestInv' /\ ClientInv' /\ PairInv' /\ OackJudged'
  BY <1>1, <1>2, ServerStepKeeps
<1>5. ServerInv'
  BY <1>1, <1>2 DEF ServerInv, fixedVars, clientVars
<1>6. RefusedForCause'
  BY <1>1, <1>2 DEF RefusedForCause, NoReply, Answer
<1> QED
  BY <1>3, <1>4, <1>5, <1>6 DEF IInv
\* The server stores the values of a list it has parsed.
LEMMA NegotiateInv == ASSUME IInv, Negotiate PROVE IInv'
<1>1. /\ cphase = "wait" /\ sphase = "idle" /\ world # "client" /\ reply = NoReply
      /\ bytes_read = 0
  BY DEF Negotiate, Asked, IInv, ServerInv
<1>2. /\ UNCHANGED <<fixedVars, clientVars, reply, bytes_read>>
      /\ ParseOptions(request, FALSE) = "ok"
      /\ sblk' = ValueOf(request, "BLKSIZE", DefaultBlksize)
      /\ stimeout' = ValueOf(request, "TIMEOUT", DefaultTimeout)
      /\ sphase' \in {"tsize", "answer"}
  BY DEF Negotiate, BlksizeFor
<1>3. request \in Seq(Options) /\ FALSE \in BOOLEAN
  BY DEF IInv, TypeOK
<1>4. Parsed(request)
  BY <1>2, <1>3, ParsedFacts
<1>5. sblk' \in MIN_BLOCK_SIZE .. MAX_BLOCK_SIZE /\ stimeout' \in MIN_TIMEOUT .. MAX_TIMEOUT
  BY <1>2, <1>3, <1>4, ListValues
<1>6. TypeOK'
  BY <1>2, <1>5, ServerTypes DEF IInv, TypeOK
<1>7. RequestInv' /\ ClientInv' /\ PairInv' /\ OackJudged'
  BY <1>1, <1>2, ServerStepKeeps
<1>8. ServerInv'
  <2>1. size \in Nat
    BY DEF IInv, TypeOK
  <2>2. /\ world' # "client" /\ cphase' = "wait" /\ reply' = NoReply
        /\ sphase' \in {"tsize", "answer"} /\ request' = request
        /\ bytes_read' = 0 /\ 0 <= size'
    BY <1>1, <1>2, <2>1 DEF fixedVars, clientVars
  <2> QED
    BY <1>2, <2>2 DEF ServerInv
<1>9. RefusedForCause'
  BY <1>2 DEF RefusedForCause
<1> QED
  BY <1>6, <1>7, <1>8, <1>9 DEF IInv

\* One turn of the loop that measures the file.
LEMMA TsizeReadInv == ASSUME IInv, TsizeRead PROVE IInv'
<1> DEFINE k == bytes_read + IF size - bytes_read < sblk THEN size - bytes_read ELSE sblk
<1>1. /\ cphase = "wait" /\ sphase = "tsize" /\ world # "client" /\ reply = NoReply
      /\ bytes_read \in {0, sblk} /\ bytes_read <= size
      /\ ParseOptions(request, FALSE) = "ok"
      /\ sblk = ValueOf(request, "BLKSIZE", DefaultBlksize)
      /\ stimeout = ValueOf(request, "TIMEOUT", DefaultTimeout)
  BY DEF TsizeRead, IInv, ServerInv
<1>2. /\ UNCHANGED <<fixedVars, clientVars, reply, sblk, stimeout>>
      /\ bytes_read' = k
      /\ sphase' = IF k = sblk THEN "tsize" ELSE "answer"
  BY DEF TsizeRead, TsizeAgain
<1>3. /\ size \in Nat /\ sblk \in Nat /\ 0 <= sblk /\ sblk <= MAX_BLOCK_SIZE
      /\ MAX_BLOCK_SIZE \in Nat
  <2>1. size \in FileSizes \cup {0} /\ sblk \in MIN_BLOCK_SIZE .. MAX_BLOCK_SIZE
    BY DEF IInv, TypeOK
  <2> QED
    BY <2>1 DEF MIN_BLOCK_SIZE, MAX_BLOCK_SIZE
<1>4. k \in 0 .. 2 * MAX_BLOCK_SIZE /\ k <= size
  BY <1>1, <1>3
<1> HIDE DEF k
<1>5. TypeOK'
  <2>1. /\ reply' \in [op : {"none", "OACK", "DATA", "ACK", "ERROR"},
                       options : Seq(Options), code : Codes \cup {NoError}]
        /\ sphase' \in {"idle", "tsize", "answer", "transfer", "data", "failed"}
        /\ sblk' \in MIN_BLOCK_SIZE .. MAX_BLOCK_SIZE
        /\ stimeout' \in MIN_TIMEOUT .. MAX_TIMEOUT
    BY <1>2 DEF IInv, TypeOK
  <2> QED
    BY <1>2, <1>4, <2>1, ServerTypes
<1>6. RequestInv' /\ ClientInv' /\ PairInv' /\ OackJudged'
  BY <1>1, <1>2, ServerStepKeeps
<1>7. ServerInv'
  BY <1>1, <1>2, <1>4 DEF ServerInv, fixedVars, clientVars
<1>8. RefusedForCause'
  BY <1>2 DEF RefusedForCause
<1> QED
  BY <1>5, <1>6, <1>7, <1>8 DEF IInv

\* The server answers with what it has stored.
LEMMA SendAnswerInv == ASSUME IInv, SendAnswer PROVE IInv'
<1>1. /\ cphase = "wait" /\ sphase = "answer" /\ world # "client"
      /\ ParseOptions(request, FALSE) = "ok"
      /\ sblk = ValueOf(request, "BLKSIZE", DefaultBlksize)
      /\ stimeout = ValueOf(request, "TIMEOUT", DefaultTimeout)
  BY DEF SendAnswer, IInv, ServerInv
<1>2. /\ UNCHANGED <<fixedVars, clientVars, sblk, stimeout, bytes_read>>
      /\ sphase' = "transfer"
      /\ reply' = IF request # <<>> THEN Answer("OACK", Negotiated(request), NoError)
                  ELSE Answer(FirstAnswer, <<>>, NoError)
  BY DEF SendAnswer, FirstAnswer
<1>3. reply' \in [op : {"none", "OACK", "DATA", "ACK", "ERROR"},
                  options : Seq(Options), code : Codes \cup {NoError}]
  <2>1. request \in Seq(Options)
    BY DEF IInv, TypeOK
  <2>2. Negotiated(request) \in Seq(Options) /\ <<>> \in Seq(Options)
    BY <2>1, NegotiatedFacts
  <2> QED
    BY <1>2, <2>2 DEF Answer, FirstAnswer
<1>4. TypeOK'
  BY <1>2, <1>3, ServerTypes DEF IInv, TypeOK
<1>5. RequestInv' /\ ClientInv' /\ PairInv' /\ OackJudged'
  BY <1>1, <1>2, ServerStepKeeps
<1>6. ServerInv'
  BY <1>1, <1>2 DEF ServerInv, FirstAnswer, fixedVars, clientVars
<1>7. RefusedForCause'
  BY <1>2 DEF RefusedForCause
<1> QED
  BY <1>4, <1>5, <1>6, <1>7 DEF IInv

\* Another server answers, with whatever it likes.
LEMMA ForeignAnswerInv == ASSUME IInv, ForeignAnswer PROVE IInv'
<1>1. /\ world = "client" /\ cphase = "wait" /\ sphase = "idle"
      /\ UNCHANGED <<fixedVars, clientVars, sphase, sblk, stimeout, bytes_read>>
  BY DEF ForeignAnswer, IInv, ServerInv
<1>2. reply' \in [op : {"none", "OACK", "DATA", "ACK", "ERROR"},
                  options : Seq(Options), code : Codes \cup {NoError}]
  <2>1. <<>> \in Seq(Options) /\ \A list \in ForeignLists : list \in Seq(Options)
    OBVIOUS
  <2>2. CASE \E list \in ForeignLists : reply' = Answer("OACK", list, NoError)
    BY <2>1, <2>2 DEF Answer
  <2>3. CASE \E o \in {"DATA", "ACK", "ERROR"} : reply' = Answer(o, <<>>, NoError)
    BY <2>1, <2>3 DEF Answer
  <2> QED
    BY <2>2, <2>3 DEF ForeignAnswer
<1>3. TypeOK'
  BY <1>1, <1>2, ServerTypes DEF IInv, TypeOK
<1>4. RequestInv' /\ ClientInv' /\ PairInv' /\ OackJudged'
  BY <1>1, ServerStepKeeps
<1>5. ServerInv'
  BY <1>1 DEF IInv, ServerInv, fixedVars, clientVars
<1>6. RefusedForCause'
  BY <1>1 DEF RefusedForCause
<1> QED
  BY <1>3, <1>4, <1>5, <1>6 DEF IInv

\* What the client knows when an answer is there: it is as its request says,
\* and our server, if it is the one, has finished answering.
LEMMA AnsweredFacts ==
    ASSUME IInv, NEW o \in {"OACK", "DATA", "ACK", "ERROR"}, Answered(o)
    PROVE  /\ cphase = "wait" /\ reply.op = o /\ reply # NoReply
           /\ request \in ClientLists /\ request \in Seq(Options) /\ Parsed(request)
           /\ options = request /\ ~Lists(request, "UNSUPPORTED")
           /\ cblk = ValueOf(request, "BLKSIZE", DefaultBlksize)
           /\ ctimeout = ValueOf(request, "TIMEOUT", DefaultTimeout)
           /\ reply.options \in Seq(Options)
           /\ sphase \notin {"tsize", "answer"}
<1>1. cphase = "wait" /\ world # "server" /\ reply.op = o
  BY DEF Answered
<1>2. reply # NoReply
  BY <1>1 DEF NoReply, Answer
<1>3. request \in ClientLists
  BY <1>1 DEF IInv, RequestInv
<1>4. request \in Seq(Options) /\ Parsed(request)
  BY <1>3, ClientParsed
<1>5. /\ options = request /\ ~Lists(request, "UNSUPPORTED")
      /\ cblk = ValueOf(request, "BLKSIZE", DefaultBlksize)
      /\ ctimeout = ValueOf(request, "TIMEOUT", DefaultTimeout)
  BY <1>1 DEF IInv, ClientInv
<1>6. reply.options \in Seq(Options)
  BY DEF IInv, TypeOK
<1>7. sphase \notin {"tsize", "answer"}
  <2> SUFFICES ASSUME sphase \in {"tsize", "answer"} PROVE FALSE
    OBVIOUS
  <2>1. world # "client" /\ reply = NoReply
    BY DEF IInv, ServerInv
  <2> QED
    BY <1>2, <2>1
<1> QED
  BY <1>1, <1>2, <1>3, <1>4, <1>5, <1>6, <1>7

\* What a step of the client cannot disturb.
LEMMA ClientStepKeeps ==
    ASSUME IInv, UNCHANGED <<fixedVars, serverVars>>, sphase \notin {"tsize", "answer"}
    PROVE  RequestInv' /\ ServerInv' /\ RefusedForCause'
<1> USE DEF fixedVars, serverVars
<1>1. RequestInv'
  BY DEF IInv, RequestInv
<1>2. ServerInv'
  BY DEF IInv, ServerInv, FirstAnswer
<1>3. RefusedForCause'
  BY DEF IInv, RefusedForCause, RefusalCause, OneUnknownName
<1> QED
  BY <1>1, <1>2, <1>3

\* The types after a step of the client's alone.
LEMMA ClientTypes ==
    ASSUME IInv, UNCHANGED <<fixedVars, serverVars>>,
           cphase' \in {"start", "wait", "transfer", "data", "failed"},
           options' \in Seq(Options),
           cblk' \in MIN_BLOCK_SIZE .. MAX_BLOCK_SIZE,
           ctimeout' \in MIN_TIMEOUT .. MAX_TIMEOUT,
           cerror' \in Codes \cup {NoError}
    PROVE  TypeOK'
BY DEF IInv, TypeOK, fixedVars, serverVars
\* The default counts only where the list has no value.
LEMMA DefaultIrrelevant ==
    ASSUME NEW list \in Seq(Options), NEW name, Lists(list, name), NEW c, NEW d
    PROVE  ValueOf(list, name, c) = ValueOf(list, name, d)
BY DEF ValueOf

\* The client takes over the values of an OACK that passed every test.
LEMMA AcceptOackInv == ASSUME IInv, AcceptOack PROVE IInv'
<1> DEFINE list == reply.options
<1>1. /\ cphase = "wait" /\ reply.op = "OACK" /\ reply # NoReply
      /\ request \in ClientLists /\ request \in Seq(Options) /\ Parsed(request)
      /\ options = request /\ ~Lists(request, "UNSUPPORTED")
      /\ cblk = ValueOf(request, "BLKSIZE", DefaultBlksize)
      /\ ctimeout = ValueOf(request, "TIMEOUT", DefaultTimeout)
      /\ list \in Seq(Options)
      /\ sphase \notin {"tsize", "answer"}
  BY AnsweredFacts DEF AcceptOack
<1>2. /\ JudgeOack(list) = "ok" /\ cphase' = "transfer" /\ options' = list
      /\ cblk' = ValueOf(list, "BLKSIZE", cblk)
      /\ ctimeout' = AfterAnswer(ValueOf(list, "TIMEOUT", ctimeout))
      /\ UNCHANGED <<fixedVars, cerror, serverVars>>
      /\ world # "server"
  BY DEF AcceptOack, Answered
<1>3. cerror = NoError
  BY <1>1 DEF IInv, ClientInv
<1> HIDE DEF list
<1>4. Fits(list)
  BY <1>1, <1>2, AcceptedFits
<1>5. Parsed(list)
  <2>1. ParseOptions(list, TRUE) = "ok" /\ TRUE \in BOOLEAN
    BY <1>1, <1>2, JudgeFacts
  <2> QED
    BY <1>1, <2>1, ParsedFacts
<1>6. cblk' \in MIN_BLOCK_SIZE .. MAX_BLOCK_SIZE /\ ctimeout' \in MIN_TIMEOUT .. MAX_TIMEOUT
  <2>1. cblk \in MIN_BLOCK_SIZE .. MAX_BLOCK_SIZE /\ ctimeout \in MIN_TIMEOUT .. MAX_TIMEOUT
    BY DEF IInv, TypeOK
  <2>2. /\ ValueOf(list, "BLKSIZE", cblk) \in MIN_BLOCK_SIZE .. MAX_BLOCK_SIZE
        /\ ValueOf(list, "TIMEOUT", ctimeout) \in MIN_TIMEOUT .. MAX_TIMEOUT
    BY <1>1, <1>5, <2>1, ValueInLimits
  <2> QED
    BY <1>2, <2>2, DefaultsInLimits DEF AfterAnswer
<1>7. TypeOK'
  <2>1. cphase' \in {"start", "wait", "transfer", "data", "failed"} /\ options' \in Seq(Options)
        /\ cerror' \in Codes \cup {NoError}
    BY <1>1, <1>2, <1>3
  <2> QED
    BY <1>2, <1>6, <2>1, ClientTypes
<1>8. RequestInv' /\ ServerInv' /\ RefusedForCause'
  BY <1>1, <1>2, ClientStepKeeps
<1>9. ClientInv'
  BY <1>1, <1>2, <1>3 DEF ClientInv, fixedVars, serverVars
<1>10. PairInv'
  <2> SUFFICES ASSUME ServerRuns PROVE cblk' = sblk
    BY <1>2 DEF PairInv, serverVars
  <2>1. /\ sblk = ValueOf(request, "BLKSIZE", DefaultBlksize)
        /\ reply = IF request # <<>> THEN Answer("OACK", Negotiated(request), NoError)
                   ELSE Answer(FirstAnswer, <<>>, NoError)
    BY DEF IInv, ServerInv
  <2>2. list = Negotiated(request)
    BY <1>1, <2>1 DEF list, Answer, FirstAnswer
  <2>3. Distinct(request)
    BY <1>1 DEF Parsed
  <2>4. ValueOf(list, "BLKSIZE", cblk) = ValueOf(request, "BLKSIZE", cblk)
    BY <1>1, <2>2, <2>3, SameValue
  <2>5. ValueOf(request, "BLKSIZE", cblk) = sblk
    <3>1. CASE Lists(request, "BLKSIZE")
      BY <1>1, <2>1, <3>1, DefaultIrrelevant
    <3>2. CASE ~Lists(request, "BLKSIZE")
      BY <1>1, <2>1, <3>2, ValueOfFacts
    <3> QED
      BY <3>1, <3>2
  <2> QED
    BY <1>2, <2>4, <2>5
<1>11. OackJudged'
  <2>1. /\ Lists(list, "BLKSIZE") => cblk' = ValueOf(list, "BLKSIZE", 0)
        /\ op = "WRQ" /\ Lists(list, "TIMEOUT") => ctimeout' = ValueOf(list, "TIMEOUT", 0)
    BY <1>1, <1>2, DefaultIrrelevant DEF AfterAnswer
  <2>2. /\ reply' = reply /\ request' = request /\ op' = op
        /\ cerror' # "ILLEGAL_OPERATION"
    BY <1>2, <1>3 DEF fixedVars, serverVars, NoError
  <2>3. OackFits(list)
    BY <1>1, <1>4, FitsFacts
  <2>4. OackFits(list)'
    BY <2>2, <2>3 DEF OackFits, list
  <2> QED
    BY <1>2, <2>1, <2>2, <2>4 DEF OackJudged, list
<1> QED
  BY <1>7, <1>8, <1>9, <1>10, <1>11 DEF IInv

\* The client gives up: what has to be shown is that an illegal OACK was one.
LEMMA ClientFailsInv ==
    ASSUME IInv, NEW outcome, ClientFails(outcome), cphase = "wait", world # "server",
           reply # NoReply, sphase \notin {"tsize", "answer"},
           reply.op = "OACK" /\ outcome = "illegal" /\ ~LowerTimeout(reply.options) =>
              ~OackFits(reply.options)
    PROVE  IInv'
<1>1. /\ cphase' = "failed" /\ cerror' = ErrorCode(outcome)
      /\ UNCHANGED <<fixedVars, options, cblk, ctimeout, serverVars>>
  BY DEF ClientFails
<1>2. /\ cerror' \in Codes \cup {NoError}
      /\ cerror' = "ILLEGAL_OPERATION" => outcome = "illegal"
  BY <1>1 DEF ErrorCode, Codes, NoError
<1>3. TypeOK'
  <2>1. /\ options' \in Seq(Options) /\ cblk' \in MIN_BLOCK_SIZE .. MAX_BLOCK_SIZE
        /\ ctimeout' \in MIN_TIMEOUT .. MAX_TIMEOUT
    BY <1>1 DEF IInv, TypeOK
  <2> QED
    BY <1>1, <1>2, <2>1, ClientTypes
<1>4. RequestInv' /\ ServerInv' /\ RefusedForCause'
  BY <1>1, ClientStepKeeps
<1>5. ClientInv' /\ PairInv'
  BY <1>1 DEF ClientInv, PairInv, fixedVars
<1>6. OackJudged'
  <2>1. reply' = reply /\ request' = request
    BY <1>1 DEF fixedVars, serverVars
  <2> QED
    BY <1>1, <1>2, <2>1 DEF OackJudged, OackFits, LowerTimeout
<1> QED
  BY <1>3, <1>4, <1>5, <1>6 DEF IInv

\* The client refuses an OACK for what is wrong with it.
LEMMA RefuseOackInv == ASSUME IInv, RefuseOack PROVE IInv'
<1>1. Answered("OACK") /\ ClientFails(JudgeOack(reply.options)) /\ world # "server"
  BY DEF RefuseOack, Answered
<1>2. /\ cphase = "wait" /\ reply # NoReply /\ sphase \notin {"tsize", "answer"}
      /\ request \in ClientLists /\ options = request /\ reply.options \in Seq(Options)
      /\ request \in Seq(Options) /\ ~Lists(request, "UNSUPPORTED")
  BY <1>1, AnsweredFacts
<1>3. JudgeOack(reply.options) = "illegal" => ~Fits(reply.options)
  BY <1>2, IllegalUnfit
<1>4. JudgeOack(reply.options) = "illegal" /\ ~LowerTimeout(reply.options) =>
         ~OackFits(reply.options)
  BY <1>2, <1>3, FitsFacts
<1> QED
  BY <1>1, <1>2, <1>4, ClientFailsInv

\* The client is refused.
LEMMA ReceiveErrorInv == ASSUME IInv, ReceiveError PROVE IInv'
<1>1. Answered("ERROR") /\ ClientFails("exception") /\ world # "server"
  BY DEF ReceiveError, Answered
<1>2. /\ cphase = "wait" /\ reply # NoReply /\ sphase \notin {"tsize", "answer"}
  BY <1>1, AnsweredFacts
<1> QED
  BY <1>1, <1>2, ClientFailsInv

\* The client gets an answer that is none to its request.
LEMMA ReceiveOtherInv == ASSUME IInv, ReceiveOther PROVE IInv'
<1>1. PICK o \in {"DATA", "ACK"} : Answered(o)
  BY DEF ReceiveOther
<1>2. ClientFails("illegal") /\ world # "server"
  BY <1>1 DEF ReceiveOther, Answered
<1>3. /\ cphase = "wait" /\ reply # NoReply /\ sphase \notin {"tsize", "answer"}
      /\ reply.op # "OACK"
  BY <1>1, AnsweredFacts
<1> QED
  BY <1>2, <1>3, ClientFailsInv

\* The client goes on without options.
LEMMA FallBackInv == ASSUME IInv, FallBack PROVE IInv'
<1>1. /\ cphase' = "transfer" /\ options' = <<>> /\ ctimeout' = AfterAnswer(ctimeout)
      /\ UNCHANGED <<fixedVars, cblk, cerror, serverVars>>
      /\ world # "server"
  BY DEF FallBack, Answered
<1>2. PICK o \in {"DATA", "ACK"} : Answered(o)
  BY DEF FallBack, FirstAnswer
<1>3. /\ cphase = "wait" /\ reply.op # "OACK" /\ reply # NoReply
      /\ ~Lists(request, "UNSUPPORTED")
      /\ cblk = ValueOf(request, "BLKSIZE", DefaultBlksize)
      /\ ctimeout = ValueOf(request, "TIMEOUT", DefaultTimeout)
      /\ sphase \notin {"tsize", "answer"}
  BY <1>2, AnsweredFacts
<1>4. TypeOK'
  <2>1. /\ options' \in Seq(Options) /\ cblk' \in MIN_BLOCK_SIZE .. MAX_BLOCK_SIZE
        /\ ctimeout' \in MIN_TIMEOUT .. MAX_TIMEOUT /\ cerror' \in Codes \cup {NoError}
    BY <1>1, DefaultsInLimits DEF IInv, TypeOK, AfterAnswer
  <2> QED
    BY <1>1, <2>1, ClientTypes
<1>5. RequestInv' /\ ServerInv' /\ RefusedForCause'
  BY <1>1, <1>3, ClientStepKeeps
<1>6. ClientInv'
  <2>1. cerror = NoError
    BY <1>3 DEF IInv, ClientInv
  <2> QED
    BY <1>1, <1>3, <2>1 DEF ClientInv, fixedVars, serverVars
<1>7. PairInv'
  BY <1>1, <1>3 DEF IInv, PairInv, ServerInv, serverVars
<1>8. OackJudged'
  BY <1>1, <1>3 DEF OackJudged, serverVars
<1> QED
  BY <1>4, <1>5, <1>6, <1>7, <1>8 DEF IInv

\* The server's timer goes back to the default.
LEMMA ServerTimeoutResetInv == ASSUME IInv, ServerTimeoutReset PROVE IInv'
<1>1. /\ sphase = "transfer" /\ sphase' = "data" /\ stimeout' = DefaultTimeout
      /\ UNCHANGED <<fixedVars, clientVars, reply, sblk, bytes_read>>
  BY DEF ServerTimeoutReset
<1>2. TypeOK'
  BY <1>1, DefaultsInLimits DEF IInv, TypeOK, fixedVars, clientVars
<1>3. RequestInv' /\ PairInv'
  BY <1>1 DEF IInv, RequestInv, PairInv, fixedVars, clientVars
<1>4. ClientInv'
  BY <1>1 DEF IInv, ClientInv, fixedVars, clientVars
<1>5. ServerInv'
  BY <1>1 DEF IInv, ServerInv, FirstAnswer, fixedVars, clientVars
<1>6. RefusedForCause'
  BY <1>1 DEF RefusedForCause
<1>7. OackJudged'
  BY <1>1 DEF IInv, OackJudged, OackFits, LowerTimeout, fixedVars, clientVars
<1> QED
  BY <1>2, <1>3, <1>4, <1>5, <1>6, <1>7 DEF IInv

\* The client's timer goes back to the default.
LEMMA ClientTimeoutResetInv == ASSUME IInv, ClientTimeoutReset PROVE IInv'
<1>1. /\ cphase = "transfer" /\ cphase' = "data" /\ ctimeout' = DefaultTimeout
      /\ UNCHANGED <<fixedVars, options, cblk, cerror, serverVars>>
  BY DEF ClientTimeoutReset
<1>2. sphase \notin {"tsize", "answer"}
  BY <1>1 DEF IInv, ServerInv
<1>3. TypeOK'
  BY <1>1, DefaultsInLimits DEF IInv, TypeOK, fixedVars, serverVars
<1>4. RequestInv' /\ ServerInv' /\ RefusedForCause'
  BY <1>1, <1>2, ClientStepKeeps
<1>5. ClientInv'
  BY <1>1 DEF IInv, ClientInv, fixedVars, serverVars
<1>6. PairInv'
  BY <1>1 DEF IInv, PairInv, serverVars
<1>7. OackJudged'
  BY <1>1 DEF IInv, OackJudged, OackFits, LowerTimeout, fixedVars, serverVars
<1> QED
  BY <1>3, <1>4, <1>5, <1>6, <1>7 DEF IInv

\* Nothing happens.
LEMMA StutterInv == ASSUME IInv, UNCHANGED vars PROVE IInv'
<1> USE DEF vars, fixedVars, clientVars, serverVars
<1>1. TypeOK' /\ RequestInv' /\ PairInv'
  BY DEF IInv, TypeOK, RequestInv, PairInv
<1>2. ClientInv'
  BY DEF IInv, ClientInv
<1>3. ServerInv'
  BY DEF IInv, ServerInv, FirstAnswer
<1>4. RefusedForCause' /\ OackJudged'
  BY DEF IInv, RefusedForCause, RefusalCause, OneUnknownName, OackJudged, OackFits,
         LowerTimeout
<1> QED
  BY <1>1, <1>2, <1>3, <1>4 DEF IInv

\* Every step keeps the invariant.
LEMMA NextInv == ASSUME IInv, [Next]_vars PROVE IInv'
BY SendRequestInv, RejectRequestInv, TsizeFailsInv, NegotiateInv, TsizeReadInv,
   SendAnswerInv, ForeignAnswerInv, AcceptOackInv, RefuseOackInv, FallBackInv,
   ReceiveErrorInv, ReceiveOtherInv, ServerTimeoutResetInv, ClientTimeoutResetInv, StutterInv
   DEF Next, ServerStep, ClientStep, TransferStep

\* The invariant holds of every reachable state.
LEMMA Invariance == Spec => []IInv
<1>1. Init => IInv
  BY InitInv
<1>2. IInv /\ [Next]_vars => IInv'
  BY NextInv
<1> QED
  BY <1>1, <1>2, PTL DEF Spec

-----------------------------------------------------------------------------
(* The theorems.                                                            *)

\* The variables of client and server stay within their types, the block size
\* and the timeout within the limits of Option's constructors; the counter of
\* the loop that measures the file stays below two blocks.
THEOREM TypeCorrect == Spec => []TypeOK
<1>1. IInv => TypeOK
  BY DEF IInv
<1> QED
  BY <1>1, Invariance, PTL

\* Our server sends blocks of the size its OACK says, to every client and for
\* every list of options, and our client counts on that size.  Its OACK repeats
\* options of the request, and the timeout in it is the server's for the wait
\* after it: the only wait it is good for.
THEOREM AgreementHolds == Spec => []Agreement
<1>1. ASSUME IInv PROVE Agreement
  <2> SUFFICES ASSUME ServerRuns PROVE Agreement
    BY DEF Agreement
  <2>1. /\ ParseOptions(request, FALSE) = "ok"
        /\ sblk = ValueOf(request, "BLKSIZE", DefaultBlksize)
        /\ sphase = "transfer" => stimeout = ValueOf(request, "TIMEOUT", DefaultTimeout)
        /\ reply = IF request # <<>> THEN Answer("OACK", Negotiated(request), NoError)
                   ELSE Answer(FirstAnswer, <<>>, NoError)
    BY <1>1 DEF IInv, ServerInv
  <2>2. request \in Seq(Options) /\ FALSE \in BOOLEAN
    BY <1>1 DEF IInv, TypeOK
  <2>3. Distinct(request)
    BY <2>1, <2>2, ParsedFacts DEF Parsed
  <2>4. ClientRuns => cblk = sblk
    BY <1>1 DEF IInv, PairInv
  <2>5. CASE request = <<>>
    <3>1. reply.options = request /\ Len(reply.options) = 0
      BY <2>1, <2>5 DEF Answer
    <3> QED
      BY <2>1, <2>4, <3>1 DEF Agreement
  <2>6. CASE request # <<>>
    <3>1. reply.options = Negotiated(request)
      BY <2>1, <2>6 DEF Answer
    <3>2. /\ ValueOf(Negotiated(request), "BLKSIZE", DefaultBlksize)
               = ValueOf(request, "BLKSIZE", DefaultBlksize)
          /\ ValueOf(Negotiated(request), "TIMEOUT", DefaultTimeout)
               = ValueOf(request, "TIMEOUT", DefaultTimeout)
      BY <2>2, <2>3, SameValue
    <3>3. \A i \in 1 .. Len(Negotiated(request)) :
             \E j \in 1 .. Len(request) : Negotiated(request)[i] = request[j]
      BY <2>2, NegotiatedFacts
    <3> QED
      BY <2>1, <2>4, <3>1, <3>2, <3>3 DEF Agreement
  <2> QED
    BY <2>5, <2>6
<1> QED
  BY <1>1, Invariance, PTL

\* The server refuses a request with an ERROR only for a value, a cut or a name
\* repeated in it, and with the code of that reason, or with error 4 if it has two
\* names that the server does not know, which the parser takes for one.
THEOREM RefusalsJustified == Spec => []RefusedForCause
<1>1. IInv => RefusedForCause
  BY DEF IInv
<1> QED
  BY <1>1, Invariance, PTL

\* The client goes on after an OACK only with what it asked for, whoever sent it,
\* and calls it illegal only if it is or its timeout is lower.
THEOREM OacksJudged == Spec => []OackJudged
<1>1. IInv => OackJudged
  BY DEF IInv
<1> QED
  BY <1>1, Invariance, PTL

=============================================================================
