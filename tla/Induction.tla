----------------------------- MODULE Induction ------------------------------
(***************************************************************************)
(* Induction and recursion on the natural numbers, stated with sets and     *)
(* functions in place of operators, so that the proofs of other modules can *)
(* use them for lists and texts of every length.                            *)
(***************************************************************************)
EXTENDS Integers, TLAPS, WellFoundedInduction

\* Every nonempty set of naturals has a least member.
LEMMA LeastNatural ==
    ASSUME NEW T, T \subseteq Nat, T # {}
    PROVE  \E m \in T : \A k \in T : m <= k
<1> DEFINE R == {ss \in Nat \X Nat : ss[1] < ss[2]}
<1>1. R = OpToRel(<, Nat)
  BY DEF OpToRel
<1>2. IsWellFoundedOn(R, Nat)
  BY <1>1, NatLessThanWellFounded
<1>3. \A k \in Nat, l \in Nat : <<k, l>> \in R <=> k < l
  OBVIOUS
<1> HIDE DEF R
<1>4. PICK m \in T : \A k \in T : ~(<<k, m>> \in R)
  BY <1>2, WFMin
<1>5. \A k \in T : m <= k
  <2> SUFFICES ASSUME NEW k \in T PROVE m <= k
    OBVIOUS
  <2>1. m \in Nat /\ k \in Nat
    OBVIOUS
  <2>2. ~(k < m)
    BY <1>3, <1>4, <2>1
  <2> QED
    BY <2>1, <2>2
<1> QED
  BY <1>5

\* A set that holds 0 and, with every natural, the next one holds them all.
LEMMA SetInduction ==
    ASSUME NEW S, 0 \in S, \A n \in Nat : n \in S => n + 1 \in S
    PROVE  \A n \in Nat : n \in S
<1> SUFFICES ASSUME Nat \ S # {} PROVE FALSE
  OBVIOUS
<1>1. PICK m \in Nat \ S : \A k \in Nat \ S : m <= k
  BY LeastNatural
<1>2. m # 0 /\ m - 1 \in Nat
  OBVIOUS
<1>3. m - 1 \in S
  BY <1>1, <1>2
<1>4. (m - 1) + 1 \in S
  BY <1>2, <1>3
<1> QED
  BY <1>4

\* step computes the value at i from the one at i - 1.
IsStep(step, L, A) == step \in [1 .. L -> [A -> A]]

\* g is what comes out of it, from a on.
Computes(g, a, step, L, A) ==
    /\ g \in [0 .. L -> A]
    /\ g[0] = a
    /\ \A i \in 1 .. L : g[i] = step[i][g[i - 1]]

\* A function on 0 .. L can be defined by its first value and a step.
LEMMA Recursion ==
    ASSUME NEW A, NEW a \in A, NEW L \in Nat, NEW step, IsStep(step, L, A)
    PROVE  \E g : Computes(g, a, step, L, A)
<1>0. step \in [1 .. L -> [A -> A]]
  BY DEF IsStep
<1> DEFINE Upto(m) == \E g \in [0 .. m -> A] :
                         /\ g[0] = a
                         /\ \A i \in 1 .. m : g[i] = step[i][g[i - 1]]
           S == {m \in Nat : m <= L => Upto(m)}
<1>1. 0 \in S
  <2> DEFINE g == [i \in 0 .. 0 |-> a]
  <2>1. g \in [0 .. 0 -> A] /\ g[0] = a /\ \A i \in 1 .. 0 : FALSE
    OBVIOUS
  <2> HIDE DEF g
  <2>2. Upto(0)
    BY <2>1
  <2> QED
    BY <2>2
<1>2. ASSUME NEW m \in Nat, m \in S PROVE m + 1 \in S
  <2> SUFFICES ASSUME m + 1 <= L PROVE Upto(m + 1)
    OBVIOUS
  <2>1. m <= L /\ m + 1 \in 1 .. L
    OBVIOUS
  <2>2. PICK g \in [0 .. m -> A] :
               g[0] = a /\ \A i \in 1 .. m : g[i] = step[i][g[i - 1]]
    BY <1>2, <2>1
  <2>3. g[m] \in A /\ step[m + 1][g[m]] \in A
    BY <1>0, <2>1
  <2> DEFINE h == [i \in 0 .. m + 1 |->
                     IF i <= m THEN g[i] ELSE step[m + 1][g[m]]]
  <2>4. h \in [0 .. m + 1 -> A]
    BY <2>3
  <2>5. h[0] = a /\ h[m + 1] = step[m + 1][g[m]] /\ \A i \in 0 .. m : h[i] = g[i]
    BY <2>2
  <2> HIDE DEF h
  <2>6. ASSUME NEW i \in 1 .. m + 1 PROVE h[i] = step[i][h[i - 1]]
    <3>1. CASE i = m + 1
      <4>1. i - 1 = m /\ m \in 0 .. m
        BY <3>1
      <4> QED
        BY <2>5, <3>1, <4>1
    <3>2. CASE i # m + 1
      <4>1. i \in 1 .. m /\ i \in 0 .. m /\ i - 1 \in 0 .. m
        BY <3>2
      <4> QED
        BY <2>2, <2>5, <4>1
    <3> QED
      BY <3>1, <3>2
  <2> QED
    BY <2>4, <2>5, <2>6
<1>3. L \in S
  <2> HIDE DEF S
  <2> QED
    BY <1>1, <1>2, SetInduction
<1>4. Upto(L)
  <2> HIDE DEF Upto
  <2> QED
    BY <1>3
<1> QED
  BY <1>4 DEF Computes

\* The same from the end: a set that holds L + 1 and every index whose
\* successors it holds has them all.
LEMMA BackInduction ==
    ASSUME NEW L \in Nat, NEW S, L + 1 \in S,
           \A i \in 1 .. L : (\A j \in i + 1 .. L + 1 : j \in S) => i \in S
    PROVE  \A i \in 1 .. L + 1 : i \in S
<1> DEFINE T == {m \in Nat : m <= L /\ L + 1 - m \notin S}
<1> SUFFICES ASSUME NEW i \in 1 .. L + 1, i \notin S PROVE FALSE
  OBVIOUS
<1>1. L + 1 - i \in T
  <2>1. L + 1 - i \in Nat /\ L + 1 - i <= L /\ L + 1 - (L + 1 - i) = i
    OBVIOUS
  <2> QED
    BY <2>1
<1>2. PICK m \in T : \A k \in T : m <= k
  <2>1. T \subseteq Nat /\ T # {}
    BY <1>1
  <2> HIDE DEF T
  <2> QED
    BY <2>1, LeastNatural
<1>3. m # 0 /\ L + 1 - m \in 1 .. L
  OBVIOUS
<1>4. ASSUME NEW j \in (L + 1 - m) + 1 .. L + 1 PROVE j \in S
  <2>1. L + 1 - j \in Nat /\ L + 1 - j <= L /\ L + 1 - (L + 1 - j) = j /\ ~(m <= L + 1 - j)
    OBVIOUS
  <2>2. L + 1 - j \notin T
    BY <1>2, <2>1
  <2> QED
    BY <2>1, <2>2
<1>5. L + 1 - m \in S
  BY <1>3, <1>4
<1> QED
  BY <1>5

\* The value at i is computed from the one at a later index.
IsBackStep(step, next, L, A) ==
    /\ step \in [1 .. L -> [A -> A]]
    /\ next \in [1 .. L -> 1 .. L + 1]
    /\ \A i \in 1 .. L : next[i] > i

ComputesBack(g, a, step, next, L, A) ==
    /\ g \in [1 .. L + 1 -> A]
    /\ g[L + 1] = a
    /\ \A i \in 1 .. L : g[i] = step[i][g[next[i]]]

\* A function on 1 .. L + 1 can be defined by its last value and such a step.
LEMMA BackRecursion ==
    ASSUME NEW A, NEW a \in A, NEW L \in Nat, NEW step, NEW next,
           IsBackStep(step, next, L, A)
    PROVE  \E g : ComputesBack(g, a, step, next, L, A)
<1>0. /\ step \in [1 .. L -> [A -> A]]
      /\ next \in [1 .. L -> 1 .. L + 1]
      /\ \A i \in 1 .. L : next[i] > i
  BY DEF IsBackStep
<1> DEFINE From(m) == \E g \in [L + 1 - m .. L + 1 -> A] :
                         /\ g[L + 1] = a
                         /\ \A i \in L + 1 - m .. L : g[i] = step[i][g[next[i]]]
           S == {m \in Nat : m <= L => From(m)}
<1>1. 0 \in S
  <2> DEFINE g == [i \in L + 1 - 0 .. L + 1 |-> a]
  <2>1. g \in [L + 1 - 0 .. L + 1 -> A] /\ g[L + 1] = a
        /\ \A i \in L + 1 - 0 .. L : FALSE
    OBVIOUS
  <2> HIDE DEF g
  <2>2. From(0)
    BY <2>1
  <2> QED
    BY <2>2
<1>2. ASSUME NEW m \in Nat, m \in S PROVE m + 1 \in S
  <2> SUFFICES ASSUME m + 1 <= L PROVE From(m + 1)
    <3> HIDE DEF From
    <3> QED
      OBVIOUS
  <2> DEFINE b == L + 1 - (m + 1)
             D == b .. L + 1
             E == b + 1 .. L + 1
  <2>1. /\ m <= L /\ b \in 1 .. L /\ L + 1 - m = b + 1
        /\ next[b] \in E
        /\ \A i \in b + 1 .. L : i \in 1 .. L /\ i \in E /\ next[i] \in E /\ i # b
        /\ \A i \in D : i = b \/ i \in E
        /\ \A i \in b .. L : i = b \/ i \in b + 1 .. L
        /\ b \in D /\ L + 1 \in E /\ L + 1 # b
        /\ \A i \in E : i \in D /\ i # b
    BY <1>0
  <2>2. From(m)
    BY <1>2, <2>1
  <2>3. PICK g \in [E -> A] :
               g[L + 1] = a /\ \A i \in b + 1 .. L : g[i] = step[i][g[next[i]]]
    BY <2>1, <2>2
  <2> HIDE DEF From, S
  <2> SUFFICES \E h \in [D -> A] :
                  h[L + 1] = a /\ \A i \in b .. L : h[i] = step[i][h[next[i]]]
    BY DEF From
  <2> HIDE DEF b, D, E
  <2>4. step[b][g[next[b]]] \in A
    BY <1>0, <2>1
  <2> DEFINE h == [i \in D |-> IF i = b THEN step[b][g[next[b]]] ELSE g[i]]
  <2>5. h \in [D -> A]
    BY <2>1, <2>4
  <2>6. h[b] = step[b][g[next[b]]] /\ \A i \in E : h[i] = g[i]
    BY <2>1
  <2> HIDE DEF h
  <2>7. \A i \in b .. L : h[i] = step[i][h[next[i]]]
    BY <2>1, <2>3, <2>6
  <2> QED
    BY <2>1, <2>3, <2>5, <2>6, <2>7
<1>3. L \in S
  <2> HIDE DEF S
  <2> QED
    BY <1>1, <1>2, SetInduction
<1>4. From(L)
  <2> HIDE DEF From
  <2> QED
    BY <1>3
<1>5. L + 1 - L = 1
  OBVIOUS
<1> QED
  BY <1>4, <1>5 DEF ComputesBack


\* The same on all natural numbers, with one step for all of them.
IsNatStep(step, A) == step \in [A -> A]

ComputesAll(g, a, step, A) ==
    /\ g \in [Nat -> A]
    /\ g[0] = a
    /\ \A n \in Nat : g[n + 1] = step[g[n]]

\* A function on Nat can be defined by its first value and a step.
LEMMA NatRecursion ==
    ASSUME NEW A, NEW a \in A, NEW step, IsNatStep(step, A)
    PROVE  \E g : ComputesAll(g, a, step, A)
<1>0. step \in [A -> A]
  BY DEF IsNatStep
<1> DEFINE steps(L) == [i \in 1 .. L |-> step]
           P(L, g) == Computes(g, a, steps(L), L, A)
           G(L) == CHOOSE g : P(L, g)
           g == [n \in Nat |-> G(n)[n]]
<1>1. ASSUME NEW L \in Nat PROVE P(L, G(L))
  <2>1. IsStep(steps(L), L, A)
    BY <1>0 DEF IsStep
  <2>2. \E h : P(L, h)
    <3> HIDE DEF steps
    <3> QED
      BY <2>1, Recursion
  <2> HIDE DEF P
  <2> QED
    BY <2>2
<1>2. \A L \in Nat : /\ G(L) \in [0 .. L -> A] /\ G(L)[0] = a
                     /\ \A i \in 1 .. L : G(L)[i] = step[G(L)[i - 1]]
  <2> SUFFICES ASSUME NEW L \in Nat
               PROVE  /\ G(L) \in [0 .. L -> A] /\ G(L)[0] = a
                      /\ \A i \in 1 .. L : G(L)[i] = step[G(L)[i - 1]]
    OBVIOUS
  <2>1. P(L, G(L))
    BY <1>1
  <2> HIDE DEF G
  <2> QED
    BY <2>1 DEF Computes
<1> HIDE DEF G, P, steps
\* Two of them agree where both are defined.
<1> DEFINE S == {m \in Nat : \A L \in Nat : m <= L => G(L)[m] = G(m)[m]}
<1>3. 0 \in S
  BY <1>2
<1>4. ASSUME NEW m \in Nat, m \in S PROVE m + 1 \in S
  <2> SUFFICES ASSUME NEW L \in Nat, m + 1 <= L PROVE G(L)[m + 1] = G(m + 1)[m + 1]
    OBVIOUS
  <2>1. /\ m <= L /\ m <= m + 1 /\ m + 1 \in Nat /\ (m + 1) - 1 = m
        /\ m + 1 \in 1 .. L /\ m + 1 \in 1 .. m + 1
    OBVIOUS
  <2>2. G(L)[m] = G(m)[m] /\ G(m + 1)[m] = G(m)[m]
    BY <1>4, <2>1
  <2>3. G(L)[m + 1] = step[G(L)[m]] /\ G(m + 1)[m + 1] = step[G(m + 1)[m]]
    BY <1>2, <2>1
  <2> QED
    BY <2>2, <2>3
<1>5. \A m \in Nat : m \in S
  <2> HIDE DEF S
  <2> QED
    BY <1>3, <1>4, SetInduction
<1>6. g \in [Nat -> A] /\ g[0] = a
  <2>1. \A n \in Nat : n \in 0 .. n /\ G(n)[n] \in A
    <3> SUFFICES ASSUME NEW n \in Nat PROVE n \in 0 .. n /\ G(n)[n] \in A
      OBVIOUS
    <3>1. n \in 0 .. n
      OBVIOUS
    <3> QED
      BY <1>2, <3>1
  <2> QED
    BY <1>2, <2>1
<1>7. ASSUME NEW n \in Nat PROVE g[n + 1] = step[g[n]]
  <2>1. n + 1 \in Nat /\ n <= n + 1 /\ n + 1 \in 1 .. n + 1 /\ (n + 1) - 1 = n
    OBVIOUS
  <2>2. G(n + 1)[n] = G(n)[n]
    BY <1>5, <2>1
  <2>3. G(n + 1)[n + 1] = step[G(n + 1)[n]]
    BY <1>2, <2>1
  <2> QED
    BY <2>1, <2>2, <2>3
<1> HIDE DEF g
<1> QED
  BY <1>6, <1>7 DEF ComputesAll
=============================================================================
