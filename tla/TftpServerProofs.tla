-------------------------- MODULE TftpServerProofs --------------------------
(***************************************************************************)
(* Proofs about module TftpServer, for any number of threads, paths and     *)
(* blocks.                                                                  *)
(***************************************************************************)
EXTENDS TftpServer, TLAPS, FiniteSetTheorems

USE ServerAssumption, NoneAssumption

Blocks == (Inodes \X (1 .. NBlocks)) \cup {Hole}

-----------------------------------------------------------------------------
(* Sequences of blocks.                                                     *)

\* Two sequences of the same length with the same elements are equal.
LEMMA SeqEqual ==
    ASSUME NEW S, NEW T, NEW s \in Seq(S), NEW r \in Seq(T), Len(s) = Len(r),
           \A i \in 1 .. Len(s) : s[i] = r[i]
    PROVE  s = r
OBVIOUS

\* What a concatenation is made of.
LEMMA ConcatFacts ==
    ASSUME NEW S, NEW s \in Seq(S), NEW r \in Seq(S)
    PROVE  /\ s \o r \in Seq(S) /\ Len(s \o r) = Len(s) + Len(r)
           /\ \A i \in 1 .. Len(s) + Len(r) :
                 (s \o r)[i] = IF i <= Len(s) THEN s[i] ELSE r[i - Len(s)]
OBVIOUS

\* An input of n blocks.
LEMMA InputFacts ==
    ASSUME NEW w \in Inodes, NEW n \in 0 .. NBlocks
    PROVE  /\ Input(w, n) \in Seq(Blocks) /\ Len(Input(w, n)) = n
           /\ \A i \in 1 .. n : Input(w, n)[i] = <<w, i>>
           /\ n = 0 => Input(w, n) = <<>>
<1>1. \A i \in 1 .. n : <<w, i>> \in Blocks
  BY DEF Blocks
<1>2. Input(w, n) = [i \in 1 .. n |-> <<w, i>>]
  BY DEF Input, Block
<1>3. /\ Input(w, n) \in Seq(Blocks) /\ Len(Input(w, n)) = n
      /\ \A i \in 1 .. n : Input(w, n)[i] = <<w, i>>
  BY <1>1, <1>2
<1> QED
  BY <1>3

\* A function on 1 .. n is a sequence of length n.
LEMMA IsASequence ==
    ASSUME NEW S, NEW n \in Nat, NEW f \in [1 .. n -> S]
    PROVE  f \in Seq(S) /\ Len(f) = n
OBVIOUS

\* What a write at offset i does to the blocks of a file.
LEMMA WrittenFacts ==
    ASSUME NEW s \in Seq(Blocks), NEW i \in 1 .. NBlocks, NEW b \in Blocks,
           Len(s) <= NBlocks
    PROVE  /\ Written(s, i, b) \in Seq(Blocks)
           /\ Len(Written(s, i, b)) = IF Len(s) < i THEN i ELSE Len(s)
           /\ Len(Written(s, i, b)) <= NBlocks
           /\ Written(s, i, b)[i] = b
           /\ \A k \in 1 .. Len(Written(s, i, b)) : k # i =>
                 Written(s, i, b)[k] = IF k <= Len(s) THEN s[k] ELSE Hole
<1> DEFINE m == IF Len(s) < i THEN i ELSE Len(s)
           e(k) == IF k = i THEN b ELSE IF k <= Len(s) THEN s[k] ELSE Hole
           r == [k \in 1 .. m |-> e(k)]
<1>1. m \in Nat /\ m <= NBlocks /\ i \in 1 .. m
  OBVIOUS
<1>2. \A k \in 1 .. m : e(k) \in Blocks
  BY DEF Blocks
<1>3. r \in [1 .. m -> Blocks]
  <2> HIDE DEF m, e
  <2> QED
    BY <1>2
<1>4. r \in Seq(Blocks) /\ Len(r) = m
  <2> HIDE DEF r, m
  <2> QED
    BY <1>1, <1>3, IsASequence
<1>5. \A k \in 1 .. m : r[k] = e(k)
  <2> HIDE DEF m, e
  <2> QED
    OBVIOUS
<1>6. Written(s, i, b) = r
  BY DEF Written
<1>7. /\ r[i] = b
      /\ \A k \in 1 .. m : k # i => r[k] = IF k <= Len(s) THEN s[k] ELSE Hole
  <2> HIDE DEF m, r
  <2> QED
    BY <1>1, <1>5
<1>8. m = IF Len(s) < i THEN i ELSE Len(s)
  OBVIOUS
<1> HIDE DEF r, m, Hole
<1> QED
  BY <1>1, <1>4, <1>6, <1>7, <1>8

\* A sequence of the blocks of an input is an input.
LEMMA IsInput ==
    ASSUME NEW w \in Inodes, NEW n \in 0 .. NBlocks, NEW r \in Seq(Blocks),
           Len(r) = n, \A i \in 1 .. n : r[i] = <<w, i>>
    PROVE  r = Input(w, n)
<1> DEFINE s == Input(w, n)
<1>1. /\ s \in Seq(Blocks) /\ Len(s) = n
      /\ \A i \in 1 .. n : s[i] = <<w, i>>
  BY InputFacts
<1> HIDE DEF s
<1>2. r = s
  BY <1>1, SeqEqual
<1> QED
  BY <1>2 DEF s

\* The next block of an input makes a longer input.
LEMMA WrittenInput ==
    ASSUME NEW w \in Inodes, NEW n \in 0 .. NBlocks - 1
    PROVE  Written(Input(w, n), n + 1, Block(w, n + 1)) = Input(w, n + 1)
<1> DEFINE s == Input(w, n)
           b == Block(w, n + 1)
           i == n + 1
           r == Written(s, i, b)
<1>1. /\ s \in Seq(Blocks) /\ Len(s) = n
      /\ \A k \in 1 .. n : s[k] = <<w, k>>
  BY InputFacts
<1>2. b = <<w, i>> /\ b \in Blocks /\ i \in 1 .. NBlocks
  BY DEF Block, Blocks
<1>3. n < i /\ n <= NBlocks /\ i \in 0 .. NBlocks /\ n \in Nat
      /\ \A k \in 1 .. i : k # i => k \in 1 .. n
  OBVIOUS
<1> HIDE DEF s, b, i
<1>4. /\ r \in Seq(Blocks) /\ Len(r) = i /\ r[i] = b
      /\ \A k \in 1 .. Len(r) : k # i =>
            r[k] = IF k <= Len(s) THEN s[k] ELSE Hole
  BY <1>1, <1>2, <1>3, WrittenFacts
<1> HIDE DEF r
<1>5. \A k \in 1 .. i : r[k] = <<w, k>>
  BY <1>1, <1>2, <1>3, <1>4
<1>6. r = Input(w, i)
  BY <1>3, <1>4, <1>5, IsInput
<1> QED
  BY <1>6 DEF r, s, b, i

\* A prefix of an input is an input.
LEMMA InputPrefix ==
    ASSUME NEW w \in Inodes, NEW n \in 0 .. NBlocks, NEW k \in 0 .. n
    PROVE  SubSeq(Input(w, n), 1, k) = Input(w, k)
<1> DEFINE s == Input(w, n)
           r == SubSeq(s, 1, k)
<1>1. /\ s \in Seq(Blocks) /\ Len(s) = n
      /\ \A i \in 1 .. n : s[i] = <<w, i>>
  BY InputFacts
<1> HIDE DEF s
<1>2. r \in Seq(Blocks) /\ Len(r) = k /\ \A i \in 1 .. k : r[i] = <<w, i>>
  BY <1>1
<1> HIDE DEF r
<1>3. r = Input(w, k)
  BY <1>2, IsInput
<1> QED
  BY <1>3 DEF r, s

\* What is read ahead of an input continues what was read of it.
LEMMA InputReadOn ==
    ASSUME NEW w \in Inodes, NEW n \in 0 .. NBlocks,
           NEW i \in 1 .. n, NEW k \in i .. n
    PROVE  Input(w, i - 1) \o SubSeq(Input(w, n), i, k) = Input(w, k)
<1> DEFINE s == Input(w, n)
           q == Input(w, i - 1)
           u == SubSeq(s, i, k)
           r == q \o u
           d == k - i + 1
<1>1. /\ s \in Seq(Blocks) /\ Len(s) = n
      /\ \A j \in 1 .. n : s[j] = <<w, j>>
  BY InputFacts
<1>2. /\ q \in Seq(Blocks) /\ Len(q) = i - 1
      /\ \A j \in 1 .. i - 1 : q[j] = <<w, j>>
  BY InputFacts
<1>3. /\ d \in Nat /\ (i - 1) + d = k
      /\ \A j \in 1 .. k : j >= i => j - (i - 1) \in 1 .. d
      /\ \A j \in 1 .. d : i + j - 1 \in 1 .. n
  OBVIOUS
<1>4. u \in Seq(Blocks) /\ Len(u) = d
  <2> HIDE DEF s
  <2> QED
    BY <1>1
<1>5. \A j \in 1 .. d : u[j] = s[i + j - 1]
  <2> HIDE DEF s
  <2> QED
    BY <1>1
<1> HIDE DEF s, q, u, d
<1>6. /\ r \in Seq(Blocks) /\ Len(r) = Len(q) + Len(u)
      /\ \A j \in 1 .. Len(q) + Len(u) :
            r[j] = IF j <= Len(q) THEN q[j] ELSE u[j - Len(q)]
  BY <1>2, <1>4, ConcatFacts
<1> HIDE DEF r
<1>7. \A j \in 1 .. k : r[j] = <<w, j>>
  <2> SUFFICES ASSUME NEW j \in 1 .. k PROVE r[j] = <<w, j>>
    OBVIOUS
  <2>1. CASE j < i
    BY <1>2, <1>3, <1>4, <1>6, <2>1
  <2>2. CASE ~(j < i)
    <3>0. j - (i - 1) \in 1 .. d /\ j \in 1 .. (i - 1) + d /\ ~(j <= i - 1)
      BY <1>3, <2>2
    <3>1. r[j] = u[j - (i - 1)] /\ j - (i - 1) \in 1 .. d
      BY <1>2, <1>4, <1>6, <3>0
    <3>2. u[j - (i - 1)] = s[i + (j - (i - 1)) - 1]
      BY <1>5, <3>1
    <3>3. i + (j - (i - 1)) - 1 = j /\ j \in 1 .. n
      OBVIOUS
    <3> QED
      BY <1>1, <3>1, <3>2, <3>3
  <2> QED
    BY <2>1, <2>2
<1>8. Len(r) = k /\ k \in 0 .. NBlocks
  BY <1>2, <1>3, <1>4, <1>6
<1>9. r = Input(w, k)
  BY <1>6, <1>7, <1>8, IsInput
<1> QED
  BY <1>9 DEF r, q, u, s

\* Two different members make a finite set of two or more.
LEMMA TwoMembers ==
    ASSUME NEW S, IsFiniteSet(S), NEW x \in S, NEW y \in S, x # y
    PROVE  Cardinality(S) > 1
<1>1. IsFiniteSet({x}) /\ Cardinality({x}) = 1 /\ y \notin {x}
  BY FS_Singleton
<1>2. IsFiniteSet({x} \cup {y})
      /\ Cardinality({x} \cup {y}) = Cardinality({x}) + 1
  <2> HIDE <1>1
  <2> DEFINE X == {x}
  <2>1. IsFiniteSet(X) /\ y \notin X
    BY <1>1
  <2> HIDE DEF X
  <2>2. IsFiniteSet(X \cup {y}) /\ Cardinality(X \cup {y}) = Cardinality(X) + 1
    BY <2>1, FS_AddElement
  <2> QED
    BY <2>2 DEF X
<1>3. {x} \cup {y} \subseteq S
  OBVIOUS
<1>4. Cardinality({x} \cup {y}) <= Cardinality(S)
  BY <1>3, FS_Subset
<1>5. Cardinality(S) \in Nat
  BY FS_CardinalityType
<1> QED
  BY <1>1, <1>2, <1>4, <1>5

-----------------------------------------------------------------------------
(* The inductive invariant: initially, and in the steps that touch no file. *)

\* Initially there are old files and no threads.
LEMMA InitInv ==
    ASSUME Init PROVE IInv
<1>1. PICK old \in SUBSET Paths :
        /\ dir = [p \in Paths |-> IF p \in old THEN p ELSE None]
        /\ content = [n \in Inodes |->
                        IF n \in old THEN Input(n, NBlocks) ELSE <<>>]
  BY DEF Init
<1>2. \A n \in Inodes : /\ Input(n, NBlocks) \in Seq(Blocks)
                        /\ Len(Input(n, NBlocks)) = NBlocks
                        /\ \A i \in 1 .. NBlocks : Input(n, NBlocks)[i] = <<n, i>>
  BY InputFacts
<1>3. \A t \in Threads : /\ tphase[t] = "none" /\ job[t] = NoJob /\ fd[t] = None
                         /\ pos[t] = 0 /\ fetched[t] = <<>>
                         /\ ~IsWrq(t)
  BY DEF Init, IsWrq, NoJob, None
<1>4. \A n \in Inodes : \/ content[n] = <<>>
                        \/ n \in old /\ content[n] = Input(n, NBlocks)
  BY <1>1
<1>5. \A p \in Paths : \/ dir[p] = None /\ content[p] = <<>>
                       \/ dir[p] = p /\ content[p] = Input(p, NBlocks)
  BY <1>1 DEF Inodes
<1>6. <<>> \in Seq(Blocks) /\ Len(<<>>) = 0
  OBVIOUS
<1> HIDE DEF Hole, None
<1>7. TypeOK
  <2>1. content \in [Inodes -> Seq(Blocks)]
    BY <1>1, <1>2, <1>6
  <2>2. dir \in [Paths -> Inodes \cup {None}]
    BY <1>1 DEF Inodes
  <2>3. fetched \in [Threads -> Seq(Blocks)]
    BY <1>6 DEF Init
  <2>4. fd \in [Threads -> Inodes \cup {None}] /\ pos \in [Threads -> 0 .. NBlocks + 1]
        /\ job \in [Threads -> Jobs \cup {NoJob}]
        /\ tphase \in [Threads -> {"none"} \cup Busy \cup Ended]
    BY DEF Init
  <2> QED
    BY <2>1, <2>2, <2>3, <2>4 DEF Init, TypeOK, Blocks
<1>8. InodeInv
  BY <1>3, <1>5 DEF InodeInv
<1>9. ContentInv
  <2>1. \A n \in Inodes : Len(content[n]) <= NBlocks
    BY <1>2, <1>4, <1>6
  <2>2. \A p \in Paths : \/ content[p] = Input(p, NBlocks)
                         \/ dir[p] # p /\ \A t \in Threads : fd[t] # p
    BY <1>3, <1>5 DEF Inodes
  <2>3. \A n \in Inodes, t \in Threads : ~Writes(t, n)
    BY <1>3 DEF Writes
  <2>4. \A t \in Threads : t \in Inodes
    BY DEF Inodes
  <2> QED
    BY <2>1, <2>2, <2>3, <2>4 DEF ContentInv, SoleWriter
<1>10. PlaceInv
  <2> SUFFICES ASSUME NEW n \in Inodes, NEW i \in 1 .. Len(content[n])
               PROVE  content[n][i][2] = i
    BY DEF PlaceInv
  <2>1. content[n] = Input(n, NBlocks) /\ i \in 1 .. NBlocks
    BY <1>2, <1>4, <1>6
  <2>2. content[n][i] = <<n, i>>
    BY <1>2, <2>1
  <2> QED
    BY <2>2
<1>11. ASSUME NEW t \in Threads PROVE PhaseInv(t) /\ FetchInv(t) /\ UploadInv(t)
  <2>1. fd[t] \notin Inodes
    BY <1>3
  <2>2. PhaseInv(t)
    BY <1>3 DEF PhaseInv
  <2>3. FetchInv(t)
    BY <1>3, <1>6, <2>1 DEF FetchInv
  <2>4. UploadInv(t)
    BY <1>3 DEF UploadInv, Admitted
  <2> QED
    BY <2>2, <2>3, <2>4
<1> QED
  BY <1>7, <1>8, <1>9, <1>10, <1>11 DEF IInv

\* What a file, a name and a writer have to do with each other depends on no
\* thread's phase.
LEMMA FilesKept ==
    ASSUME IInv, UNCHANGED <<dir, content, job, fd, pos>>
    PROVE  InodeInv' /\ ContentInv' /\ PlaceInv'
<1>1. InodeInv'
  BY DEF IInv, InodeInv, Writes, IsWrq, PathOf
<1>2. ContentInv'
  BY DEF IInv, ContentInv, SoleWriter, Writes, IsWrq
<1>3. PlaceInv'
  BY DEF IInv, PlaceInv, Writes, IsWrq
<1> QED
  BY <1>1, <1>2, <1>3

\* A step of the main thread or a signal.
LEMMA MainInv ==
    ASSUME IInv, UNCHANGED <<dir, content, threadVars>>,
           status' \in {"up", "stopped", "killed", "terminated"},
           sigint' \in BOOLEAN, sigint => sigint',
           main' \in {"check", "enter", "recv", "signal", "join"}
    PROVE  IInv'
<1>1. TypeOK'
  BY DEF IInv, TypeOK, threadVars
<1>2. InodeInv' /\ ContentInv' /\ PlaceInv'
  BY FilesKept DEF threadVars
<1>3. ASSUME NEW t \in Threads PROVE PhaseInv(t)' /\ FetchInv(t)' /\ UploadInv(t)'
  <2>1. PhaseInv(t) /\ FetchInv(t) /\ UploadInv(t)
    BY DEF IInv
  <2>2. PhaseInv(t)'
    BY <2>1 DEF PhaseInv, threadVars, IsWrq
  <2>3. FetchInv(t)'
    BY <2>1 DEF FetchInv, SoleWriter, Writes, IsWrq, LastSent, threadVars
  <2>4. UploadInv(t)'
    BY <2>1 DEF UploadInv, Admitted, Alone, IsWrq, PathOf, threadVars
  <2> QED
    BY <2>2, <2>3, <2>4
<1> QED
  BY <1>1, <1>2, <1>3 DEF IInv

\* What a step of thread t from one phase to another has to respect.
MayGo(t, ph) ==
    /\ ph \in Busy \cup Ended
    /\ tphase[t] # "none"
    /\ ph \in {"intro", "refused"} => fd[t] = None /\ ~Admitted(t)
    /\ ph \in {"cleanup", "abort"} => sigint
    /\ IsWrq(t) =>
          /\ ph # "read"
          /\ ph = "open" => fd[t] = None
          /\ ph = "write" => fd[t] # None
          /\ ph \in {"check", "recv", "open", "write"} => pos[t] < NBlocks
          /\ Admitted(t) \/ ph = "refused" \/ dir[PathOf(t)] = None
    /\ ~IsWrq(t) =>
          /\ ph \notin {"open", "write"}
          /\ ph = "read" => pos[t] <= Len(fetched[t])
          /\ ph = "done" => LastSent(t)


\* A step of thread t that changes nothing but its phase.
LEMMA QuietInv ==
    ASSUME IInv, NEW t \in Threads, NEW ph, MayGo(t, ph),
           tphase' = [tphase EXCEPT ![t] = ph],
           UNCHANGED <<status, sigint, main, dir, content, job, fd, pos, fetched>>
    PROVE  IInv'
<1>1. TypeOK'
  BY DEF IInv, TypeOK, MayGo
<1>2. InodeInv' /\ ContentInv' /\ PlaceInv'
  BY FilesKept
<1>3. \A u \in Threads \ {t} : tphase'[u] = tphase[u]
  BY DEF IInv, TypeOK
<1>4. tphase'[t] = ph
  BY DEF IInv, TypeOK
<1>5. \A u \in Threads : PhaseInv(u) /\ FetchInv(u) /\ UploadInv(u)
  BY DEF IInv
<1>6. \A u \in Threads : /\ Admitted(u) => Admitted(u)'
                         /\ u # t => (Admitted(u)' => Admitted(u))
                         /\ PathOf(u)' = PathOf(u)
  BY <1>3, <1>4 DEF Admitted, MayGo, IsWrq, PathOf, Busy, Ended
<1>7. \A u \in Threads : Alone(u)' => Alone(u)
  BY <1>6 DEF Alone
<1>8. ASSUME NEW u \in Threads PROVE PhaseInv(u)' /\ FetchInv(u)' /\ UploadInv(u)'
  <2>1. CASE u # t
    <3>1. PhaseInv(u)'
      BY <1>3, <1>5, <2>1 DEF PhaseInv, IsWrq
    <3>2. FetchInv(u)'
      BY <1>3, <1>5, <2>1 DEF FetchInv, SoleWriter, Writes, IsWrq, LastSent
    <3>3. UploadInv(u)'
      BY <1>5, <1>6, <1>7, <2>1 DEF UploadInv
    <3> QED
      BY <3>1, <3>2, <3>3
  <2>2. CASE u = t
    <3>1. PhaseInv(t)'
      BY <1>4, <1>5 DEF PhaseInv, IsWrq, MayGo, Busy, Ended
    <3>2. FetchInv(t)'
      BY <1>4, <1>5 DEF FetchInv, SoleWriter, Writes, IsWrq, LastSent, MayGo
    <3>3. UploadInv(t)'
      <4> SUFFICES ASSUME Admitted(t)' PROVE UploadInv(t)'
        BY DEF UploadInv
      <4>1. CASE Admitted(t)
        BY <1>5, <1>6, <1>7, <4>1 DEF UploadInv
      <4>2. CASE ~Admitted(t)
        <5>1. IsWrq(t) /\ ph \notin {"none", "intro", "refused"}
          BY <1>4 DEF Admitted, IsWrq
        <5>2. dir[PathOf(t)] = None
          BY <4>2, <5>1 DEF MayGo
        <5>3. tphase[t] \in {"none", "intro", "refused"} /\ tphase[t] # "none"
          BY <4>2, <5>1 DEF Admitted, MayGo
        <5>4. fd[t] = None /\ job[t] \in Jobs
          BY <1>5, <5>3 DEF PhaseInv
        <5>5. PathOf(t) \in Paths /\ PathOf(t) # None
          BY <5>4 DEF PathOf, Jobs, Inodes
        <5> QED
          BY <1>6, <5>2, <5>4, <5>5 DEF UploadInv
      <4> QED
        BY <4>1, <4>2
    <3> QED
      BY <2>2, <3>1, <3>2, <3>3
  <2> QED
    BY <2>1, <2>2
<1> QED
  BY <1>1, <1>2, <1>8 DEF IInv

\* Where a thread of the invariant is.
LEMMA Known ==
    ASSUME IInv, NEW t \in Threads
    PROVE  /\ PhaseInv(t) /\ FetchInv(t) /\ UploadInv(t) /\ TypeOK
           /\ tphase[t] # "none" =>
                /\ job[t] \in Jobs /\ PathOf(t) \in Paths
                /\ dir[PathOf(t)] \in Inodes \cup {None}
<1>1. PhaseInv(t) /\ FetchInv(t) /\ UploadInv(t) /\ TypeOK
  BY DEF IInv
<1>2. ASSUME tphase[t] # "none"
      PROVE job[t] \in Jobs /\ PathOf(t) \in Paths
            /\ dir[PathOf(t)] \in Inodes \cup {None}
  BY <1>1, <1>2 DEF PhaseInv, PathOf, Jobs, TypeOK
<1> QED
  BY <1>1, <1>2

\* The steps that change only the phase of their thread.
PhaseStep(t) ==
    \/ IntroWrq(t) \/ IntroRrq(t) \/ RefuseIntro(t)
    \/ CheckBeforeReceive(t)
    \/ Receive(t) \/ Retry(t) \/ GiveUp(t)
    \/ OpenFails(t) \/ WriteFails(t) \/ ReadFails(t)

\* Steps that only move a thread from one wait or check to the next.
LEMMA PhaseStepInv ==
    ASSUME IInv, NEW t \in Threads, PhaseStep(t)
    PROVE  IInv'
<1> USE DEF At, Goto, Busy, Ended
<1>1. PhaseInv(t) /\ FetchInv(t) /\ UploadInv(t) /\ TypeOK
  BY Known
<1>2. tphase[t] = "intro" => ~Admitted(t) /\ fd[t] = None /\ pos[t] = 0
                             /\ Len(fetched[t]) = 0
  BY <1>1 DEF Admitted, PhaseInv, FetchInv
<1>3. tphase[t] \in {"recv", "check", "open", "write", "read"} =>
        (IsWrq(t) => Admitted(t))
  BY DEF Admitted
<1>4. pos[t] \in Nat /\ Len(fetched[t]) \in Nat
  BY <1>1 DEF TypeOK
<1>5. UNCHANGED <<status, sigint, main, dir, content, job, fd, pos, fetched>>
  BY DEF PhaseStep, IntroWrq, IntroRrq, RefuseIntro, CheckBeforeReceive, Receive,
         Retry, GiveUp, OpenFails, WriteFails, ReadFails
<1>6. CASE IntroWrq(t)
  <2> DEFINE ph == IF FileExists(PathOf(t)) THEN "refused" ELSE "check"
  <2>1. MayGo(t, ph)
    BY <1>2, <1>6 DEF IntroWrq, MayGo, FileExists
  <2>2. tphase' = [tphase EXCEPT ![t] = ph]
    BY <1>6 DEF IntroWrq
  <2> HIDE DEF ph
  <2> QED
    BY <1>5, <2>1, <2>2, QuietInv
<1>7. CASE IntroRrq(t)
  <2>1. PICK ph \in {"refused", "check", "read"} : tphase' = [tphase EXCEPT ![t] = ph]
    BY <1>7 DEF IntroRrq
  <2>2. MayGo(t, ph)
    BY <1>2, <1>4, <1>7 DEF IntroRrq, MayGo
  <2> QED
    BY <1>5, <2>1, <2>2, QuietInv
<1>8. CASE RefuseIntro(t)
  <2>1. MayGo(t, "refused") /\ tphase' = [tphase EXCEPT ![t] = "refused"]
    BY <1>2, <1>8 DEF RefuseIntro, MayGo
  <2> QED
    BY <1>5, <2>1, QuietInv
<1>9. CASE CheckBeforeReceive(t)
  <2> DEFINE ph == IF sigint THEN "cleanup" ELSE "recv"
  <2>1. MayGo(t, ph)
    BY <1>1, <1>3, <1>9 DEF CheckBeforeReceive, MayGo, PhaseInv
  <2>2. tphase' = [tphase EXCEPT ![t] = ph]
    BY <1>9 DEF CheckBeforeReceive
  <2> HIDE DEF ph
  <2> QED
    BY <1>5, <2>1, <2>2, QuietInv
<1>10. CASE Receive(t)
  <2> DEFINE ph == IF IsWrq(t) THEN IF fd[t] = None THEN "open" ELSE "write"
                   ELSE IF LastSent(t) THEN "done" ELSE "read"
  <2>1. ~LastSent(t) => pos[t] <= Len(fetched[t])
    BY <1>4 DEF LastSent
  <2>2. MayGo(t, ph)
    BY <1>1, <1>3, <1>10, <2>1 DEF Receive, MayGo, PhaseInv
  <2>3. tphase' = [tphase EXCEPT ![t] = ph]
    BY <1>10 DEF Receive
  <2> HIDE DEF ph
  <2> QED
    BY <1>5, <2>2, <2>3, QuietInv
<1>11. CASE Retry(t)
  <2>1. MayGo(t, "check") /\ tphase' = [tphase EXCEPT ![t] = "check"]
    BY <1>1, <1>3, <1>11 DEF Retry, MayGo, PhaseInv
  <2> QED
    BY <1>5, <2>1, QuietInv
<1>12. CASE GiveUp(t)
  <2>1. PICK ph \in {"failed", "done"} :
          /\ tphase' = [tphase EXCEPT ![t] = ph]
          /\ ph = "done" => ~IsWrq(t) /\ LastSent(t)
    BY <1>12 DEF GiveUp
  <2>2. MayGo(t, ph)
    BY <1>3, <1>12, <2>1 DEF GiveUp, MayGo
  <2> QED
    BY <1>5, <2>1, <2>2, QuietInv
<1>13. CASE OpenFails(t) \/ WriteFails(t) \/ ReadFails(t)
  <2>1. MayGo(t, "failed") /\ tphase' = [tphase EXCEPT ![t] = "failed"]
    BY <1>3, <1>13 DEF OpenFails, WriteFails, ReadFails, MayGo
  <2> QED
    BY <1>5, <2>1, QuietInv
<1> QED
  BY <1>6, <1>7, <1>8, <1>9, <1>10, <1>11, <1>12, <1>13 DEF PhaseStep

\* A new thread has no file yet and is not admitted.
LEMMA AcceptInv ==
    ASSUME IInv, NEW t \in Threads, NEW j \in Jobs, Accept(t, j)
    PROVE  IInv'
<1>1. CASE sigint
  <2>1. UNCHANGED <<status, sigint, dir, content, threadVars>> /\ main' = "signal"
    BY <1>1 DEF Accept
  <2> QED
    BY <2>1, MainInv DEF IInv, TypeOK
<1>2. CASE ~sigint
  <2>1. /\ main' = "check" /\ UNCHANGED <<status, sigint, dir, content, fd, pos, fetched>>
        /\ tphase[t] = "none"
        /\ tphase' = [tphase EXCEPT ![t] = "intro"]
        /\ job' = [job EXCEPT ![t] = j]
    BY <1>2 DEF Accept
  <2>2. \A u \in Threads : PhaseInv(u) /\ FetchInv(u) /\ UploadInv(u)
    BY DEF IInv
  <2>3. job[t] = NoJob /\ fd[t] = None /\ pos[t] = 0 /\ fetched[t] = <<>>
    BY <2>1, <2>2 DEF PhaseInv, FetchInv
  <2>4. job'[t] = j /\ tphase'[t] = "intro"
        /\ \A u \in Threads \ {t} : job'[u] = job[u] /\ tphase'[u] = tphase[u]
    BY <2>1 DEF IInv, TypeOK
  <2>5. TypeOK'
    BY <2>1 DEF IInv, TypeOK, Busy
  <2>6. /\ \A n \in Inodes : ~Writes(t, n) /\ ~Writes(t, n)'
        /\ \A n : \A u \in Threads \ {t} : Writes(u, n)' <=> Writes(u, n)
    BY <2>1, <2>3, <2>4 DEF Writes, IsWrq
  <2>7. \A u \in Threads, n \in Inodes : Writes(u, n)' <=> Writes(u, n)
    BY <2>6
  <2>8. \A u \in Threads \ {t} : PathOf(u)' = PathOf(u) /\ (IsWrq(u)' <=> IsWrq(u))
                                 /\ (Admitted(u)' <=> Admitted(u))
    BY <2>4 DEF PathOf, IsWrq, Admitted
  <2>9. ~Admitted(t)' /\ ~Admitted(t) /\ t \in Inodes
    BY <2>1, <2>4 DEF Admitted, Inodes
  <2>10. \A u \in Threads : u \in Inodes
    BY DEF Inodes
  <2>11. InodeInv'
    <3>1. \A p \in Paths : dir[p] # t
      BY <2>6, <2>9 DEF IInv, InodeInv, Inodes
    <3>2. ASSUME NEW u \in Threads, fd[u] # None
          PROVE  u # t /\ PathOf(u) \in Paths /\ fd[u] # t
      <4>1. u # t /\ PathOf(u) \in Paths
        BY <2>2, <2>3, <3>2, Known DEF PhaseInv
      <4> QED
        BY <2>6, <2>9, <3>2, <4>1 DEF IInv, InodeInv
    <3>3. ASSUME NEW p \in Paths, dir[p] \notin {None, p}
          PROVE  /\ dir[p] \in Threads /\ fd[dir[p]] = dir[p]
                 /\ job'[dir[p]].op = "WRQ" /\ job'[dir[p]].path = p
      BY <2>4, <3>1, <3>3 DEF IInv, InodeInv, Writes, IsWrq, PathOf
    <3>4. ASSUME NEW u \in Threads, fd[u] # None
          PROVE  \/ fd[u] = job'[u].path /\ job'[u].op # "WRQ"
                 \/ /\ fd[u] \in Threads /\ fd[fd[u]] = fd[u]
                    /\ job'[fd[u]].op = "WRQ" /\ job'[fd[u]].path = job'[u].path
      BY <2>4, <3>2, <3>4 DEF IInv, InodeInv, Writes, IsWrq, PathOf
    <3> QED
      BY <2>1, <3>3, <3>4 DEF InodeInv, Writes, IsWrq, PathOf
  <2>12. ContentInv'
    <3>1. \A u \in Threads, n \in Inodes : SoleWriter(u, n)' <=> SoleWriter(u, n)
      BY <2>7 DEF SoleWriter
    <3> QED
      BY <2>1, <2>7, <2>10, <3>1 DEF IInv, ContentInv
  <2>13. PlaceInv'
    BY <2>1, <2>7 DEF IInv, PlaceInv
  <2>14. ASSUME NEW u \in Threads PROVE PhaseInv(u)' /\ FetchInv(u)' /\ UploadInv(u)'
    <3>1. CASE u = t
      <4>1. PhaseInv(t)'
        BY <2>1, <2>3, <2>4 DEF PhaseInv
      <4>2. fd'[t] \notin Inodes /\ Len(fetched'[t]) = 0 /\ fetched'[t] = <<>>
        BY <2>1, <2>3
      <4>3. FetchInv(t)'
        BY <2>4, <4>2 DEF FetchInv
      <4>4. UploadInv(t)'
        BY <2>9 DEF UploadInv
      <4> QED
        BY <3>1, <4>1, <4>3, <4>4
    <3>2. CASE u # t
      <4>1. PhaseInv(u)'
        BY <2>1, <2>2, <2>4, <2>8, <3>2 DEF PhaseInv
      <4>2. \A n \in Inodes : n \in Threads => (SoleWriter(n, n)' <=> SoleWriter(n, n))
        BY <2>7 DEF SoleWriter
      <4>3. LastSent(u)' <=> LastSent(u)
        BY <2>1 DEF LastSent
      <4>4. FetchInv(u)'
        BY <2>1, <2>2, <2>4, <2>8, <3>2, <4>2, <4>3 DEF FetchInv, Inodes
      <4>5. Alone(u)' => Alone(u)
        BY <2>8, <2>9, <3>2 DEF Alone
      <4>6. UploadInv(u)'
        BY <2>1, <2>2, <2>8, <3>2, <4>5 DEF UploadInv
      <4> QED
        BY <4>1, <4>4, <4>6
    <3> QED
      BY <3>1, <3>2
  <2> QED
    BY <2>5, <2>11, <2>12, <2>13, <2>14 DEF IInv
<1> QED
  BY <1>1, <1>2

-----------------------------------------------------------------------------
(* The steps that touch a file.                                             *)

\* Whoever has a file open was admitted for its path, and is at most a reader
\* of an old one.
LEMMA OpenFacts ==
    ASSUME IInv, NEW u \in Threads, fd[u] # None
    PROVE  /\ job[u] \in Jobs /\ PathOf(u) \in Paths
           /\ IsWrq(u) => Admitted(u)
           /\ \/ fd[u] = PathOf(u) /\ fd[u] \in Paths /\ ~IsWrq(u)
              \/ /\ fd[u] \in Threads
                 /\ Writes(fd[u], fd[u]) /\ PathOf(fd[u]) = PathOf(u)
<1>1. PhaseInv(u)
  BY DEF IInv
<1>2. tphase[u] \notin {"none", "intro", "refused"}
  BY <1>1 DEF PhaseInv
<1>3. job[u] \in Jobs /\ PathOf(u) \in Paths
  BY <1>2, Known
<1>4. IsWrq(u) => Admitted(u)
  BY <1>2 DEF Admitted
<1> QED
  BY <1>3, <1>4 DEF IInv, InodeInv

\* A step of one thread, for the conjuncts of the others.
LEMMA OthersPhase ==
    ASSUME IInv, NEW t \in Threads, NEW u \in Threads \ {t}, UNCHANGED <<sigint, job>>,
           tphase'[u] = tphase[u], fd'[u] = fd[u], pos'[u] = pos[u]
    PROVE  PhaseInv(u)'
<1>1. PhaseInv(u)
  BY DEF IInv
<1> QED
  BY <1>1 DEF PhaseInv, IsWrq

\* What another reader has fetched stays right when its file gets no new sole
\* writer.
LEMMA OthersFetch ==
    ASSUME IInv, NEW t \in Threads, NEW u \in Threads \ {t}, UNCHANGED job,
           tphase'[u] = tphase[u], fd'[u] = fd[u], pos'[u] = pos[u],
           fetched'[u] = fetched[u],
           \A n \in Threads : ~IsWrq(u) /\ fd[u] = n /\ SoleWriter(n, n)'
                             => SoleWriter(n, n)
    PROVE  FetchInv(u)'
<1>1. FetchInv(u)
  BY DEF IInv
<1>2. (LastSent(u)' <=> LastSent(u)) /\ (IsWrq(u)' <=> IsWrq(u))
  BY DEF LastSent, IsWrq
<1>3. ASSUME ~IsWrq(u), NEW n \in Inodes, fd[u] = n, n \in Paths \/ SoleWriter(n, n)'
      PROVE  fetched[u] = Input(n, Len(fetched[u]))
  <2>1. n \in Paths \/ SoleWriter(n, n)
    BY <1>3 DEF Inodes
  <2> QED
    BY <1>1, <1>3, <2>1 DEF FetchInv
<1>4. ~IsWrq(u) => \A n \in Inodes : fd[u] = n =>
          /\ n \in Paths \/ SoleWriter(n, n)' => fetched[u] = Input(n, Len(fetched[u]))
          /\ n \in Paths /\ Len(fetched[u]) < pos[u] => Len(fetched[u]) = NBlocks
  BY <1>1, <1>3 DEF FetchInv
<1>5. /\ Len(fetched[u]) <= NBlocks
      /\ pos[u] = 0 => fetched[u] = <<>>
      /\ ~IsWrq(u) => /\ tphase[u] \notin {"open", "write"}
                      /\ tphase[u] = "read" => pos[u] <= Len(fetched[u])
                      /\ tphase[u] = "done" => LastSent(u)
  BY <1>1 DEF FetchInv
<1> QED
  BY <1>2, <1>4, <1>5 DEF FetchInv

\* An upload opens a path that is still free: the new file is its own.
LEMMA OpenNewInv ==
    ASSUME IInv, NEW t \in Threads, OpenFile(t), dir[PathOf(t)] = None
    PROVE  IInv'
<1> DEFINE q == PathOf(t)
<1>1. PhaseInv(t) /\ FetchInv(t) /\ UploadInv(t) /\ TypeOK /\ job[t] \in Jobs /\ q \in Paths
      /\ tphase[t] = "open"
  BY Known DEF OpenFile, At
<1>2. IsWrq(t) /\ fd[t] = None /\ pos[t] = 0 /\ 0 < NBlocks /\ fetched[t] = <<>>
  BY <1>1 DEF PhaseInv, FetchInv
<1>3. /\ dir' = [dir EXCEPT ![q] = t]
      /\ content' = [content EXCEPT ![t] = <<>>]
      /\ fd' = [fd EXCEPT ![t] = t]
      /\ tphase' = [tphase EXCEPT ![t] = "write"]
      /\ UNCHANGED <<status, sigint, main, job, pos, fetched>>
  BY DEF OpenFile, FileExists, Goto
<1>4. /\ t \in Inodes /\ t # None /\ t \notin Paths /\ q \notin Threads /\ q # None
      /\ \A p \in Paths : p \in Inodes
      /\ \A u \in Threads : u \in Inodes
  BY <1>1 DEF Inodes
<1>5. /\ dir'[q] = t /\ content'[t] = <<>> /\ fd'[t] = t /\ tphase'[t] = "write"
      /\ \A p \in Paths \ {q} : dir'[p] = dir[p]
      /\ \A n \in Inodes \ {t} : content'[n] = content[n]
      /\ \A u \in Threads \ {t} : fd'[u] = fd[u] /\ tphase'[u] = tphase[u]
  BY <1>1, <1>3, <1>4 DEF TypeOK
<1>6. TypeOK'
  <2>1. <<>> \in Seq(Blocks)
    OBVIOUS
  <2> QED
    BY <1>1, <1>3, <1>4, <2>1 DEF TypeOK, Blocks, Busy
<1>7. (\A u \in Threads : fd[u] # t) /\ (\A p \in Paths : dir[p] # t)
  <2>1. \A u \in Threads : fd[u] # t
    BY <1>2, <1>4, OpenFacts DEF Writes
  <2>2. \A p \in Paths : dir[p] # t
    BY <1>2, <1>4 DEF IInv, InodeInv, Writes
  <2> QED
    BY <2>1, <2>2
<1>8. /\ \A u \in Threads \ {t}, n \in Inodes : Writes(u, n)' <=> Writes(u, n)
      /\ \A n \in Inodes \ {t} : ~Writes(t, n)' /\ ~Writes(t, n)
      /\ Writes(t, t)'
      /\ \A u \in Threads \ {t} : ~Writes(u, t)'
  BY <1>2, <1>3, <1>5, <1>7 DEF Writes, IsWrq
<1>9. \A n \in Inodes \ {t} : \A u \in Threads : Writes(u, n)' <=> Writes(u, n)
  BY <1>8
<1>10. ASSUME NEW u \in Threads \ {t} PROVE SoleWriter(u, u)' <=> SoleWriter(u, u)
  <2>1. u \in Inodes \ {t}
    BY <1>4
  <2>2. \A v \in Threads : Writes(v, u)' <=> Writes(v, u)
    BY <1>9, <2>1
  <2> QED
    BY <2>2 DEF SoleWriter
<1>11. InodeInv'
  <2>1. job'[t].op = "WRQ" /\ job'[t].path = q /\ job' = job
    BY <1>2, <1>3 DEF IsWrq, PathOf
  <2>2. ASSUME NEW p \in Paths, dir'[p] \notin {None, p}
        PROVE  /\ dir'[p] \in Threads /\ fd'[dir'[p]] = dir'[p]
               /\ job'[dir'[p]].op = "WRQ" /\ job'[dir'[p]].path = p
    <3>1. CASE p = q
      BY <1>5, <2>1, <3>1
    <3>2. CASE p # q
      BY <1>5, <1>7, <2>1, <2>2, <3>2 DEF IInv, InodeInv, Writes, IsWrq, PathOf
    <3> QED
      BY <3>1, <3>2
  <2>3. ASSUME NEW u \in Threads, fd'[u] # None
        PROVE  \/ fd'[u] = job'[u].path /\ job'[u].op # "WRQ"
               \/ /\ fd'[u] \in Threads /\ fd'[fd'[u]] = fd'[u]
                  /\ job'[fd'[u]].op = "WRQ" /\ job'[fd'[u]].path = job'[u].path
    <3>1. CASE u = t
      BY <1>5, <2>1, <3>1
    <3>2. CASE u # t
      BY <1>5, <1>7, <2>1, <2>3, <3>2 DEF IInv, InodeInv, Writes, IsWrq, PathOf
    <3> QED
      BY <3>1, <3>2
  <2> QED
    BY <2>2, <2>3 DEF InodeInv, Writes, IsWrq, PathOf
<1>12. ContentInv'
  <2>0. ContentInv
    BY DEF IInv
  <2>1. \A n \in Inodes : Len(content'[n]) <= NBlocks
    BY <1>2, <1>4, <1>5, <2>0 DEF ContentInv
  <2>2. ASSUME NEW p \in Paths
        PROVE  \/ content'[p] = Input(p, NBlocks)
               \/ dir'[p] # p /\ \A u \in Threads : fd'[u] # p
    BY <1>4, <1>5, <2>0 DEF ContentInv
  <2>3. ASSUME NEW u \in Threads, SoleWriter(u, u)'
        PROVE  content'[u] = Input(u, pos'[u])
    <3>1. CASE u = t
      BY <1>2, <1>3, <1>4, <1>5, <3>1, InputFacts
    <3>2. CASE u # t
      BY <1>3, <1>4, <1>5, <1>10, <2>0, <2>3, <3>2 DEF ContentInv
    <3> QED
      BY <3>1, <3>2
  <2>4. ASSUME NEW n \in Inodes, NEW u \in Threads, Writes(u, n)'
        PROVE  \/ pos'[u] <= Len(content'[n])
               \/ \E v \in Threads \ {u} : Writes(v, n)'
    <3>1. CASE n = t
      BY <1>2, <1>3, <1>5, <1>8, <2>4, <3>1
    <3>2. CASE n # t
      BY <1>3, <1>5, <1>9, <2>0, <2>4, <3>2 DEF ContentInv
    <3> QED
      BY <3>1, <3>2
  <2> QED
    BY <2>1, <2>2, <2>3, <2>4 DEF ContentInv
<1>13. PlaceInv'
  <2> SUFFICES ASSUME NEW n \in Inodes, NEW i \in 1 .. Len(content'[n])
               PROVE  \/ content'[n][i][2] = i
                      \/ /\ content'[n][i] = Hole
                         /\ \E u \in Threads : \E v \in Threads \ {u} :
                               Writes(u, n)' /\ Writes(v, n)'
    BY DEF PlaceInv
  <2>1. n # t
    BY <1>5
  <2> QED
    BY <1>5, <1>9, <2>1 DEF IInv, PlaceInv
<1>14. \A u \in Threads : PathOf(u)' = PathOf(u) /\ (Admitted(u)' <=> Admitted(u))
  BY <1>1, <1>3, <1>5 DEF PathOf, Admitted, IsWrq
<1>15. Admitted(t)
  BY <1>1, <1>2 DEF Admitted
<1>16. ASSUME NEW u \in Threads PROVE PhaseInv(u)' /\ FetchInv(u)' /\ UploadInv(u)'
  <2>1. CASE u = t
    <3>1. PhaseInv(t)'
      BY <1>1, <1>2, <1>3, <1>4, <1>5 DEF PhaseInv, IsWrq
    <3>2. FetchInv(t)'
      BY <1>1, <1>2, <1>3 DEF FetchInv, IsWrq
    <3>3. UploadInv(t)'
      BY <1>4, <1>5, <1>14 DEF UploadInv
    <3> QED
      BY <2>1, <3>1, <3>2, <3>3
  <2>2. CASE u # t
    <3>1. PhaseInv(u)'
      BY <1>3, <1>5, <2>2, OthersPhase
    <3>2. \A n \in Threads : fd[u] = n /\ SoleWriter(n, n)' => SoleWriter(n, n)
      BY <1>7, <1>10
    <3>3. FetchInv(u)'
      BY <1>3, <1>5, <2>2, <3>2, OthersFetch
    <3>4. UploadInv(u)'
      <4>1. CASE PathOf(u) = q
        BY <1>4, <1>5, <1>14, <1>15, <2>2, <4>1 DEF UploadInv, Alone
      <4>2. CASE PathOf(u) # q
        <5>1. Admitted(u) => PathOf(u) \in Paths
          BY Known DEF Admitted
        <5>2. Alone(u)' => Alone(u)
          BY <1>14 DEF Alone
        <5> QED
          BY <1>3, <1>5, <1>14, <2>2, <4>2, <5>1, <5>2 DEF IInv, UploadInv
      <4> QED
        BY <4>1, <4>2
    <3> QED
      BY <3>1, <3>3, <3>4
  <2> QED
    BY <2>1, <2>2
<1> QED
  BY <1>6, <1>11, <1>12, <1>13, <1>16 DEF IInv

\* An upload opens a path that another one created since it was admitted: it
\* empties that one's file, and from then on the file has two writers.
LEMMA OpenSharedInv ==
    ASSUME IInv, NEW t \in Threads, OpenFile(t), dir[PathOf(t)] # None
    PROVE  IInv'
<1> DEFINE q == PathOf(t)
           w == dir[q]
<1>1. PhaseInv(t) /\ FetchInv(t) /\ UploadInv(t) /\ TypeOK /\ job[t] \in Jobs /\ q \in Paths
      /\ tphase[t] = "open"
  BY Known DEF OpenFile, At
<1>2. IsWrq(t) /\ fd[t] = None /\ pos[t] = 0 /\ 0 < NBlocks /\ fetched[t] = <<>>
  BY <1>1 DEF PhaseInv, FetchInv
<1>3. Admitted(t)
  BY <1>1, <1>2 DEF Admitted
<1>4. /\ w \in Threads \ {t} /\ Writes(w, w) /\ PathOf(w) = q
      /\ w \in Inodes /\ w # None /\ w \notin Paths
  <2>1. w # q
    BY <1>1, <1>3 DEF UploadInv
  <2>2. w \in Threads /\ Writes(w, w) /\ PathOf(w) = q
    BY <1>1, <2>1 DEF IInv, InodeInv
  <2> QED
    BY <1>2, <2>2 DEF Writes, Inodes
<1>5. fd[w] = w /\ IsWrq(w) /\ Admitted(w)
  BY <1>4, OpenFacts DEF Writes
<1>6. /\ dir' = dir
      /\ content' = [content EXCEPT ![w] = <<>>]
      /\ fd' = [fd EXCEPT ![t] = w]
      /\ tphase' = [tphase EXCEPT ![t] = "write"]
      /\ UNCHANGED <<status, sigint, main, job, pos, fetched>>
  <2>1. dir' = [dir EXCEPT ![q] = dir[q]]
    BY DEF OpenFile, FileExists
  <2>2. dir' = dir
    BY <1>1, <2>1 DEF TypeOK
  <2> QED
    BY <2>2 DEF OpenFile, FileExists, Goto
<1> HIDE DEF w
<1>7. /\ content'[w] = <<>> /\ fd'[t] = w /\ tphase'[t] = "write"
      /\ \A n \in Inodes \ {w} : content'[n] = content[n]
      /\ \A u \in Threads \ {t} : fd'[u] = fd[u] /\ tphase'[u] = tphase[u]
  BY <1>1, <1>4, <1>6 DEF TypeOK
<1>8. TypeOK'
  <2>1. <<>> \in Seq(Blocks)
    OBVIOUS
  <2> QED
    BY <1>1, <1>4, <1>6, <2>1 DEF TypeOK, Blocks, Busy
<1>9. /\ \A u \in Threads, n \in Inodes : Writes(u, n) => Writes(u, n)'
      /\ \A u \in Threads, n \in Inodes \ {w} : Writes(u, n)' => Writes(u, n)
      /\ \A n \in {w} : Writes(t, n)' /\ Writes(n, n)'
  BY <1>2, <1>4, <1>5, <1>6, <1>7 DEF Writes, IsWrq
<1>10. ASSUME NEW u \in Threads, SoleWriter(u, u)'
       PROVE  u # w /\ SoleWriter(u, u)
  <2>1. u # w
    BY <1>4, <1>9, <1>10 DEF SoleWriter
  <2>2. u \in Inodes \ {w}
    BY <2>1 DEF Inodes
  <2> QED
    BY <1>9, <1>10, <2>1, <2>2 DEF SoleWriter
<1>11. InodeInv'
  <2>1. job'[w].op = "WRQ" /\ job'[w].path = q /\ job'[t].path = q /\ job' = job
    BY <1>4, <1>5, <1>6 DEF IsWrq, PathOf
  <2>2. ASSUME NEW p \in Paths, dir[p] \notin {None, p}
        PROVE  /\ dir[p] \in Threads /\ fd'[dir[p]] = dir[p]
               /\ job'[dir[p]].op = "WRQ" /\ job'[dir[p]].path = p
    BY <1>2, <1>7, <2>1, <2>2 DEF IInv, InodeInv, Writes, IsWrq, PathOf
  <2>3. ASSUME NEW u \in Threads, fd'[u] # None
        PROVE  \/ fd'[u] = job'[u].path /\ job'[u].op # "WRQ"
               \/ /\ fd'[u] \in Threads /\ fd'[fd'[u]] = fd'[u]
                  /\ job'[fd'[u]].op = "WRQ" /\ job'[fd'[u]].path = job'[u].path
    <3>1. CASE u = t
      BY <1>4, <1>5, <1>7, <2>1, <3>1
    <3>2. CASE u # t
      BY <1>2, <1>7, <2>1, <2>3, <3>2 DEF IInv, InodeInv, Writes, IsWrq, PathOf
    <3> QED
      BY <3>1, <3>2
  <2> QED
    BY <1>6, <2>2, <2>3 DEF InodeInv, Writes, IsWrq, PathOf
<1>12. ContentInv'
  <2>0. ContentInv
    BY DEF IInv
  <2>1. \A n \in Inodes : Len(content'[n]) <= NBlocks
    BY <1>2, <1>7, <2>0 DEF ContentInv
  <2>2. ASSUME NEW p \in Paths
        PROVE  \/ content'[p] = Input(p, NBlocks)
               \/ dir'[p] # p /\ \A u \in Threads : fd'[u] # p
    <3>1. p \in Inodes \ {w}
      BY <1>4 DEF Inodes
    <3> QED
      BY <1>4, <1>6, <1>7, <2>0, <3>1 DEF ContentInv
  <2>3. ASSUME NEW u \in Threads, SoleWriter(u, u)'
        PROVE  content'[u] = Input(u, pos'[u])
    <3>1. u \in Inodes \ {w} /\ SoleWriter(u, u)
      BY <1>10, <2>3 DEF Inodes
    <3> QED
      BY <1>6, <1>7, <2>0, <3>1 DEF ContentInv
  <2>4. ASSUME NEW n \in Inodes, NEW u \in Threads, Writes(u, n)'
        PROVE  \/ pos'[u] <= Len(content'[n])
               \/ \E v \in Threads \ {u} : Writes(v, n)'
    <3>1. CASE n = w
      BY <1>4, <1>9, <3>1
    <3>2. CASE n # w
      BY <1>6, <1>7, <1>9, <2>0, <2>4, <3>2 DEF ContentInv
    <3> QED
      BY <3>1, <3>2
  <2> QED
    BY <2>1, <2>2, <2>3, <2>4 DEF ContentInv
<1>13. PlaceInv'
  <2> SUFFICES ASSUME NEW n \in Inodes, NEW i \in 1 .. Len(content'[n])
               PROVE  \/ content'[n][i][2] = i
                      \/ /\ content'[n][i] = Hole
                         /\ \E u \in Threads : \E v \in Threads \ {u} :
                               Writes(u, n)' /\ Writes(v, n)'
    BY DEF PlaceInv
  <2>1. n # w
    BY <1>7
  <2>2. content'[n] = content[n]
    BY <1>7, <2>1
  <2>3. \/ content[n][i][2] = i
        \/ /\ content[n][i] = Hole
           /\ \E u \in Threads : \E v \in Threads \ {u} : Writes(u, n) /\ Writes(v, n)
    BY <2>2 DEF IInv, PlaceInv
  <2> QED
    BY <1>9, <2>2, <2>3
<1>14. \A u \in Threads : PathOf(u)' = PathOf(u) /\ (Admitted(u)' <=> Admitted(u))
  BY <1>1, <1>6, <1>7 DEF PathOf, Admitted, IsWrq
<1>15. \A u \in Threads : Alone(u)' => Alone(u)
  BY <1>14 DEF Alone
<1>16. ASSUME NEW u \in Threads PROVE PhaseInv(u)' /\ FetchInv(u)' /\ UploadInv(u)'
  <2>1. CASE u = t
    <3>1. PhaseInv(t)'
      BY <1>1, <1>2, <1>4, <1>6, <1>7 DEF PhaseInv, IsWrq
    <3>2. FetchInv(t)'
      BY <1>1, <1>2, <1>6 DEF FetchInv, IsWrq
    <3>3. ~Alone(t)
      BY <1>4, <1>5 DEF Alone
    <3>4. UploadInv(t)'
      BY <1>1, <1>3, <1>6, <1>14, <1>15, <3>3 DEF UploadInv
    <3> QED
      BY <2>1, <3>1, <3>2, <3>4
  <2>2. CASE u # t
    <3>1. PhaseInv(u)'
      BY <1>6, <1>7, <2>2, OthersPhase
    <3>2. FetchInv(u)'
      BY <1>6, <1>7, <1>10, <2>2, OthersFetch
    <3>3. UploadInv(u)'
      BY <1>6, <1>7, <1>14, <1>15, <2>2 DEF IInv, UploadInv
    <3> QED
      BY <3>1, <3>2, <3>3
  <2> QED
    BY <2>1, <2>2
<1> QED
  BY <1>8, <1>11, <1>12, <1>13, <1>16 DEF IInv

\* Every block goes to its own place; one that leaves a gap before it is
\* written by one of two writers.
LEMMA WriteFileInv ==
    ASSUME IInv, NEW t \in Threads, WriteFile(t)
    PROVE  IInv'
<1> DEFINE n == fd[t]
           i == pos[t] + 1
           b == Block(t, i)
           ph == IF i = NBlocks THEN "done" ELSE "check"
<1>1. PhaseInv(t) /\ FetchInv(t) /\ UploadInv(t) /\ TypeOK /\ job[t] \in Jobs
      /\ tphase[t] = "write"
  BY Known DEF WriteFile, At
<1>2. IsWrq(t) /\ n # None /\ pos[t] \in Nat /\ i \in 1 .. NBlocks /\ pos[t] = i - 1
  BY <1>1 DEF PhaseInv, FetchInv, TypeOK
<1>3. /\ n \in Threads /\ n \in Inodes /\ n \notin Paths
      /\ Writes(n, n) /\ Writes(t, n)
  BY <1>2, OpenFacts DEF Inodes, Writes
<1>4. /\ content' = [content EXCEPT ![n] = Written(content[n], i, b)]
      /\ pos' = [pos EXCEPT ![t] = i]
      /\ tphase' = [tphase EXCEPT ![t] = ph]
      /\ UNCHANGED <<status, sigint, main, dir, job, fd, fetched>>
  BY DEF WriteFile, Goto
<1>5. b \in Blocks /\ b[2] = i
  BY <1>2 DEF Blocks, Block, Inodes
<1>6. content[n] \in Seq(Blocks) /\ Len(content[n]) <= NBlocks
  BY <1>1, <1>3 DEF TypeOK, Blocks, IInv, ContentInv
<1>7. ph \in {"done", "check"} /\ (ph = "check" => i < NBlocks)
  BY <1>2
<1> DEFINE old == content[n]
           new == Written(old, i, b)
<1> HIDE DEF i, b, ph, n, Hole, old
<1>8. /\ new \in Seq(Blocks) /\ Len(new) <= NBlocks
      /\ Len(new) = IF Len(old) < i THEN i ELSE Len(old)
      /\ new[i] = b
      /\ \A k \in 1 .. Len(new) : k # i => new[k] = IF k <= Len(old) THEN old[k] ELSE Hole
  <2>1. old \in Seq(Blocks) /\ Len(old) <= NBlocks
    BY <1>6 DEF old
  <2>2. i \in 1 .. NBlocks /\ b \in Blocks
    BY <1>2, <1>5
  <2>3. \A s \in Seq(Blocks) : Len(s) <= NBlocks =>
          /\ Written(s, i, b) \in Seq(Blocks)
          /\ Len(Written(s, i, b)) = IF Len(s) < i THEN i ELSE Len(s)
          /\ Len(Written(s, i, b)) <= NBlocks
          /\ Written(s, i, b)[i] = b
          /\ \A k \in 1 .. Len(Written(s, i, b)) : k # i =>
                Written(s, i, b)[k] = IF k <= Len(s) THEN s[k] ELSE Hole
    BY <2>2, WrittenFacts
  <2> QED
    BY <2>1, <2>3
<1>9. /\ content'[n] = new /\ pos'[t] = i /\ tphase'[t] = ph
      /\ \A m \in Inodes \ {n} : content'[m] = content[m]
      /\ \A u \in Threads \ {t} : pos'[u] = pos[u] /\ tphase'[u] = tphase[u]
  BY <1>1, <1>3, <1>4 DEF TypeOK, old
<1>10. TypeOK'
  <2>1. content' \in [Inodes -> Seq(Blocks)]
    BY <1>1, <1>3, <1>4, <1>8 DEF TypeOK, Blocks, old
  <2>2. pos' \in [Threads -> 0 .. NBlocks + 1]
    BY <1>1, <1>2, <1>4 DEF TypeOK
  <2>3. tphase' \in [Threads -> {"none"} \cup Busy \cup Ended]
    BY <1>1, <1>4, <1>7 DEF TypeOK, Busy, Ended
  <2> QED
    BY <1>1, <1>4, <2>1, <2>2, <2>3 DEF TypeOK, Blocks
<1>11. \A u \in Threads, m \in Inodes : Writes(u, m)' <=> Writes(u, m)
  BY <1>4 DEF Writes, IsWrq
<1>12. \A u \in Threads, m \in Inodes : SoleWriter(u, m)' <=> SoleWriter(u, m)
  BY <1>11 DEF SoleWriter
<1>13. InodeInv'
  BY <1>4 DEF IInv, InodeInv, Writes, IsWrq, PathOf
<1>14. ContentInv'
  <2>0. ContentInv
    BY DEF IInv
  <2>1. \A m \in Inodes : Len(content'[m]) <= NBlocks
    BY <1>8, <1>9, <2>0 DEF ContentInv
  <2>2. \A p \in Paths :
          \/ content'[p] = Input(p, NBlocks)
          \/ dir'[p] # p /\ \A u \in Threads : fd'[u] # p
    <3>1. \A p \in Paths : p \in Inodes \ {n}
      BY <1>3 DEF Inodes
    <3> QED
      BY <1>4, <1>9, <2>0, <3>1 DEF ContentInv
  <2>3. ASSUME NEW u \in Threads, SoleWriter(u, u)'
        PROVE  content'[u] = Input(u, pos'[u])
    <3>1. SoleWriter(u, u) /\ u \in Inodes /\ content[u] = Input(u, pos[u])
      BY <1>12, <2>0, <2>3 DEF ContentInv, Inodes
    <3>2. CASE u = n
      <4>1. u = t
        BY <1>3, <3>1, <3>2 DEF SoleWriter
      <4>2. i - 1 \in 0 .. NBlocks - 1 /\ (i - 1) + 1 = i
        BY <1>2
      <4>3. Written(Input(t, i - 1), i, b) = Input(t, i)
        BY <3>1, <4>1, <4>2, WrittenInput DEF b
      <4> QED
        BY <1>2, <1>9, <3>1, <3>2, <4>1, <4>3 DEF old
    <3>3. CASE u # n
      <4>1. u # t
        BY <1>3, <3>1, <3>3 DEF SoleWriter, Writes
      <4> QED
        BY <1>9, <3>1, <3>3, <4>1
    <3> QED
      BY <3>2, <3>3
  <2>4. ASSUME NEW m \in Inodes, NEW u \in Threads, Writes(u, m)'
        PROVE  \/ pos'[u] <= Len(content'[m])
               \/ \E v \in Threads \ {u} : Writes(v, m)'
    <3>1. Writes(u, m)
      BY <1>11, <2>4
    <3>2. \/ pos[u] <= Len(content[m])
          \/ \E v \in Threads \ {u} : Writes(v, m)'
      BY <1>11, <2>0, <3>1 DEF ContentInv
    <3>3. CASE u = t
      <4>1. m = n
        BY <1>3, <3>1, <3>3 DEF Writes
      <4>2. i <= Len(new)
        BY <1>2, <1>6, <1>8 DEF old
      <4> QED
        BY <1>9, <3>3, <4>1, <4>2
    <3>4. CASE u # t /\ m = n
      <4>1. Len(old) <= Len(new) /\ pos[u] \in Nat /\ Len(old) \in Nat /\ Len(new) \in Nat
        BY <1>1, <1>2, <1>6, <1>8 DEF old, TypeOK
      <4>2. pos'[u] = pos[u] /\ content'[m] = new /\ content[m] = old
        BY <1>9, <3>4 DEF old
      <4> QED
        BY <3>2, <4>1, <4>2
    <3>5. CASE u # t /\ m # n
      BY <1>9, <3>2, <3>5
    <3> QED
      BY <3>3, <3>4, <3>5
  <2> QED
    BY <2>1, <2>2, <2>3, <2>4 DEF ContentInv
<1>15. PlaceInv'
  <2> SUFFICES ASSUME NEW m \in Inodes, NEW k \in 1 .. Len(content'[m])
               PROVE  \/ content'[m][k][2] = k
                      \/ /\ content'[m][k] = Hole
                         /\ \E u \in Threads : \E v \in Threads \ {u} :
                               Writes(u, m)' /\ Writes(v, m)'
    BY DEF PlaceInv
  <2>0. \A j \in 1 .. Len(content[m]) :
            \/ content[m][j][2] = j
            \/ /\ content[m][j] = Hole
               /\ \E u \in Threads : \E v \in Threads \ {u} :
                     Writes(u, m)' /\ Writes(v, m)'
    BY <1>11 DEF IInv, PlaceInv
  <2>1. CASE m # n
    BY <1>9, <2>0, <2>1
  <2>2. CASE m = n
    <3>1. content'[m] = new /\ content[m] = old /\ k \in 1 .. Len(new)
      BY <1>9, <2>2 DEF old
    <3>2. CASE k = i
      BY <1>5, <1>8, <3>1, <3>2
    <3>3. CASE k # i /\ k <= Len(old)
      <4>1. new[k] = old[k] /\ k \in 1 .. Len(old)
        BY <1>6, <1>8, <3>1, <3>3 DEF old
      <4> QED
        BY <2>0, <3>1, <4>1
    <3>4. CASE k # i /\ ~(k <= Len(old))
      <4>1. new[k] = Hole
        BY <1>8, <3>1, <3>4
      <4>2. ~(pos[t] <= Len(old))
        BY <1>2, <1>6, <1>8, <3>1, <3>4 DEF old
      <4>3. \E v \in Threads \ {t} : Writes(v, n)
        BY <1>3, <4>2 DEF IInv, ContentInv, old
      <4> QED
        BY <1>3, <1>11, <2>2, <3>1, <4>1, <4>3
    <3> QED
      BY <3>2, <3>3, <3>4
  <2> QED
    BY <2>1, <2>2
<1>16. \A u \in Threads : /\ PathOf(u)' = PathOf(u)
                          /\ Admitted(u)' <=> Admitted(u)
                          /\ Alone(u)' => Alone(u)
  <2>1. \A u \in Threads : PathOf(u)' = PathOf(u) /\ (Admitted(u)' <=> Admitted(u))
    BY <1>1, <1>4, <1>7, <1>9 DEF PathOf, Admitted, IsWrq
  <2> QED
    BY <2>1 DEF Alone
<1>17. ASSUME NEW u \in Threads PROVE PhaseInv(u)' /\ FetchInv(u)' /\ UploadInv(u)'
  <2>1. UploadInv(u)'
    BY <1>4, <1>16 DEF IInv, UploadInv
  <2>2. CASE u = t
    <3>1. PhaseInv(t)'
      BY <1>1, <1>2, <1>4, <1>7, <1>9 DEF PhaseInv, IsWrq, n
    <3>2. FetchInv(t)'
      BY <1>1, <1>2, <1>4, <1>9 DEF FetchInv, IsWrq
    <3> QED
      BY <2>1, <2>2, <3>1, <3>2
  <2>3. CASE u # t
    <3>1. PhaseInv(u)'
      BY <1>4, <1>9, <2>3, OthersPhase
    <3>2. \A m \in Threads : SoleWriter(m, m)' => SoleWriter(m, m)
      BY <1>12 DEF Inodes
    <3>3. FetchInv(u)'
      BY <1>4, <1>9, <2>3, <3>2, OthersFetch
    <3> QED
      BY <2>1, <3>1, <3>3
  <2> QED
    BY <2>2, <2>3
<1> QED
  BY <1>10, <1>13, <1>14, <1>15, <1>17 DEF IInv

\* What a download reads of an old file, or of a file with one writer,
\* continues what it has read of it; an old one is at its end only there.
LEMMA ReadFileInv ==
    ASSUME IInv, NEW t \in Threads, ReadFile(t)
    PROVE  IInv'
<1> DEFINE n == IF fd[t] = None THEN dir[PathOf(t)] ELSE fd[t]
           i == pos[t] + 1
           f == fetched[t]
<1>1. PhaseInv(t) /\ FetchInv(t) /\ TypeOK /\ job[t] \in Jobs /\ PathOf(t) \in Paths
      /\ dir[PathOf(t)] \in Inodes \cup {None} /\ tphase[t] = "read"
  BY Known DEF ReadFile, At
<1>2. ~IsWrq(t) /\ pos[t] \in Nat /\ pos[t] <= Len(f) /\ f \in Seq(Blocks)
      /\ Len(f) \in Nat /\ Len(f) <= NBlocks /\ i \in 1 .. NBlocks + 1 /\ pos[t] = i - 1
  <2>1. ~IsWrq(t)
    BY <1>1 DEF PhaseInv
  <2>2. f \in Seq(Blocks) /\ pos[t] \in Nat
    BY <1>1 DEF TypeOK, Blocks
  <2>3. Len(f) \in Nat
    BY <2>2
  <2>4. pos[t] <= Len(f) /\ Len(f) <= NBlocks
    BY <1>1, <2>1 DEF FetchInv
  <2> HIDE DEF f
  <2> QED
    BY <2>1, <2>2, <2>3, <2>4
<1>3. /\ \/ n = PathOf(t) /\ n \in Paths /\ (fd[t] = n \/ dir[n] = n)
         \/ n \in Threads /\ Writes(n, n) /\ PathOf(n) = PathOf(t)
      /\ n \in Inodes /\ n # None
      /\ fd[t] = n \/ (fd[t] = None /\ pos[t] = 0 /\ f = <<>>)
  <2>1. CASE fd[t] = None
    <3>1. n = dir[PathOf(t)] /\ n # None /\ pos[t] = 0 /\ f = <<>>
      BY <1>1, <2>1 DEF ReadFile, FileExists, PhaseInv, FetchInv
    <3> HIDE DEF n, f
    <3> QED
      BY <1>1, <2>1, <3>1 DEF IInv, InodeInv, Inodes
  <2>2. CASE fd[t] # None
    BY <2>2, OpenFacts DEF Inodes
  <2> QED
    BY <2>1, <2>2
<1>4. /\ fd' = [fd EXCEPT ![t] = n]
      /\ pos' = [pos EXCEPT ![t] = i]
      /\ tphase' = [tphase EXCEPT ![t] = "check"]
      /\ UNCHANGED <<status, sigint, main, dir, content, job>>
      /\ IF Len(f) < i /\ i <= Len(content[n])
         THEN \E k \in i .. Len(content[n]) :
                 fetched' = [fetched EXCEPT ![t] = f \o SubSeq(content[n], i, k)]
         ELSE UNCHANGED fetched
  BY DEF ReadFile, Goto
<1>5. content[n] \in Seq(Blocks) /\ Len(content[n]) \in Nat /\ Len(content[n]) <= NBlocks
  <2>1. content[n] \in Seq(Blocks)
    BY <1>1, <1>3 DEF TypeOK, Blocks
  <2> QED
    BY <1>3, <2>1 DEF IInv, ContentInv
<1> DEFINE c == content[n]
           g == fetched'[t]
<1> HIDE DEF n, i, f
<1>6. /\ g \in Seq(Blocks) /\ Len(g) <= NBlocks
      /\ \/ /\ Len(f) = i - 1 /\ i <= Len(c)
            /\ \E k \in i .. Len(c) : Len(g) = k /\ g = f \o SubSeq(c, i, k)
         \/ g = f /\ i <= Len(f)
         \/ g = f /\ Len(f) = i - 1 /\ ~(i <= Len(c))
      /\ fetched' \in [Threads -> Seq(Blocks)]
      /\ \A u \in Threads \ {t} : fetched'[u] = fetched[u]
  <2>1. fetched \in [Threads -> Seq(Blocks)]
    BY <1>1 DEF TypeOK, Blocks
  <2>2. ASSUME NEW k \in i .. Len(c),
               fetched' = [fetched EXCEPT ![t] = f \o SubSeq(c, i, k)],
               Len(f) < i
        PROVE  /\ g = f \o SubSeq(c, i, k) /\ Len(g) = k /\ g \in Seq(Blocks)
               /\ Len(f) = i - 1 /\ k <= NBlocks
               /\ fetched' \in [Threads -> Seq(Blocks)]
               /\ \A u \in Threads \ {t} : fetched'[u] = fetched[u]
    <3>1. Len(f) = i - 1
      BY <1>2, <2>2
    <3>2. SubSeq(c, i, k) \in Seq(Blocks) /\ Len(SubSeq(c, i, k)) = k - i + 1
      <4> HIDE DEF c
      <4>1. c \in Seq(Blocks) /\ Len(c) \in Nat /\ i \in Nat /\ 1 <= i
        BY <1>2, <1>5 DEF c
      <4> QED
        BY <4>1
    <3>3. f \o SubSeq(c, i, k) \in Seq(Blocks)
          /\ Len(f \o SubSeq(c, i, k)) = Len(f) + Len(SubSeq(c, i, k))
      BY <1>2, <3>2, ConcatFacts
    <3>4. g = f \o SubSeq(c, i, k)
      BY <2>1, <2>2
    <3>5. k <= NBlocks /\ (i - 1) + (k - i + 1) = k
      BY <1>2, <1>5, <2>2
    <3>6. Len(g) = k
      BY <3>1, <3>2, <3>3, <3>4, <3>5
    <3> QED
      BY <2>1, <2>2, <3>1, <3>3, <3>4, <3>5, <3>6
  <2>3. CASE Len(f) < i /\ i <= Len(c)
    <3>1. PICK k \in i .. Len(c) : fetched' = [fetched EXCEPT ![t] = f \o SubSeq(c, i, k)]
      BY <1>4, <2>3
    <3>2. /\ g = f \o SubSeq(c, i, k) /\ Len(g) = k /\ g \in Seq(Blocks)
          /\ Len(f) = i - 1 /\ k <= NBlocks
          /\ fetched' \in [Threads -> Seq(Blocks)]
          /\ \A u \in Threads \ {t} : fetched'[u] = fetched[u]
      BY <2>2, <2>3, <3>1
    <3> QED
      BY <2>3, <3>2
  <2>4. CASE ~(Len(f) < i /\ i <= Len(c))
    <3>1. fetched' = fetched
      BY <1>4, <2>4
    <3>2. g = f
      BY <3>1 DEF f
    <3>3. i <= Len(f) \/ (Len(f) = i - 1 /\ ~(i <= Len(c)))
      BY <1>2, <1>5, <2>4
    <3> QED
      BY <1>2, <2>1, <3>1, <3>2, <3>3
  <2> QED
    BY <2>3, <2>4
<1>7. /\ fd'[t] = n /\ pos'[t] = i /\ tphase'[t] = "check"
      /\ \A u \in Threads \ {t} : fd'[u] = fd[u] /\ pos'[u] = pos[u] /\ tphase'[u] = tphase[u]
  BY <1>1, <1>4 DEF TypeOK
<1>8. TypeOK'
  <2>1. pos' \in [Threads -> 0 .. NBlocks + 1] /\ fd' \in [Threads -> Inodes \cup {None}]
    BY <1>1, <1>2, <1>3, <1>4 DEF TypeOK
  <2>2. tphase' \in [Threads -> {"none"} \cup Busy \cup Ended]
    BY <1>1, <1>4 DEF TypeOK, Busy
  <2> QED
    BY <1>1, <1>4, <1>6, <2>1, <2>2 DEF TypeOK, Blocks
<1>9. \A u \in Threads, m \in Inodes : Writes(u, m)' <=> Writes(u, m)
  BY <1>2, <1>4, <1>7 DEF Writes, IsWrq
<1>10. \A u \in Threads, m \in Inodes : SoleWriter(u, m)' <=> SoleWriter(u, m)
  BY <1>9 DEF SoleWriter
<1>11. InodeInv'
  <2>1. job' = job /\ dir' = dir /\ job[t].op # "WRQ"
    BY <1>2, <1>4 DEF IsWrq
  <2>2. ASSUME NEW p \in Paths, dir[p] \notin {None, p}
        PROVE  /\ dir[p] \in Threads /\ fd'[dir[p]] = dir[p]
               /\ job[dir[p]].op = "WRQ" /\ job[dir[p]].path = p
    BY <1>7, <2>1, <2>2 DEF IInv, InodeInv, Writes, IsWrq, PathOf
  <2>3. ASSUME NEW u \in Threads, fd'[u] # None
        PROVE  \/ fd'[u] = job[u].path /\ job[u].op # "WRQ"
               \/ /\ fd'[u] \in Threads /\ fd'[fd'[u]] = fd'[u]
                  /\ job[fd'[u]].op = "WRQ" /\ job[fd'[u]].path = job[u].path
    <3>1. CASE u = t
      BY <1>3, <1>7, <2>1, <3>1 DEF Writes, IsWrq, PathOf
    <3>2. CASE u # t
      BY <1>7, <2>1, <2>3, <3>2 DEF IInv, InodeInv, Writes, IsWrq, PathOf
    <3> QED
      BY <3>1, <3>2
  <2> QED
    BY <2>1, <2>2, <2>3 DEF InodeInv, Writes, IsWrq, PathOf
<1>12. ContentInv'
  <2>0. ContentInv
    BY DEF IInv
  <2>1. \A m \in Inodes : Len(content'[m]) <= NBlocks
    BY <1>4, <2>0 DEF ContentInv
  <2>2. \A p \in Paths :
          \/ content'[p] = Input(p, NBlocks)
          \/ dir'[p] # p /\ \A u \in Threads : fd'[u] # p
    BY <1>3, <1>4, <1>7, <2>0 DEF ContentInv
  <2>3. ASSUME NEW u \in Threads, NEW m \in Inodes, Writes(u, m)
        PROVE  u # t /\ pos'[u] = pos[u]
    BY <1>2, <1>7, <2>3 DEF Writes
  <2>4. \A u \in Threads : SoleWriter(u, u)' => content'[u] = Input(u, pos'[u])
    BY <1>4, <1>10, <2>0, <2>3 DEF ContentInv, SoleWriter, Inodes
  <2>5. \A m \in Inodes, u \in Threads : Writes(u, m)' =>
          \/ pos'[u] <= Len(content'[m])
          \/ \E v \in Threads \ {u} : Writes(v, m)'
    BY <1>4, <1>9, <2>0, <2>3 DEF ContentInv
  <2> QED
    BY <2>1, <2>2, <2>4, <2>5 DEF ContentInv
<1>13. PlaceInv'
  BY <1>4, <1>9 DEF IInv, PlaceInv
<1>14. ASSUME n \in Paths \/ SoleWriter(n, n)
       PROVE  /\ g = Input(n, Len(g))
              /\ n \in Paths /\ Len(g) < i => Len(g) = NBlocks
  <2>1. f = Input(n, Len(f))
    <3>1. CASE fd[t] = n
      BY <1>1, <1>2, <1>3, <1>14, <3>1 DEF FetchInv, f
    <3>2. CASE f = <<>>
      <4>1. 0 \in 0 .. NBlocks /\ Len(<<>>) = 0
        OBVIOUS
      <4> QED
        BY <1>3, <3>2, <4>1, InputFacts
    <3> QED
      BY <1>3, <3>1, <3>2
  <2>2. /\ Len(c) \in 0 .. NBlocks /\ c = Input(n, Len(c))
        /\ n \in Paths => Len(c) = NBlocks
    <3>1. CASE n \in Paths
      <4>1. c = Input(n, NBlocks)
        BY <1>3, <3>1 DEF IInv, ContentInv, Inodes
      <4>2. NBlocks \in 0 .. NBlocks
        OBVIOUS
      <4>3. Len(Input(n, NBlocks)) = NBlocks
        BY <1>3, <4>2, InputFacts
      <4> QED
        BY <4>1, <4>2, <4>3
    <3>2. CASE n \notin Paths
      <4>1. SoleWriter(n, n) /\ n \in Threads
        BY <1>3, <1>14, <3>2
      <4>2. c = Input(n, pos[n]) /\ pos[n] <= Len(c)
        BY <1>3, <4>1 DEF IInv, ContentInv, SoleWriter
      <4>3. pos[n] \in 0 .. NBlocks
        BY <1>1, <1>5, <4>1, <4>2 DEF TypeOK
      <4>4. Len(Input(n, pos[n])) = pos[n]
        BY <1>3, <4>3, InputFacts
      <4> QED
        BY <3>2, <4>2, <4>3, <4>4
    <3> QED
      BY <3>1, <3>2
  <2> HIDE DEF c, g
  <2>3. CASE \E k \in i .. Len(c) : Len(g) = k /\ g = f \o SubSeq(c, i, k) /\ Len(f) = i - 1
    <3>1. PICK k \in i .. Len(c) : Len(g) = k /\ g = f \o SubSeq(c, i, k) /\ Len(f) = i - 1
      BY <2>3
    <3>2. i \in 1 .. Len(c) /\ ~(k < i)
      BY <1>2, <2>2, <3>1
    <3>3. Input(n, i - 1) \o SubSeq(Input(n, Len(c)), i, k) = Input(n, k)
      BY <1>3, <2>2, <3>1, <3>2, InputReadOn
    <3>4. g = Input(n, k)
      BY <2>1, <2>2, <3>1, <3>3
    <3> QED
      BY <3>1, <3>2, <3>4
  <2>4. CASE g = f /\ i <= Len(f)
    BY <1>2, <2>1, <2>4
  <2>5. CASE g = f /\ Len(f) = i - 1 /\ ~(i <= Len(c))
    <3>1. n \in Paths => Len(f) = NBlocks
      BY <1>2, <2>2, <2>5
    <3> QED
      BY <2>1, <2>5, <3>1
  <2> QED
    BY <1>6, <2>3, <2>4, <2>5 DEF c
<1>15. \A u \in Threads : /\ PathOf(u)' = PathOf(u)
                          /\ Admitted(u)' <=> Admitted(u)
                          /\ Alone(u)' => Alone(u)
  <2>1. \A u \in Threads : PathOf(u)' = PathOf(u) /\ (Admitted(u)' <=> Admitted(u))
    BY <1>2, <1>4, <1>7 DEF PathOf, Admitted, IsWrq
  <2> QED
    BY <2>1 DEF Alone
<1>16. ASSUME NEW u \in Threads PROVE PhaseInv(u)' /\ FetchInv(u)' /\ UploadInv(u)'
  <2>1. UploadInv(u)'
    <3>1. Admitted(u) => u # t
      BY <1>2 DEF Admitted
    <3> QED
      BY <1>4, <1>7, <1>15, <3>1 DEF IInv, UploadInv
  <2>2. CASE u = t
    <3>1. PhaseInv(t)'
      BY <1>1, <1>2, <1>3, <1>4, <1>7 DEF PhaseInv, IsWrq
    <3>2. FetchInv(t)'
      <4>1. pos'[t] # 0
        BY <1>2, <1>7
      <4>2. \A m \in Inodes : fd'[t] = m =>
              /\ m \in Paths \/ SoleWriter(m, m)' => g = Input(m, Len(g))
              /\ m \in Paths /\ Len(g) < pos'[t] => Len(g) = NBlocks
        BY <1>7, <1>10, <1>14 DEF Inodes
      <4> QED
        BY <1>6, <1>7, <4>1, <4>2 DEF FetchInv
    <3> QED
      BY <2>1, <2>2, <3>1, <3>2
  <2>3. CASE u # t
    <3>1. PhaseInv(u)'
      BY <1>4, <1>7, <2>3, OthersPhase
    <3>2. \A m \in Threads : SoleWriter(m, m)' => SoleWriter(m, m)
      BY <1>10 DEF Inodes
    <3>3. FetchInv(u)'
      BY <1>4, <1>6, <1>7, <2>3, <3>2, OthersFetch
    <3> QED
      BY <2>1, <3>1, <3>3
  <2> QED
    BY <2>2, <2>3
<1> QED
  BY <1>8, <1>11, <1>12, <1>13, <1>16 DEF IInv

\* The cleanup after SIGINT takes a name away, and no block.
LEMMA DeleteFileInv ==
    ASSUME IInv, NEW t \in Threads, DeleteFile(t)
    PROVE  IInv'
<1> DEFINE q == PathOf(t)
<1>1. PhaseInv(t) /\ UploadInv(t) /\ TypeOK /\ job[t] \in Jobs /\ q \in Paths
      /\ tphase[t] = "cleanup" /\ sigint
  BY Known DEF DeleteFile, At, PhaseInv
<1>2. /\ dir' = [dir EXCEPT ![q] = None]
      /\ tphase' = [tphase EXCEPT ![t] = "abort"]
      /\ UNCHANGED <<status, sigint, main, content, job, fd, pos, fetched>>
  BY DEF DeleteFile, Goto
<1>3. /\ dir'[q] = None /\ tphase'[t] = "abort"
      /\ \A p \in Paths \ {q} : dir'[p] = dir[p]
      /\ \A u \in Threads \ {t} : tphase'[u] = tphase[u]
  BY <1>1, <1>2 DEF TypeOK
<1>4. TypeOK'
  BY <1>1, <1>2 DEF TypeOK, Busy
<1>5. \A u \in Threads, m \in Inodes : Writes(u, m)' <=> Writes(u, m)
  BY <1>2 DEF Writes, IsWrq
<1>6. \A u \in Threads, m \in Inodes : SoleWriter(u, m)' <=> SoleWriter(u, m)
  BY <1>5 DEF SoleWriter
<1>7. InodeInv'
  BY <1>2, <1>3 DEF IInv, InodeInv, Writes, IsWrq, PathOf
<1>8. ContentInv'
  <2>1. \A p \in Paths : dir[p] # p => dir'[p] # p
    BY <1>3 DEF Inodes
  <2> QED
    BY <1>2, <1>5, <1>6, <2>1 DEF IInv, ContentInv, Inodes
<1>9. PlaceInv'
  BY <1>2, <1>5 DEF IInv, PlaceInv
<1>10. \A u \in Threads : /\ PathOf(u)' = PathOf(u)
                          /\ Admitted(u)' <=> Admitted(u)
                          /\ Alone(u)' => Alone(u)
  <2>1. \A u \in Threads : PathOf(u)' = PathOf(u) /\ (Admitted(u)' <=> Admitted(u))
    BY <1>1, <1>2, <1>3 DEF PathOf, Admitted, IsWrq
  <2> QED
    BY <2>1 DEF Alone
<1>11. ASSUME NEW u \in Threads PROVE PhaseInv(u)' /\ FetchInv(u)' /\ UploadInv(u)'
  <2>0. PhaseInv(u) /\ FetchInv(u) /\ UploadInv(u)
    BY DEF IInv
  <2>1. UploadInv(u)'
    <3>1. Admitted(u) => PathOf(u) \in Paths /\ PathOf(u) # None
      BY Known DEF Admitted, Inodes
    <3>2. PathOf(u) \in Paths => dir'[PathOf(u)] = None \/ dir'[PathOf(u)] = dir[PathOf(u)]
      BY <1>3
    <3> QED
      BY <1>1, <1>2, <1>10, <2>0, <3>1, <3>2 DEF UploadInv
  <2>2. PhaseInv(u)'
    BY <1>1, <1>2, <1>3, <2>0 DEF PhaseInv, IsWrq
  <2>3. FetchInv(u)'
    <3>1. LastSent(u)' <=> LastSent(u)
      BY <1>2 DEF LastSent
    <3>2. tphase'[u] \notin {"open", "write", "read", "done"} \/ tphase'[u] = tphase[u]
      BY <1>3
    <3>3. \A n \in Inodes : n \in Paths \/ SoleWriter(n, n)' => n \in Paths \/ SoleWriter(n, n)
      BY <1>6 DEF Inodes
    <3> QED
      BY <1>2, <2>0, <3>1, <3>2, <3>3 DEF FetchInv, IsWrq
  <2> QED
    BY <2>1, <2>2, <2>3
<1> QED
  BY <1>4, <1>7, <1>8, <1>9, <1>11 DEF IInv

-----------------------------------------------------------------------------
(* All steps together.                                                      *)

\* Every step keeps the invariant.
LEMMA NextInv ==
    ASSUME IInv, [Next]_vars
    PROVE  IInv'
<1>1. CASE UNCHANGED vars
  <2>1. UNCHANGED <<status, sigint, main, dir, content, threadVars>>
    BY <1>1 DEF vars
  <2> QED
    BY <2>1, MainInv DEF IInv, TypeOK
<1>2. CASE MainStep \/ Sigint
  <2>1. /\ UNCHANGED <<dir, content, threadVars>>
        /\ status' \in {"up", "stopped", "killed", "terminated"}
        /\ sigint' \in BOOLEAN /\ (sigint => sigint')
        /\ main' \in {"check", "enter", "recv", "signal", "join"}
    BY <1>2 DEF MainStep, CheckFlag, EnterRecv, SignalThreads, Join, Sigint, IInv, TypeOK
  <2> QED
    BY <2>1, MainInv
<1>3. CASE \E t \in Threads, j \in Jobs : Accept(t, j)
  BY <1>3, AcceptInv
<1>4. ASSUME NEW t \in Threads, ThreadStep(t) PROVE IInv'
  <2>1. CASE PhaseStep(t)
    BY <2>1, PhaseStepInv
  <2>2. CASE OpenFile(t)
    BY <2>2, OpenNewInv, OpenSharedInv
  <2>3. CASE WriteFile(t)
    BY <2>3, WriteFileInv
  <2>4. CASE ReadFile(t)
    BY <2>4, ReadFileInv
  <2>5. CASE DeleteFile(t)
    BY <2>5, DeleteFileInv
  <2>6. CASE Terminate(t)
    <3>1. UNCHANGED <<sigint, main, dir, content, threadVars>> /\ status' = "terminated"
      BY <2>6 DEF Terminate
    <3> QED
      BY <3>1, MainInv DEF IInv, TypeOK
  <2> QED
    BY <1>4, <2>1, <2>2, <2>3, <2>4, <2>5, <2>6 DEF ThreadStep, PhaseStep
<1> QED
  BY <1>1, <1>2, <1>3, <1>4 DEF Next

\* The invariant holds of every reachable state.
LEMMA Invariance == Spec => []IInv
<1>1. Init => IInv
  BY InitInv
<1>2. IInv /\ [Next]_vars => IInv'
  BY NextInv
<1> QED
  BY <1>1, <1>2, PTL DEF Spec

-----------------------------------------------------------------------------
(* The results.                                                             *)

\* No interleaving of requests, uploads, downloads, faults and SIGINT leads
\* out of the types; in particular no thread reads past the block after the
\* last, nor writes past the last.
THEOREM TypeCorrect == Spec => []TypeOK
<1>1. IInv => TypeOK
  BY DEF IInv
<1> QED
  BY <1>1, Invariance, PTL

\* Only a thread's own steps can touch a file that was there before, and each
\* spares it: FileExists of FollowOnWRQ keeps uploads away from its path, and
\* the cleanup that unlinks it needs SIGINT_RECEIVED.
LEMMA OldFileStep ==
    ASSUME IInv, Next, NEW p \in Paths, dir[p] = p
    PROVE  content'[p] = content[p] /\ (dir'[p] = p \/ sigint)
<1>1. CASE UNCHANGED <<dir, content>>
  BY <1>1
<1>2. ASSUME NEW t \in Threads, OpenFile(t)
      PROVE  content'[p] = content[p] /\ dir'[p] = p
  <2> DEFINE q == PathOf(t)
             n == IF FileExists(q) THEN dir[q] ELSE t
  <2>1. PhaseInv(t) /\ UploadInv(t) /\ FetchInv(t) /\ TypeOK /\ q \in Paths
        /\ tphase[t] = "open"
    BY <1>2, Known DEF OpenFile, At
  <2>2. Admitted(t)
    BY <2>1 DEF Admitted, FetchInv
  <2>3. dir[q] # q /\ q # p
    BY <2>1, <2>2 DEF UploadInv
  <2>4. n \in Threads
    BY <2>1, <2>3 DEF IInv, InodeInv, FileExists
  <2>5. n # p /\ p \in Inodes
    BY <2>4 DEF Inodes
  <2>6. dir' = [dir EXCEPT ![q] = n] /\ content' = [content EXCEPT ![n] = <<>>]
    BY <1>2 DEF OpenFile
  <2> HIDE DEF n, q
  <2> QED
    BY <2>1, <2>3, <2>5, <2>6 DEF TypeOK
<1>3. ASSUME NEW t \in Threads, WriteFile(t)
      PROVE  content'[p] = content[p] /\ dir'[p] = p
  <2>1. PhaseInv(t) /\ FetchInv(t) /\ TypeOK /\ tphase[t] = "write"
    BY <1>3, Known DEF WriteFile, At
  <2>2. IsWrq(t) /\ fd[t] # None
    BY <2>1 DEF PhaseInv, FetchInv
  <2>3. fd[t] # p /\ p \in Inodes
    BY <2>2, OpenFacts DEF Inodes
  <2>4. dir' = dir
    BY <1>3 DEF WriteFile
  <2>5. PICK b : content' = [content EXCEPT ![fd[t]] = b]
    BY <1>3 DEF WriteFile
  <2> QED
    BY <2>1, <2>3, <2>4, <2>5 DEF TypeOK
<1>4. ASSUME NEW t \in Threads, DeleteFile(t)
      PROVE  content' = content /\ sigint
  <2>1. PhaseInv(t) /\ tphase[t] = "cleanup"
    BY <1>4, Known DEF DeleteFile, At
  <2> QED
    BY <1>4, <2>1 DEF DeleteFile, PhaseInv
<1>5. MainStep \/ Sigint => UNCHANGED <<dir, content>>
  BY DEF MainStep, CheckFlag, EnterRecv, SignalThreads, Join, Sigint
<1>6. \A t \in Threads, j \in Jobs : Accept(t, j) => UNCHANGED <<dir, content>>
  BY DEF Accept
<1>7. \A t \in Threads : PhaseStep(t) \/ ReadFile(t) \/ Terminate(t)
                         => UNCHANGED <<dir, content>>
  BY DEF PhaseStep, IntroWrq, IntroRrq, RefuseIntro, CheckBeforeReceive, Receive,
         Retry, GiveUp, OpenFails, WriteFails, ReadFails, ReadFile, Terminate
<1> QED
  BY <1>1, <1>2, <1>3, <1>4, <1>5, <1>6, <1>7 DEF Next, ThreadStep, PhaseStep

\* A file that was there before the server keeps its blocks and, until a
\* SIGINT, its name, for any number of racing requests (ClientHandler.cpp's
\* FileExists check comes long before its OpenFile, and still suffices).
THEOREM ExistingFilesKept == Spec => ExistingFileKept
<1> DEFINE Kept == \A p \in Paths : dir[p] = p =>
                      content'[p] = content[p] /\ (dir'[p] = p \/ sigint)
<1>1. IInv /\ [Next]_vars => [Kept]_vars
  BY OldFileStep
<1> QED
  BY <1>1, Invariance, PTL DEF Spec, ExistingFileKept

\* An upload that met no other one on its path has exactly its blocks in its
\* file, for any number of other threads, whatever they do.
THEOREM LoneUploads == Spec => []LoneUploadIntact
<1>1. ASSUME IInv, NEW t \in Threads, Admitted(t), fd[t] # None, Alone(t)
      PROVE  /\ content[fd[t]] = Input(t, pos[t])
             /\ dir[PathOf(t)] = fd[t] \/ sigint
  <2>1. fd[t] = t /\ (dir[PathOf(t)] = t \/ sigint)
    BY <1>1 DEF IInv, UploadInv
  <2>2. Writes(t, t)
    BY <1>1, <2>1 DEF Writes, Admitted
  <2>3. ASSUME NEW u \in Threads \ {t}, Writes(u, t) PROVE FALSE
    <3>1. fd[u] = t /\ IsWrq(u) /\ fd[u] # None
      BY <1>1, <2>1, <2>3 DEF Writes
    <3>2. Admitted(u) /\ PathOf(t) = PathOf(u)
      BY <1>1, <3>1, OpenFacts
    <3> QED
      BY <1>1, <3>2 DEF Alone
  <2>4. SoleWriter(t, t)
    BY <2>2, <2>3 DEF SoleWriter
  <2> QED
    BY <1>1, <2>1, <2>4 DEF IInv, ContentInv
<1>2. IInv => LoneUploadIntact
  BY <1>1 DEF LoneUploadIntact, Alone
<1> QED
  BY <1>2, Invariance, PTL

\* Two of the writers of a file are more than one.
LEMMA TwoWriters ==
    ASSUME NEW n, NEW t \in Threads, NEW u \in Threads \ {t}, Writes(t, n), Writes(u, n)
    PROVE  Cardinality({v \in Threads : IsWrq(v) /\ fd[v] = n}) > 1
<1> DEFINE W == {v \in Threads : IsWrq(v) /\ fd[v] = n}
<1>1. W \subseteq Threads
  OBVIOUS
<1>2. IsFiniteSet(W)
  BY <1>1, ThreadsAssumption, FS_Subset
<1>3. t \in W /\ u \in W /\ t # u
  BY DEF Writes
<1> HIDE DEF W
<1>4. Cardinality(W) > 1
  BY <1>2, <1>3, TwoMembers
<1> QED
  BY <1>4 DEF W

\* Whatever uploads of one path do to each other, every block that is stored
\* is at the offset of its number, and a gap is the work of two writers.
THEOREM BlocksAtTheirPlace == Spec => []BlocksInPlace
<1>1. ASSUME IInv, NEW n \in Inodes, NEW i \in 1 .. Len(content[n])
      PROVE  \/ content[n][i][2] = i
             \/ /\ content[n][i] = Hole
                /\ Cardinality({t \in Threads : IsWrq(t) /\ fd[t] = n}) > 1
  <2>1. \/ content[n][i][2] = i
        \/ /\ content[n][i] = Hole
           /\ \E t \in Threads : \E u \in Threads \ {t} : Writes(t, n) /\ Writes(u, n)
    BY <1>1 DEF IInv, PlaceInv
  <2> QED
    BY <2>1, TwoWriters
<1>2. IInv => BlocksInPlace
  BY <1>1 DEF BlocksInPlace
<1> QED
  BY <1>2, Invariance, PTL

\* A download whose file has at most one writer has sent a prefix of that
\* writer's input or of the old file, and a download of an old file is done
\* only when all of it was sent, whatever happened to the name of the file
\* between two calls of ReadFile.
THEOREM ServedPrefixes == Spec => []ServedPrefix
<1>1. ASSUME IInv, NEW t \in Threads, ~IsWrq(t), fd[t] # None,
             NEW W, W = {u \in Threads : IsWrq(u) /\ fd[u] = fd[t]},
             Cardinality(W) <= 1
      PROVE  /\ \E w \in W \cup {fd[t]} : Sent(t) = Input(w, Len(Sent(t)))
             /\ tphase[t] = "done" /\ fd[t] \in Paths => Len(Sent(t)) = NBlocks
  <2> DEFINE n == fd[t]
             f == fetched[t]
             k == IF pos[t] < Len(f) THEN pos[t] ELSE Len(f)
  <2>1. FetchInv(t) /\ TypeOK /\ pos[t] \in Nat /\ n \in Inodes
    BY <1>1 DEF IInv, TypeOK
  <2>2. n \in Paths \/ SoleWriter(n, n)
    <3>1. n \in Paths \/ (n \in Threads /\ Writes(n, n))
      BY <1>1, OpenFacts
    <3>2. ASSUME n \in Threads, Writes(n, n), NEW u \in Threads \ {n}, Writes(u, n)
          PROVE  FALSE
      <4>1. Cardinality(W) > 1
        BY <1>1, <3>2, TwoWriters
      <4>2. IsFiniteSet(W)
        BY <1>1, ThreadsAssumption, FS_Subset
      <4>3. Cardinality(W) \in Nat
        BY <4>2, FS_CardinalityType
      <4> QED
        BY <1>1, <4>1, <4>3
    <3> QED
      BY <3>1, <3>2 DEF SoleWriter
  <2>3. f \in Seq(Blocks) /\ Len(f) \in Nat /\ Len(f) <= NBlocks
    <3>1. f \in Seq(Blocks)
      BY <2>1 DEF TypeOK, Blocks
    <3>2. Len(f) \in Nat
      BY <3>1
    <3> QED
      BY <2>1, <3>1, <3>2 DEF FetchInv
  <2>4. f = Input(n, Len(f))
    BY <1>1, <2>1, <2>2 DEF FetchInv
  <2>5. k \in 0 .. Len(f) /\ (pos[t] <= Len(f) => k = pos[t]) /\ (Len(f) < pos[t] => k = Len(f))
    <3> HIDE DEF f
    <3> QED
      BY <2>1, <2>3
  <2>6. Sent(t) = SubSeq(f, 1, k)
    BY DEF Sent
  <2> HIDE DEF k, f
  <2>7. Len(f) \in 0 .. NBlocks /\ k \in 0 .. NBlocks
    BY <2>3, <2>5
  <2>8. SubSeq(Input(n, Len(f)), 1, k) = Input(n, k) /\ Len(Input(n, k)) = k
    BY <2>1, <2>5, <2>7, InputPrefix, InputFacts
  <2>9. Sent(t) = Input(n, k) /\ Len(Sent(t)) = k
    BY <2>4, <2>6, <2>8
  <2>10. ASSUME tphase[t] = "done", n \in Paths PROVE k = NBlocks
    <3>1. pos[t] > 0 /\ (pos[t] <= Len(f) => f[pos[t]][2] = NBlocks)
      BY <1>1, <2>1, <2>10 DEF FetchInv, LastSent, f
    <3>2. CASE pos[t] <= Len(f)
      <4>1. \A i \in 1 .. Len(f) : Input(n, Len(f))[i] = <<n, i>>
        BY <2>1, <2>7, InputFacts
      <4>2. f[pos[t]] = <<n, pos[t]>>
        BY <2>1, <2>3, <2>4, <3>1, <3>2, <4>1
      <4> QED
        BY <2>5, <3>1, <3>2, <4>2
    <3>3. CASE ~(pos[t] <= Len(f))
      <4>1. Len(f) < pos[t]
        BY <2>1, <2>3, <3>3
      <4>2. Len(f) = NBlocks
        BY <1>1, <2>1, <2>10, <4>1 DEF FetchInv, f
      <4> QED
        BY <2>5, <4>1, <4>2
    <3> QED
      BY <3>2, <3>3
  <2> QED
    BY <2>9, <2>10
<1>2. IInv => ServedPrefix
  BY <1>1 DEF ServedPrefix
<1> QED
  BY <1>2, Invariance, PTL

=============================================================================
