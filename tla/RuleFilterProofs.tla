-------------------------- MODULE RuleFilterProofs --------------------------
(***************************************************************************)
(* Proofs about RuleFilter, for files of any length, any lines, any ids    *)
(* and any options.  The loops of the generator are recursive functions of *)
(* the turns taken; what a loop computes is proved by induction on those,  *)
(* with the set of turns that are as wanted in the place of a predicate.   *)
(***************************************************************************)
EXTENDS RuleFilter, SequenceTheorems, FiniteSetTheorems, WellFoundedInduction, TLAPS

-----------------------------------------------------------------------------
(* Induction, recursion, sequences.                                        *)

\* A set of numbers has a least one.
LEMMA LeastNumber ==
  ASSUME NEW T \in SUBSET Nat, T # {}
  PROVE  \E x \in T : \A y \in T : x <= y
<1>1. IsWellFoundedOn(OpToRel(<, Nat), Nat)
  BY NatLessThanWellFounded
<1>2. PICK x \in T : \A y \in T : ~(<<y, x>> \in OpToRel(<, Nat))
  BY <1>1, WFMin, Zenon
<1>3. \A y \in T : ~(y < x)
  BY <1>2 DEF OpToRel
<1> QED
  BY <1>3

\* The least and the greatest of the numbers up to n that are in a set.
LEMMA MinMax ==
  ASSUME NEW n \in Nat, NEW T \in SUBSET (1..n), T # {}
  PROVE  /\ Min(T) \in T /\ \A y \in T : Min(T) <= y
         /\ Max(T) \in T /\ \A y \in T : y <= Max(T)
<1>1. \E x \in T : \A y \in T : x <= y
  BY LeastNumber
<1> DEFINE D == {n - x : x \in T}
<1>2. D \in SUBSET Nat /\ D # {}
  <2>1. PICK z \in T : TRUE
    OBVIOUS
  <2>2. n - z \in D
    OBVIOUS
  <2>3. \A x \in T : n - x \in Nat
    OBVIOUS
  <2>4. \A d \in D : d \in Nat
    BY <2>3, Zenon
  <2> HIDE DEF D
  <2> QED
    BY <2>2, <2>4
<1>3. PICK d \in D : \A e \in D : d <= e
  BY <1>2, LeastNumber
<1>4. PICK x \in T : d = n - x
  OBVIOUS
<1>5. \A y \in T : x >= y
  <2> SUFFICES ASSUME NEW y \in T
               PROVE  x >= y
    OBVIOUS
  <2>1. n - y \in D
    OBVIOUS
  <2>2. n - x <= n - y
    BY <1>3, <1>4, <2>1
  <2> QED
    BY <2>2
<1>6. Max(T) \in T /\ \A y \in T : Max(T) >= y
  BY <1>5 DEF Max
<1>7. Min(T) \in T /\ \A y \in T : Min(T) <= y
  BY <1>1 DEF Min
<1> QED
  BY <1>6, <1>7

\* A function on the numbers up to n is a sequence.
LEMMA FunctionIsSeq ==
  ASSUME NEW S, NEW n \in Nat, NEW s \in [1..n -> S]
  PROVE  s \in Seq(S) /\ Len(s) = n
<1>1. s \in Seq(S)
  BY SeqDef, Zenon
<1>2. Len(s) \in Nat /\ DOMAIN s = 1..Len(s) /\ DOMAIN s = 1..n
  BY <1>1, LenProperties
<1> QED
  BY <1>1, <1>2

\* A set with 0 and, with any number below n, the next, has all up to n.
LEMMA UpTo ==
  ASSUME NEW n \in Nat, NEW P, 0 \in P,
         \A i \in 1..n : i - 1 \in P => i \in P
  PROVE  n \in P /\ \A i \in 0..n : i \in P
<1> DEFINE Out == {i \in 0..n : i \notin P}
<1>0. n \in 0..n
  OBVIOUS
<1>1. SUFFICES ASSUME Out # {}
               PROVE  FALSE
  BY <1>0, Zenon
<1>3. Out \in SUBSET Nat
  OBVIOUS
<1>4. PICK x \in Out : \A y \in Out : x <= y
  <2> HIDE DEF Out
  <2> QED
    BY <1>1, <1>3, LeastNumber
<1>5. \A y \in Out : ~(y < x)
  BY <1>3, <1>4
<1>6. x \in 1..n /\ x - 1 \in 0..n /\ x - 1 < x
  <2>1. x \in 0..n /\ x # 0
    BY <1>4, Zenon
  <2> QED
    BY <2>1
<1>7. x - 1 \in P /\ x \notin P
  BY <1>4, <1>5, <1>6
<1> QED
  BY <1>6, <1>7

\* A turn takes the state of a loop to its next state; a loop of n turns.
IsTurn(step, S, n) == step \in [S \X (1..n) -> S]

IsLoop(f, S, n, base, step) ==
  /\ f \in [0..n -> S]
  /\ f[0] = base
  /\ \A i \in 1..n : f[i] = step[<<f[i - 1], i>>]

\* A finite loop has a result: there is a function of the turns taken.
LEMMA LoopExists ==
  ASSUME NEW S, NEW n \in Nat, NEW base \in S, NEW step, IsTurn(step, S, n)
  PROVE  \E f : IsLoop(f, S, n, base, step)
<1> DEFINE Loop(f, m) == f[0] = base /\ \A i \in 1..m : f[i] = step[<<f[i - 1], i>>]
           P == {m \in 0..n : \E f \in [0..m -> S] : Loop(f, m)}
<1>0. step \in [S \X (1..n) -> S]
  BY DEF IsTurn
<1>1. 0 \in P
  <2>1. [i \in 0..0 |-> base] \in [0..0 -> S] /\ Loop([i \in 0..0 |-> base], 0)
    OBVIOUS
  <2>2. 0 \in 0..n
    OBVIOUS
  <2> HIDE DEF Loop
  <2> QED
    BY <2>1, <2>2, Zenon
<1>2. ASSUME NEW m \in 1..n, m - 1 \in P
      PROVE  m \in P
  <2>1. PICK f \in [0..(m - 1) -> S] : Loop(f, m - 1)
    BY <1>2
  <2> DEFINE g == [i \in 0..m |-> IF i = m THEN step[<<f[m - 1], m>>] ELSE f[i]]
  <2>2. f[m - 1] \in S
    OBVIOUS
  <2>3. step[<<f[m - 1], m>>] \in S
    BY <1>0, <2>2
  <2>4. g \in [0..m -> S]
    BY <2>3
  <2>5. \A i \in 0..(m - 1) : g[i] = f[i]
    OBVIOUS
  <2>6. g[m] = step[<<f[m - 1], m>>]
    OBVIOUS
  <2> HIDE DEF g
  <2>7. Loop(g, m)
    <3>1. g[0] = base
      BY <2>1, <2>5
    <3>2. ASSUME NEW i \in 1..m
          PROVE  g[i] = step[<<g[i - 1], i>>]
      <4>1. CASE i = m
        BY <2>5, <2>6, <4>1
      <4>2. CASE i # m
        <5>1. i \in 1..(m - 1) /\ i \in 0..(m - 1) /\ i - 1 \in 0..(m - 1)
          BY <4>2
        <5> QED
          BY <2>1, <2>5, <5>1
      <4> QED
        BY <4>1, <4>2
    <3> QED
      BY <3>1, <3>2
  <2> QED
    BY <2>4, <2>7
<1> HIDE DEF P
<1>3. n \in P
  BY <1>1, <1>2, UpTo
<1> QED
  BY <1>3 DEF P, IsLoop

\* Two loops that start alike and take like turns are alike.
LEMMA LoopUnique ==
  ASSUME NEW n \in Nat, NEW f, NEW g, f[0] = g[0],
         \A i \in 1..n : f[i - 1] = g[i - 1] => f[i] = g[i]
  PROVE  \A i \in 0..n : f[i] = g[i]
<1> DEFINE P == {i \in 0..n : f[i] = g[i]}
<1>1. 0 \in P
  OBVIOUS
<1>2. \A i \in 1..n : i - 1 \in P => i \in P
  OBVIOUS
<1> HIDE DEF P
<1>3. \A i \in 0..n : i \in P
  BY <1>1, <1>2, UpTo
<1> QED
  BY <1>3 DEF P

\* The concatenation of sequences is a loop over them.
Concatenates(f, S, s) ==
  /\ f \in [0..Len(s) -> Seq(S)]
  /\ f[0] = <<>>
  /\ \A i \in 1..Len(s) : f[i] = f[i - 1] \o s[i]

LEMMA FlattenLoop ==
  ASSUME NEW S, NEW s \in Seq(Seq(S))
  PROVE  \E f : Concatenates(f, S, s) /\ FlattenSeq(s) = f[Len(s)]
<1> DEFINE n == Len(s)
<1>1. n \in Nat /\ \A i \in 1..n : s[i] \in Seq(S)
  BY LenProperties, ElementOfSeq
<1> HIDE DEF n
<1> DEFINE step == [a \in Seq(S) \X (1..n) |-> a[1] \o s[a[2]]]
           Eq(h) == h = [i \in 1..n |-> IF i = 1 THEN s[i] ELSE h[i - 1] \o s[i]]
           flat == CHOOSE h : Eq(h)
<1>2. step \in [Seq(S) \X (1..n) -> Seq(S)]
  BY <1>1, ConcatProperties
<1>3. <<>> \in Seq(S)
  OBVIOUS
<1>4. PICK f : IsLoop(f, Seq(S), n, <<>>, step)
  <2>1. IsTurn(step, Seq(S), n)
    BY <1>2 DEF IsTurn
  <2> HIDE DEF step
  <2> QED
    BY <1>1, <2>1, <1>3, LoopExists, Zenon
<1>5. ASSUME NEW i \in 1..n
      PROVE  f[i - 1] \in Seq(S) /\ f[i] = f[i - 1] \o s[i]
  <2>1. i - 1 \in 0..n
    BY <1>1
  <2>2. f[i - 1] \in Seq(S)
    BY <1>4, <2>1, Zenon DEF IsLoop
  <2>3. f[i] = step[<<f[i - 1], i>>]
    BY <1>4 DEF IsLoop
  <2>4. step[<<f[i - 1], i>>] = f[i - 1] \o s[i]
    BY <2>2
  <2> QED
    BY <2>2, <2>3, <2>4
<1>6. f \in [0..n -> Seq(S)] /\ f[0] = <<>>
  BY <1>4 DEF IsLoop
<1> HIDE DEF step
<1>7. FlattenSeq(s) = f[n]
  <2>1. CASE n = 0
    <3>1. s = <<>>
      BY <2>1, EmptySeq DEF n
    <3> QED
      BY <1>6, <2>1, <3>1 DEF FlattenSeq, n
  <2>2. CASE n # 0
    <3>0. f[1] = s[1]
      <4>1. 1 \in 1..n /\ s[1] \in Seq(S)
        BY <1>1, <2>2
      <4>2. f[1] = f[0] \o s[1]
        <5>1. 1 - 1 = 0
          OBVIOUS
        <5>2. f[1] = f[1 - 1] \o s[1]
          BY <1>5, <4>1, Zenon
        <5> QED
          BY <5>1, <5>2
      <4>3. <<>> \o s[1] = s[1]
        BY <4>1, ConcatEmptySeq
      <4> QED
        BY <1>6, <4>2, <4>3, Zenon
    <3> DEFINE h == [i \in 1..n |-> f[i]]
    <3>1. Eq(h)
      <4>1. ASSUME NEW i \in 1..n
            PROVE  f[i] = IF i = 1 THEN s[i] ELSE h[i - 1] \o s[i]
        <5>1. CASE i = 1
          BY <3>0, <5>1
        <5>2. CASE i # 1
          <6>1. i - 1 \in 1..n
            BY <1>1, <5>2
          <6> QED
            BY <1>5, <5>2, <6>1
        <5> QED
          BY <5>1, <5>2
      <4> QED
        BY <4>1
    <3>2. Eq(flat)
      <4> HIDE DEF Eq, h
      <4> QED
        BY <3>1, Zenon
    <3>3. FlattenSeq(s) = flat[n]
      BY <1>1, <2>2 DEF FlattenSeq, n
    <3> HIDE DEF flat, h
    <3>4. \A i \in 1..n : flat[i] = IF i = 1 THEN s[i] ELSE flat[i - 1] \o s[i]
      BY <3>2, Zenon
    <3> HIDE DEF Eq
    <3> DEFINE k == [i \in 0..n |-> IF i = 0 THEN <<>> ELSE flat[i]]
    <3>5. \A i \in 1..n : k[i] = flat[i]
      BY <1>1
    <3>6. k[0] = <<>>
      BY <1>1
    <3> HIDE DEF k
    <3>7. ASSUME NEW i \in 1..n, f[i - 1] = k[i - 1]
          PROVE  f[i] = k[i]
      <4>1. CASE i = 1
        BY <3>0, <3>4, <3>5, <4>1
      <4>2. CASE i # 1
        <5>1. i - 1 \in 1..n
          BY <1>1, <4>2
        <5>2. f[i] = f[i - 1] \o s[i]
          BY <1>5
        <5>3. k[i] = flat[i - 1] \o s[i] /\ k[i - 1] = flat[i - 1]
          BY <3>4, <3>5, <4>2, <5>1, Zenon
        <5> QED
          BY <3>7, <5>2, <5>3, Zenon
      <4> QED
        BY <4>1, <4>2
    <3>8. \A i \in 0..n : f[i] = k[i]
      <4>1. f[0] = k[0]
        BY <1>6, <3>6
      <4> QED
        BY <1>1, <3>7, <4>1, LoopUnique, Zenon
    <3>9. f[n] = flat[n]
      BY <1>1, <2>2, <3>5, <3>8
    <3> QED
      BY <3>3, <3>9
  <2> QED
    BY <2>1, <2>2
<1> QED
  BY <1>5, <1>6, <1>7, Zenon DEF n, Concatenates

\* What a concatenation has, one or the other of its parts has.
LEMMA ToSetConcat ==
  ASSUME NEW S, NEW s \in Seq(S), NEW t \in Seq(S)
  PROVE  ToSet(s \o t) = ToSet(s) \cup ToSet(t)
<1>1. /\ s \o t \in Seq(S)
      /\ Len(s \o t) = Len(s) + Len(t)
      /\ \A i \in 1..(Len(s) + Len(t)) :
            (s \o t)[i] = IF i <= Len(s) THEN s[i] ELSE t[i - Len(s)]
  BY ConcatProperties
<1>2. /\ Len(s) \in Nat /\ DOMAIN s = 1..Len(s)
      /\ Len(t) \in Nat /\ DOMAIN t = 1..Len(t)
      /\ DOMAIN (s \o t) = 1..Len(s \o t)
  BY <1>1, LenProperties
<1> DEFINE u == s \o t
           m == Len(s)
           k == Len(t)
<1>3. DOMAIN u = 1..(m + k)
  BY <1>1, <1>2
<1>4. ASSUME NEW i \in 1..m
      PROVE  i \in 1..(m + k) /\ u[i] = s[i]
  BY <1>1, <1>2
<1>5. ASSUME NEW i \in 1..k
      PROVE  m + i \in 1..(m + k) /\ u[m + i] = t[i]
  <2>1. m + i \in 1..(m + k) /\ ~(m + i <= m) /\ m + i - m = i
    BY <1>2
  <2> QED
    BY <1>1, <2>1
<1>6. ASSUME NEW i \in 1..(m + k)
      PROVE  (i \in 1..m /\ u[i] = s[i]) \/ (i - m \in 1..k /\ u[i] = t[i - m])
  BY <1>1, <1>2
<1> HIDE DEF u, m, k
<1>7. ToSet(u) = ToSet(s) \cup ToSet(t)
  <2>1. ToSet(u) = {u[i] : i \in 1..(m + k)} /\ ToSet(s) = {s[i] : i \in 1..m}
          /\ ToSet(t) = {t[i] : i \in 1..k}
    BY <1>2, <1>3 DEF ToSet, m, k
  <2> QED
    BY <1>4, <1>5, <1>6, <2>1, Zenon
<1> QED
  BY <1>7 DEF u

\* Concatenation takes the sequences one after another.
LEMMA FlattenSeqEmpty == FlattenSeq(<<>>) = <<>>
BY DEF FlattenSeq

LEMMA FlattenSeqAppend ==
  ASSUME NEW S, NEW s \in Seq(Seq(S)), NEW b \in Seq(S)
  PROVE  /\ FlattenSeq(s) \in Seq(S)
         /\ FlattenSeq(Append(s, b)) = FlattenSeq(s) \o b
<1> DEFINE t == Append(s, b)
           n == Len(s)
<1>1. t \in Seq(Seq(S)) /\ n \in Nat /\ Len(t) = n + 1 /\ t[n + 1] = b
  BY AppendProperties, LenProperties
<1>2. \A i \in 1..n : t[i] = s[i]
  BY AppendProperties
<1>3. PICK f : Concatenates(f, S, s) /\ FlattenSeq(s) = f[n]
  BY FlattenLoop
<1>4. PICK g : Concatenates(g, S, t) /\ FlattenSeq(t) = g[Len(t)]
  <2> HIDE DEF t
  <2> QED
    BY <1>1, FlattenLoop
<1>5. /\ f \in [0..n -> Seq(S)]
      /\ f[0] = <<>>
      /\ \A i \in 1..n : f[i] = f[i - 1] \o s[i]
  BY <1>3 DEF Concatenates
<1>6. /\ g[0] = <<>>
      /\ \A i \in 1..Len(t) : g[i] = g[i - 1] \o t[i]
  BY <1>4 DEF Concatenates
<1>0. n \in Nat
  BY <1>1
<1> HIDE DEF t, n
<1>7. FlattenSeq(t) = g[n] \o b
  <2> DEFINE k == n + 1
  <2>1. k \in 1..Len(t) /\ k - 1 = n /\ k = Len(t) /\ t[k] = b
    BY <1>1
  <2> HIDE DEF k
  <2>2. g[k] = g[k - 1] \o t[k]
    BY <1>6, <2>1, Zenon
  <2> QED
    BY <1>4, <2>1, <2>2, Zenon
<1>8. ASSUME NEW i \in 1..n, f[i - 1] = g[i - 1]
      PROVE  f[i] = g[i]
  <2>1. i \in 1..Len(t)
    BY <1>1
  <2>2. f[i] = f[i - 1] \o s[i] /\ g[i] = g[i - 1] \o t[i]
    BY <1>5, <1>6, <2>1, Zenon
  <2> QED
    BY <1>2, <1>8, <2>2, Zenon
<1>9. f[n] = g[n]
  <2>1. f[0] = g[0]
    BY <1>5, <1>6, Zenon
  <2>2. \A i \in 0..n : f[i] = g[i]
    BY <1>0, <1>8, <2>1, LoopUnique, Zenon
  <2>3. n \in 0..n
    BY <1>0
  <2> QED
    BY <2>2, <2>3, Zenon
<1>10. f[n] \in Seq(S)
  BY <1>0, <1>5
<1> QED
  BY <1>3, <1>7, <1>9, <1>10, Zenon DEF t

\* And has the elements of each of them, and no other.
LEMMA FlattenSeqElements ==
  ASSUME NEW S, NEW s \in Seq(Seq(S)), NEW x
  PROVE  x \in ToSet(FlattenSeq(s)) <=> \E i \in 1..Len(s) : x \in ToSet(s[i])
<1> DEFINE n == Len(s)
<1>1. n \in Nat
  BY LenProperties
<1>2. \A i \in 1..n : s[i] \in Seq(S)
  BY ElementOfSeq
<1>3. PICK f : Concatenates(f, S, s) /\ FlattenSeq(s) = f[n]
  BY FlattenLoop
<1>4. /\ f \in [0..n -> Seq(S)]
      /\ f[0] = <<>>
      /\ \A i \in 1..n : f[i] = f[i - 1] \o s[i]
  BY <1>3 DEF Concatenates
<1> HIDE DEF n
<1> DEFINE P == {m \in 0..n : x \in ToSet(f[m]) <=> \E i \in 1..m : x \in ToSet(s[i])}
<1>5. 0 \in P
  <2>1. ToSet(f[0]) = {}
    BY <1>4 DEF ToSet
  <2> QED
    BY <1>1, <2>1
<1>6. ASSUME NEW m \in 1..n, m - 1 \in P
      PROVE  m \in P
  <2>0. m - 1 \in 0..n
    BY <1>1
  <2>1. f[m - 1] \in Seq(S) /\ s[m] \in Seq(S) /\ f[m] = f[m - 1] \o s[m]
    BY <1>2, <1>4, <2>0, Zenon
  <2>2. ToSet(f[m]) = ToSet(f[m - 1]) \cup ToSet(s[m])
    <3>1. ToSet(f[m - 1] \o s[m]) = ToSet(f[m - 1]) \cup ToSet(s[m])
      BY <2>1, ToSetConcat
    <3> QED
      BY <2>1, <3>1, Zenon
  <2>3. \A i \in 1..m : i = m \/ i \in 1..(m - 1)
    BY <1>1
  <2>4. \A i \in 1..(m - 1) : i \in 1..m
    BY <1>1
  <2>5. m \in 1..m /\ m \in 0..n
    BY <1>1
  <2> QED
    BY <1>6, <2>2, <2>3, <2>4, <2>5, Zenon
<1> HIDE DEF P
<1>7. n \in P
  BY <1>1, <1>5, <1>6, UpTo, Zenon
<1> QED
  BY <1>3, <1>7, Zenon DEF P, n

-----------------------------------------------------------------------------
(* The loop of splitIntoRules: no line is lost and none is moved.          *)

SplitState(L) == [blocks : Seq(Seq(L)), current : Seq(L)]

\* A turn keeps the types, and what is split so far grows by the line.
LEMMA TakeLineType ==
  ASSUME NEW L, NEW acc \in SplitState(L), NEW line \in L
  PROVE  TakeLine(acc, line) \in SplitState(L)
<1>1. acc.blocks \in Seq(Seq(L)) /\ acc.current \in Seq(L)
  BY DEF SplitState
<1>2. Append(acc.current, line) \in Seq(L) /\ <<line>> \in Seq(L) /\ <<>> \in Seq(L)
  BY <1>1, AppendProperties
<1>3. /\ Append(acc.blocks, Append(acc.current, line)) \in Seq(Seq(L))
      /\ Append(acc.blocks, <<line>>) \in Seq(Seq(L))
  BY <1>1, <1>2, AppendProperties
<1>4. acc = [blocks |-> acc.blocks, current |-> acc.current]
  BY DEF SplitState
<1> QED
  BY <1>1, <1>2, <1>3, <1>4 DEF TakeLine, SplitState

Splits(f, L, lines) ==
  /\ f \in [0..Len(lines) -> SplitState(L)]
  /\ f[0] = [blocks |-> <<>>, current |-> <<>>]
  /\ \A i \in 1..Len(lines) : f[i] = TakeLine(f[i - 1], lines[i])

LEMMA SplitLoop ==
  ASSUME NEW L, NEW lines \in Seq(L)
  PROVE  \E f : Splits(f, L, lines) /\ SplitLines(lines) = f[Len(lines)]
<1> DEFINE n == Len(lines)
           S == SplitState(L)
           base == [blocks |-> <<>>, current |-> <<>>]
<1>1. n \in Nat
  BY LenProperties
<1>2. \A i \in 1..n : lines[i] \in L
  BY ElementOfSeq
<1>3. base \in S
  BY DEF SplitState
<1> DEFINE Eq(h) == h = [i \in 0..n |-> IF i = 0 THEN base ELSE TakeLine(h[i - 1], lines[i])]
           acc == CHOOSE h : Eq(h)
<1>4. SplitLines(lines) = acc[n]
  BY DEF SplitLines
<1> HIDE DEF n, base, S
<1> DEFINE step == [a \in S \X (1..n) |-> TakeLine(a[1], lines[a[2]])]
<1>5. IsTurn(step, S, n)
  <2>1. \A a \in S, i \in 1..n : TakeLine(a, lines[i]) \in S
    BY <1>2, TakeLineType DEF S
  <2> QED
    BY <2>1 DEF IsTurn
<1>6. PICK f : IsLoop(f, S, n, base, step)
  <2> HIDE DEF step
  <2> QED
    BY <1>1, <1>3, <1>5, LoopExists, Zenon
<1>7. f \in [0..n -> S] /\ f[0] = base
  BY <1>6 DEF IsLoop
<1>8. ASSUME NEW i \in 1..n
      PROVE  f[i] = TakeLine(f[i - 1], lines[i])
  <2>1. i - 1 \in 0..n
    BY <1>1
  <2>2. f[i - 1] \in S
    BY <1>7, <2>1, Zenon
  <2>3. f[i] = step[<<f[i - 1], i>>]
    BY <1>6 DEF IsLoop
  <2> QED
    BY <2>2, <2>3
<1> HIDE DEF step
<1>9. Eq(f)
  <2>1. \A i \in 0..n : i = 0 \/ i \in 1..n
    BY <1>1
  <2>2. \A i \in 0..n : f[i] = IF i = 0 THEN base ELSE TakeLine(f[i - 1], lines[i])
    BY <1>7, <1>8, <2>1, Zenon
  <2> QED
    BY <1>7, <2>2
<1>10. Eq(acc)
  <2> HIDE DEF Eq
  <2> QED
    BY <1>9, Zenon
<1> HIDE DEF acc
<1>11. \A i \in 0..n : acc[i] = IF i = 0 THEN base ELSE TakeLine(acc[i - 1], lines[i])
  BY <1>10, Zenon
<1> HIDE DEF Eq
<1>12. acc[n] = f[n]
  <2>1. acc[0] = f[0]
    BY <1>1, <1>7, <1>11
  <2>2. ASSUME NEW i \in 1..n, acc[i - 1] = f[i - 1]
        PROVE  acc[i] = f[i]
    <3>1. i \in 0..n /\ i # 0
      BY <1>1
    <3> QED
      BY <1>8, <1>11, <2>2, <3>1, Zenon
  <2>3. n \in 0..n
    BY <1>1
  <2> QED
    BY <1>1, <2>1, <2>2, <2>3, LoopUnique, Zenon
<1> QED
  BY <1>4, <1>7, <1>8, <1>12, Zenon DEF Splits, n, S, base

\* What a turn does to the blocks, in terms of what they concatenate to.
LEMMA TakeLineAdds ==
  ASSUME NEW L, NEW acc \in SplitState(L), NEW line \in L
  PROVE  LET next == TakeLine(acc, line)
         IN  FlattenSeq(next.blocks) \o next.current
               = (FlattenSeq(acc.blocks) \o acc.current) \o <<line>>
<1> DEFINE B == acc.blocks
           C == acc.current
           F == FlattenSeq(B)
           D == Append(C, line)
<1>1. B \in Seq(Seq(L)) /\ C \in Seq(L) /\ <<line>> \in Seq(L)
  BY DEF SplitState
<1>2. D \in Seq(L) /\ D = C \o <<line>>
  BY <1>1, AppendProperties, AppendIsConcat
<1>3. /\ F \in Seq(L)
      /\ FlattenSeq(Append(B, D)) = F \o D
      /\ FlattenSeq(Append(B, <<line>>)) = F \o <<line>>
  <2> HIDE DEF B, C, D
  <2> QED
    BY <1>1, <1>2, FlattenSeqAppend
<1>4. F \o D = (F \o C) \o <<line>>
  <2> HIDE DEF F, C, D
  <2> QED
    BY <1>1, <1>2, <1>3, ConcatAssociative
<1>5. F \o D \in Seq(L) /\ F \o <<line>> \in Seq(L)
  <2> HIDE DEF F, C, D
  <2> QED
    BY <1>1, <1>2, <1>3, ConcatProperties
<1>6. acc = [blocks |-> B, current |-> C]
  BY DEF SplitState
<1> DEFINE next == TakeLine(acc, line)
<1> SUFFICES FlattenSeq(next.blocks) \o next.current = (F \o C) \o <<line>>
  OBVIOUS
<1>7. CASE C # <<>> /\ line.more
  <2>1. next.blocks = B /\ next.current = D
    BY <1>6, <1>7 DEF TakeLine
  <2> HIDE DEF next, F, B, C, D
  <2> QED
    BY <1>4, <2>1 DEF F
<1>8. CASE C # <<>> /\ ~line.more
  <2>1. next.blocks = Append(B, D) /\ next.current = <<>>
    BY <1>6, <1>8 DEF TakeLine
  <2> HIDE DEF next, F, B, C, D
  <2>2. (F \o D) \o <<>> = F \o D
    BY <1>5, ConcatEmptySeq
  <2> QED
    BY <1>3, <1>4, <2>1, <2>2
<1>9. CASE C = <<>>
  <2>1. \/ next.blocks = B /\ next.current = <<line>>
        \/ next.blocks = Append(B, <<line>>) /\ next.current = <<>>
    BY <1>6, <1>9 DEF TakeLine
  <2> HIDE DEF next, F, B, C, D
  <2>2. F \o C = F /\ (F \o <<line>>) \o <<>> = F \o <<line>>
    BY <1>3, <1>5, <1>9, ConcatEmptySeq
  <2> QED
    BY <1>3, <2>1, <2>2 DEF F
<1> QED
  BY <1>7, <1>8, <1>9

\* The blocks are as many as the lines at most, and none is empty.
LEMMA TakeLineCounts ==
  ASSUME NEW L, NEW acc \in SplitState(L), NEW line \in L, NEW m \in Nat,
         Len(acc.blocks) <= m, acc.current # <<>> => Len(acc.blocks) < m,
         \A k \in 1..Len(acc.blocks) : acc.blocks[k] # <<>>
  PROVE  LET next == TakeLine(acc, line)
         IN  /\ Len(next.blocks) <= m + 1
             /\ next.current # <<>> => Len(next.blocks) < m + 1
             /\ \A k \in 1..Len(next.blocks) : next.blocks[k] # <<>>
<1> DEFINE B == acc.blocks
           D == Append(acc.current, line)
           next == TakeLine(acc, line)
<1>1. B \in Seq(Seq(L)) /\ acc.current \in Seq(L) /\ <<line>> \in Seq(L) /\ <<line>> # <<>>
  BY DEF SplitState
<1>2. D \in Seq(L) /\ D # <<>>
  BY <1>1, AppendProperties
<1>3. \A d \in Seq(L) :
        /\ Len(Append(B, d)) = Len(B) + 1
        /\ Append(B, d)[Len(B) + 1] = d
        /\ \A k \in 1..Len(B) : Append(B, d)[k] = B[k]
  <2> HIDE DEF B
  <2> QED
    BY <1>1, AppendProperties
<1>4. Len(B) \in Nat
  BY <1>1, LenProperties
<1>5. acc = [blocks |-> B, current |-> acc.current]
  BY DEF SplitState
<1>6. \/ next.blocks = B
      \/ next.current = <<>> /\ \E d \in Seq(L) : d # <<>> /\ next.blocks = Append(B, d)
  <2>1. CASE acc.current # <<>>
    BY <1>1, <1>2, <1>5, <2>1 DEF TakeLine
  <2>2. CASE acc.current = <<>>
    BY <1>1, <1>2, <1>5, <2>2 DEF TakeLine
  <2> QED
    BY <2>1, <2>2
<1> HIDE DEF next, B, D
<1>7. /\ Len(B) <= m /\ \A k \in 1..Len(B) : B[k] # <<>>
  BY DEF B
<1>8. CASE next.blocks = B
  BY <1>4, <1>7, <1>8 DEF next
<1>9. ASSUME NEW d \in Seq(L), d # <<>>, next.blocks = Append(B, d), next.current = <<>>
      PROVE  /\ Len(next.blocks) <= m + 1
             /\ next.current # <<>> => Len(next.blocks) < m + 1
             /\ \A k \in 1..Len(next.blocks) : next.blocks[k] # <<>>
  <2>1. Len(next.blocks) = Len(B) + 1
    BY <1>3, <1>9
  <2>2. \A k \in 1..Len(next.blocks) : k = Len(B) + 1 \/ k \in 1..Len(B)
    BY <1>4, <2>1
  <2>3. next.blocks[Len(B) + 1] = d /\ \A k \in 1..Len(B) : next.blocks[k] = B[k]
    BY <1>3, <1>9
  <2>4. \A k \in 1..Len(next.blocks) : next.blocks[k] # <<>>
    BY <1>7, <1>9, <2>2, <2>3, Zenon
  <2> QED
    BY <1>4, <1>7, <1>9, <2>1, <2>4
<1> QED
  BY <1>6, <1>8, <1>9 DEF next

\* splitIntoRules takes a file apart and leaves nothing out.
LEMMA SplitIntoRules ==
  ASSUME NEW L, NEW lines \in Seq(L)
  PROVE  LET blocks == splitIntoRules(lines)
         IN  /\ blocks \in Seq(Seq(L))
             /\ FlattenSeq(blocks) = lines
             /\ Len(blocks) <= Len(lines)
             /\ \A k \in 1..Len(blocks) : blocks[k] # <<>>
<1> DEFINE n == Len(lines)
<1>1. PICK f : Splits(f, L, lines) /\ SplitLines(lines) = f[n]
  BY SplitLoop
<1>2. n \in Nat
  BY LenProperties
<1>3. \A i \in 1..n : lines[i] \in L
  BY ElementOfSeq
<1>4. f \in [0..n -> SplitState(L)]
  BY <1>1 DEF Splits
<1>5. f[0] = [blocks |-> <<>>, current |-> <<>>]
  BY <1>1 DEF Splits
<1>6. \A i \in 1..n : f[i] = TakeLine(f[i - 1], lines[i])
  BY <1>1 DEF Splits
<1>7. SubSeq(lines, 1, n) = lines
  BY SubSeqFull
<1>8. \A i \in 1..n : SubSeq(lines, 1, i) = SubSeq(lines, 1, i - 1) \o <<lines[i]>>
  <2> SUFFICES ASSUME NEW i \in 1..n
               PROVE  SubSeq(lines, 1, i) = SubSeq(lines, 1, i - 1) \o <<lines[i]>>
    OBVIOUS
  <2>1. 1 \in 1..n /\ i \in 1..n
    BY <1>2
  <2> QED
    BY <2>1, SubSeqRecursiveSecond
<1> HIDE DEF n
<1> DEFINE Whole(a, i) == FlattenSeq(a.blocks) \o a.current = SubSeq(lines, 1, i)
           Counted(a, i) ==
             /\ Len(a.blocks) <= i /\ (a.current # <<>> => Len(a.blocks) < i)
             /\ \A k \in 1..Len(a.blocks) : a.blocks[k] # <<>>
           P == {i \in 0..n : Whole(f[i], i) /\ Counted(f[i], i)}
<1>9. 0 \in P
  <2>1. f[0].blocks = <<>> /\ f[0].current = <<>>
    BY <1>5
  <2>2. Whole(f[0], 0)
    <3>1. SubSeq(lines, 1, 0) = <<>>
      BY SubSeqEmpty
    <3>2. <<>> \o <<>> = <<>>
      OBVIOUS
    <3> QED
      BY <2>1, <3>1, <3>2, FlattenSeqEmpty, Zenon
  <2>3. Counted(f[0], 0)
    BY <2>1
  <2>4. 0 \in 0..n
    BY <1>2
  <2> HIDE DEF Whole, Counted
  <2> QED
    BY <2>2, <2>3, <2>4
<1>10. ASSUME NEW i \in 1..n, i - 1 \in P
       PROVE  i \in P
  <2>1. i - 1 \in 0..n /\ i - 1 \in Nat /\ i \in 0..n /\ i - 1 + 1 = i
    BY <1>2
  <2>2. f[i - 1] \in SplitState(L) /\ lines[i] \in L /\ f[i] = TakeLine(f[i - 1], lines[i])
    BY <1>3, <1>4, <1>6, <2>1, Zenon
  <2>3. Whole(f[i - 1], i - 1) /\ Counted(f[i - 1], i - 1)
    BY <1>10
  <2> DEFINE a == f[i - 1]
             b == TakeLine(a, lines[i])
  <2>4. FlattenSeq(b.blocks) \o b.current
          = (FlattenSeq(a.blocks) \o a.current) \o <<lines[i]>>
    BY <2>2, TakeLineAdds
  <2>5. Whole(b, i)
    BY <1>8, <2>3, <2>4, Zenon
  <2>6. Counted(b, i - 1 + 1)
    <3> HIDE DEF a
    <3>1. a \in SplitState(L) /\ Counted(a, i - 1)
      BY <2>2, <2>3, Zenon DEF a
    <3> QED
      BY <2>1, <2>2, <3>1, TakeLineCounts, Zenon
  <2> HIDE DEF Whole, Counted
  <2>7. Whole(f[i], i) /\ Counted(f[i], i)
    BY <2>1, <2>2, <2>5, <2>6, Zenon
  <2> QED
    BY <2>1, <2>7
<1>11. Whole(f[n], n) /\ Counted(f[n], n)
  <2>1. n \in P
    <3> HIDE DEF P
    <3> QED
      BY <1>2, <1>9, <1>10, UpTo, Zenon
  <2> QED
    BY <2>1
<1> DEFINE acc == f[n]
           B == acc.blocks
           C == acc.current
           blocks == splitIntoRules(lines)
<1>12. acc \in SplitState(L)
  BY <1>2, <1>4
<1>13. B \in Seq(Seq(L)) /\ C \in Seq(L)
  BY <1>12 DEF SplitState
<1>14. blocks = IF C = <<>> THEN B ELSE Append(B, C)
  BY <1>1 DEF splitIntoRules, n
<1>15. /\ FlattenSeq(B) \o C = lines /\ Len(B) <= n /\ (C # <<>> => Len(B) < n)
       /\ \A k \in 1..Len(B) : B[k] # <<>>
  BY <1>7, <1>11
<1> HIDE DEF blocks, acc, B, C, Whole, Counted, P
<1>16. FlattenSeq(B) \in Seq(L) /\ FlattenSeq(Append(B, C)) = FlattenSeq(B) \o C
  BY <1>13, FlattenSeqAppend
<1>17. CASE C = <<>>
  <2>1. FlattenSeq(B) \o C = FlattenSeq(B)
    BY <1>16, <1>17, ConcatEmptySeq
  <2> QED
    BY <1>13, <1>14, <1>15, <1>17, <2>1 DEF blocks, n
<1>18. CASE C # <<>>
  <2>1. /\ blocks \in Seq(Seq(L)) /\ Len(blocks) = Len(B) + 1 /\ blocks[Len(B) + 1] = C
        /\ \A k \in 1..Len(B) : blocks[k] = B[k]
    BY <1>13, <1>14, <1>18, AppendProperties
  <2>2. Len(B) \in Nat
    BY <1>13, LenProperties
  <2>3. Len(blocks) <= n
    BY <1>2, <1>15, <1>18, <2>1, <2>2
  <2>4. \A k \in 1..Len(blocks) : k = Len(B) + 1 \/ k \in 1..Len(B)
    BY <2>1, <2>2
  <2>5. \A k \in 1..Len(blocks) : blocks[k] # <<>>
    BY <1>15, <1>18, <2>1, <2>4, Zenon
  <2>6. FlattenSeq(blocks) = lines
    BY <1>14, <1>15, <1>16, <1>18, Zenon
  <2> QED
    BY <2>1, <2>3, <2>5, <2>6 DEF blocks, n
<1> QED
  BY <1>17, <1>18

-----------------------------------------------------------------------------
(* The loop of chainSecRuleGroups: its groups are the chains.              *)

\* A block that does not end a chain; the blocks of the chain that is open
\* behind block n; the blocks up to n that are in one chain with block i.
Links(blocks, k) ==
  Skipped(blocks[k]) \/ (IsSecRule(blocks[k]) /\ HasChain(blocks[k]))

Open(blocks, n) ==
  {i \in 1..n : IsSecRule(blocks[i]) /\ \A k \in i..n : Links(blocks, k)}

ChainIn(blocks, n, i) ==
  {j \in 1..n :
     /\ IsSecRule(blocks[j])
     /\ \A k \in 1..n : (i <= k /\ k < j) \/ (j <= k /\ k < i) => Links(blocks, k)}

\* The chain of a block when another block is read, and that of the other block.
LEMMA ChainGrows ==
  ASSUME NEW blocks, NEW n \in Nat
  PROVE  /\ \A i \in Open(blocks, n) : ChainIn(blocks, n, i) = Open(blocks, n)
         /\ \A i \in 1..n : IsSecRule(blocks[i]) =>
              ChainIn(blocks, n + 1, i) =
                IF IsSecRule(blocks[n + 1]) /\ i \in Open(blocks, n)
                THEN ChainIn(blocks, n, i) \cup {n + 1}
                ELSE ChainIn(blocks, n, i)
         /\ IsSecRule(blocks[n + 1]) =>
              ChainIn(blocks, n + 1, n + 1) = Open(blocks, n) \cup {n + 1}
         /\ Open(blocks, n + 1) =
              IF ~Links(blocks, n + 1) THEN {}
              ELSE IF IsSecRule(blocks[n + 1]) THEN Open(blocks, n) \cup {n + 1}
              ELSE Open(blocks, n)
<1> DEFINE R == {k \in 1..(n + 1) : IsSecRule(blocks[k])}
           K == {k \in 1..(n + 1) : Links(blocks, k)}
<1>1. \A i \in 1..(n + 1) : i \in R <=> IsSecRule(blocks[i])
  OBVIOUS
<1>2. \A i \in 1..(n + 1) : i \in K <=> Links(blocks, i)
  OBVIOUS
<1> HIDE DEF R, K
<1>3. /\ \A i : i \in Open(blocks, n) <=> i \in 1..n /\ i \in R /\ \A k \in i..n : k \in K
      /\ \A i : i \in Open(blocks, n + 1)
                  <=> i \in 1..(n + 1) /\ i \in R /\ \A k \in i..(n + 1) : k \in K
  BY <1>1, <1>2 DEF Open
<1>4. ASSUME NEW i \in 1..(n + 1)
      PROVE  /\ \A j : j \in ChainIn(blocks, n, i) <=>
                  /\ j \in 1..n /\ j \in R
                  /\ \A k \in 1..n : (i <= k /\ k < j) \/ (j <= k /\ k < i) => k \in K
             /\ \A j : j \in ChainIn(blocks, n + 1, i) <=>
                  /\ j \in 1..(n + 1) /\ j \in R
                  /\ \A k \in 1..(n + 1) :
                       (i <= k /\ k < j) \/ (j <= k /\ k < i) => k \in K
  BY <1>1, <1>2 DEF ChainIn
<1>5. ASSUME NEW i \in Open(blocks, n)
      PROVE  ChainIn(blocks, n, i) = Open(blocks, n)
  <2>1. i \in 1..n /\ i \in R /\ (\A k \in i..n : k \in K) /\ i \in 1..(n + 1)
    BY <1>3
  <2>2. ASSUME NEW j \in ChainIn(blocks, n, i)
        PROVE  j \in Open(blocks, n)
    <3>1. /\ j \in 1..n /\ j \in R
          /\ \A k \in 1..n : (i <= k /\ k < j) \/ (j <= k /\ k < i) => k \in K
      BY <1>4, <2>1
    <3>2. \A k \in j..n : k \in K
      BY <2>1, <3>1
    <3> QED
      BY <1>3, <3>1, <3>2
  <2>3. ASSUME NEW j \in Open(blocks, n)
        PROVE  j \in ChainIn(blocks, n, i)
    <3>1. j \in 1..n /\ j \in R /\ (\A k \in j..n : k \in K)
      BY <1>3
    <3>2. \A k \in 1..n : (i <= k /\ k < j) \/ (j <= k /\ k < i) => k \in K
      BY <2>1, <3>1
    <3> QED
      BY <1>4, <2>1, <3>1, <3>2
  <2> QED
    BY <2>2, <2>3
<1>6. ASSUME NEW i \in 1..n, IsSecRule(blocks[i])
      PROVE  ChainIn(blocks, n + 1, i) =
                IF IsSecRule(blocks[n + 1]) /\ i \in Open(blocks, n)
                THEN ChainIn(blocks, n, i) \cup {n + 1}
                ELSE ChainIn(blocks, n, i)
  <2>1. i \in 1..(n + 1) /\ n + 1 \in 1..(n + 1) /\ i \in R
    BY <1>1, <1>6
  <2>2. \A j \in 1..n : j \in ChainIn(blocks, n + 1, i) <=> j \in ChainIn(blocks, n, i)
    <3> SUFFICES ASSUME NEW j \in 1..n
                 PROVE  (\A k \in 1..(n + 1) :
                           (i <= k /\ k < j) \/ (j <= k /\ k < i) => k \in K)
                        <=> (\A k \in 1..n :
                               (i <= k /\ k < j) \/ (j <= k /\ k < i) => k \in K)
      BY <1>4, <2>1
    <3> QED
      OBVIOUS
  <2>3. n + 1 \in ChainIn(blocks, n + 1, i)
          <=> IsSecRule(blocks[n + 1]) /\ i \in Open(blocks, n)
    <3>1. i \in Open(blocks, n) <=> \A k \in i..n : k \in K
      BY <1>3, <2>1
    <3>2. (\A k \in 1..(n + 1) : (i <= k /\ k < n + 1) \/ (n + 1 <= k /\ k < i) => k \in K)
            <=> \A k \in i..n : k \in K
      OBVIOUS
    <3>3. n + 1 \in R <=> IsSecRule(blocks[n + 1])
      BY <1>1, <2>1
    <3> QED
      BY <1>4, <2>1, <3>1, <3>2, <3>3
  <2>4. \A j \in ChainIn(blocks, n, i) : j \in 1..n
    BY <1>4, <2>1
  <2>5. \A j \in ChainIn(blocks, n + 1, i) : j \in 1..n \/ j = n + 1
    <3>1. \A j \in ChainIn(blocks, n + 1, i) : j \in 1..(n + 1)
      BY <1>4, <2>1
    <3> QED
      BY <3>1
  <2>6. CASE IsSecRule(blocks[n + 1]) /\ i \in Open(blocks, n)
    <3>1. ChainIn(blocks, n + 1, i) = ChainIn(blocks, n, i) \cup {n + 1}
      BY <2>2, <2>3, <2>4, <2>5, <2>6, Zenon
    <3> QED
      BY <2>6, <3>1
  <2>7. CASE ~(IsSecRule(blocks[n + 1]) /\ i \in Open(blocks, n))
    <3>1. ChainIn(blocks, n + 1, i) = ChainIn(blocks, n, i)
      BY <2>2, <2>3, <2>4, <2>5, <2>7, Zenon
    <3> QED
      BY <2>7, <3>1
  <2> QED
    BY <2>6, <2>7
<1>7. ASSUME IsSecRule(blocks[n + 1])
      PROVE  ChainIn(blocks, n + 1, n + 1) = Open(blocks, n) \cup {n + 1}
  <2>1. n + 1 \in 1..(n + 1) /\ n + 1 \in R
    BY <1>1, <1>7
  <2>2. n + 1 \in ChainIn(blocks, n + 1, n + 1)
    BY <1>4, <2>1
  <2>3. ASSUME NEW j \in 1..n
        PROVE  j \in ChainIn(blocks, n + 1, n + 1) <=> j \in Open(blocks, n)
    <3>1. (\A k \in 1..(n + 1) : (n + 1 <= k /\ k < j) \/ (j <= k /\ k < n + 1) => k \in K)
            <=> \A k \in j..n : k \in K
      OBVIOUS
    <3>2. j \in 1..(n + 1)
      OBVIOUS
    <3> QED
      BY <1>3, <1>4, <2>1, <3>1, <3>2
  <2>4. \A j \in ChainIn(blocks, n + 1, n + 1) : j \in 1..n \/ j = n + 1
    <3>1. \A j \in ChainIn(blocks, n + 1, n + 1) : j \in 1..(n + 1)
      BY <1>4, <2>1
    <3> QED
      BY <3>1
  <2>5. \A j \in Open(blocks, n) : j \in 1..n
    BY <1>3
  <2> QED
    BY <2>2, <2>3, <2>4, <2>5, Zenon
<1>8. Open(blocks, n + 1) =
        IF ~Links(blocks, n + 1) THEN {}
        ELSE IF IsSecRule(blocks[n + 1]) THEN Open(blocks, n) \cup {n + 1}
        ELSE Open(blocks, n)
  <2>1. n + 1 \in 1..(n + 1)
    OBVIOUS
  <2>2. \A i \in Open(blocks, n + 1) : n + 1 \in K
    BY <1>3
  <2>3. ASSUME n + 1 \in K, NEW j \in 1..n
        PROVE  j \in Open(blocks, n + 1) <=> j \in Open(blocks, n)
    <3>1. (\A k \in j..(n + 1) : k \in K) <=> \A k \in j..n : k \in K
      BY <2>3
    <3>2. j \in 1..(n + 1)
      OBVIOUS
    <3> QED
      BY <1>3, <3>1, <3>2
  <2>4. ASSUME n + 1 \in K
        PROVE  n + 1 \in Open(blocks, n + 1) <=> n + 1 \in R
    <3>1. \A k \in (n + 1)..(n + 1) : k \in K
      BY <2>4
    <3> QED
      BY <1>3, <2>1, <3>1
  <2>5. \A j \in Open(blocks, n + 1) : j \in 1..n \/ j = n + 1
    <3>1. \A j \in Open(blocks, n + 1) : j \in 1..(n + 1)
      BY <1>3
    <3> QED
      BY <3>1
  <2>6. \A j \in Open(blocks, n) : j \in 1..n
    BY <1>3
  <2>7. (n + 1 \in R <=> IsSecRule(blocks[n + 1])) /\ (n + 1 \in K <=> Links(blocks, n + 1))
    BY <1>1, <1>2, <2>1
  <2>8. CASE ~Links(blocks, n + 1)
    <3>1. Open(blocks, n + 1) = {}
      BY <2>2, <2>7, <2>8, Zenon
    <3> QED
      BY <2>8, <3>1
  <2>9. CASE Links(blocks, n + 1) /\ IsSecRule(blocks[n + 1])
    <3>1. Open(blocks, n + 1) = Open(blocks, n) \cup {n + 1}
      BY <2>3, <2>4, <2>5, <2>6, <2>7, <2>9, Zenon
    <3> QED
      BY <2>9, <3>1
  <2>10. CASE Links(blocks, n + 1) /\ ~IsSecRule(blocks[n + 1])
    <3>1. Open(blocks, n + 1) = Open(blocks, n)
      BY <2>3, <2>4, <2>5, <2>6, <2>7, <2>10, Zenon
    <3> QED
      BY <2>10, <3>1
  <2> QED
    BY <2>8, <2>9, <2>10
<1> QED
  BY <1>5, <1>6, <1>7, <1>8

GroupState(n) == [groups : SUBSET SUBSET (1..n), cur : SUBSET (1..n)]

\* What a turn does, in terms of what the block is.
LEMMA TakeBlockCases ==
  ASSUME NEW blocks, NEW i, NEW n, NEW acc \in GroupState(n)
  PROVE  LET b == blocks[i]
             next == TakeBlock(blocks, acc, i)
         IN  /\ ~(Skipped(b) /\ IsSecRule(b))
             /\ Skipped(b) => next.groups = acc.groups /\ next.cur = acc.cur
             /\ ~Skipped(b) /\ ~IsSecRule(b) =>
                  /\ next.cur = {}
                  /\ next.groups = acc.groups \cup (IF acc.cur = {} THEN {} ELSE {acc.cur})
             /\ IsSecRule(b) /\ HasChain(b) =>
                  next.groups = acc.groups /\ next.cur = acc.cur \cup {i}
             /\ IsSecRule(b) /\ ~HasChain(b) =>
                  /\ next.groups = acc.groups \cup {acc.cur \cup {i}}
                  /\ next.cur = {}
             /\ next = [groups |-> next.groups, cur |-> next.cur]
<1> DEFINE b == blocks[i]
           next == TakeBlock(blocks, acc, i)
           close == [groups |-> acc.groups \cup {acc.cur}, cur |-> {}]
           member == acc.cur \cup {i}
<1>1. ~(Skipped(b) /\ IsSecRule(b))
  BY DEF Skipped, Inactive, IsSecRule
<1>2. acc = [groups |-> acc.groups, cur |-> acc.cur]
  BY DEF GroupState
<1>3. next = CASE Skipped(b) -> acc
               [] ~Skipped(b) /\ ~IsSecRule(b) -> IF acc.cur = {} THEN acc ELSE close
               [] IsSecRule(b) /\ HasChain(b) -> [acc EXCEPT !.cur = member]
               [] OTHER -> [groups |-> acc.groups \cup {member}, cur |-> {}]
  BY DEF TakeBlock
<1>4. [acc EXCEPT !.cur = member] = [groups |-> acc.groups, cur |-> member]
  BY <1>2
<1> DEFINE P == Skipped(b)
           Q == IsSecRule(b)
           H == HasChain(b)
           last == [groups |-> acc.groups \cup {member}, cur |-> {}]
           more == [groups |-> acc.groups, cur |-> member]
<1>5. /\ P => next = acc
      /\ ~P /\ ~Q => next = IF acc.cur = {} THEN acc ELSE close
      /\ Q /\ H => next = more
      /\ Q /\ ~H => next = last
  <2> HIDE DEF next, P, Q, H, b
  <2>1. CASE P
    BY <1>1, <1>3, <2>1 DEF P, Q, H
  <2>2. CASE ~P /\ ~Q
    BY <1>3, <2>2 DEF P, Q, H
  <2>3. CASE Q /\ H
    BY <1>1, <1>3, <1>4, <2>3 DEF P, Q, H
  <2>4. CASE Q /\ ~H
    BY <1>1, <1>3, <2>4 DEF P, Q, H
  <2> QED
    BY <1>1, <2>1, <2>2, <2>3, <2>4 DEF P, Q
<1> HIDE DEF next, b
<1>6. ~P /\ ~Q => /\ next.cur = {}
                  /\ next.groups = acc.groups \cup (IF acc.cur = {} THEN {} ELSE {acc.cur})
  BY <1>5
<1>7. /\ P => next.groups = acc.groups /\ next.cur = acc.cur
      /\ Q /\ H => next.groups = acc.groups /\ next.cur = member
      /\ Q /\ ~H => next.groups = acc.groups \cup {member} /\ next.cur = {}
  BY <1>5
<1>8. next = [groups |-> next.groups, cur |-> next.cur]
  <2>1. next = acc \/ next = close \/ next = more \/ next = last
    BY <1>5
  <2> QED
    BY <1>2, <2>1
<1> QED
  BY <1>1, <1>6, <1>7, <1>8 DEF next, b

LEMMA TakeBlockType ==
  ASSUME NEW blocks, NEW n, NEW i \in 1..n, NEW acc \in GroupState(n)
  PROVE  TakeBlock(blocks, acc, i) \in GroupState(n)
<1> DEFINE next == TakeBlock(blocks, acc, i)
<1>1. acc.groups \in SUBSET SUBSET (1..n) /\ acc.cur \in SUBSET (1..n)
  BY DEF GroupState
<1>2. next.groups \in SUBSET SUBSET (1..n) /\ next.cur \in SUBSET (1..n)
  <2> HIDE DEF next
  <2>1. CASE Skipped(blocks[i])
    BY <1>1, <2>1, TakeBlockCases DEF next
  <2>2. CASE ~Skipped(blocks[i]) /\ ~IsSecRule(blocks[i])
    BY <1>1, <2>2, TakeBlockCases DEF next
  <2>3. CASE IsSecRule(blocks[i]) /\ HasChain(blocks[i])
    BY <1>1, <2>3, TakeBlockCases DEF next
  <2>4. CASE IsSecRule(blocks[i]) /\ ~HasChain(blocks[i])
    BY <1>1, <2>4, TakeBlockCases DEF next
  <2> QED
    BY <2>1, <2>2, <2>3, <2>4
<1>3. next = [groups |-> next.groups, cur |-> next.cur]
  BY TakeBlockCases
<1> HIDE DEF next
<1> QED
  BY <1>2, <1>3 DEF GroupState, next

Groups(f, blocks) ==
  /\ f \in [0..Len(blocks) -> GroupState(Len(blocks))]
  /\ f[0] = [groups |-> {}, cur |-> {}]
  /\ \A i \in 1..Len(blocks) : f[i] = TakeBlock(blocks, f[i - 1], i)

LEMMA GroupLoop ==
  ASSUME NEW blocks, Len(blocks) \in Nat
  PROVE  \E f : Groups(f, blocks) /\ GroupBlocks(blocks) = f[Len(blocks)]
<1> DEFINE n == Len(blocks)
           S == GroupState(n)
           base == [groups |-> {}, cur |-> {}]
<1>1. n \in Nat
  OBVIOUS
<1>3. base \in S
  BY DEF GroupState
<1> DEFINE Eq(h) == h = [i \in 0..n |-> IF i = 0 THEN base ELSE TakeBlock(blocks, h[i - 1], i)]
           acc == CHOOSE h : Eq(h)
<1>4. GroupBlocks(blocks) = acc[n]
  BY DEF GroupBlocks
<1> HIDE DEF n, base, S
<1> DEFINE step == [a \in S \X (1..n) |-> TakeBlock(blocks, a[1], a[2])]
<1>5. IsTurn(step, S, n)
  <2>1. \A a \in S, i \in 1..n : TakeBlock(blocks, a, i) \in S
    BY TakeBlockType DEF S
  <2> QED
    BY <2>1 DEF IsTurn
<1>6. PICK f : IsLoop(f, S, n, base, step)
  <2> HIDE DEF step
  <2> QED
    BY <1>1, <1>3, <1>5, LoopExists, Zenon
<1>7. f \in [0..n -> S] /\ f[0] = base
  BY <1>6 DEF IsLoop
<1>8. ASSUME NEW i \in 1..n
      PROVE  f[i] = TakeBlock(blocks, f[i - 1], i)
  <2>1. i - 1 \in 0..n
    BY <1>1
  <2>2. f[i - 1] \in S
    BY <1>7, <2>1, Zenon
  <2>3. f[i] = step[<<f[i - 1], i>>]
    BY <1>6 DEF IsLoop
  <2> QED
    BY <2>2, <2>3
<1> HIDE DEF step
<1>9. Eq(f)
  <2>1. \A i \in 0..n : i = 0 \/ i \in 1..n
    BY <1>1
  <2>2. \A i \in 0..n : f[i] = IF i = 0 THEN base ELSE TakeBlock(blocks, f[i - 1], i)
    BY <1>7, <1>8, <2>1, Zenon
  <2> QED
    BY <1>7, <2>2
<1>10. Eq(acc)
  <2> HIDE DEF Eq
  <2> QED
    BY <1>9, Zenon
<1> HIDE DEF acc
<1>11. \A i \in 0..n : acc[i] = IF i = 0 THEN base ELSE TakeBlock(blocks, acc[i - 1], i)
  BY <1>10, Zenon
<1> HIDE DEF Eq
<1>12. acc[n] = f[n]
  <2>1. acc[0] = f[0]
    BY <1>1, <1>7, <1>11
  <2>2. ASSUME NEW i \in 1..n, acc[i - 1] = f[i - 1]
        PROVE  acc[i] = f[i]
    <3>1. i \in 0..n /\ i # 0
      BY <1>1
    <3> QED
      BY <1>8, <1>11, <2>2, <3>1, Zenon
  <2>3. n \in 0..n
    BY <1>1
  <2> QED
    BY <1>1, <2>1, <2>2, <2>3, LoopUnique, Zenon
<1> QED
  BY <1>4, <1>7, <1>8, <1>12, Zenon DEF Groups, n, S, base

\* What the loop has after n blocks: the chains that have ended, each as the
\* whole chain of each of its members, and the one that is open.
Grouped(blocks, acc, n) ==
  /\ acc.cur = Open(blocks, n)
  /\ \A i \in 1..n : IsSecRule(blocks[i]) /\ i \notin acc.cur =>
       ChainIn(blocks, n, i) \in acc.groups
  /\ \A g \in acc.groups : \A i \in g :
       /\ i \in 1..n /\ IsSecRule(blocks[i]) /\ i \notin acc.cur
       /\ g = ChainIn(blocks, n, i)

LEMMA TakeBlockGroups ==
  ASSUME NEW blocks, NEW n \in Nat, NEW m, NEW acc \in GroupState(m),
         Grouped(blocks, acc, n)
  PROVE  Grouped(blocks, TakeBlock(blocks, acc, n + 1), n + 1)
<1> DEFINE b == blocks[n + 1]
           next == TakeBlock(blocks, acc, n + 1)
           O == Open(blocks, n)
           C(i) == ChainIn(blocks, n, i)
           D(i) == ChainIn(blocks, n + 1, i)
           R(i) == IsSecRule(blocks[i])
<1>1. /\ acc.cur = O
      /\ \A i \in 1..n : R(i) /\ i \notin O => C(i) \in acc.groups
      /\ \A g \in acc.groups : \A i \in g :
           i \in 1..n /\ R(i) /\ i \notin O /\ g = C(i)
  BY DEF Grouped
<1>2. /\ \A i \in O : C(i) = O
      /\ \A i \in 1..n : R(i) /\ ~(R(n + 1) /\ i \in O) => D(i) = C(i)
      /\ \A i \in 1..n : R(i) /\ R(n + 1) /\ i \in O => D(i) = C(i) \cup {n + 1}
      /\ R(n + 1) => D(n + 1) = O \cup {n + 1}
  BY ChainGrows
<1>3. /\ ~Links(blocks, n + 1) => Open(blocks, n + 1) = {}
      /\ Links(blocks, n + 1) /\ R(n + 1) => Open(blocks, n + 1) = O \cup {n + 1}
      /\ Links(blocks, n + 1) /\ ~R(n + 1) => Open(blocks, n + 1) = O
  BY ChainGrows
<1>4. \A i \in 1..(n + 1) : i \in 1..n \/ i = n + 1
  OBVIOUS
<1>5. (\A i \in 1..n : i \in 1..(n + 1)) /\ n + 1 \in 1..(n + 1)
  OBVIOUS
<1>6. \A i \in O : i \in 1..n /\ R(i)
  BY DEF Open
<1>7. n + 1 \notin 1..n
  OBVIOUS
<1>8. SUFFICES /\ next.cur = Open(blocks, n + 1)
               /\ \A i \in 1..(n + 1) : R(i) /\ i \notin next.cur => D(i) \in next.groups
               /\ \A g \in next.groups : \A i \in g :
                    i \in 1..(n + 1) /\ R(i) /\ i \notin next.cur /\ g = D(i)
  BY DEF Grouped
<1> HIDE DEF O, C, D, R
<1>9. CASE Skipped(b)
  <2>1. ~R(n + 1) /\ Links(blocks, n + 1) /\ next.groups = acc.groups /\ next.cur = acc.cur
    BY <1>9, TakeBlockCases DEF Links, R
  <2> HIDE DEF next
  <2>2. \A i \in 1..n : R(i) => D(i) = C(i)
    BY <1>2, <2>1, Zenon
  <2>3. \A i \in 1..(n + 1) : R(i) /\ i \notin next.cur => D(i) \in next.groups
    <3> SUFFICES ASSUME NEW i \in 1..(n + 1), R(i), i \notin next.cur
                 PROVE  D(i) \in next.groups
      BY Zenon
    <3>1. i \in 1..n
      BY <1>4, <2>1, Zenon
    <3>2. C(i) \in acc.groups
      BY <1>1, <2>1, <3>1, Zenon
    <3> QED
      BY <2>1, <2>2, <3>1, <3>2, Zenon
  <2>4. \A g \in next.groups : \A i \in g :
          i \in 1..(n + 1) /\ R(i) /\ i \notin next.cur /\ g = D(i)
    BY <1>1, <1>5, <2>1, <2>2, Zenon
  <2> QED
    BY <1>1, <1>3, <2>1, <2>3, <2>4, Zenon
<1>10. CASE ~Skipped(b) /\ ~IsSecRule(b)
  <2>1. /\ ~R(n + 1) /\ ~Links(blocks, n + 1) /\ next.cur = {}
        /\ next.groups = acc.groups \cup (IF O = {} THEN {} ELSE {O})
    BY <1>1, <1>10, TakeBlockCases DEF Links, R
  <2>2. /\ \A g \in next.groups : g \in acc.groups \/ g = O
        /\ \A g \in acc.groups : g \in next.groups
        /\ \A i \in O : O \in next.groups
    <3> HIDE DEF next
    <3> QED
      BY <2>1
  <2> HIDE DEF next
  <2>3. \A i \in 1..n : R(i) => D(i) = C(i)
    BY <1>2, <2>1, Zenon
  <2>4. \A i \in O : D(i) = O
    BY <1>2, <1>6, <2>3, Zenon
  <2>5. \A i \in 1..(n + 1) : R(i) /\ i \notin next.cur => D(i) \in next.groups
    <3> SUFFICES ASSUME NEW i \in 1..(n + 1), R(i), i \notin next.cur
                 PROVE  D(i) \in next.groups
      BY Zenon
    <3>1. i \in 1..n
      BY <1>4, <2>1, Zenon
    <3>2. CASE i \in O
      BY <2>2, <2>4, <3>2, Zenon
    <3>3. CASE i \notin O
      <4>1. C(i) \in acc.groups /\ D(i) = C(i)
        BY <1>1, <2>3, <3>1, <3>3, Zenon
      <4> QED
        BY <2>2, <4>1, Zenon
    <3> QED
      BY <3>2, <3>3, Zenon
  <2>6. \A g \in next.groups : \A i \in g :
          i \in 1..(n + 1) /\ R(i) /\ i \notin next.cur /\ g = D(i)
    <3> SUFFICES ASSUME NEW g \in next.groups, NEW i \in g
                 PROVE  i \in 1..(n + 1) /\ R(i) /\ i \notin next.cur /\ g = D(i)
      BY Zenon
    <3>1. CASE g \in acc.groups
      BY <1>1, <1>5, <2>1, <2>3, <3>1, Zenon
    <3>2. CASE g = O
      BY <1>5, <1>6, <2>1, <2>4, <3>2, Zenon
    <3> QED
      BY <2>2, <3>1, <3>2, Zenon
  <2> QED
    BY <1>3, <2>1, <2>5, <2>6, Zenon
<1>11. CASE IsSecRule(b) /\ HasChain(b)
  <2>1. /\ R(n + 1) /\ Links(blocks, n + 1) /\ next.groups = acc.groups
        /\ next.cur = O \cup {n + 1}
    BY <1>1, <1>11, TakeBlockCases DEF Links, R
  <2> HIDE DEF next
  <2>2. \A i \in 1..n : R(i) /\ i \notin O => D(i) = C(i)
    BY <1>2, Zenon
  <2>3. \A i \in 1..(n + 1) : R(i) /\ i \notin next.cur => D(i) \in next.groups
    <3> SUFFICES ASSUME NEW i \in 1..(n + 1), R(i), i \notin next.cur
                 PROVE  D(i) \in next.groups
      BY Zenon
    <3>1. i \in 1..n
      BY <1>4, <2>1, Zenon
    <3>2. C(i) \in acc.groups
      BY <1>1, <2>1, <3>1, Zenon
    <3> QED
      BY <2>1, <2>2, <3>1, <3>2, Zenon
  <2>4. \A g \in next.groups : \A i \in g :
          i \in 1..(n + 1) /\ R(i) /\ i \notin next.cur /\ g = D(i)
    <3> SUFFICES ASSUME NEW g \in acc.groups, NEW i \in g
                 PROVE  i \in 1..(n + 1) /\ R(i) /\ i \notin next.cur /\ g = D(i)
      BY <2>1, Zenon
    <3>1. i \in 1..n /\ R(i) /\ i \notin O /\ g = C(i)
      BY <1>1, Zenon
    <3>2. i # n + 1
      BY <1>7, <3>1, Zenon
    <3> QED
      BY <1>5, <2>1, <2>2, <3>1, <3>2, Zenon
  <2> QED
    BY <1>3, <2>1, <2>3, <2>4, Zenon
<1>12. CASE IsSecRule(b) /\ ~HasChain(b)
  <2>1. /\ R(n + 1) /\ ~Links(blocks, n + 1) /\ next.cur = {}
        /\ next.groups = acc.groups \cup {O \cup {n + 1}}
    BY <1>1, <1>12, TakeBlockCases DEF Links, R
  <2>2. \A i \in O : D(i) = O \cup {n + 1}
    BY <1>2, <1>6, <2>1, Zenon
  <2>3. \A i \in 1..n : R(i) /\ i \notin O => D(i) = C(i)
    BY <1>2, Zenon
  <2>4. D(n + 1) = O \cup {n + 1}
    BY <1>2, <2>1, Zenon
  <2> HIDE DEF next
  <2>5. \A i \in 1..(n + 1) : R(i) /\ i \notin next.cur => D(i) \in next.groups
    <3> SUFFICES ASSUME NEW i \in 1..(n + 1), R(i), i \notin next.cur
                 PROVE  D(i) \in next.groups
      BY Zenon
    <3>1. O \cup {n + 1} \in next.groups /\ \A g \in acc.groups : g \in next.groups
      BY <2>1, Zenon
    <3>2. CASE i = n + 1
      BY <2>4, <3>1, <3>2, Zenon
    <3>3. CASE i \in O
      BY <2>2, <3>1, <3>3, Zenon
    <3>4. CASE i \in 1..n /\ i \notin O
      <4>1. C(i) \in acc.groups /\ D(i) = C(i)
        BY <1>1, <2>3, <3>4, Zenon
      <4> QED
        BY <3>1, <4>1, Zenon
    <3> QED
      BY <1>4, <3>2, <3>3, <3>4, Zenon
  <2>6. \A g \in next.groups : \A i \in g :
          i \in 1..(n + 1) /\ R(i) /\ i \notin next.cur /\ g = D(i)
    <3> SUFFICES ASSUME NEW g \in next.groups, NEW i \in g
                 PROVE  i \in 1..(n + 1) /\ R(i) /\ i \notin next.cur /\ g = D(i)
      BY Zenon
    <3>1. CASE g \in acc.groups
      BY <1>1, <1>5, <2>1, <2>3, <3>1, Zenon
    <3>2. CASE g = O \cup {n + 1}
      BY <1>5, <1>6, <2>1, <2>2, <2>4, <3>2, Zenon
    <3> QED
      BY <2>1, <3>1, <3>2, Zenon
  <2> QED
    BY <1>3, <2>1, <2>5, <2>6, Zenon
<1> QED
  BY <1>9, <1>10, <1>11, <1>12

\* The groups of a file are the chains of its SecRules, all of them.
LEMMA ChainSecRuleGroups ==
  ASSUME NEW blocks, Len(blocks) \in Nat
  PROVE  /\ \A i \in 1..Len(blocks) : IsSecRule(blocks[i]) =>
              ChainIn(blocks, Len(blocks), i) \in chainSecRuleGroups(blocks)
         /\ \A g \in chainSecRuleGroups(blocks) : \A i \in g :
              /\ i \in 1..Len(blocks) /\ IsSecRule(blocks[i])
              /\ g = ChainIn(blocks, Len(blocks), i)
<1> DEFINE n == Len(blocks)
           G == chainSecRuleGroups(blocks)
<1>1. PICK f : Groups(f, blocks) /\ GroupBlocks(blocks) = f[n]
  BY GroupLoop
<1>2. f \in [0..n -> GroupState(n)] /\ f[0] = [groups |-> {}, cur |-> {}]
  BY <1>1 DEF Groups
<1>3. \A i \in 1..n : f[i] = TakeBlock(blocks, f[i - 1], i)
  BY <1>1 DEF Groups
<1>4. G = f[n].groups \cup (IF f[n].cur = {} THEN {} ELSE {f[n].cur})
  BY <1>1 DEF chainSecRuleGroups
<1>5. n \in Nat
  OBVIOUS
<1> SUFFICES /\ \A i \in 1..n : IsSecRule(blocks[i]) => ChainIn(blocks, n, i) \in G
             /\ \A g \in G : \A i \in g :
                  i \in 1..n /\ IsSecRule(blocks[i]) /\ g = ChainIn(blocks, n, i)
  OBVIOUS
<1> HIDE DEF n, G
<1> DEFINE P == {i \in 0..n : Grouped(blocks, f[i], i)}
<1>6. 0 \in P
  <2>1. f[0].groups = {} /\ f[0].cur = {}
    BY <1>2
  <2>2. Open(blocks, 0) = {}
    BY DEF Open
  <2>3. Grouped(blocks, f[0], 0)
    BY <2>1, <2>2 DEF Grouped
  <2> QED
    BY <1>5, <2>3
<1>7. ASSUME NEW i \in 1..n, i - 1 \in P
      PROVE  i \in P
  <2>1. i - 1 \in 0..n /\ i - 1 \in Nat /\ i \in 0..n /\ i - 1 + 1 = i
    BY <1>5
  <2>2. f[i - 1] \in GroupState(n) /\ Grouped(blocks, f[i - 1], i - 1)
    BY <1>2, <1>7, <2>1, Zenon
  <2>3. Grouped(blocks, TakeBlock(blocks, f[i - 1], i - 1 + 1), i - 1 + 1)
    BY <2>1, <2>2, TakeBlockGroups, Zenon
  <2>4. Grouped(blocks, f[i], i)
    BY <1>3, <2>1, <2>3, Zenon
  <2> QED
    BY <2>1, <2>4
<1>8. n \in P
  <2> HIDE DEF P
  <2> QED
    BY <1>5, <1>6, <1>7, UpTo, Zenon
<1> DEFINE O == Open(blocks, n)
           C(i) == ChainIn(blocks, n, i)
<1>9. /\ f[n].cur = O
      /\ \A i \in 1..n : IsSecRule(blocks[i]) /\ i \notin O => C(i) \in f[n].groups
      /\ \A g \in f[n].groups : \A i \in g :
           i \in 1..n /\ IsSecRule(blocks[i]) /\ g = C(i)
  BY <1>8, Zenon DEF Grouped
<1>10. /\ \A g \in G : g \in f[n].groups \/ g = O
       /\ \A g \in f[n].groups : g \in G
       /\ \A i \in O : O \in G
  <2> HIDE DEF O, C
  <2> QED
    BY <1>4, <1>9
<1>11. \A i \in O : C(i) = O
  BY <1>5, ChainGrows
<1>12. \A i \in O : i \in 1..n /\ IsSecRule(blocks[i])
  BY DEF Open
<1> HIDE DEF O, C
<1>13. \A i \in 1..n : IsSecRule(blocks[i]) => C(i) \in G
  BY <1>9, <1>10, <1>11, Zenon
<1>14. \A g \in G : \A i \in g : i \in 1..n /\ IsSecRule(blocks[i]) /\ g = C(i)
  BY <1>9, <1>10, <1>11, <1>12, Zenon
<1> QED
  BY <1>13, <1>14 DEF C

\* A block goes when its chain has an unwanted member, and its group is then
\* reported.
LEMMA DropIsReported ==
  ASSUME NEW blocks, Len(blocks) \in Nat, DOMAIN blocks = 1..Len(blocks), NEW o
  PROVE  LET wish == WishDrop(blocks, o)
             hit == {g \in chainSecRuleGroups(blocks) : g \cap wish # {}}
         IN  /\ Drop(blocks, o) = UNION hit
             /\ \A k : k \in Drop(blocks, o) <=>
                  /\ k \in 1..Len(blocks) /\ IsSecRule(blocks[k])
                  /\ ChainIn(blocks, Len(blocks), k) \cap wish # {}
             /\ \A g \in hit : g \subseteq 1..Len(blocks)
<1> DEFINE n == Len(blocks)
           wish == WishDrop(blocks, o)
           G == chainSecRuleGroups(blocks)
           hit == {g \in G : g \cap wish # {}}
           C(i) == ChainIn(blocks, n, i)
           R(i) == IsSecRule(blocks[i])
<1>1. \A i \in 1..n : R(i) => C(i) \in G
  BY ChainSecRuleGroups
<1>2. \A g \in G : \A i \in g : i \in 1..n /\ R(i) /\ g = C(i)
  BY ChainSecRuleGroups
<1>3. \A i \in wish : i \in 1..n /\ R(i)
  BY DEF WishDrop
<1>4. \A i \in 1..n : R(i) => i \in C(i)
  BY DEF ChainIn
<1>5. Drop(blocks, o) = wish \cup UNION hit
  BY DEF Drop
<1> HIDE DEF n, wish, G, C, R
<1>6. wish \subseteq UNION hit
  BY <1>1, <1>3, <1>4, Zenon
<1>7. Drop(blocks, o) = UNION hit
  BY <1>5, <1>6, Zenon
<1>8. ASSUME NEW k
      PROVE  k \in UNION hit <=> k \in 1..n /\ R(k) /\ C(k) \cap wish # {}
  BY <1>1, <1>2, <1>4, Zenon
<1>9. \A g \in hit : g \subseteq 1..n
  BY <1>2, Zenon
<1> QED
  BY <1>7, <1>8, <1>9, Zenon DEF n, wish, G, C, R

-----------------------------------------------------------------------------
(* What the generator makes of a file.                                     *)

\* The lines of the blocks that stay.
LEMMA WithoutElements ==
  ASSUME NEW L, NEW blocks \in Seq(Seq(L)), NEW gone
  PROVE  /\ Without(blocks, gone) \in Seq(L)
         /\ \A x : x \in ToSet(Without(blocks, gone)) <=>
              \E i \in 1..Len(blocks) : i \notin gone /\ x \in ToSet(blocks[i])
<1> DEFINE n == Len(blocks)
           s == [i \in 1..n |-> IF i \in gone THEN <<>> ELSE blocks[i]]
<1>1. n \in Nat /\ DOMAIN blocks = 1..n
  BY LenProperties
<1>2. \A i \in 1..n : blocks[i] \in Seq(L)
  BY ElementOfSeq
<1>3. Without(blocks, gone) = FlattenSeq(s)
  BY <1>1 DEF Without
<1> HIDE DEF n
<1>4. s \in Seq(Seq(L)) /\ Len(s) = n
  <2>1. <<>> \in Seq(L)
    OBVIOUS
  <2>2. s \in [1..n -> Seq(L)]
    BY <1>2, <2>1
  <2> HIDE DEF s
  <2> QED
    BY <1>1, <2>2, FunctionIsSeq
<1>5. \A i \in 1..n : s[i] = IF i \in gone THEN <<>> ELSE blocks[i]
  OBVIOUS
<1> HIDE DEF s
<1>6. \A x : x \in ToSet(FlattenSeq(s)) <=> \E i \in 1..n : x \in ToSet(s[i])
  BY <1>4, FlattenSeqElements
<1>7. ToSet(<<>>) = {}
  BY DEF ToSet
<1>8. \A i \in 1..n : ToSet(s[i]) = IF i \in gone THEN {} ELSE ToSet(blocks[i])
  BY <1>5, <1>7
<1>9. FlattenSeq(s) \in Seq(L)
  BY <1>4, FlattenSeqAppend, EmptySeq
<1> QED
  BY <1>3, <1>6, <1>8, <1>9 DEF n

\* The file without the empty lines at its end is a beginning of it.
LEMMA TrimmedIsPrefix ==
  ASSUME NEW L, NEW lines \in Seq(L)
  PROVE  \E m \in 0..Len(lines) :
            /\ Trimmed(lines) = SubSeq(lines, 1, m)
            /\ \A i \in 1..Len(lines) : m < i => lines[i].dir = ""
<1> DEFINE n == Len(lines)
           full == {i \in 1..n : lines[i].dir # "" \/ lines[i].indented}
<1>1. n \in Nat /\ DOMAIN lines = 1..n
  BY LenProperties
<1>2. Trimmed(lines) = IF full = {} THEN <<>> ELSE SubSeq(lines, 1, Max(full))
  BY <1>1 DEF Trimmed
<1>3. CASE full = {}
  <2>1. SubSeq(lines, 1, 0) = <<>>
    BY SubSeqEmpty
  <2>2. 0 \in 0..n
    BY <1>1
  <2>3. \A i \in 1..n : lines[i].dir = ""
    BY <1>3, Zenon
  <2> QED
    BY <1>2, <1>3, <2>1, <2>2, <2>3
<1>4. CASE full # {}
  <2>1. full \in SUBSET (1..n)
    OBVIOUS
  <2>2. Max(full) \in full /\ \A y \in full : y <= Max(full)
    <3> HIDE DEF full, n
    <3> QED
      BY <1>1, <1>4, <2>1, MinMax
  <2>3. Max(full) \in 0..n /\ \A i \in 1..n : Max(full) < i => lines[i].dir = ""
    <3> DEFINE m == Max(full)
    <3>1. m \in full /\ \A y \in full : y <= m
      BY <2>2
    <3>2. \A i \in 1..n : i <= m \/ lines[i].dir = ""
      <4> HIDE DEF m
      <4> QED
        BY <3>1, Zenon
    <3>3. m \in 1..n
      BY <3>1, Zenon
    <3> HIDE DEF m, full
    <3>4. \A i \in 1..n : m < i => lines[i].dir = ""
      <4>1. \A i \in 1..n : ~(m < i /\ i <= m)
        BY <1>1, <3>3
      <4> QED
        BY <3>2, <4>1, Zenon
    <3>5. m \in 0..n
      BY <1>1, <3>3
    <3> QED
      BY <3>4, <3>5, Zenon DEF m
  <2> QED
    BY <1>2, <1>4, <2>3
<1> QED
  BY <1>3, <1>4

LEMMA TrimmedType ==
  ASSUME NEW L, NEW lines \in Seq(L)
  PROVE  /\ Trimmed(lines) \in Seq(L)
         /\ Len(Trimmed(lines)) <= Len(lines)
         /\ ToSet(Trimmed(lines)) \subseteq ToSet(lines)
<1>1. Len(lines) \in Nat /\ DOMAIN lines = 1..Len(lines)
  BY LenProperties
<1>2. \A i \in 1..Len(lines) : lines[i] \in L
  BY ElementOfSeq
<1>3. PICK m \in 0..Len(lines) : Trimmed(lines) = SubSeq(lines, 1, m)
  BY TrimmedIsPrefix
<1> DEFINE t == SubSeq(lines, 1, m)
<1>4. t \in Seq(L) /\ Len(t) = m /\ \A i \in 1..m : t[i] = lines[i]
  <2>1. \A i \in 1..m : lines[i] \in L
    BY <1>1, <1>2
  <2> QED
    BY <1>1, <2>1, SubSeqProperties
<1> HIDE DEF t
<1>5. DOMAIN t = 1..m
  BY <1>4, LenProperties
<1>6. ToSet(t) \subseteq ToSet(lines)
  BY <1>1, <1>4, <1>5 DEF ToSet
<1> QED
  BY <1>1, <1>3, <1>4, <1>6 DEF t

-----------------------------------------------------------------------------
(* The invariant: before the generator has run nothing is written; then    *)
(* the output and the warnings are those of the file as it is.             *)

Outcome ==
  LET blocks == splitIntoRules(Trimmed(content))
  IN  /\ out = Without(blocks, Drop(blocks, opts))
      /\ warns = {g \in chainSecRuleGroups(blocks) : g \cap WishDrop(blocks, opts) # {}}

Filtered ==
  /\ opts \in Options
  /\ content \in Seq(Line)
  /\ size \in 0..MaxFragments
  /\ done \in BOOLEAN
  /\ done /\ Mentions(content) => Outcome
  /\ ~(done /\ Mentions(content)) => out = <<>> /\ warns = {}

LEMMA FilteredInvariant == Spec => []Filtered
<1>1. Init => Filtered
  <2>1. ASSUME Init
        PROVE  Filtered
    <3>1. content \in Seq(Line) /\ size \in 0..MaxFragments /\ ~done /\ done \in BOOLEAN
      <4>1. content = <<>> /\ size = 0 /\ done = FALSE
        BY <2>1 DEF Init
      <4>2. <<>> \in Seq(Line)
        BY EmptySeq
      <4>3. 0 \in 0..MaxFragments
        BY RuleFilterAssumption
      <4> QED
        BY <4>1, <4>2, <4>3
    <3> QED
      BY <2>1, <3>1 DEF Init, Filtered
  <2> QED
    BY <2>1
<1>2. Filtered /\ [Next]_vars => Filtered'
  <2> SUFFICES ASSUME Filtered, [Next]_vars
               PROVE  Filtered'
    OBVIOUS
  <2>1. ASSUME NEW fragment \in Fragments, Write(fragment)
        PROVE  Filtered'
    <3>1. content' \in Seq(Line)
      BY <2>1, RuleFilterAssumption, ConcatProperties DEF Write, Filtered
    <3>2. size' \in 0..MaxFragments
      BY <2>1, RuleFilterAssumption DEF Write, Filtered
    <3>3. ~done /\ ~done' /\ opts' = opts /\ out' = out /\ warns' = warns /\ done' \in BOOLEAN
      BY <2>1 DEF Write, Filtered
    <3>4. out = <<>> /\ warns = {} /\ opts \in Options
      BY <3>3 DEF Filtered
    <3> QED
      BY <3>1, <3>2, <3>3, <3>4 DEF Filtered
  <2>2. CASE PassOver
    <3>1. /\ ~done /\ done' = TRUE /\ opts' = opts /\ content' = content
          /\ size' = size /\ out' = out /\ warns' = warns /\ ~Mentions(content)
      BY <2>2 DEF PassOver
    <3>2. ~Mentions(content')
      BY <3>1
    <3>3. out = <<>> /\ warns = {}
      BY <3>1 DEF Filtered
    <3> QED
      BY <3>1, <3>2, <3>3 DEF Filtered
  <2>3. CASE Process
    <3>1. ~done /\ done' = TRUE /\ opts' = opts /\ content' = content /\ size' = size
      BY <2>3 DEF Process
    <3>2. Mentions(content) /\ Outcome'
      BY <2>3, <3>1 DEF Process, Outcome
    <3> QED
      BY <3>1, <3>2 DEF Filtered
  <2>4. CASE UNCHANGED vars
    <3>1. /\ opts' = opts /\ content' = content /\ size' = size /\ done' = done
          /\ out' = out /\ warns' = warns
      BY <2>4 DEF vars
    <3>2. Outcome => Outcome'
      BY <3>1 DEF Outcome
    <3> QED
      BY <3>1, <3>2 DEF Filtered
  <2> QED
    BY <2>1, <2>2, <2>3, <2>4 DEF Next
<1> QED
  BY <1>1, <1>2, PTL DEF Spec

\* What the generator writes are lines of the file, and what it reports are
\* blocks of it.
LEMMA OutcomeIsOfFile ==
  ASSUME content \in Seq(Line), Outcome
  PROVE  /\ ToSet(out) \subseteq ToSet(content)
         /\ \A g \in warns : g \subseteq 1..Len(content)
<1> DEFINE T == Trimmed(content)
           B == splitIntoRules(T)
<1>1. T \in Seq(Line) /\ Len(T) <= Len(content) /\ ToSet(T) \subseteq ToSet(content)
  BY TrimmedType
<1> HIDE DEF T
<1>2. B \in Seq(Seq(Line)) /\ FlattenSeq(B) = T /\ Len(B) <= Len(T)
  BY <1>1, SplitIntoRules
<1>3. out = Without(B, Drop(B, opts))
  BY DEF Outcome, T
<1>4. warns = {g \in chainSecRuleGroups(B) : g \cap WishDrop(B, opts) # {}}
  BY DEF Outcome, T
<1> HIDE DEF B
<1>5. Len(B) \in Nat /\ DOMAIN B = 1..Len(B) /\ Len(T) \in Nat /\ Len(content) \in Nat
  BY <1>1, <1>2, LenProperties
<1>6. ToSet(out) \subseteq ToSet(T)
  <2>1. \A x : x \in ToSet(out) => \E i \in 1..Len(B) : x \in ToSet(B[i])
    BY <1>2, <1>3, WithoutElements
  <2>2. \A x : x \in ToSet(T) <=> \E i \in 1..Len(B) : x \in ToSet(B[i])
    BY <1>2, FlattenSeqElements
  <2> QED
    BY <2>1, <2>2, Zenon
<1>7. \A g \in warns : g \subseteq 1..Len(B)
  BY <1>4, <1>5, DropIsReported, Zenon
<1>8. 1..Len(B) \subseteq 1..Len(content)
  BY <1>1, <1>2, <1>5
<1> QED
  BY <1>1, <1>6, <1>7, <1>8, Zenon

(***************************************************************************)
(* Type correctness: for any file and options, what processFileContent     *)
(* writes are lines of the file, and the groups it reports are groups of   *)
(* blocks of it.                                                           *)
(***************************************************************************)
THEOREM FilterTypeCorrect == Spec => []TypeOK
<1>1. Filtered => TypeOK
  <2> SUFFICES ASSUME Filtered
               PROVE  TypeOK
    OBVIOUS
  <2>1. opts \in Options /\ content \in Seq(Line) /\ size \in 0..MaxFragments /\ done \in BOOLEAN
    BY DEF Filtered
  <2>2. ToSet(out) \subseteq ToSet(content) /\ \A g \in warns : g \subseteq 1..Len(content)
    <3>1. CASE done /\ Mentions(content)
      BY <2>1, <3>1, OutcomeIsOfFile DEF Filtered
    <3>2. CASE ~(done /\ Mentions(content))
      <4>1. out = <<>> /\ warns = {}
        BY <3>2 DEF Filtered
      <4> QED
        BY <4>1 DEF ToSet
    <3> QED
      BY <3>1, <3>2
  <2> QED
    BY <2>1, <2>2 DEF TypeOK
<1> QED
  BY <1>1, FilteredInvariant, PTL

(***************************************************************************)
(* For any file and options, splitIntoRules loses no line and moves none,  *)
(* and the lines that processFileContent leaves out are those of the       *)
(* groups it reports: no rule goes without a warning.                      *)
(***************************************************************************)
THEOREM DropsAreReported == Spec => []EveryDropReported
<1>1. Filtered => EveryDropReported
  <2> SUFFICES ASSUME Filtered, done /\ Mentions(content)
               PROVE  LET blocks == splitIntoRules(Trimmed(content))
                      IN  /\ FlattenSeq(blocks) = Trimmed(content)
                          /\ out = Without(blocks, UNION warns)
    BY DEF EveryDropReported
  <2> DEFINE T == Trimmed(content)
             B == splitIntoRules(T)
  <2>1. content \in Seq(Line) /\ Outcome
    BY DEF Filtered
  <2>2. T \in Seq(Line)
    BY <2>1, TrimmedType
  <2>3. B \in Seq(Seq(Line)) /\ FlattenSeq(B) = T
    <3> HIDE DEF T
    <3> QED
      BY <2>2, SplitIntoRules
  <2>4. out = Without(B, Drop(B, opts))
    BY <2>1 DEF Outcome
  <2>5. warns = {g \in chainSecRuleGroups(B) : g \cap WishDrop(B, opts) # {}}
    BY <2>1 DEF Outcome
  <2>6. Drop(B, opts) = UNION warns
    <3> HIDE DEF B
    <3>1. Len(B) \in Nat /\ DOMAIN B = 1..Len(B)
      BY <2>3, LenProperties
    <3> QED
      BY <2>5, <3>1, DropIsReported, Zenon
  <2> QED
    BY <2>3, <2>4, <2>6, Zenon
<1> QED
  BY <1>1, FilteredInvariant, PTL

-----------------------------------------------------------------------------
(* How Coraza reads: line by line, and so block by block.                  *)

ReadState(L) == [rules : Seq(Seq(L)), current : Seq(L)]

\* What a line does to what has been read.
LEMMA ReadLineCases ==
  ASSUME NEW L, NEW acc \in ReadState(L), NEW line \in L
  PROVE  LET next == ReadLine(acc, line)
             current == Append(acc.current, line)
         IN  /\ next \in ReadState(L)
             /\ Inactive(line) => next = acc
             /\ ~Inactive(line) /\ line.more =>
                  next = [rules |-> acc.rules, current |-> current]
             /\ ~Inactive(line) /\ ~line.more =>
                  next = [rules |-> Append(acc.rules, current), current |-> <<>>]
<1> DEFINE next == ReadLine(acc, line)
           D == Append(acc.current, line)
           P == Inactive(line)
           Q == line.more
<1>1. acc.rules \in Seq(Seq(L)) /\ acc.current \in Seq(L)
  BY DEF ReadState
<1>2. D \in Seq(L) /\ <<>> \in Seq(L)
  BY <1>1, AppendProperties
<1>3. Append(acc.rules, D) \in Seq(Seq(L))
  <2> HIDE DEF D
  <2> QED
    BY <1>1, <1>2, AppendProperties
<1>4. acc = [rules |-> acc.rules, current |-> acc.current]
  BY DEF ReadState
<1>5. [acc EXCEPT !.current = D] = [rules |-> acc.rules, current |-> D]
  BY <1>4
<1>6. next = CASE P -> acc
               [] ~P /\ Q -> [acc EXCEPT !.current = D]
               [] OTHER -> [rules |-> Append(acc.rules, D), current |-> <<>>]
  BY DEF ReadLine
<1> HIDE DEF next, D, P, Q
<1>7. /\ P => next = acc
      /\ ~P /\ Q => next = [rules |-> acc.rules, current |-> D]
      /\ ~P /\ ~Q => next = [rules |-> Append(acc.rules, D), current |-> <<>>]
  BY <1>5, <1>6
<1>8. next \in ReadState(L)
  <2>1. CASE P
    BY <1>7, <2>1
  <2>2. CASE ~P /\ Q
    <3>1. [rules |-> acc.rules, current |-> D] \in ReadState(L)
      BY <1>1, <1>2 DEF ReadState
    <3> QED
      BY <1>7, <2>2, <3>1
  <2>3. CASE ~P /\ ~Q
    <3>1. [rules |-> Append(acc.rules, D), current |-> <<>>] \in ReadState(L)
      BY <1>2, <1>3 DEF ReadState
    <3> QED
      BY <1>7, <2>3, <3>1
  <2> QED
    BY <2>1, <2>2, <2>3
<1> QED
  BY <1>7, <1>8 DEF next, D, P, Q

Reads(f, L, lines) ==
  /\ f \in [0..Len(lines) -> ReadState(L)]
  /\ f[0] = [rules |-> <<>>, current |-> <<>>]
  /\ \A i \in 1..Len(lines) : f[i] = ReadLine(f[i - 1], lines[i])

LEMMA ReadLoop ==
  ASSUME NEW L, NEW lines \in Seq(L)
  PROVE  \E f : Reads(f, L, lines) /\ Read(lines) = f[Len(lines)]
<1> DEFINE n == Len(lines)
           S == ReadState(L)
           base == [rules |-> <<>>, current |-> <<>>]
<1>1. n \in Nat
  BY LenProperties
<1>2. \A i \in 1..n : lines[i] \in L
  BY ElementOfSeq
<1>3. base \in S
  BY DEF ReadState
<1> DEFINE Eq(h) == h = [i \in 0..n |-> IF i = 0 THEN base ELSE ReadLine(h[i - 1], lines[i])]
           acc == CHOOSE h : Eq(h)
<1>4. Read(lines) = acc[n]
  BY DEF Read
<1> HIDE DEF n, base, S
<1> DEFINE step == [a \in S \X (1..n) |-> ReadLine(a[1], lines[a[2]])]
<1>5. IsTurn(step, S, n)
  <2>1. \A a \in S, i \in 1..n : ReadLine(a, lines[i]) \in S
    BY <1>2, ReadLineCases DEF S
  <2> QED
    BY <2>1 DEF IsTurn
<1>6. PICK f : IsLoop(f, S, n, base, step)
  <2> HIDE DEF step
  <2> QED
    BY <1>1, <1>3, <1>5, LoopExists, Zenon
<1>7. f \in [0..n -> S] /\ f[0] = base
  BY <1>6 DEF IsLoop
<1>8. ASSUME NEW i \in 1..n
      PROVE  f[i] = ReadLine(f[i - 1], lines[i])
  <2>1. i - 1 \in 0..n
    BY <1>1
  <2>2. f[i - 1] \in S
    BY <1>7, <2>1, Zenon
  <2>3. f[i] = step[<<f[i - 1], i>>]
    BY <1>6 DEF IsLoop
  <2> QED
    BY <2>2, <2>3
<1> HIDE DEF step
<1>9. Eq(f)
  <2>1. \A i \in 0..n : i = 0 \/ i \in 1..n
    BY <1>1
  <2>2. \A i \in 0..n : f[i] = IF i = 0 THEN base ELSE ReadLine(f[i - 1], lines[i])
    BY <1>7, <1>8, <2>1, Zenon
  <2> QED
    BY <1>7, <2>2
<1>10. Eq(acc)
  <2> HIDE DEF Eq
  <2> QED
    BY <1>9, Zenon
<1> HIDE DEF acc
<1>11. \A i \in 0..n : acc[i] = IF i = 0 THEN base ELSE ReadLine(acc[i - 1], lines[i])
  BY <1>10, Zenon
<1> HIDE DEF Eq
<1>12. acc[n] = f[n]
  <2>1. acc[0] = f[0]
    BY <1>1, <1>7, <1>11
  <2>2. ASSUME NEW i \in 1..n, acc[i - 1] = f[i - 1]
        PROVE  acc[i] = f[i]
    <3>1. i \in 0..n /\ i # 0
      BY <1>1
    <3> QED
      BY <1>8, <1>11, <2>2, <3>1, Zenon
  <2>3. n \in 0..n
    BY <1>1
  <2> QED
    BY <1>1, <2>1, <2>2, <2>3, LoopUnique, Zenon
<1> QED
  BY <1>4, <1>7, <1>8, <1>12, Zenon DEF Reads, n, S, base

\* Reading nothing, and reading one line more.
LEMMA ReadNothing == Read(<<>>) = [rules |-> <<>>, current |-> <<>>]
<1>1. <<>> \in Seq({}) /\ Len(<<>>) = 0
  BY EmptySeq
<1>2. PICK f : Reads(f, {}, <<>>) /\ Read(<<>>) = f[Len(<<>>)]
  BY <1>1, ReadLoop
<1> QED
  BY <1>1, <1>2 DEF Reads

LEMMA ReadAppend ==
  ASSUME NEW L, NEW lines \in Seq(L), NEW line \in L
  PROVE  /\ Read(lines) \in ReadState(L)
         /\ Read(lines \o <<line>>) = ReadLine(Read(lines), line)
<1> DEFINE t == lines \o <<line>>
           n == Len(lines)
<1>0. n \in Nat
  BY LenProperties
<1>1. /\ t \in Seq(L) /\ Len(t) = n + 1 /\ t[n + 1] = line
      /\ \A i \in 1..n : t[i] = lines[i]
  <2>1. t = Append(lines, line)
    BY AppendIsConcat
  <2> QED
    BY <2>1, AppendProperties
<1>3. PICK f : Reads(f, L, lines) /\ Read(lines) = f[n]
  BY ReadLoop
<1>4. PICK g : Reads(g, L, t) /\ Read(t) = g[Len(t)]
  <2> HIDE DEF t
  <2> QED
    BY <1>1, ReadLoop
<1>5. /\ f \in [0..n -> ReadState(L)]
      /\ f[0] = [rules |-> <<>>, current |-> <<>>]
      /\ \A i \in 1..n : f[i] = ReadLine(f[i - 1], lines[i])
  BY <1>3 DEF Reads
<1>6. /\ g[0] = [rules |-> <<>>, current |-> <<>>]
      /\ \A i \in 1..Len(t) : g[i] = ReadLine(g[i - 1], t[i])
  BY <1>4 DEF Reads
<1> HIDE DEF t, n
<1>7. Read(t) = ReadLine(g[n], line)
  <2> DEFINE k == n + 1
  <2>1. k \in 1..Len(t) /\ k - 1 = n /\ k = Len(t) /\ t[k] = line
    BY <1>0, <1>1
  <2> HIDE DEF k
  <2>2. g[k] = ReadLine(g[k - 1], t[k])
    BY <1>6, <2>1, Zenon
  <2> QED
    BY <1>4, <2>1, <2>2, Zenon
<1>8. ASSUME NEW i \in 1..n, f[i - 1] = g[i - 1]
      PROVE  f[i] = g[i]
  <2>1. i \in 1..Len(t)
    BY <1>0, <1>1
  <2>2. f[i] = ReadLine(f[i - 1], lines[i]) /\ g[i] = ReadLine(g[i - 1], t[i])
    BY <1>5, <1>6, <2>1, Zenon
  <2> QED
    BY <1>1, <1>8, <2>2, Zenon
<1>9. n \in 0..n
  BY <1>0
<1>10. f[n] = g[n]
  <2>1. f[0] = g[0]
    BY <1>5, <1>6, Zenon
  <2>2. \A i \in 0..n : f[i] = g[i]
    BY <1>0, <1>8, <2>1, LoopUnique, Zenon
  <2> QED
    BY <1>9, <2>2, Zenon
<1>11. f[n] \in ReadState(L)
  BY <1>5, <1>9, Zenon
<1> QED
  BY <1>3, <1>7, <1>10, <1>11, Zenon DEF t

\* A block as a well-formed file has it: a blank line or a comment, or a
\* directive with all its lines.
Complete(block) ==
  \/ Len(block) = 1 /\ Inactive(block[1])
  \/ /\ Len(block) > 0
     /\ \A j \in 1..Len(block) :
          /\ ~Inactive(block[j])
          /\ j < Len(block) => block[j].more
          /\ j = Len(block) => ~block[j].more

\* A sequence of one element.
LEMMA SingleLine ==
  ASSUME NEW L, NEW b \in Seq(L), Len(b) = 1
  PROVE  b[1] \in L /\ b = <<b[1]>>
<1>1. b[1] \in L
  BY ElementOfSeq
<1>2. <<b[1]>> \in Seq(L) /\ Len(<<b[1]>>) = 1 /\ <<b[1]>>[1] = b[1]
  BY <1>1
<1>3. \A i \in 1..Len(b) : b[i] = <<b[1]>>[i]
  BY <1>2
<1> QED
  BY <1>1, <1>2, <1>3, SeqEqual

\* Between two directives, a complete block is read as the rule it is.
LEMMA ReadBlock ==
  ASSUME NEW L, NEW s \in Seq(L), NEW b \in Seq(L), Complete(b), Read(s).current = <<>>
  PROVE  Read(s \o b) = [rules |-> IF Skipped(b) THEN Read(s).rules
                                   ELSE Append(Read(s).rules, b),
                         current |-> <<>>]
<1> DEFINE r == Read(s)
           n == Len(b)
<1>0. n \in Nat
  BY LenProperties
<1>1. \A q \in Seq(L), l \in L :
        Read(q) \in ReadState(L) /\ Read(q \o <<l>>) = ReadLine(Read(q), l)
  BY ReadAppend
<1>2. CASE n = 1 /\ Inactive(b[1])
  <2>1. b[1] \in L /\ b = <<b[1]>>
    BY <1>2, SingleLine
  <2>2. r \in ReadState(L) /\ Read(s \o <<b[1]>>) = ReadLine(r, b[1])
    BY <1>1, <2>1
  <2>3. ReadLine(r, b[1]) = r
    <3> HIDE DEF r
    <3> QED
      BY <1>2, <2>1, <2>2, ReadLineCases
  <2>4. r = [rules |-> r.rules, current |-> <<>>]
    <3>1. r.current = <<>>
      OBVIOUS
    <3> HIDE DEF r
    <3> QED
      BY <2>2, <3>1 DEF ReadState
  <2>5. Read(s \o b) = r
    BY <2>1, <2>2, <2>3, Zenon
  <2> QED
    BY <1>2, <2>4, <2>5 DEF Skipped
<1>3. CASE /\ n > 0
           /\ \A j \in 1..n : /\ ~Inactive(b[j])
                              /\ j < n => b[j].more
                              /\ j = n => ~b[j].more
  <2>0. \A j \in 1..n : b[j] \in L
    BY ElementOfSeq
  <2> DEFINE B(j) == SubSeq(b, 1, j)
             Part(j) == [rules |-> r.rules, current |-> B(j)]
             P == {j \in 0..(n - 1) : Read(s \o B(j)) = Part(j)}
  <2>1. \A j \in 0..n : B(j) \in Seq(L)
    <3> SUFFICES ASSUME NEW j \in 0..n
                 PROVE  SubSeq(b, 1, j) \in Seq(L)
      OBVIOUS
    <3>1. \A i \in 1..j : b[i] \in L
      BY <1>0, <2>0
    <3> QED
      BY <1>0, <3>1, SubSeqProperties
  <2>2. \A j \in 1..n : B(j) = B(j - 1) \o <<b[j]>>
    <3> SUFFICES ASSUME NEW j \in 1..n
                 PROVE  SubSeq(b, 1, j) = SubSeq(b, 1, j - 1) \o <<b[j]>>
      OBVIOUS
    <3>1. 1 \in 1..n
      BY <1>0
    <3> QED
      BY <3>1, SubSeqRecursiveSecond
  <2>3. B(n) = b /\ B(0) = <<>>
    BY SubSeqFull, SubSeqEmpty
  <2>4. r \in ReadState(L)
    <3>1. 1 \in 1..n
      BY <1>0, <1>3
    <3> QED
      BY <1>1, <2>0, <3>1
  <2>5. r = [rules |-> r.rules, current |-> <<>>]
    <3>1. r.current = <<>>
      OBVIOUS
    <3> HIDE DEF r
    <3> QED
      BY <2>4, <3>1 DEF ReadState
  <2>6. r.rules \in Seq(Seq(L))
    <3> HIDE DEF r
    <3> QED
      BY <2>4 DEF ReadState
  <2>7. s \o <<>> = s
    BY ConcatEmptySeq
  <2>a. Read(s) = r
    OBVIOUS
  <2> HIDE DEF r, n, B
  <2>8. ASSUME NEW j \in 1..n, j - 1 \in P
        PROVE  Read(s \o B(j)) = ReadLine(Part(j - 1), b[j])
    <3>1. j - 1 \in 0..n /\ b[j] \in L
      BY <1>0, <2>0
    <3>2. B(j - 1) \in Seq(L) /\ <<b[j]>> \in Seq(L)
      BY <2>1, <3>1
    <3>3. s \o B(j - 1) \in Seq(L)
      BY <3>2, ConcatProperties
    <3>4. s \o B(j) = (s \o B(j - 1)) \o <<b[j]>>
      <4>1. (s \o B(j - 1)) \o <<b[j]>> = s \o (B(j - 1) \o <<b[j]>>)
        BY <3>2, ConcatAssociative
      <4>2. B(j) = B(j - 1) \o <<b[j]>>
        BY <2>2
      <4> QED
        BY <4>1, <4>2, Zenon
    <3>5. Read((s \o B(j - 1)) \o <<b[j]>>) = ReadLine(Read(s \o B(j - 1)), b[j])
      BY <1>1, <3>1, <3>3, Zenon
    <3>6. Read(s \o B(j - 1)) = Part(j - 1)
      BY <2>8
    <3> QED
      BY <3>4, <3>5, <3>6, Zenon
  <2>9. ASSUME NEW j \in 1..n
        PROVE  /\ Part(j - 1) \in ReadState(L)
               /\ Append(Part(j - 1).current, b[j]) = B(j)
               /\ Part(j - 1).rules = r.rules
    <3>1. B(j - 1) \in Seq(L) /\ b[j] \in L
      BY <1>0, <2>0, <2>1
    <3>2. Part(j - 1) \in ReadState(L)
      BY <2>6, <3>1 DEF ReadState
    <3>3. Append(B(j - 1), b[j]) = B(j - 1) \o <<b[j]>>
      BY <3>1, AppendIsConcat
    <3> QED
      BY <2>2, <3>2, <3>3
  <2>10. 0 \in P
    <3>1. Read(s \o B(0)) = r
      BY <2>3, <2>7, <2>a, Zenon
    <3>2. Part(0) = r
      BY <2>3, <2>5, Zenon
    <3>3. 0 \in 0..(n - 1)
      BY <1>0, <1>3
    <3> QED
      BY <3>1, <3>2, <3>3, Zenon
  <2>11. ASSUME NEW j \in 1..(n - 1), j - 1 \in P
         PROVE  j \in P
    <3>1. j \in 1..n /\ j < n /\ j \in 0..(n - 1)
      BY <1>0
    <3>2. ~Inactive(b[j]) /\ b[j].more /\ b[j] \in L
      BY <1>3, <2>0, <3>1, Zenon
    <3>3. ReadLine(Part(j - 1), b[j]) =
            [rules |-> Part(j - 1).rules, current |-> Append(Part(j - 1).current, b[j])]
      <4> DEFINE a == Part(j - 1)
      <4>1. a \in ReadState(L)
        BY <2>9, <3>1
      <4> HIDE DEF a
      <4>2. ReadLine(a, b[j]) = [rules |-> a.rules, current |-> Append(a.current, b[j])]
        BY <3>2, <4>1, ReadLineCases, Zenon
      <4> QED
        BY <4>2, Zenon DEF a
    <3>4. Read(s \o B(j)) = Part(j)
      BY <2>8, <2>9, <2>11, <3>1, <3>3, Zenon
    <3> QED
      BY <3>1, <3>4
  <2>12. n - 1 \in P
    <3>1. n - 1 \in Nat
      BY <1>0, <1>3
    <3> HIDE DEF P
    <3> QED
      BY <2>10, <2>11, <3>1, UpTo, Zenon
  <2>13. Read(s \o b) = [rules |-> Append(r.rules, b), current |-> <<>>]
    <3>1. n \in 1..n
      BY <1>0, <1>3
    <3>2. ~Inactive(b[n]) /\ ~b[n].more /\ b[n] \in L
      BY <1>3, <2>0, <3>1, Zenon
    <3> DEFINE a == Part(n - 1)
    <3>3. a \in ReadState(L) /\ Append(a.current, b[n]) = b /\ a.rules = r.rules
      BY <2>3, <2>9, <3>1
    <3>4. Read(s \o b) = ReadLine(a, b[n])
      BY <2>3, <2>8, <2>12, <3>1, Zenon
    <3> HIDE DEF a
    <3>5. ReadLine(a, b[n]) =
            [rules |-> Append(a.rules, Append(a.current, b[n])), current |-> <<>>]
      BY <3>2, <3>3, ReadLineCases, Zenon
    <3> QED
      BY <3>3, <3>4, <3>5, Zenon
  <2>14. ~Skipped(b)
    <3>1. 1 \in 1..n
      BY <1>0, <1>3
    <3> QED
      BY <1>3, <3>1, Zenon DEF Skipped
  <2> QED
    BY <2>13, <2>14 DEF r
<1> QED
  BY <1>2, <1>3 DEF Complete
-----------------------------------------------------------------------------
(* The elements of a sequence at some of its places, in their order.       *)

Selected(s, A) == FlattenSeq([i \in 1..Len(s) |-> IF i \in A THEN <<s[i]>> ELSE <<>>])

Selects(f, S, s, A) ==
  /\ f \in [0..Len(s) -> Seq(S)]
  /\ f[0] = <<>>
  /\ \A i \in 1..Len(s) : f[i] = IF i \in A THEN Append(f[i - 1], s[i]) ELSE f[i - 1]

LEMMA SelectLoop ==
  ASSUME NEW S, NEW s \in Seq(S), NEW A
  PROVE  \E f : Selects(f, S, s, A) /\ Selected(s, A) = f[Len(s)]
<1> DEFINE n == Len(s)
           t == [i \in 1..n |-> IF i \in A THEN <<s[i]>> ELSE <<>>]
<1>1. n \in Nat /\ \A i \in 1..n : s[i] \in S
  BY LenProperties, ElementOfSeq
<1>2. Selected(s, A) = FlattenSeq(t)
  BY DEF Selected
<1> HIDE DEF n
<1>3. t \in Seq(Seq(S)) /\ Len(t) = n
  <2>1. t \in [1..n -> Seq(S)]
    BY <1>1
  <2> HIDE DEF t
  <2> QED
    BY <1>1, <2>1, FunctionIsSeq
<1>4. \A i \in 1..n : t[i] = IF i \in A THEN <<s[i]>> ELSE <<>>
  OBVIOUS
<1> HIDE DEF t
<1>5. PICK f : Concatenates(f, S, t) /\ FlattenSeq(t) = f[n]
  BY <1>3, FlattenLoop
<1>6. /\ f \in [0..n -> Seq(S)] /\ f[0] = <<>>
      /\ \A i \in 1..n : f[i] = f[i - 1] \o t[i]
  BY <1>3, <1>5 DEF Concatenates
<1>7. ASSUME NEW i \in 1..n
      PROVE  f[i] = IF i \in A THEN Append(f[i - 1], s[i]) ELSE f[i - 1]
  <2>1. i - 1 \in 0..n
    BY <1>1
  <2>2. f[i - 1] \in Seq(S) /\ s[i] \in S /\ f[i] = f[i - 1] \o t[i]
    BY <1>1, <1>6, <2>1
  <2>3. CASE i \in A
    <3>1. t[i] = <<s[i]>>
      BY <1>4, <2>3
    <3>2. f[i - 1] \o <<s[i]>> = Append(f[i - 1], s[i])
      BY <2>2, AppendIsConcat
    <3> QED
      BY <2>2, <2>3, <3>1, <3>2, Zenon
  <2>4. CASE i \notin A
    <3>1. t[i] = <<>>
      BY <1>4, <2>4
    <3>2. f[i - 1] \o <<>> = f[i - 1]
      BY <2>2, ConcatEmptySeq
    <3> QED
      BY <2>2, <2>4, <3>1, <3>2, Zenon
  <2> QED
    BY <2>3, <2>4, Zenon
<1>8. Selects(f, S, s, A)
  BY <1>6, <1>7, Zenon DEF Selects, n
<1> QED
  BY <1>2, <1>5, <1>8, Zenon DEF n

\* The places of a file's blocks whose rules Coraza sees.
Active(blocks) == {k \in 1..Len(blocks) : ~Skipped(blocks[k])}

\* Of complete blocks Coraza reads those that are left and are no comments.
LEMMA ReadWithout ==
  ASSUME NEW L, NEW blocks \in Seq(Seq(L)), NEW gone,
         \A k \in 1..Len(blocks) : Complete(blocks[k])
  PROVE  Read(Without(blocks, gone)) =
           [rules |-> Selected(blocks, Active(blocks) \ gone), current |-> <<>>]
<1> DEFINE n == Len(blocks)
           A == Active(blocks) \ gone
           t == [i \in 1..n |-> IF i \in gone THEN <<>> ELSE blocks[i]]
<1>1. n \in Nat /\ DOMAIN blocks = 1..n /\ \A i \in 1..n : blocks[i] \in Seq(L)
  BY LenProperties, ElementOfSeq
<1>2. Without(blocks, gone) = FlattenSeq(t)
  BY <1>1 DEF Without
<1>3. \A i \in 1..n : i \in A <=> ~Skipped(blocks[i]) /\ i \notin gone
  BY DEF Active
<1>4. PICK g : Selects(g, Seq(L), blocks, A) /\ Selected(blocks, A) = g[n]
  <2> HIDE DEF A
  <2> QED
    BY SelectLoop
<1>5. /\ g \in [0..n -> Seq(Seq(L))] /\ g[0] = <<>>
      /\ \A i \in 1..n : g[i] = IF i \in A THEN Append(g[i - 1], blocks[i]) ELSE g[i - 1]
  BY <1>4 DEF Selects
<1>6. \A i \in 1..n : Complete(blocks[i])
  OBVIOUS
<1> HIDE DEF n, A
<1>7. t \in Seq(Seq(L)) /\ Len(t) = n
  <2>1. <<>> \in Seq(L)
    BY EmptySeq
  <2>2. t \in [1..n -> Seq(L)]
    BY <1>1, <2>1
  <2> HIDE DEF t
  <2> QED
    BY <1>1, <2>2, FunctionIsSeq
<1>8. \A i \in 1..n : t[i] = IF i \in gone THEN <<>> ELSE blocks[i]
  OBVIOUS
<1> HIDE DEF t
<1>9. PICK f : Concatenates(f, L, t) /\ FlattenSeq(t) = f[n]
  BY <1>7, FlattenLoop
<1>10. /\ f \in [0..n -> Seq(L)] /\ f[0] = <<>>
       /\ \A i \in 1..n : f[i] = f[i - 1] \o t[i]
  BY <1>7, <1>9 DEF Concatenates
<1> DEFINE P == {i \in 0..n : Read(f[i]) = [rules |-> g[i], current |-> <<>>]}
<1>11. 0 \in P
  <2>1. 0 \in 0..n
    BY <1>1
  <2> QED
    BY <1>5, <1>10, <2>1, ReadNothing, Zenon
<1>12. ASSUME NEW i \in 1..n, i - 1 \in P
       PROVE  i \in P
  <2>1. i \in 0..n /\ i - 1 \in 0..n
    BY <1>1
  <2>2. f[i - 1] \in Seq(L) /\ f[i] = f[i - 1] \o t[i] /\ blocks[i] \in Seq(L)
    BY <1>1, <1>10, <2>1
  <2>3. Read(f[i - 1]) = [rules |-> g[i - 1], current |-> <<>>]
    BY <1>12
  <2>4. CASE i \in gone
    <3>1. t[i] = <<>> /\ g[i] = g[i - 1]
      BY <1>3, <1>5, <1>8, <2>4
    <3>2. f[i - 1] \o <<>> = f[i - 1]
      BY <2>2, ConcatEmptySeq
    <3>3. f[i] = f[i - 1]
      BY <2>2, <3>1, <3>2, Zenon
    <3> QED
      BY <2>1, <2>3, <3>1, <3>3, Zenon
  <2>5. CASE i \notin gone
    <3>1. t[i] = blocks[i]
      BY <1>8, <2>5
    <3>2. g[i] = IF Skipped(blocks[i]) THEN g[i - 1] ELSE Append(g[i - 1], blocks[i])
      BY <1>3, <1>5, <2>5
    <3> DEFINE s == f[i - 1]
               b == blocks[i]
               r == g[i - 1]
    <3>3. s \in Seq(L) /\ b \in Seq(L) /\ Complete(b)
      BY <1>6, <2>2, Zenon
    <3>4. Read(s) = [rules |-> r, current |-> <<>>]
      BY <2>3, Zenon
    <3> HIDE DEF s, b, r
    <3>5. Read(s).current = <<>> /\ Read(s).rules = r
      BY <3>4
    <3>6. Read(s \o b) = [rules |-> IF Skipped(b) THEN r ELSE Append(r, b), current |-> <<>>]
      BY <3>3, <3>5, ReadBlock
    <3> QED
      BY <2>1, <2>2, <3>1, <3>2, <3>6, Zenon DEF s, b, r
  <2> QED
    BY <2>4, <2>5, Zenon
<1>13. n \in P
  <2> HIDE DEF P
  <2> QED
    BY <1>1, <1>11, <1>12, UpTo
<1> QED
  BY <1>2, <1>4, <1>9, <1>13, Zenon DEF A
\* The empty lines at the end of a file say nothing.
LEMMA ReadTrimmed ==
  ASSUME NEW L, NEW lines \in Seq(L)
  PROVE  Read(Trimmed(lines)) = Read(lines)
<1> DEFINE n == Len(lines)
<1>1. n \in Nat /\ \A i \in 1..n : lines[i] \in L
  BY LenProperties, ElementOfSeq
<1>2. PICK m \in 0..n : /\ Trimmed(lines) = SubSeq(lines, 1, m)
                        /\ \A i \in 1..n : m < i => lines[i].dir = ""
  BY TrimmedIsPrefix
<1> DEFINE t == SubSeq(lines, 1, m)
<1>3. t \in Seq(L) /\ Len(t) = m /\ \A i \in 1..m : t[i] = lines[i]
  <2>1. \A i \in 1..m : lines[i] \in L
    BY <1>1
  <2> QED
    BY <1>1, <2>1, SubSeqProperties
<1>4. PICK g : Reads(g, L, lines) /\ Read(lines) = g[n]
  BY ReadLoop
<1>5. Trimmed(lines) = t
  BY <1>2
<1> HIDE DEF t
<1>6. PICK h : Reads(h, L, t) /\ Read(t) = h[m]
  BY <1>3, ReadLoop
<1>7. /\ g \in [0..n -> ReadState(L)]
      /\ g[0] = [rules |-> <<>>, current |-> <<>>]
      /\ \A i \in 1..n : g[i] = ReadLine(g[i - 1], lines[i])
  BY <1>4 DEF Reads
<1>8. /\ h[0] = [rules |-> <<>>, current |-> <<>>]
      /\ \A i \in 1..m : h[i] = ReadLine(h[i - 1], t[i])
  BY <1>3, <1>6 DEF Reads
<1> HIDE DEF n
<1>9. ASSUME NEW i \in 1..m, g[i - 1] = h[i - 1]
      PROVE  g[i] = h[i]
  <2>1. i \in 1..n
    BY <1>1
  <2>2. g[i] = ReadLine(g[i - 1], lines[i]) /\ h[i] = ReadLine(h[i - 1], t[i])
    BY <1>7, <1>8, <2>1, Zenon
  <2> QED
    BY <1>3, <1>9, <2>2, Zenon
<1>10. h[m] = g[m]
  <2>1. m \in Nat /\ m \in 0..m
    BY <1>1
  <2>2. g[0] = h[0]
    BY <1>7, <1>8, Zenon
  <2> DEFINE Q == {i \in 0..m : g[i] = h[i]}
  <2>3. 0 \in Q
    BY <2>1, <2>2
  <2>4. ASSUME NEW i \in 1..m, i - 1 \in Q
        PROVE  i \in Q
    <3>1. i \in 0..m
      BY <2>1
    <3>2. g[i - 1] = h[i - 1]
      BY <2>4
    <3> QED
      BY <1>9, <3>1, <3>2
  <2>5. m \in Q
    <3> HIDE DEF Q
    <3> QED
      BY <2>1, <2>3, <2>4, UpTo
  <2> QED
    BY <2>5
<1> DEFINE P == {i \in 0..n : m <= i => g[i] = g[m]}
<1>11. 0 \in P
  <2>1. 0 \in 0..n /\ (m <= 0 => m = 0)
    BY <1>1
  <2> QED
    BY <2>1, Zenon
<1>12. ASSUME NEW i \in 1..n, i - 1 \in P
       PROVE  i \in P
  <2>1. i \in 0..n /\ i - 1 \in 0..n /\ (m <= i => m = i \/ (m < i /\ m <= i - 1))
    BY <1>1
  <2>2. CASE m < i /\ m <= i - 1
    <3>1. g[i - 1] = g[m]
      BY <1>12, <2>2, Zenon
    <3>2. Inactive(lines[i])
      <4>1. lines[i].dir = ""
        BY <1>2, <2>2, Zenon
      <4> QED
        BY <4>1, Zenon DEF Inactive
    <3>3. g[i - 1] \in ReadState(L) /\ lines[i] \in L /\ g[i] = ReadLine(g[i - 1], lines[i])
      BY <1>1, <1>7, <2>1, Zenon
    <3>4. g[i] = g[i - 1]
      <4> DEFINE a == g[i - 1]
                 l == lines[i]
      <4>1. a \in ReadState(L) /\ l \in L /\ Inactive(l)
        BY <3>2, <3>3, Zenon
      <4> HIDE DEF a, l
      <4>2. ReadLine(a, l) = a
        BY <4>1, ReadLineCases
      <4> QED
        BY <3>3, <4>2, Zenon DEF a, l
    <3> QED
      BY <2>1, <3>1, <3>4, Zenon
  <2>3. CASE m = i
    BY <2>1, <2>3, Zenon
  <2>4. CASE ~(m <= i)
    BY <2>1, <2>4, Zenon
  <2> QED
    BY <2>1, <2>2, <2>3, <2>4, Zenon
<1>13. n \in P
  <2> HIDE DEF P
  <2> QED
    BY <1>1, <1>11, <1>12, UpTo
<1>14. m <= n
  BY <1>1
<1> QED
  BY <1>4, <1>5, <1>6, <1>10, <1>13, <1>14, Zenon
-----------------------------------------------------------------------------
(* The blocks of splitIntoRules are the rules that Coraza reads, when each *)
(* directive has its lines together and begins in the first column.        *)

LEMMA TakeLineCases ==
  ASSUME NEW L, NEW acc \in SplitState(L), NEW line \in L
  PROVE  LET next == TakeLine(acc, line)
             current == Append(acc.current, line)
         IN  /\ acc.current # <<>> /\ line.more =>
                  next = [blocks |-> acc.blocks, current |-> current]
             /\ acc.current # <<>> /\ ~line.more =>
                  next = [blocks |-> Append(acc.blocks, current), current |-> <<>>]
             /\ acc.current = <<>> /\ secDirectiveLine(line) /\ line.more =>
                  next = [blocks |-> acc.blocks, current |-> current]
             /\ acc.current = <<>> /\ ~(secDirectiveLine(line) /\ line.more) =>
                  next = [blocks |-> Append(acc.blocks, current), current |-> <<>>]
<1> DEFINE next == TakeLine(acc, line)
           D == Append(acc.current, line)
           P == acc.current # <<>>
           Q == line.more
           R == secDirectiveLine(line)
<1>1. acc = [blocks |-> acc.blocks, current |-> acc.current]
  BY DEF SplitState
<1>2. acc.current = <<>> => <<line>> = D
  BY DEF SplitState
<1>3. next = IF P THEN IF Q THEN [acc EXCEPT !.current = D]
                       ELSE [blocks |-> Append(acc.blocks, D), current |-> <<>>]
             ELSE IF R /\ Q THEN [acc EXCEPT !.current = <<line>>]
                  ELSE [acc EXCEPT !.blocks = Append(@, <<line>>)]
  BY DEF TakeLine
<1>4. /\ \A x : [acc EXCEPT !.current = x] = [blocks |-> acc.blocks, current |-> x]
      /\ \A x : [acc EXCEPT !.blocks = x] = [blocks |-> x, current |-> acc.current]
  BY <1>1
<1>5. P <=> acc.current # <<>>
  OBVIOUS
<1>6. [acc EXCEPT !.blocks = Append(@, <<line>>)] =
        [blocks |-> Append(acc.blocks, <<line>>), current |-> acc.current]
  BY <1>4, Zenon
<1> HIDE DEF next, D, P, Q, R
<1>7. /\ P /\ Q => next = [blocks |-> acc.blocks, current |-> D]
      /\ P /\ ~Q => next = [blocks |-> Append(acc.blocks, D), current |-> <<>>]
      /\ ~P /\ R /\ Q => next = [blocks |-> acc.blocks, current |-> <<line>>]
      /\ ~P /\ ~(R /\ Q) =>
            next = [blocks |-> Append(acc.blocks, <<line>>), current |-> acc.current]
  BY <1>3, <1>4, <1>6
<1> QED
  BY <1>2, <1>5, <1>7, Zenon DEF next, D, P, Q, R

\* What is split so far: blocks that are complete, and the lines of a
\* directive that goes on.
Whole(acc) ==
  /\ \A k \in 1..Len(acc.blocks) : Complete(acc.blocks[k])
  /\ \A j \in 1..Len(acc.current) : ~Inactive(acc.current[j]) /\ acc.current[j].more

\* The generator and Coraza take the line alike.
LEMMA TurnsAgree ==
  ASSUME NEW L, NEW acc \in SplitState(L), NEW r \in ReadState(L), NEW line \in L,
         acc.current = r.current, Whole(acc),
         acc.current # <<>> => ~Inactive(line),
         acc.current = <<>> /\ ~Inactive(line) /\ line.more => secDirectiveLine(line),
         Inactive(line) => ~secDirectiveLine(line)
  PROVE  LET next == TakeLine(acc, line)
         IN  /\ next.current = ReadLine(r, line).current
             /\ Whole(next)
             /\ next.current # <<>> <=> ~Inactive(line) /\ line.more
<1> DEFINE next == TakeLine(acc, line)
           rext == ReadLine(r, line)
           C == acc.current
           D == Append(C, line)
           B == acc.blocks
           E == Append(B, D)
<1>1. C \in Seq(L) /\ B \in Seq(Seq(L))
  BY DEF SplitState
<1>2. /\ D \in Seq(L) /\ Len(C) \in Nat /\ Len(D) = Len(C) + 1 /\ D[Len(C) + 1] = line
      /\ \A j \in 1..Len(C) : D[j] = C[j]
  BY <1>1, AppendProperties, LenProperties
<1>3. D # <<>>
  BY <1>2
<1>4. /\ \A j \in 1..Len(C) : ~Inactive(C[j]) /\ C[j].more
      /\ \A k \in 1..Len(B) : Complete(B[k])
  BY DEF Whole
<1>5. Len(C) = 0 <=> C = <<>>
  BY <1>1
<1>a. D = Append(r.current, line)
  OBVIOUS
<1> HIDE DEF D
<1>6. /\ E \in Seq(Seq(L)) /\ Len(B) \in Nat /\ Len(E) = Len(B) + 1
      /\ E[Len(B) + 1] = D /\ \A k \in 1..Len(B) : E[k] = B[k]
  BY <1>1, <1>2, AppendProperties, LenProperties
<1>7. ASSUME ~Inactive(line), line.more
      PROVE  /\ next = [blocks |-> B, current |-> D]
             /\ rext.current = D
  <2>1. next = [blocks |-> B, current |-> D]
    <3>1. CASE C = <<>>
      BY <1>7, <3>1, TakeLineCases DEF D
    <3>2. CASE C # <<>>
      BY <1>7, <3>2, TakeLineCases DEF D
    <3> QED
      BY <3>1, <3>2
  <2>2. rext = [rules |-> r.rules, current |-> Append(r.current, line)]
    BY <1>7, ReadLineCases
  <2>3. rext.current = Append(r.current, line)
    <3> HIDE DEF rext
    <3> QED
      BY <2>2
  <2> QED
    BY <1>a, <2>1, <2>3, Zenon
<1>8. ASSUME Inactive(line) \/ ~line.more
      PROVE  /\ next = [blocks |-> E, current |-> <<>>]
             /\ rext.current = <<>>
             /\ Complete(D)
  <2>1. next = [blocks |-> E, current |-> <<>>]
    <3>1. CASE C = <<>>
      <4>1. ~(secDirectiveLine(line) /\ line.more)
        BY <1>8
      <4> QED
        BY <3>1, <4>1, TakeLineCases DEF D
    <3>2. CASE C # <<>>
      <4>1. ~line.more
        BY <1>8, <3>2
      <4> QED
        BY <3>2, <4>1, TakeLineCases DEF D
    <3> QED
      BY <3>1, <3>2
  <2>2. CASE Inactive(line)
    <3>1. rext = r /\ C = <<>>
      BY <2>2, ReadLineCases
    <3>2. Len(D) = 1 /\ D[1] = line
      BY <1>2, <1>5, <3>1
    <3>3. Complete(D)
      BY <2>2, <3>2 DEF Complete
    <3>4. rext.current = <<>>
      BY <3>1, Zenon
    <3> QED
      BY <2>1, <3>3, <3>4, Zenon
  <2>3. CASE ~Inactive(line)
    <3>0. ~line.more
      BY <1>8, <2>3
    <3>1. rext = [rules |-> Append(r.rules, Append(r.current, line)), current |-> <<>>]
      BY <2>3, <3>0, ReadLineCases
    <3>2. rext.current = <<>>
      <4> HIDE DEF rext
      <4> QED
        BY <3>1
    <3>3. ASSUME NEW j \in 1..Len(D)
          PROVE  /\ ~Inactive(D[j])
                 /\ j < Len(D) => D[j].more
                 /\ j = Len(D) => ~D[j].more
      <4>1. CASE j = Len(C) + 1
        <5>1. D[j] = line /\ ~(j < Len(D))
          BY <1>2, <4>1
        <5> QED
          BY <2>3, <3>0, <5>1, Zenon
      <4>2. CASE j # Len(C) + 1
        <5>1. j \in 1..Len(C) /\ D[j] = C[j] /\ j # Len(D)
          BY <1>2, <4>2
        <5> QED
          BY <1>4, <5>1, Zenon
      <4> QED
        BY <4>1, <4>2
    <3>4. Complete(D)
      <4>1. Len(D) > 0
        BY <1>2
      <4> QED
        BY <3>3, <4>1, Zenon DEF Complete
    <3> QED
      BY <2>1, <3>2, <3>4, Zenon
  <2> QED
    BY <2>2, <2>3
<1> HIDE DEF next, rext, C, B, E
<1>9. CASE ~Inactive(line) /\ line.more
  <2>1. next.blocks = B /\ next.current = D /\ rext.current = D
    BY <1>7, <1>9
  <2>2. ASSUME NEW j \in 1..Len(D)
        PROVE  ~Inactive(D[j]) /\ D[j].more
    <3>1. CASE j = Len(C) + 1
      <4>1. D[j] = line
        BY <1>2, <3>1
      <4> QED
        BY <1>9, <4>1, Zenon
    <3>2. CASE j # Len(C) + 1
      <4>1. j \in 1..Len(C) /\ D[j] = C[j]
        BY <1>2, <3>2
      <4> QED
        BY <1>4, <4>1, Zenon
    <3> QED
      BY <3>1, <3>2
  <2>3. Whole(next)
    BY <1>4, <2>1, <2>2, Zenon DEF Whole
  <2> QED
    BY <1>3, <1>9, <2>1, <2>3, Zenon DEF next, rext
<1>10. CASE Inactive(line) \/ ~line.more
  <2>1. next.blocks = E /\ next.current = <<>> /\ rext.current = <<>> /\ Complete(D)
    BY <1>8, <1>10
  <2>2. ASSUME NEW k \in 1..Len(E)
        PROVE  Complete(E[k])
    <3>1. CASE k = Len(B) + 1
      <4>1. E[k] = D
        BY <1>6, <3>1
      <4> QED
        BY <2>1, <4>1, Zenon
    <3>2. CASE k # Len(B) + 1
      <4>1. k \in 1..Len(B) /\ E[k] = B[k]
        BY <1>6, <3>2
      <4> QED
        BY <1>4, <4>1, Zenon
    <3> QED
      BY <3>1, <3>2
  <2>3. 1..Len(<<>>) = {}
    OBVIOUS
  <2>4. Whole(next)
    BY <2>1, <2>2, <2>3, Zenon DEF Whole
  <2> QED
    BY <1>10, <2>1, <2>4, Zenon DEF next, rext
<1> QED
  BY <1>9, <1>10
LEMMA InactiveIsNoDirective ==
  ASSUME NEW line, Inactive(line)
  PROVE  ~secDirectiveLine(line)
<1>1. line.dir = "#" \/ line.dir = ""
  BY Zenon DEF Inactive
<1> QED
  BY <1>1, Zenon DEF secDirectiveLine

\* A directive goes on behind line i; the lines go on where they should.
Pending(lines, i) == i \in 1..Len(lines) /\ ~Inactive(lines[i]) /\ lines[i].more

Laid(lines) ==
  \A i \in 1..Len(lines) :
    /\ Pending(lines, i - 1) => ~Inactive(lines[i])
    /\ ~Pending(lines, i - 1) /\ ~Inactive(lines[i]) /\ lines[i].more =>
          secDirectiveLine(lines[i])

LEMMA BlocksAreComplete ==
  ASSUME NEW L, NEW lines \in Seq(L), Laid(lines), Read(lines).current = <<>>
  PROVE  \A k \in 1..Len(splitIntoRules(lines)) : Complete(splitIntoRules(lines)[k])
<1> DEFINE n == Len(lines)
<1>1. n \in Nat /\ \A i \in 1..n : lines[i] \in L
  BY LenProperties, ElementOfSeq
<1>2. PICK f : Splits(f, L, lines) /\ SplitLines(lines) = f[n]
  BY SplitLoop
<1>3. PICK g : Reads(g, L, lines) /\ Read(lines) = g[n]
  BY ReadLoop
<1>4. /\ f \in [0..n -> SplitState(L)]
      /\ f[0] = [blocks |-> <<>>, current |-> <<>>]
      /\ \A i \in 1..n : f[i] = TakeLine(f[i - 1], lines[i])
  BY <1>2 DEF Splits
<1>5. /\ g \in [0..n -> ReadState(L)]
      /\ g[0] = [rules |-> <<>>, current |-> <<>>]
      /\ \A i \in 1..n : g[i] = ReadLine(g[i - 1], lines[i])
  BY <1>3 DEF Reads
<1>6. \A i \in 1..n :
        /\ Pending(lines, i - 1) => ~Inactive(lines[i])
        /\ ~Pending(lines, i - 1) /\ ~Inactive(lines[i]) /\ lines[i].more =>
              secDirectiveLine(lines[i])
  BY DEF Laid
<1>7. \A i \in 1..n : Pending(lines, i) <=> ~Inactive(lines[i]) /\ lines[i].more
  BY DEF Pending
<1>8. ~Pending(lines, 0)
  BY DEF Pending
<1> HIDE DEF n
<1> DEFINE P == {i \in 0..n : /\ f[i].current = g[i].current
                              /\ Whole(f[i])
                              /\ f[i].current # <<>> <=> Pending(lines, i)}
<1>9. 0 \in P
  <2>1. f[0].current = <<>> /\ f[0].blocks = <<>> /\ g[0].current = <<>>
    BY <1>4, <1>5
  <2>2. 1..Len(<<>>) = {} /\ 0 \in 0..n
    BY <1>1
  <2>3. Whole(f[0])
    BY <2>1, <2>2, Zenon DEF Whole
  <2> QED
    BY <1>8, <2>1, <2>2, <2>3, Zenon
<1>10. ASSUME NEW i \in 1..n, i - 1 \in P
       PROVE  i \in P
  <2>1. i \in 0..n /\ i - 1 \in 0..n
    BY <1>1
  <2> DEFINE a == f[i - 1]
             r == g[i - 1]
             l == lines[i]
  <2>2. a \in SplitState(L) /\ r \in ReadState(L) /\ l \in L
    BY <1>1, <1>4, <1>5, <2>1, Zenon
  <2>3. a.current = r.current /\ Whole(a) /\ (a.current # <<>> <=> Pending(lines, i - 1))
    BY <1>10, Zenon
  <2>4. /\ a.current # <<>> => ~Inactive(l)
        /\ a.current = <<>> /\ ~Inactive(l) /\ l.more => secDirectiveLine(l)
    BY <1>6, <2>3, Zenon
  <2>5. f[i] = TakeLine(a, l) /\ g[i] = ReadLine(r, l)
    BY <1>4, <1>5, Zenon
  <2>6. Pending(lines, i) <=> ~Inactive(l) /\ l.more
    BY <1>7, Zenon
  <2> HIDE DEF a, r, l
  <2>7. Inactive(l) => ~secDirectiveLine(l)
    BY InactiveIsNoDirective
  <2>8. LET next == TakeLine(a, l)
        IN  /\ next.current = ReadLine(r, l).current
            /\ Whole(next)
            /\ next.current # <<>> <=> ~Inactive(l) /\ l.more
    BY <2>2, <2>3, <2>4, <2>7, TurnsAgree
  <2> QED
    BY <2>1, <2>5, <2>6, <2>8, Zenon
<1>11. n \in P
  <2> HIDE DEF P
  <2> QED
    BY <1>1, <1>9, <1>10, UpTo
<1>12. f[n].current = <<>> /\ Whole(f[n])
  BY <1>3, <1>11, Zenon
<1>13. splitIntoRules(lines) = f[n].blocks
  BY <1>2, <1>12 DEF splitIntoRules
<1> QED
  BY <1>12, <1>13, Zenon DEF Whole

\* In a file as authors write one just the lines of text continue a directive.
LEMMA TextFollows ==
  ASSUME NEW lines \in Seq(Line), WellFormed(lines)
  PROVE  \A i \in 1..Len(Trimmed(lines)) :
           Pending(Trimmed(lines), i - 1) <=> Trimmed(lines)[i].dir = "text"
<1> DEFINE n == Len(lines)
<1>1. n \in Nat /\ DOMAIN lines = 1..n /\ \A i \in 1..n : lines[i] \in Line
  BY LenProperties, ElementOfSeq
<1>2. PICK m \in 0..n : Trimmed(lines) = SubSeq(lines, 1, m)
  BY TrimmedIsPrefix
<1> DEFINE t == SubSeq(lines, 1, m)
<1>3. Len(t) = m /\ \A i \in 1..m : t[i] = lines[i]
  <2>1. \A i \in 1..m : lines[i] \in Line
    BY <1>1
  <2> QED
    BY <1>1, <2>1, SubSeqProperties
<1>4. Trimmed(lines) = t
  BY <1>2
<1>5. \A i \in 1..n :
        (lines[i].dir = "text") <=> (i > 1 /\ lines[i - 1].more /\ ~Inactive(lines[i - 1]))
  BY <1>1 DEF WellFormed
<1> HIDE DEF t, n
<1> SUFFICES ASSUME NEW i \in 1..m
             PROVE  Pending(t, i - 1) <=> t[i].dir = "text"
  BY <1>3, <1>4
<1>6. i \in 1..n /\ t[i] = lines[i]
  BY <1>1, <1>3
<1>7. Pending(t, i - 1) <=> i > 1 /\ lines[i - 1].more /\ ~Inactive(lines[i - 1])
  <2>1. i - 1 \in 1..Len(t) <=> i > 1
    BY <1>1, <1>3
  <2>2. i > 1 => i - 1 \in 1..m
    BY <1>1
  <2> QED
    BY <1>3, <2>1, <2>2, Zenon DEF Pending
<1> QED
  BY <1>5, <1>6, <1>7, Zenon

\* Files as authors write them are laid out so.
LEMMA LaidOut ==
  ASSUME NEW lines \in Seq(Line), WellFormed(lines), Unindented(lines)
  PROVE  Laid(Trimmed(lines))
<1> DEFINE n == Len(lines)
<1>1. n \in Nat /\ DOMAIN lines = 1..n /\ \A i \in 1..n : lines[i] \in Line
  BY LenProperties, ElementOfSeq
<1>2. PICK m \in 0..n : Trimmed(lines) = SubSeq(lines, 1, m)
  BY TrimmedIsPrefix
<1> DEFINE t == SubSeq(lines, 1, m)
<1>3. Len(t) = m /\ \A i \in 1..m : t[i] = lines[i]
  <2>1. \A i \in 1..m : lines[i] \in Line
    BY <1>1
  <2> QED
    BY <1>1, <2>1, SubSeqProperties
<1>4. Trimmed(lines) = t
  BY <1>2
<1>5. \A i \in 1..n :
        lines[i].dir = "SecRuleEngine" => ~lines[i].more
  BY <1>1 DEF WellFormed
<1>6. \A i \in 1..n : lines[i].dir \in Directives => ~lines[i].indented
  BY <1>1 DEF Unindented
<1> HIDE DEF t, n
<1> SUFFICES ASSUME NEW i \in 1..m
             PROVE  /\ Pending(t, i - 1) => ~Inactive(t[i])
                    /\ ~Pending(t, i - 1) /\ ~Inactive(t[i]) /\ t[i].more =>
                          secDirectiveLine(t[i])
  BY <1>3, <1>4 DEF Laid
<1>7. i \in 1..n /\ t[i] = lines[i]
  BY <1>1, <1>3
<1>8. Pending(t, i - 1) <=> t[i].dir = "text"
  BY <1>3, <1>4, TextFollows
<1>9. t[i].dir \in Directives \cup {"#", "", "text"}
  <2>1. t[i] \in Line
    BY <1>1, <1>7
  <2> QED
    BY <2>1 DEF Line
<1>10. t[i].dir = "text" => ~Inactive(t[i])
  BY Zenon DEF Inactive
<1>11. ASSUME t[i].dir # "text", ~Inactive(t[i]), t[i].more
       PROVE  secDirectiveLine(t[i])
  <2>1. t[i].dir \in Directives
    BY <1>9, <1>11, Zenon DEF Inactive
  <2>2. ~t[i].indented
    BY <1>6, <1>7, <2>1, Zenon
  <2>3. t[i].dir # "SecRuleEngine"
    BY <1>5, <1>7, <1>11, Zenon
  <2> QED
    BY <2>1, <2>2, <2>3, Zenon DEF secDirectiveLine, Directives
<1> QED
  BY <1>8, <1>10, <1>11, Zenon
-----------------------------------------------------------------------------
(* Where the elements that are selected from a sequence come to stand.     *)

Places(p, n, A) ==
  /\ p \in [0..n -> Nat]
  /\ p[0] = 0
  /\ \A k \in 1..n : p[k] = IF k \in A THEN p[k - 1] + 1 ELSE p[k - 1]

\* They keep their order, and leave no place empty.
LEMMA PlacesOrder ==
  ASSUME NEW n \in Nat, NEW A, NEW p, Places(p, n, A)
  PROVE  /\ \A j, k \in 0..n : j <= k => p[j] <= p[k]
         /\ \A j \in 0..n, k \in 1..n : j < k /\ k \in A => p[j] < p[k]
         /\ \A k \in 1..n : k \in A => p[k] \in 1..p[n]
         /\ \A m \in 1..p[n] : \E k \in 1..n : k \in A /\ p[k] = m
<1>1. /\ \A k \in 0..n : p[k] \in Nat
      /\ p[0] = 0
      /\ \A k \in 1..n : k \in A => p[k] = p[k - 1] + 1
      /\ \A k \in 1..n : k \notin A => p[k] = p[k - 1]
  BY DEF Places
<1>2. \A j, k \in 0..n : j <= k => p[j] <= p[k]
  <2> SUFFICES ASSUME NEW j \in 0..n
               PROVE  \A k \in 0..n : j <= k => p[j] <= p[k]
    OBVIOUS
  <2> DEFINE P == {k \in 0..n : j <= k => p[j] <= p[k]}
  <2>1. 0 \in P
    BY <1>1
  <2>2. ASSUME NEW k \in 1..n, k - 1 \in P
        PROVE  k \in P
    <3>1. k \in 0..n /\ k - 1 \in 0..n
      OBVIOUS
    <3>2. p[k - 1] <= p[k] /\ p[k] \in Nat /\ p[k - 1] \in Nat /\ p[j] \in Nat
      BY <1>1, <3>1
    <3> QED
      BY <2>2, <3>1, <3>2
  <2>3. \A k \in 0..n : k \in P
    <3> HIDE DEF P
    <3> QED
      BY <2>1, <2>2, UpTo
  <2> QED
    BY <2>3
<1>3. \A j \in 0..n, k \in 1..n : j < k /\ k \in A => p[j] < p[k]
  <2> SUFFICES ASSUME NEW j \in 0..n, NEW k \in 1..n, j < k, k \in A
               PROVE  p[j] < p[k]
    OBVIOUS
  <2>1. k - 1 \in 0..n /\ j <= k - 1
    OBVIOUS
  <2>2. p[j] <= p[k - 1] /\ p[k] = p[k - 1] + 1 /\ p[j] \in Nat /\ p[k - 1] \in Nat
    BY <1>1, <1>2, <2>1
  <2> QED
    BY <2>2
<1>4. \A k \in 1..n : k \in A => p[k] \in 1..p[n]
  <2> SUFFICES ASSUME NEW k \in 1..n, k \in A
               PROVE  p[k] \in 1..p[n]
    OBVIOUS
  <2>1. k \in 0..n /\ n \in 0..n /\ 0 \in 0..n /\ 0 < k /\ k <= n
    OBVIOUS
  <2>2. p[0] < p[k] /\ p[k] <= p[n] /\ p[k] \in Nat /\ p[n] \in Nat
    BY <1>1, <1>2, <1>3, <2>1
  <2> QED
    BY <1>1, <2>2
<1>5. \A m \in 1..p[n] : \E k \in 1..n : k \in A /\ p[k] = m
  <2> DEFINE P == {k \in 0..n : \A m \in 1..p[k] : \E j \in 1..n : j \in A /\ p[j] = m}
  <2>1. 0 \in P
    BY <1>1
  <2>2. ASSUME NEW k \in 1..n, k - 1 \in P
        PROVE  k \in P
    <3>1. k \in 0..n /\ k - 1 \in 0..n
      OBVIOUS
    <3>2. p[k] \in Nat /\ p[k - 1] \in Nat
      BY <1>1, <3>1
    <3>3. ASSUME NEW m \in 1..p[k]
          PROVE  \E j \in 1..n : j \in A /\ p[j] = m
      <4>1. CASE m \in 1..p[k - 1]
        BY <2>2, <4>1
      <4>2. CASE m \notin 1..p[k - 1]
        <5>1. k \in A /\ m = p[k]
          BY <1>1, <3>2, <4>2
        <5> QED
          BY <5>1
      <4> QED
        BY <4>1, <4>2
    <3> QED
      BY <3>1, <3>3
  <2>3. n \in P
    <3> HIDE DEF P
    <3> QED
      BY <2>1, <2>2, UpTo
  <2> QED
    BY <2>3
<1> QED
  BY <1>2, <1>3, <1>4, <1>5

\* What stands there.
LEMMA SelectedPlaces ==
  ASSUME NEW S, NEW s \in Seq(S), NEW A, NEW f, Selects(f, S, s, A),
         NEW p \in [0..Len(s) -> Nat], \A k \in 0..Len(s) : p[k] = Len(f[k])
  PROVE  /\ Places(p, Len(s), A)
         /\ \A k \in 1..Len(s) : k \in A => f[Len(s)][p[k]] = s[k]
<1> DEFINE n == Len(s)
<1>0. p \in [0..n -> Nat] /\ \A k \in 0..n : p[k] = Len(f[k])
  OBVIOUS
<1>1. n \in Nat /\ \A i \in 1..n : s[i] \in S
  BY LenProperties, ElementOfSeq
<1>2. /\ f \in [0..n -> Seq(S)] /\ f[0] = <<>>
      /\ \A i \in 1..n : i \in A => f[i] = Append(f[i - 1], s[i])
      /\ \A i \in 1..n : i \notin A => f[i] = f[i - 1]
  BY DEF Selects
<1> HIDE DEF n
<1>3. \A k \in 0..n : p[k] = Len(f[k]) /\ p[k] \in Nat
  BY <1>0
<1>4. ASSUME NEW k \in 1..n
      PROVE  /\ f[k - 1] \in Seq(S) /\ s[k] \in S /\ k - 1 \in 0..n /\ k \in 0..n
             /\ k \in A => /\ p[k] = p[k - 1] + 1
                           /\ f[k][p[k]] = s[k]
                           /\ \A i \in 1..p[k - 1] : f[k][i] = f[k - 1][i]
             /\ k \notin A => p[k] = p[k - 1]
  <2>1. k - 1 \in 0..n /\ k \in 0..n
    BY <1>1
  <2>2. f[k - 1] \in Seq(S) /\ s[k] \in S
    BY <1>1, <1>2, <2>1
  <2>3. p[k] = Len(f[k]) /\ p[k - 1] = Len(f[k - 1])
    BY <1>3, <2>1
  <2>4. CASE k \in A
    <3> DEFINE q == f[k - 1]
               x == s[k]
    <3>1. f[k] = Append(q, x)
      BY <1>2, <2>4
    <3>2. q \in Seq(S) /\ x \in S
      BY <2>2
    <3>3. p[k - 1] = Len(q) /\ p[k] = Len(f[k])
      BY <2>3
    <3> HIDE DEF q, x
    <3>4. /\ Len(Append(q, x)) = Len(q) + 1 /\ Append(q, x)[Len(q) + 1] = x
          /\ \A i \in 1..Len(q) : Append(q, x)[i] = q[i]
      BY <3>2, AppendProperties
    <3>5. /\ p[k] = p[k - 1] + 1 /\ f[k][p[k]] = x
          /\ \A i \in 1..p[k - 1] : f[k][i] = q[i]
      BY <3>1, <3>3, <3>4
    <3> QED
      BY <2>1, <2>2, <2>4, <3>5, Zenon DEF q, x
  <2>5. CASE k \notin A
    BY <1>2, <2>1, <2>2, <2>3, <2>5
  <2> QED
    BY <2>4, <2>5
<1>5. p \in [0..n -> Nat]
  BY <1>0
<1>6. p[0] = 0
  <2>1. 0 \in 0..n
    BY <1>1
  <2> QED
    BY <1>0, <1>2, <2>1
<1>7. Places(p, n, A)
  <2>1. ASSUME NEW k \in 1..n
        PROVE  p[k] = IF k \in A THEN p[k - 1] + 1 ELSE p[k - 1]
    BY <1>4
  <2> QED
    BY <1>5, <1>6, <2>1 DEF Places
<1>8. /\ \A j, k \in 0..n : j <= k => p[j] <= p[k]
      /\ \A j \in 0..n, k \in 1..n : j < k /\ k \in A => p[j] < p[k]
  BY <1>1, <1>7, PlacesOrder
<1> DEFINE P == {k \in 0..n : \A j \in 1..k : j \in A => f[k][p[j]] = s[j]}
<1>9. 0 \in P
  BY <1>1
<1>10. ASSUME NEW k \in 1..n, k - 1 \in P
       PROVE  k \in P
  <2> SUFFICES ASSUME NEW j \in 1..k, j \in A
               PROVE  f[k][p[j]] = s[j]
    BY <1>4
  <2>1. CASE j = k
    BY <1>4, <2>1
  <2>2. CASE j # k
    <3>1. j \in 1..(k - 1) /\ 0 \in 0..n /\ 0 < j /\ j \in 0..n /\ j \in 1..n /\ j <= k - 1 /\ k - 1 \in 0..n
      BY <1>1, <2>2
    <3>2. f[k - 1][p[j]] = s[j]
      BY <1>10, <3>1
    <3>3. p[j] \in Nat /\ p[k - 1] \in Nat /\ p[0] < p[j] /\ p[j] <= p[k - 1]
      BY <1>3, <1>8, <3>1
    <3>4. p[j] \in 1..p[k - 1]
      BY <1>6, <3>3
    <3>5. CASE k \in A
      BY <1>4, <3>2, <3>4, <3>5, Zenon
    <3>6. CASE k \notin A
      BY <1>2, <3>2, <3>6, Zenon
    <3> QED
      BY <3>5, <3>6
  <2> QED
    BY <2>1, <2>2
<1>11. n \in P
  <2> HIDE DEF P
  <2> QED
    BY <1>1, <1>9, <1>10, UpTo
<1>12. \A k \in 1..n : k \in A => f[n][p[k]] = s[k]
  BY <1>11, Zenon
<1> QED
  BY <1>7, <1>12, Zenon DEF n
\* A selection K from what was selected, of all that is not in D.
Leaves(K, f, n, A, D) == \A k \in 1..n : k \in A => (Len(f[k]) \in K <=> k \notin D)

LEMMA SelectedAgain ==
  ASSUME NEW S, NEW s \in Seq(S), NEW A, NEW D, NEW K, NEW f, Selects(f, S, s, A),
         Leaves(K, f, Len(s), A, D)
  PROVE  Selected(f[Len(s)], K) = Selected(s, A \ D)
<1> DEFINE n == Len(s)
           p == [k \in 0..n |-> Len(f[k])]
           r == f[n]
           G == A \ D
<1>1. n \in Nat /\ n \in 0..n /\ 0 \in 0..n
  BY LenProperties
<1>2. f \in [0..n -> Seq(S)]
  BY DEF Selects
<1>3. r \in Seq(S)
  BY <1>1, <1>2
<1>4. Places(p, n, A) /\ \A k \in 1..n : k \in A => r[p[k]] = s[k]
  <2>1. \A k \in 0..Len(s) : Len(f[k]) \in Nat
    BY <1>2, LenProperties
  <2>2. p \in [0..Len(s) -> Nat] /\ \A k \in 0..Len(s) : p[k] = Len(f[k])
    BY <2>1
  <2> HIDE DEF p
  <2> QED
    BY <2>2, SelectedPlaces
<1>5. PICK g : Selects(g, S, s, G) /\ Selected(s, G) = g[n]
  <2> HIDE DEF G
  <2> QED
    BY SelectLoop
<1>6. \A k \in 0..n : p[k] = Len(f[k])
  OBVIOUS
<1>7. \A k \in 1..n : k \in A => (p[k] \in K <=> k \notin D)
  BY <1>1 DEF Leaves
<1>8. \A k \in 1..n : k \in G <=> k \in A /\ k \notin D
  OBVIOUS
<1>a. \A k \in 1..n : g[k] = IF k \in G THEN Append(g[k - 1], s[k]) ELSE g[k - 1]
  BY <1>5 DEF Selects
<1>b. g[0] = <<>>
  BY <1>5 DEF Selects
<1> HIDE DEF r, n, p, G
<1>9. PICK h : Selects(h, S, r, K) /\ Selected(r, K) = h[Len(r)]
  BY <1>3, SelectLoop
<1>10. Len(r) = p[n]
  BY <1>1, <1>6, Zenon DEF r
<1>11. /\ h[0] = <<>>
       /\ \A m \in 1..p[n] : h[m] = IF m \in K THEN Append(h[m - 1], r[m]) ELSE h[m - 1]
  BY <1>9, <1>10 DEF Selects
<1>12. /\ \A k \in 0..n : p[k] \in Nat
       /\ p[0] = 0
       /\ \A k \in 1..n : k \in A => p[k] = p[k - 1] + 1
       /\ \A k \in 1..n : k \notin A => p[k] = p[k - 1]
  BY <1>4 DEF Places
<1>13. \A k \in 1..n : k \in A => p[k] \in 1..p[n]
  BY <1>1, <1>4, PlacesOrder
<1> DEFINE P == {k \in 0..n : h[p[k]] = g[k]}
<1>14. 0 \in P
  BY <1>1, <1>b, <1>11, <1>12, Zenon
<1>15. ASSUME NEW k \in 1..n, k - 1 \in P
       PROVE  k \in P
  <2>1. k \in 0..n /\ k - 1 \in 0..n
    BY <1>1
  <2>2. h[p[k - 1]] = g[k - 1]
    BY <1>15
  <2>3. CASE k \notin A
    <3>1. p[k] = p[k - 1] /\ g[k] = g[k - 1]
      BY <1>8, <1>a, <1>12, <2>3, Zenon
    <3> QED
      BY <2>1, <2>2, <3>1, Zenon
  <2>4. CASE k \in A
    <3>1. p[k] - 1 = p[k - 1]
      BY <1>12, <2>1, <2>4
    <3>2. p[k] \in 1..p[n] /\ r[p[k]] = s[k] /\ (p[k] \in K <=> k \in G)
      BY <1>4, <1>7, <1>8, <1>13, <2>4, Zenon
    <3>3. h[p[k]] = IF p[k] \in K THEN Append(h[p[k] - 1], r[p[k]]) ELSE h[p[k] - 1]
      BY <1>11, <3>2, Zenon
    <3>4. h[p[k]] = IF k \in G THEN Append(g[k - 1], s[k]) ELSE g[k - 1]
      BY <2>2, <3>1, <3>2, <3>3, Zenon
    <3> QED
      BY <1>a, <2>1, <3>4, Zenon
  <2> QED
    BY <2>3, <2>4
<1>16. n \in P
  <2> HIDE DEF P
  <2> QED
    BY <1>1, <1>14, <1>15, UpTo
<1> QED
  BY <1>5, <1>9, <1>10, <1>16, Zenon DEF r, n, G

-----------------------------------------------------------------------------
(* The groups of blocks that go are the chains of rules that should.       *)

LEMMA SecRuleIsActive ==
  ASSUME NEW block, IsSecRule(block)
  PROVE  ~Skipped(block)
<1>1. block[1].dir = "SecRule" \/ block[1].dir = "SecRuleEngine"
  BY Zenon DEF IsSecRule
<1> QED
  BY <1>1, Zenon DEF Skipped, Inactive

\* The blocks B of a file, n of them and those at A active, and its rules R,
\* p[k] of them up to block k.
Correspond(B, n, A, p, R, o) ==
  /\ n \in Nat /\ Len(B) = n /\ DOMAIN B = 1..n
  /\ A = Active(B)
  /\ Places(p, n, A)
  /\ DOMAIN R = 1..p[n]
  /\ \A k \in 1..n : k \in A => R[p[k]] = B[k]
  /\ \A k \in 1..n : HasChain(B[k]) <=> Chained(B[k])
  /\ \A m \in 1..p[n] : Chained(R[m]) =>
        R[m][1].dir = "SecRule" /\ m < p[n] /\ R[m + 1][1].dir = "SecRule"
  /\ \A k \in 1..n : k \in WishDrop(B, o) <=> k \in A /\ Unwanted(B[k], o)

LEMMA ChainsAgree ==
  ASSUME NEW B, NEW n, NEW A, NEW p, NEW R, NEW o, Correspond(B, n, A, p, R, o)
  PROVE  \A k \in 1..n : k \in A =>
           ((\A j \in ChainOf(R, p[k]) : ~Unwanted(R[j], o)) <=> k \notin Drop(B, o))
<1> DEFINE W == WishDrop(B, o)
           G == Drop(B, o)
           Sec(k) == IsSecRule(B[k])
           Linked(k) == Links(B, k)
           Ch(m) == Chained(R[m])
           Bad(m) == Unwanted(R[m], o)
           C(k) == ChainIn(B, n, k)
           O(m) == ChainOf(R, m)
<1>a. n \in Nat /\ Len(B) = n /\ DOMAIN B = 1..n /\ Places(p, n, A)
  BY DEF Correspond
<1>b. A = Active(B) /\ DOMAIN R = 1..p[n]
  BY DEF Correspond
<1>c. /\ \A k \in 1..n : k \in A => R[p[k]] = B[k]
      /\ \A k \in 1..n : HasChain(B[k]) <=> Chained(B[k])
      /\ \A k \in 1..n : k \in WishDrop(B, o) <=> k \in A /\ Unwanted(B[k], o)
  BY Zenon DEF Correspond
<1>1. \A k : k \in G <=> k \in 1..n /\ Sec(k) /\ C(k) \cap W # {}
  BY <1>a, DropIsReported
<1>2. /\ \A j, k \in 0..n : j <= k => p[j] <= p[k]
      /\ \A j \in 0..n, k \in 1..n : j < k /\ k \in A => p[j] < p[k]
      /\ \A k \in 1..n : k \in A => p[k] \in 1..p[n]
      /\ \A m \in 1..p[n] : \E k \in 1..n : k \in A /\ p[k] = m
  BY <1>a, PlacesOrder
<1>3. \A k \in 0..n : p[k] \in Nat
  BY <1>a DEF Places
<1>4. \A i, j \in 1..n : j \in C(i) <=>
         Sec(j) /\ \A k \in 1..n : (i <= k /\ k < j) \/ (j <= k /\ k < i) => Linked(k)
  BY DEF ChainIn
<1>5. \A i, j \in 1..p[n] : j \in O(i) <=>
         \A k \in 1..p[n] : (i <= k /\ k < j) \/ (j <= k /\ k < i) => Ch(k)
  BY <1>b DEF ChainOf
<1>6. \A m : C(m) \subseteq 1..n /\ O(m) \subseteq 1..p[n]
  BY <1>b DEF ChainIn, ChainOf
<1>7. ASSUME NEW k \in 1..n, k \in A
      PROVE  /\ k \in W <=> Bad(p[k])
             /\ Linked(k) <=> Sec(k) /\ Ch(p[k])
             /\ R[p[k]][1].dir = "SecRule" => Sec(k)
  <2>1. R[p[k]] = B[k]
    BY <1>c, <1>7, Zenon
  <2>2. k \in W <=> Unwanted(B[k], o)
    BY <1>c, <1>7, Zenon
  <2>3. ~Skipped(B[k])
    BY <1>b, <1>7 DEF Active
  <2>4. HasChain(B[k]) <=> Chained(B[k])
    BY <1>c, Zenon
  <2>5. B[k][1].dir = "SecRule" => Sec(k)
    BY Zenon DEF IsSecRule
  <2> QED
    BY <2>1, <2>2, <2>3, <2>4, <2>5, Zenon DEF Links
<1>8. \A k \in 1..n : k \notin A => Linked(k)
  BY <1>a, <1>b DEF Active, Links
<1>9. \A k \in 1..n : Sec(k) => k \in A
  BY <1>a, <1>b, SecRuleIsActive DEF Active
<1>10. \A k \in W : k \in 1..n /\ Sec(k)
  BY <1>a DEF WishDrop
<1>11. \A m \in 1..p[n] : Ch(m) =>
            R[m][1].dir = "SecRule" /\ m < p[n] /\ R[m + 1][1].dir = "SecRule"
  BY Zenon DEF Correspond
<1> SUFFICES ASSUME NEW k \in 1..n, k \in A
             PROVE  (\A j \in O(p[k]) : ~Bad(j)) <=> k \notin G
  OBVIOUS
<1> HIDE DEF W, G, Sec, Linked, Ch, Bad, C, O
<1>12. ASSUME k \in G
       PROVE  \E m \in O(p[k]) : Bad(m)
  <2>1. PICK j \in C(k) : j \in W
    BY <1>1, <1>12
  <2>2. j \in 1..n /\ Sec(j) /\ j \in A
    BY <1>9, <1>10, <2>1
  <2>3. Bad(p[j])
    BY <1>7, <2>1, <2>2
  <2>4. p[j] \in 1..p[n] /\ p[k] \in 1..p[n]
    BY <1>2, <2>2
  <2>5. ASSUME NEW m \in 1..p[n], (p[k] <= m /\ m < p[j]) \/ (p[j] <= m /\ m < p[k])
        PROVE  Ch(m)
    <3>1. PICK i \in 1..n : i \in A /\ p[i] = m
      BY <1>2
    <3>2. k \in 0..n /\ j \in 0..n /\ i \in 0..n
      BY <2>2
    <3>3. p[k] \in Nat /\ p[j] \in Nat /\ p[i] \in Nat
      BY <1>3, <3>2
    <3>4. \A x, y \in {i, j, k} : (x < y => p[x] < p[y]) /\ (x <= y => p[x] <= p[y])
      <4>1. \A x, y \in {i, j, k} : x \in 0..n /\ y \in 0..n /\ y \in 1..n /\ y \in A
        BY <2>2, <3>1, <3>2
      <4> QED
        BY <1>2, <4>1, Zenon
    <3>5. (k <= i /\ i < j) \/ (j <= i /\ i < k)
      <4>1. /\ i < k => p[i] < p[k]
            /\ i < j => p[i] < p[j]
            /\ j <= i => p[j] <= p[i]
            /\ k <= i => p[k] <= p[i]
        BY <3>4
      <4>2. CASE p[k] <= p[i] /\ p[i] < p[j]
        BY <2>2, <3>3, <4>1, <4>2
      <4>3. CASE p[j] <= p[i] /\ p[i] < p[k]
        BY <2>2, <3>3, <4>1, <4>3
      <4> QED
        BY <2>5, <3>1, <4>2, <4>3
    <3>6. Linked(i)
      BY <1>4, <2>1, <2>2, <3>5
    <3> QED
      BY <1>7, <3>1, <3>6
  <2>6. p[j] \in O(p[k])
    BY <1>5, <2>4, <2>5
  <2> QED
    BY <2>3, <2>6
<1>13. ASSUME NEW m \in O(p[k]), Bad(m)
       PROVE  k \in G
  <2>1. m \in 1..p[n] /\ p[k] \in 1..p[n]
    BY <1>2, <1>6
  <2>2. PICK j \in 1..n : j \in A /\ p[j] = m
    BY <1>2, <2>1
  <2>3. j \in W /\ Sec(j)
    BY <1>7, <1>10, <1>13, <2>2
  <2>4. \A i \in 1..p[n] : (p[k] <= i /\ i < p[j]) \/ (p[j] <= i /\ i < p[k]) => Ch(i)
    BY <1>5, <1>13, <2>1, <2>2
  <2>5. k \in 0..n /\ j \in 0..n /\ p[k] \in Nat /\ p[j] \in Nat
    BY <1>3
  <2>6. ASSUME NEW i \in 1..n, (k <= i /\ i < j) \/ (j <= i /\ i < k)
        PROVE  Linked(i)
    <3>1. CASE i \notin A
      BY <1>8, <3>1
    <3>2. CASE i \in A
      <4>1. i \in 0..n /\ p[i] \in 1..p[n]
        BY <1>2, <3>2
      <4>2. /\ i < j => p[i] < p[j]
            /\ i < k => p[i] < p[k]
            /\ j <= i => p[j] <= p[i]
            /\ k <= i => p[k] <= p[i]
        BY <1>2, <2>2, <2>5, <4>1
      <4>3. Ch(p[i])
        BY <2>4, <2>6, <4>1, <4>2
      <4>4. R[p[i]][1].dir = "SecRule"
        BY <1>11, <4>1, <4>3
      <4> QED
        BY <1>7, <3>2, <4>3, <4>4
    <3> QED
      BY <3>1, <3>2
  <2>7. j \in C(k)
    BY <1>4, <2>3, <2>6
  <2>8. Sec(k)
    <3>1. CASE j = k
      BY <2>3, <3>1
    <3>2. CASE k < j
      <4>1. p[k] < p[j]
        BY <1>2, <2>2, <2>5, <3>2
      <4>2. Ch(p[k])
        BY <2>1, <2>4, <2>5, <4>1
      <4> QED
        BY <1>7, <1>11, <2>1, <4>2
    <3>3. CASE j < k
      <4>1. p[j] < p[k]
        BY <1>2, <2>5, <3>3
      <4> DEFINE i == p[k] - 1
      <4>2. i \in 1..p[n] /\ p[j] <= i /\ i < p[k] /\ i + 1 = p[k]
        <5>1. p[j] \in 1..p[n] /\ p[n] \in Nat
          BY <1>a, <1>3, <2>1, <2>2
        <5> QED
          BY <2>1, <2>5, <4>1, <5>1
      <4> HIDE DEF i
      <4>3. Ch(i)
        BY <2>4, <4>2
      <4>4. R[p[k]][1].dir = "SecRule"
        BY <1>11, <4>2, <4>3
      <4> QED
        BY <1>7, <4>4
    <3> QED
      BY <3>1, <3>2, <3>3
  <2> QED
    BY <1>1, <2>3, <2>7, <2>8
<1> QED
  BY <1>12, <1>13
-----------------------------------------------------------------------------
(* The generator on files as authors write them.                           *)

AreBlocks(B, lines) == B = splitIntoRules(Trimmed(lines))

\* The blocks of such a file are complete, made of its lines, and its rules.
LEMMA BlocksAreRules ==
  ASSUME NEW lines \in Seq(Line), WellFormed(lines), Unindented(lines),
         NEW B, AreBlocks(B, lines)
  PROVE  /\ B \in Seq(Seq(Line))
         /\ \A k \in 1..Len(B) : Complete(B[k])
         /\ \A k \in 1..Len(B) : \A i \in 1..Len(B[k]) :
              \E j \in 1..Len(lines) : B[k][i] = lines[j]
         /\ Rules(lines) = Selected(B, Active(B))
<1> DEFINE T == Trimmed(lines)
<1>1. T \in Seq(Line) /\ ToSet(T) \subseteq ToSet(lines)
  BY TrimmedType
<1>2. Read(T) = Read(lines)
  BY ReadTrimmed
<1>3. Read(lines).current = <<>>
  BY DEF WellFormed
<1>4. Laid(T)
  BY LaidOut
<1>a. B = splitIntoRules(T)
  BY DEF AreBlocks
<1> HIDE DEF T
<1>5. B \in Seq(Seq(Line)) /\ FlattenSeq(B) = T
  BY <1>1, <1>a, SplitIntoRules
<1>6. \A k \in 1..Len(B) : Complete(B[k])
  <2>1. Read(T).current = <<>>
    BY <1>2, <1>3, Zenon
  <2>2. \A k \in 1..Len(splitIntoRules(T)) : Complete(splitIntoRules(T)[k])
    BY <1>1, <1>4, <2>1, BlocksAreComplete
  <2> QED
    BY <1>a, <2>2, Zenon
<1>7. Len(B) \in Nat /\ DOMAIN B = 1..Len(B) /\ \A k \in 1..Len(B) : B[k] \in Seq(Line)
  BY <1>5, LenProperties, ElementOfSeq
<1>8. ASSUME NEW k \in 1..Len(B), NEW i \in 1..Len(B[k])
      PROVE  \E j \in 1..Len(lines) : B[k][i] = lines[j]
  <2>1. DOMAIN B[k] = 1..Len(B[k]) /\ DOMAIN lines = 1..Len(lines)
    BY <1>7, LenProperties
  <2>2. B[k][i] \in ToSet(B[k])
    BY <2>1 DEF ToSet
  <2>3. B[k][i] \in ToSet(FlattenSeq(B))
    BY <1>5, <2>2, FlattenSeqElements
  <2>4. B[k][i] \in ToSet(lines)
    BY <1>1, <1>5, <2>3, Zenon
  <2> QED
    BY <2>1, <2>4 DEF ToSet
<1>9. Without(B, {}) = T
  <2>1. B = [i \in DOMAIN B |-> B[i]]
    BY <1>5
  <2>2. [i \in DOMAIN B |-> IF i \in {} THEN <<>> ELSE B[i]] = [i \in DOMAIN B |-> B[i]]
    OBVIOUS
  <2>3. Without(B, {}) = FlattenSeq([i \in DOMAIN B |-> IF i \in {} THEN <<>> ELSE B[i]])
    BY DEF Without
  <2>4. [i \in DOMAIN B |-> IF i \in {} THEN <<>> ELSE B[i]] = B
    BY <2>1, <2>2
  <2> QED
    BY <1>5, <2>3, <2>4
<1>10. Read(Without(B, {})) = [rules |-> Selected(B, Active(B) \ {}), current |-> <<>>]
  BY <1>5, <1>6, ReadWithout
<1>11. Active(B) \ {} = Active(B)
  OBVIOUS
<1>12. Read(lines) = [rules |-> Selected(B, Active(B)), current |-> <<>>]
  BY <1>2, <1>9, <1>10, <1>11, Zenon
<1>13. Rules(lines) = Selected(B, Active(B))
  BY <1>12 DEF Rules
<1> QED
  BY <1>5, <1>6, <1>8, <1>13, Zenon

\* Each of its blocks that is not blank or a comment is one of its rules.
LEMMA BlockIsRule ==
  ASSUME NEW lines \in Seq(Line), WellFormed(lines), Unindented(lines),
         NEW B, AreBlocks(B, lines), NEW k \in 1..Len(B), k \in Active(B)
  PROVE  \E m \in DOMAIN Rules(lines) : Rules(lines)[m] = B[k]
<1> DEFINE n == Len(B)
           A == Active(B)
           R == Rules(lines)
           S == Seq(Line)
<1>1. B \in Seq(Seq(Line)) /\ R = Selected(B, A)
  BY BlocksAreRules
<1>2. n \in Nat /\ B \in Seq(S)
  BY <1>1, LenProperties
<1> HIDE DEF A, S, R
<1>3. PICK f : Selects(f, S, B, A) /\ Selected(B, A) = f[n]
  BY <1>2, SelectLoop
<1>4. f \in [0..n -> Seq(S)] /\ n \in 0..n
  BY <1>2, <1>3 DEF Selects
<1> DEFINE p == [j \in 0..n |-> Len(f[j])]
<1>5. p \in [0..n -> Nat] /\ \A j \in 0..n : p[j] = Len(f[j])
  <2>1. \A j \in 0..n : Len(f[j]) \in Nat
    BY <1>4, LenProperties
  <2> QED
    BY <2>1
<1> HIDE DEF p
<1>6. Places(p, n, A) /\ \A j \in 1..n : j \in A => f[n][p[j]] = B[j]
  BY <1>2, <1>3, <1>5, SelectedPlaces
<1>7. k \in A
  BY DEF A
<1>8. p[k] \in 1..p[n]
  <2>1. k \in 1..n
    OBVIOUS
  <2> HIDE DEF n
  <2> QED
    BY <1>2, <1>6, <1>7, <2>1, PlacesOrder
<1>9. f[n] \in Seq(S) /\ p[n] = Len(f[n])
  BY <1>4, <1>5
<1>10. DOMAIN f[n] = 1..p[n]
  BY <1>9, LenProperties
<1>11. f[n][p[k]] = B[k]
  BY <1>6, <1>7, Zenon
<1>12. R = f[n]
  BY <1>1, <1>3, Zenon
<1> QED
  BY <1>8, <1>10, <1>11, <1>12, Zenon DEF R

\* The id that extractRuleID finds is one of the block's, and it is the only
\* one when that is not in quotes.
LEMMA RuleId ==
  ASSUME NEW b \in Seq(Line)
  PROVE  /\ extractRuleID(b) # NoId => \E i \in 1..Len(b) : extractRuleID(b) = b[i].id
         /\ \A i \in 1..Len(b) :
              /\ b[i].id # NoId /\ ~b[i].quoted
              /\ \A k, l \in 1..Len(b) : b[k].id # NoId /\ b[l].id # NoId => k = l
              => extractRuleID(b) = b[i].id
<1> DEFINE n == Len(b)
           found == {i \in 1..n : b[i].id # NoId /\ ~b[i].quoted}
<1>1. n \in Nat /\ DOMAIN b = 1..n
  BY LenProperties
<1>2. extractRuleID(b) = IF found = {} THEN NoId ELSE b[Min(found)].id
  BY <1>1 DEF extractRuleID
<1>3. \A i : i \in found <=> i \in 1..n /\ b[i].id # NoId /\ ~b[i].quoted
  OBVIOUS
<1>4. found \in SUBSET (1..n)
  OBVIOUS
<1> HIDE DEF found, n
<1>5. ASSUME extractRuleID(b) # NoId
      PROVE  \E i \in 1..n : extractRuleID(b) = b[i].id
  <2>1. found # {}
    BY <1>2, <1>5
  <2>2. Min(found) \in found
    BY <1>1, <1>4, <2>1, MinMax
  <2> QED
    BY <1>2, <1>3, <2>1, <2>2
<1>6. ASSUME NEW i \in 1..n, b[i].id # NoId, ~b[i].quoted,
             \A k, l \in 1..n : b[k].id # NoId /\ b[l].id # NoId => k = l
      PROVE  extractRuleID(b) = b[i].id
  <2>1. found # {}
    BY <1>3, <1>6, Zenon
  <2>2. Min(found) \in found
    BY <1>1, <1>4, <2>1, MinMax
  <2>3. Min(found) = i
    BY <1>3, <1>6, <2>2, Zenon
  <2> QED
    BY <1>2, <2>1, <2>3
<1> QED
  BY <1>5, <1>6, Zenon DEF n

\* What the generator takes for unwanted is so: of the directives whose names
\* merely begin with SecRule none is.
LEMMA WishIsUnwanted ==
  ASSUME NEW lines \in Seq(Line), WellFormed(lines), Unquoted(lines), Unindented(lines),
         NEW B, AreBlocks(B, lines), NEW o \in Options
  PROVE  \A k \in 1..Len(B) : k \in WishDrop(B, o) <=> k \in Active(B) /\ Unwanted(B[k], o)
<1>1. /\ B \in Seq(Seq(Line))
      /\ \A k \in 1..Len(B) : Complete(B[k])
      /\ \A k \in 1..Len(B) : \A i \in 1..Len(B[k]) :
           \E j \in 1..Len(lines) : B[k][i] = lines[j]
  BY BlocksAreRules
<1>2. DOMAIN B = 1..Len(B) /\ \A k \in 1..Len(B) : B[k] \in Seq(Line)
  BY <1>1, LenProperties, ElementOfSeq
<1>3. \A j \in 1..Len(lines) :
        /\ ~lines[j].quoted
        /\ lines[j].dir = "SecRuleEngine" =>
             ~lines[j].more /\ lines[j].id = NoId /\ ~lines[j].pm
  <2>1. DOMAIN lines = 1..Len(lines)
    BY LenProperties
  <2> QED
    BY <2>1 DEF WellFormed, Unquoted
<1>4. NoId \notin mergeUnsupportedIDs(o)
  <2>1. o.ignore \subseteq Ids
    BY DEF Options
  <2> QED
    BY <2>1, RuleFilterAssumption DEF mergeUnsupportedIDs
<1> SUFFICES ASSUME NEW k \in 1..Len(B)
             PROVE  k \in WishDrop(B, o) <=> k \in Active(B) /\ Unwanted(B[k], o)
  OBVIOUS
<1> DEFINE b == B[k]
           Sign == (o.ignorePM /\ HasPM(b)) \/ extractRuleID(b) \in mergeUnsupportedIDs(o)
           Mark == \E i \in DOMAIN b : b[i].id \in mergeUnsupportedIDs(o)
<1>5. k \in WishDrop(B, o) <=> IsSecRule(b) /\ Sign
  BY <1>2 DEF WishDrop
<1>6. Unwanted(b, o) <=> b[1].dir = "SecRule" /\ ((o.ignorePM /\ HasPM(b)) \/ Mark)
  BY DEF Unwanted
<1>7. k \in Active(B) <=> ~Skipped(b)
  BY DEF Active
<1>8. IsSecRule(b) => ~Skipped(b)
  BY SecRuleIsActive
<1>9. /\ b \in Seq(Line) /\ Complete(b)
      /\ \A i \in 1..Len(b) : \E j \in 1..Len(lines) : b[i] = lines[j]
  BY <1>1, <1>2
<1>10. IsSecRule(b) <=> b[1].dir = "SecRule" \/ b[1].dir = "SecRuleEngine"
  BY Zenon DEF IsSecRule
<1> HIDE DEF b
<1>11. ASSUME b[1].dir = "SecRuleEngine"
       PROVE  ~Sign
  <2>1. Len(b) \in Nat /\ Len(b) >= 1
    BY <1>9, LenProperties DEF Complete
  <2>2. 1 \in 1..Len(b)
    BY <2>1
  <2>3. ~b[1].more /\ b[1].id = NoId /\ ~b[1].pm /\ ~b[1].quoted
    <3>1. PICK j \in 1..Len(lines) : b[1] = lines[j]
      BY <1>9, <2>2
    <3>2. lines[j].dir = "SecRuleEngine"
      BY <1>11, <3>1
    <3>3. ~lines[j].more /\ lines[j].id = NoId /\ ~lines[j].pm /\ ~lines[j].quoted
      BY <1>3, <3>2, Zenon
    <3> QED
      BY <3>1, <3>3
  <2>4. Len(b) = 1
    <3>1. CASE Len(b) = 1 /\ Inactive(b[1])
      BY <3>1
    <3>2. CASE \A j \in 1..Len(b) : j < Len(b) => b[j].more
      <4>1. ~(1 < Len(b))
        BY <2>2, <2>3, <3>2, Zenon
      <4> DEFINE m == Len(b)
      <4>2. m \in Nat /\ m >= 1 /\ ~(1 < m)
        BY <2>1, <4>1, Zenon
      <4> HIDE DEF m
      <4>3. m = 1
        BY <4>2
      <4> QED
        BY <4>3 DEF m
    <3> QED
      BY <1>9, <3>1, <3>2, Zenon DEF Complete
  <2>5. \A i \in 1..Len(b) : i = 1
    BY <2>4
  <2>6. extractRuleID(b) = NoId
    <3>1. \A i \in 1..Len(b) : b[i].id = NoId
      BY <2>3, <2>5, Zenon
    <3> QED
      BY <1>9, <3>1, RuleId, Zenon
  <2>7. ~HasPM(b)
    <3>1. DOMAIN b = 1..Len(b)
      BY <1>9, LenProperties
    <3> QED
      BY <2>3, <2>5, <3>1, Zenon DEF HasPM
  <2> QED
    BY <1>4, <2>6, <2>7, Zenon
<1>12. ASSUME ~Skipped(b)
       PROVE  extractRuleID(b) \in mergeUnsupportedIDs(o) <=> Mark
  <2> DEFINE M == mergeUnsupportedIDs(o)
  <2>1. DOMAIN b = 1..Len(b)
    BY <1>9, LenProperties
  <2>2. ASSUME extractRuleID(b) \in M
        PROVE  Mark
    <3>1. extractRuleID(b) # NoId
      BY <1>4, <2>2
    <3>2. PICK i \in 1..Len(b) : extractRuleID(b) = b[i].id
      BY <1>9, <3>1, RuleId
    <3> QED
      BY <2>1, <2>2, <3>2, Zenon
  <2>3. ASSUME Mark
        PROVE  extractRuleID(b) \in M
    <3>1. PICK i \in 1..Len(b) : b[i].id \in M
      BY <2>1, <2>3, Zenon
    <3>2. b[i].id # NoId
      BY <1>4, <3>1
    <3>3. ~b[i].quoted
      BY <1>3, <1>9, Zenon
    <3>4. \A j, l \in 1..Len(b) : b[j].id # NoId /\ b[l].id # NoId => j = l
      <4>1. \E m \in DOMAIN Rules(lines) : Rules(lines)[m] = b
        BY <1>7, <1>12, BlockIsRule DEF b
      <4>2. \A m \in DOMAIN Rules(lines) : \A j, l \in DOMAIN Rules(lines)[m] :
              Rules(lines)[m][j].id # NoId /\ Rules(lines)[m][l].id # NoId => j = l
        BY Zenon DEF WellFormed
      <4> QED
        BY <2>1, <4>1, <4>2, Zenon
    <3>5. extractRuleID(b) = b[i].id
      BY <1>9, <3>2, <3>3, <3>4, RuleId, Zenon
    <3> QED
      BY <3>1, <3>5, Zenon
  <2> QED
    BY <2>2, <2>3, Zenon
<1>13. b[1].dir = "SecRule" => (Sign <=> ((o.ignorePM /\ HasPM(b)) \/ Mark))
  BY <1>8, <1>10, <1>12, Zenon
<1> HIDE DEF Sign, Mark
<1> QED
  BY <1>5, <1>6, <1>7, <1>8, <1>10, <1>11, <1>13, Zenon DEF b

\* The rules left are those that should be.
LEMMA ProcessedExactly ==
  ASSUME NEW lines \in Seq(Line), WellFormed(lines), Unquoted(lines), Unindented(lines),
         ChainsInline(lines), NEW B, AreBlocks(B, lines), NEW o \in Options
  PROVE  Rules(Without(B, Drop(B, o))) = Wanted(Rules(lines), o)
<1> DEFINE n == Len(B)
           A == Active(B)
           G == Drop(B, o)
           R == Rules(lines)
           K == {i \in DOMAIN R : \A j \in ChainOf(R, i) : ~Unwanted(R[j], o)}
<1>1. /\ B \in Seq(Seq(Line))
      /\ \A k \in 1..n : Complete(B[k])
      /\ \A k \in 1..n : \A i \in 1..Len(B[k]) :
           \E j \in 1..Len(lines) : B[k][i] = lines[j]
      /\ R = Selected(B, A)
  BY BlocksAreRules
<1>2. \A k \in 1..n : k \in WishDrop(B, o) <=> k \in A /\ Unwanted(B[k], o)
  BY WishIsUnwanted
<1>3. n \in Nat /\ DOMAIN B = 1..n /\ \A k \in 1..n : B[k] \in Seq(Line)
  BY <1>1, LenProperties, ElementOfSeq
<1>4. \A k \in 1..n : HasChain(B[k]) <=> Chained(B[k])
  <2> SUFFICES ASSUME NEW k \in 1..n
               PROVE  HasChain(B[k]) <=> Chained(B[k])
    OBVIOUS
  <2>1. DOMAIN B[k] = 1..Len(B[k]) /\ DOMAIN lines = 1..Len(lines)
    BY <1>3, LenProperties
  <2>2. ASSUME NEW i \in 1..Len(B[k])
        PROVE  B[k][i].chain = "inline" <=> B[k][i].chain # "none"
    <3>1. PICK j \in 1..Len(lines) : B[k][i] = lines[j]
      BY <1>1
    <3>2. lines[j] \in Line /\ lines[j].chain # "first"
      BY <2>1, ElementOfSeq DEF ChainsInline
    <3>3. lines[j].chain \in {"inline", "first", "none"}
      BY <3>2 DEF Line
    <3> QED
      BY <3>1, <3>2, <3>3
  <2> QED
    BY <2>1, <2>2, Zenon DEF HasChain, Chained
<1>5. Read(Without(B, G)) = [rules |-> Selected(B, A \ G), current |-> <<>>]
  <2> HIDE DEF G
  <2> QED
    BY <1>1, ReadWithout
<1>6. Rules(Without(B, G)) = Selected(B, A \ G)
  <2> HIDE DEF G, A
  <2> QED
    BY <1>5 DEF Rules
<1>7. PICK f : Selects(f, Seq(Line), B, A) /\ Selected(B, A) = f[n]
  <2> HIDE DEF A
  <2> QED
    BY <1>1, SelectLoop
<1>8. f \in [0..n -> Seq(Seq(Line))] /\ n \in 0..n
  BY <1>3, <1>7 DEF Selects
<1> DEFINE p == [k \in 0..n |-> Len(f[k])]
<1>9. p \in [0..n -> Nat] /\ \A k \in 0..n : p[k] = Len(f[k])
  <2>1. \A k \in 0..n : Len(f[k]) \in Nat
    BY <1>8, LenProperties
  <2> QED
    BY <2>1
<1>10. R = f[n]
  BY <1>1, <1>7
<1>11. R \in Seq(Seq(Line)) /\ Len(R) = p[n] /\ DOMAIN R = 1..p[n]
  <2>1. f[n] \in Seq(Seq(Line)) /\ Len(f[n]) = p[n]
    BY <1>8, <1>9
  <2>2. R \in Seq(Seq(Line)) /\ Len(R) = p[n]
    BY <1>10, <2>1, Zenon
  <2> HIDE DEF p, R
  <2> QED
    BY <2>2, LenProperties
<1> HIDE DEF p
<1>12. Places(p, n, A) /\ \A k \in 1..n : k \in A => f[n][p[k]] = B[k]
  <2> DEFINE S == Seq(Line)
  <2>1. B \in Seq(S) /\ Selects(f, S, B, A)
    BY <1>1, <1>7, Zenon
  <2> HIDE DEF A, S
  <2> QED
    BY <1>9, <2>1, SelectedPlaces
<1>13. \A k \in 1..n : k \in A => R[p[k]] = B[k]
  BY <1>10, <1>12, Zenon
<1>14. \A m \in 1..p[n] : Chained(R[m]) =>
         R[m][1].dir = "SecRule" /\ m < p[n] /\ R[m + 1][1].dir = "SecRule"
  <2>1. \A m \in DOMAIN R : Chained(R[m]) =>
          R[m][1].dir = "SecRule" /\ m < Len(R) /\ R[m + 1][1].dir = "SecRule"
    BY Zenon DEF WellFormed
  <2> HIDE DEF R
  <2> QED
    BY <1>11, <2>1, Zenon
<1>15. \A k \in 1..n : k \in A =>
         ((\A j \in ChainOf(R, p[k]) : ~Unwanted(R[j], o)) <=> k \notin G)
  <2> HIDE DEF R, G
  <2>1. Len(B) = n /\ A = Active(B)
    OBVIOUS
  <2> HIDE DEF n, A
  <2> QED
    <3>1. Correspond(B, n, A, p, R, o)
      BY <1>2, <1>3, <1>4, <1>11, <1>12, <1>13, <1>14, <2>1, Zenon DEF Correspond
    <3>2. \A k \in 1..n : k \in A =>
            ((\A j \in ChainOf(R, p[k]) : ~Unwanted(R[j], o)) <=> k \notin Drop(B, o))
      BY <3>1, ChainsAgree, Zenon
    <3> QED
      BY <3>2, Zenon DEF G
<1>16. \A k \in 1..n : k \in A => p[k] \in 1..p[n]
  <2> HIDE DEF n, A
  <2> QED
    BY <1>3, <1>12, PlacesOrder
<1>17. Leaves(K, f, n, A, G)
  <2> SUFFICES ASSUME NEW k \in 1..n, k \in A
               PROVE  Len(f[k]) \in K <=> k \notin G
    BY DEF Leaves
  <2>1. k \in 0..n
    BY <1>3
  <2>2. Len(f[k]) = p[k] /\ p[k] \in DOMAIN R
    BY <1>9, <1>11, <1>16, <2>1, Zenon
  <2> HIDE DEF R, G, A, n
  <2> QED
    BY <1>15, <2>2, Zenon
<1>18. Selected(f[n], K) = Selected(B, A \ G)
  <2> DEFINE S == Seq(Line)
  <2>1. B \in Seq(S) /\ Selects(f, S, B, A)
    BY <1>1, <1>7, Zenon
  <2> HIDE DEF K, A, G, S
  <2> QED
    BY <1>17, <2>1, SelectedAgain
<1>19. Wanted(R, o) = Selected(R, K)
  <2>1. DOMAIN R = 1..Len(R)
    BY <1>11
  <2> HIDE DEF R
  <2> QED
    BY <2>1 DEF Wanted, Selected
<1> QED
  BY <1>6, <1>10, <1>18, <1>19, Zenon
(***************************************************************************)
(* The filter is exact.  Of any well-formed, unindented file whose ids are *)
(* unquoted and whose chains are visible, and for any options, Coraza      *)
(* reads in what processFileContent writes just the rules it reads in the  *)
(* file, in their order, less the chains with an unwanted rule.            *)
(***************************************************************************)
THEOREM FilterIsExact == Spec => []FilterExact
<1>1. Filtered => FilterExact
  <2> SUFFICES ASSUME Filtered, done /\ Mentions(content), WellFormed(content),
                      Unquoted(content), Unindented(content), ChainsInline(content)
               PROVE  Rules(out) = Wanted(Rules(content), opts)
    BY DEF FilterExact
  <2>1. content \in Seq(Line) /\ opts \in Options /\ Outcome
    BY DEF Filtered
  <2> DEFINE B == splitIntoRules(Trimmed(content))
  <2>2. out = Without(B, Drop(B, opts)) /\ AreBlocks(B, content)
    BY <2>1 DEF Outcome, AreBlocks
  <2> HIDE DEF B
  <2>3. Rules(Without(B, Drop(B, opts))) = Wanted(Rules(content), opts)
    BY <2>1, <2>2, ProcessedExactly
  <2> QED
    BY <2>2, <2>3
<1> QED
  BY <1>1, FilteredInvariant, PTL

-----------------------------------------------------------------------------
(* Files with indented rules.  There the blocks are the rules that begin   *)
(* in the first column, and the lines of the others one by one.            *)

HasLine(s, x) == \E j \in 1..Len(s) : x = s[j]

\* The block b with the line x is a rule that has been read, or x is of a rule
\* that does not begin in the first column.
Owned(x, b, r) ==
  \/ \E m \in 1..Len(r.rules) : r.rules[m] = b
  \/ \E m \in 1..Len(r.rules) :
        HasLine(r.rules[m], x) /\ ~secDirectiveLine(r.rules[m][1])
  \/ HasLine(r.current, x) /\ ~secDirectiveLine(r.current[1])

\* It stays so when the next line is read.
LEMMA OwnedStays ==
  ASSUME NEW L, NEW r \in ReadState(L), NEW line \in L, NEW x, NEW b, Owned(x, b, r)
  PROVE  Owned(x, b, ReadLine(r, line))
<1> DEFINE next == ReadLine(r, line)
           C == r.current
           D == Append(C, line)
           Q == r.rules
           E == Append(Q, D)
<1>1. C \in Seq(L) /\ Q \in Seq(Seq(L))
  BY DEF ReadState
<1>2. /\ D \in Seq(L) /\ Len(C) \in Nat /\ Len(D) = Len(C) + 1
      /\ \A j \in 1..Len(C) : D[j] = C[j]
  BY <1>1, AppendProperties, LenProperties
<1>a. /\ Inactive(line) => next = r
      /\ ~Inactive(line) /\ line.more => next = [rules |-> Q, current |-> D]
      /\ ~Inactive(line) /\ ~line.more => next = [rules |-> E, current |-> <<>>]
  BY ReadLineCases
<1> HIDE DEF D
<1>3. /\ Len(Q) \in Nat /\ Len(E) = Len(Q) + 1
      /\ E[Len(Q) + 1] = D /\ \A k \in 1..Len(Q) : E[k] = Q[k]
  BY <1>1, <1>2, AppendProperties, LenProperties
<1>4. \/ \E m \in 1..Len(Q) : Q[m] = b
      \/ \E m \in 1..Len(Q) : HasLine(Q[m], x) /\ ~secDirectiveLine(Q[m][1])
      \/ HasLine(C, x) /\ ~secDirectiveLine(C[1])
  BY DEF Owned
<1>5. HasLine(C, x) => HasLine(D, x) /\ D[1] = C[1]
  <2> SUFFICES ASSUME NEW j \in 1..Len(C), x = C[j]
               PROVE  HasLine(D, x) /\ D[1] = C[1]
    BY DEF HasLine
  <2>1. 1 \in 1..Len(C) /\ j \in 1..Len(D)
    BY <1>2
  <2>2. D[1] = C[1] /\ x = D[j]
    BY <1>2, <2>1, Zenon
  <2> QED
    BY <2>1, <2>2, Zenon DEF HasLine
<1> HIDE DEF next, C, Q, E
<1>6. CASE Inactive(line)
  <2>1. next = r
    BY <1>6, <1>a, Zenon
  <2> QED
    BY <2>1, Zenon DEF next
<1>7. CASE ~Inactive(line) /\ line.more
  <2>1. next.rules = Q /\ next.current = D
    BY <1>7, <1>a
  <2> QED
    BY <1>4, <1>5, <2>1, Zenon DEF Owned, next
<1>8. CASE ~Inactive(line) /\ ~line.more
  <2>1. next.rules = E
    BY <1>8, <1>a
  <2>2. Len(Q) + 1 \in 1..Len(E) /\ \A m \in 1..Len(Q) : m \in 1..Len(E)
    BY <1>3
  <2>3. \/ \E m \in 1..Len(E) : E[m] = b
        \/ \E m \in 1..Len(E) : HasLine(E[m], x) /\ ~secDirectiveLine(E[m][1])
    <3>1. CASE \E m \in 1..Len(Q) : Q[m] = b
      BY <1>3, <2>2, <3>1, Zenon
    <3>2. CASE \E m \in 1..Len(Q) : HasLine(Q[m], x) /\ ~secDirectiveLine(Q[m][1])
      BY <1>3, <2>2, <3>2, Zenon
    <3>3. CASE HasLine(C, x) /\ ~secDirectiveLine(C[1])
      <4> DEFINE m == Len(Q) + 1
      <4>1. E[m] = D /\ m \in 1..Len(E)
        BY <1>3, <2>2, Zenon
      <4> HIDE DEF m
      <4>2. HasLine(E[m], x) /\ ~secDirectiveLine(E[m][1])
        BY <1>5, <3>3, <4>1, Zenon
      <4> QED
        BY <4>1, <4>2, Zenon
    <3> QED
      BY <1>4, <3>1, <3>2, <3>3, Zenon
  <2> QED
    BY <2>1, <2>3, Zenon DEF Owned, next
<1> QED
  BY <1>6, <1>7, <1>8, Zenon

\* What is split so far, next to what has been read.
Follows(acc, r) ==
  /\ acc.current # <<>> => acc.current = r.current
  /\ acc.current = <<>> /\ r.current # <<>> => ~secDirectiveLine(r.current[1])
  /\ \A k \in 1..Len(acc.blocks) : \A j \in 1..Len(acc.blocks[k]) :
        ~Inactive(acc.blocks[k][j]) => Owned(acc.blocks[k][j], acc.blocks[k], r)

LEMMA TurnFollows ==
  ASSUME NEW L, NEW acc \in SplitState(L), NEW r \in ReadState(L), NEW line \in L,
         Follows(acc, r),
         r.current # <<>> => ~Inactive(line) /\ ~secDirectiveLine(line),
         Inactive(line) => ~secDirectiveLine(line)
  PROVE  /\ Follows(TakeLine(acc, line), ReadLine(r, line))
         /\ ReadLine(r, line).current # <<>> <=> ~Inactive(line) /\ line.more
<1> DEFINE next == TakeLine(acc, line)
           rext == ReadLine(r, line)
           C == acc.current
           D == Append(C, line)
           B == acc.blocks
           E == Append(B, D)
           c == r.current
           F == Append(c, line)
           G == Append(r.rules, F)
           P == Inactive(line)
           Q == line.more
           S == secDirectiveLine(line)
<1>1. C \in Seq(L) /\ B \in Seq(Seq(L)) /\ c \in Seq(L) /\ r.rules \in Seq(Seq(L))
  BY DEF SplitState, ReadState
<1>2. /\ D \in Seq(L) /\ Len(C) \in Nat /\ Len(D) = Len(C) + 1 /\ D[Len(C) + 1] = line
      /\ F \in Seq(L) /\ Len(c) \in Nat /\ Len(F) = Len(c) + 1 /\ F[Len(c) + 1] = line
      /\ \A j \in 1..Len(c) : F[j] = c[j]
  BY <1>1, AppendProperties, LenProperties
<1>3. (Len(C) = 0 <=> C = <<>>) /\ (Len(c) = 0 <=> c = <<>>)
  BY <1>1
<1>4. C = c => D = F
  OBVIOUS
<1>5. /\ C # <<>> /\ Q => next = [blocks |-> B, current |-> D]
      /\ C # <<>> /\ ~Q => next = [blocks |-> E, current |-> <<>>]
      /\ C = <<>> /\ S /\ Q => next = [blocks |-> B, current |-> D]
      /\ C = <<>> /\ ~(S /\ Q) => next = [blocks |-> E, current |-> <<>>]
  BY TakeLineCases
<1>6. /\ P => rext = r
      /\ ~P /\ Q => rext = [rules |-> r.rules, current |-> F]
      /\ ~P /\ ~Q => rext = [rules |-> G, current |-> <<>>]
  BY ReadLineCases
<1>7. /\ C # <<>> => C = c
      /\ C = <<>> /\ c # <<>> => ~secDirectiveLine(c[1])
      /\ \A k \in 1..Len(B) : \A j \in 1..Len(B[k]) :
            ~Inactive(B[k][j]) => Owned(B[k][j], B[k], r)
  BY DEF Follows
<1>8. (c # <<>> => ~P /\ ~S) /\ (P => ~S)
  OBVIOUS
<1>9. ASSUME NEW k \in 1..Len(B), NEW j \in 1..Len(B[k]), ~Inactive(B[k][j])
      PROVE  Owned(B[k][j], B[k], rext)
  <2>1. Owned(B[k][j], B[k], r)
    BY <1>7, <1>9, Zenon
  <2> QED
    BY <2>1, OwnedStays
<1> HIDE DEF D, F
<1>10. /\ Len(B) \in Nat /\ Len(E) = Len(B) + 1
       /\ E[Len(B) + 1] = D /\ \A k \in 1..Len(B) : E[k] = B[k]
  BY <1>1, <1>2, AppendProperties, LenProperties
<1>11. Len(G) \in 1..Len(G) /\ G[Len(G)] = F
  <2>1. Len(r.rules) \in Nat /\ Len(G) = Len(r.rules) + 1 /\ G[Len(r.rules) + 1] = F
    BY <1>1, <1>2, AppendProperties, LenProperties
  <2> QED
    BY <2>1
<1>12. HasLine(F, line) /\ F # <<>> /\ D # <<>>
  <2>1. Len(c) + 1 \in 1..Len(F) /\ F # <<>> /\ D # <<>>
    BY <1>2
  <2> QED
    BY <1>2, <2>1, Zenon DEF HasLine
<1>13. (c # <<>> => F[1] = c[1]) /\ (c = <<>> => F[1] = line)
  BY <1>1, <1>2, <1>3
<1>14. C = <<>> => \A j \in 1..Len(D) : D[j] = line
  BY <1>2, <1>3
<1> HIDE DEF next, rext, C, B, E, c, G, P, Q, S
<1>15. rext.current # <<>> <=> ~P /\ Q
  <2>1. CASE P
    <3>1. c = <<>> /\ rext.current = c
      BY <1>6, <1>8, <2>1 DEF c
    <3> QED
      BY <2>1, <3>1
  <2>2. CASE ~P /\ Q
    BY <1>6, <1>12, <2>2
  <2>3. CASE ~P /\ ~Q
    BY <1>6, <2>3
  <2> QED
    BY <2>1, <2>2, <2>3
<1>16. CASE Q /\ (C # <<>> \/ S)
  <2>1. next.blocks = B /\ next.current = D
    BY <1>5, <1>16
  <2>2. ~P /\ C = c
    BY <1>3, <1>7, <1>8, <1>16, Zenon
  <2>3. rext.current = F /\ D = F
    BY <1>4, <1>6, <1>16, <2>2
  <2> QED
    BY <1>9, <1>12, <1>15, <2>1, <2>3, Zenon DEF Follows, next, rext, P, Q
<1>17. CASE ~(Q /\ (C # <<>> \/ S))
  <2>1. next.blocks = E /\ next.current = <<>>
    BY <1>5, <1>17
  <2>2. ASSUME rext.current # <<>>
        PROVE  ~secDirectiveLine(rext.current[1])
    <3>1. ~P /\ Q /\ C = <<>> /\ ~S
      BY <1>15, <1>17, <2>2
    <3>2. rext.current = F
      BY <1>6, <3>1
    <3>3. ~secDirectiveLine(F[1])
      BY <1>7, <1>13, <3>1, Zenon DEF S
    <3> QED
      BY <3>2, <3>3
  <2>3. ASSUME NEW j \in 1..Len(D), ~Inactive(D[j])
        PROVE  Owned(D[j], D, rext)
    <3>1. CASE C # <<>>
      <4>1. ~P /\ ~Q /\ D = F
        BY <1>4, <1>7, <1>8, <1>17, <3>1, Zenon
      <4>2. rext.rules = G
        BY <1>6, <4>1
      <4> QED
        BY <1>11, <4>1, <4>2, Zenon DEF Owned
    <3>2. CASE C = <<>>
      <4>1. D[j] = line /\ ~P
        BY <1>14, <2>3, <3>2, Zenon DEF P
      <4>2. CASE Q
        <5>1. rext.current = F
          BY <1>6, <4>1, <4>2
        <5>2. ~secDirectiveLine(F[1])
          <6>1. rext.current # <<>>
            BY <1>12, <5>1
          <6> QED
            BY <2>2, <5>1, <6>1, Zenon
        <5> QED
          BY <1>12, <4>1, <5>1, <5>2, Zenon DEF Owned
      <4>3. CASE ~Q
        <5>1. rext.rules = G
          BY <1>6, <4>1, <4>3
        <5>2. CASE c = <<>>
          <6>1. D = F
            BY <1>4, <3>2, <5>2, Zenon
          <6> QED
            BY <1>11, <5>1, <6>1, Zenon DEF Owned
        <5>3. CASE c # <<>>
          <6>1. ~secDirectiveLine(F[1])
            BY <1>7, <1>13, <3>2, <5>3, Zenon
          <6> QED
            BY <1>11, <1>12, <4>1, <5>1, <6>1, Zenon DEF Owned
        <5> QED
          BY <5>2, <5>3
      <4> QED
        BY <4>2, <4>3
    <3> QED
      BY <3>1, <3>2
  <2>4. ASSUME NEW k \in 1..Len(E), NEW j \in 1..Len(E[k]), ~Inactive(E[k][j])
        PROVE  Owned(E[k][j], E[k], rext)
    <3>1. CASE k = Len(B) + 1
      <4>1. E[k] = D
        BY <1>10, <3>1
      <4> QED
        BY <2>3, <2>4, <4>1, Zenon
    <3>2. CASE k # Len(B) + 1
      <4>1. k \in 1..Len(B) /\ E[k] = B[k]
        BY <1>10, <3>2
      <4> QED
        BY <1>9, <2>4, <4>1, Zenon
    <3> QED
      BY <3>1, <3>2
  <2> QED
    BY <1>15, <2>1, <2>2, <2>4, Zenon DEF Follows, next, rext, P, Q
<1> QED
  BY <1>16, <1>17

\* The blocks of any well-formed file.
LEMMA BlocksAreOwned ==
  ASSUME NEW lines \in Seq(Line), WellFormed(lines), NEW B, AreBlocks(B, lines),
         NEW k \in 1..Len(B), NEW j \in 1..Len(B[k]), ~Inactive(B[k][j])
  PROVE  \E m \in DOMAIN Rules(lines) :
           \/ Rules(lines)[m] = B[k]
           \/ /\ HasLine(Rules(lines)[m], B[k][j])
              /\ ~secDirectiveLine(Rules(lines)[m][1])
<1> DEFINE T == Trimmed(lines)
           n == Len(T)
<1>1. T \in Seq(Line)
  BY TrimmedType
<1>2. Read(T) = Read(lines)
  BY ReadTrimmed
<1>3. Read(lines).current = <<>>
  BY DEF WellFormed
<1>4. \A i \in 1..n : Pending(T, i - 1) <=> T[i].dir = "text"
  BY TextFollows
<1>5. n \in Nat /\ \A i \in 1..n : T[i] \in Line
  BY <1>1, LenProperties, ElementOfSeq
<1> HIDE DEF T
<1>6. PICK f : Splits(f, Line, T) /\ SplitLines(T) = f[n]
  BY <1>1, SplitLoop
<1>7. PICK g : Reads(g, Line, T) /\ Read(T) = g[n]
  BY <1>1, ReadLoop
<1>8. /\ f \in [0..n -> SplitState(Line)]
      /\ f[0] = [blocks |-> <<>>, current |-> <<>>]
      /\ \A i \in 1..n : f[i] = TakeLine(f[i - 1], T[i])
  BY <1>6 DEF Splits
<1>9. /\ g \in [0..n -> ReadState(Line)]
      /\ g[0] = [rules |-> <<>>, current |-> <<>>]
      /\ \A i \in 1..n : g[i] = ReadLine(g[i - 1], T[i])
  BY <1>7 DEF Reads
<1>10. /\ \A i \in 1..n : Pending(T, i) <=> ~Inactive(T[i]) /\ T[i].more
       /\ ~Pending(T, 0)
  BY DEF Pending
<1> HIDE DEF n
<1> DEFINE W == {i \in 0..n : Follows(f[i], g[i]) /\ (g[i].current # <<>> <=> Pending(T, i))}
<1>11. 0 \in W
  <2>1. f[0].current = <<>> /\ f[0].blocks = <<>> /\ g[0].current = <<>>
    BY <1>8, <1>9
  <2>2. 1..Len(<<>>) = {} /\ 0 \in 0..n
    BY <1>5
  <2>3. Follows(f[0], g[0])
    BY <2>1, <2>2, Zenon DEF Follows
  <2> QED
    BY <1>10, <2>1, <2>2, <2>3, Zenon
<1>12. ASSUME NEW i \in 1..n, i - 1 \in W
       PROVE  i \in W
  <2>1. i \in 0..n /\ i - 1 \in 0..n
    BY <1>5
  <2> DEFINE a == f[i - 1]
             r == g[i - 1]
             l == T[i]
  <2>2. a \in SplitState(Line) /\ r \in ReadState(Line) /\ l \in Line
    BY <1>5, <1>8, <1>9, <2>1, Zenon
  <2>3. Follows(a, r) /\ (r.current # <<>> <=> l.dir = "text")
    BY <1>4, <1>12, Zenon
  <2>4. f[i] = TakeLine(a, l) /\ g[i] = ReadLine(r, l)
    BY <1>8, <1>9, Zenon
  <2>5. Pending(T, i) <=> ~Inactive(l) /\ l.more
    BY <1>10, Zenon
  <2> HIDE DEF a, r, l
  <2>6. /\ r.current # <<>> => ~Inactive(l) /\ ~secDirectiveLine(l)
        /\ Inactive(l) => ~secDirectiveLine(l)
    BY <2>3, InactiveIsNoDirective DEF Inactive, secDirectiveLine
  <2>7. /\ Follows(TakeLine(a, l), ReadLine(r, l))
        /\ ReadLine(r, l).current # <<>> <=> ~Inactive(l) /\ l.more
    BY <2>2, <2>3, <2>6, TurnFollows
  <2> QED
    BY <2>1, <2>4, <2>5, <2>7, Zenon
<1>13. n \in W
  <2> HIDE DEF W
  <2> QED
    BY <1>5, <1>11, <1>12, UpTo
<1>14. Follows(f[n], g[n]) /\ g[n].current = <<>>
  BY <1>2, <1>3, <1>7, <1>13, Zenon
<1>15. f[n].current = <<>>
  BY <1>14 DEF Follows
<1>16. B = f[n].blocks
  BY <1>6, <1>15 DEF splitIntoRules, AreBlocks, T
<1>17. Owned(B[k][j], B[k], g[n])
  BY <1>14, <1>16, Zenon DEF Follows
<1>18. Rules(lines) = g[n].rules /\ g[n] \in ReadState(Line)
  <2>1. n \in 0..n
    BY <1>5
  <2> QED
    BY <1>2, <1>7, <1>9, <2>1 DEF Rules
<1>19. DOMAIN Rules(lines) = 1..Len(g[n].rules)
  BY <1>18, LenProperties DEF ReadState
<1>20. ~HasLine(g[n].current, B[k][j])
  <2>1. 1..Len(<<>>) = {}
    OBVIOUS
  <2> QED
    BY <1>14, <2>1 DEF HasLine
<1> QED
  BY <1>17, <1>18, <1>19, <1>20, Zenon DEF Owned

(***************************************************************************)
(* The generator takes the unsupported rules out.  Of any well-formed file *)
(* whose rules with an unsupported id are SecRules of the first column,    *)
(* with chains and indented rules of any kind besides, processFileContent  *)
(* leaves with the profile wasm no active line with an unsupported id but  *)
(* those that have it in quotes, which ruleIDRe does not see.              *)
(***************************************************************************)
THEOREM OutputIsSupported == Spec => []OutputSupported
<1>1. Filtered => OutputSupported
  <2> SUFFICES ASSUME Filtered, done, opts.profile = "wasm", WellFormed(content),
                      UnsupportedAtMargin(content),
                      NEW x \in ToSet(out), ~Inactive(x), x.id \in Unsupported, ~x.quoted
               PROVE  FALSE
    <3>1. ASSUME NEW x, CheckUnsupportedRules(<<x>>) # {}
          PROVE  ~Inactive(x) /\ x.id \in Unsupported
      <4>1. ToSet(<<x>>) = {x}
        BY DEF ToSet
      <4> QED
        BY <3>1, <4>1, Zenon DEF CheckUnsupportedRules, stripCommentLines
    <3> QED
      BY <3>1, Zenon DEF OutputSupported
  <2>1. Mentions(content)
    <3>1. ASSUME ~Mentions(content)
          PROVE  FALSE
      <4>1. out = <<>>
        BY <3>1 DEF Filtered
      <4> QED
        BY <4>1 DEF ToSet
    <3> QED
      BY <3>1
  <2>2. content \in Seq(Line) /\ opts \in Options /\ Outcome
    BY <2>1 DEF Filtered
  <2> DEFINE B == splitIntoRules(Trimmed(content))
             G == Drop(B, opts)
             R == Rules(content)
  <2>3. out = Without(B, G) /\ AreBlocks(B, content)
    BY <2>2 DEF Outcome, AreBlocks
  <2>4. B \in Seq(Seq(Line))
    BY <2>2, TrimmedType, SplitIntoRules
  <2> HIDE DEF B
  <2>5. DOMAIN B = 1..Len(B) /\ \A k \in 1..Len(B) : B[k] \in Seq(Line)
    BY <2>4, LenProperties, ElementOfSeq
  <2>6. PICK k \in 1..Len(B) : k \notin G /\ x \in ToSet(B[k])
    <3> HIDE DEF G
    <3> QED
      BY <2>3, <2>4, WithoutElements
  <2> DEFINE b == B[k]
  <2>7. b \in Seq(Line) /\ DOMAIN b = 1..Len(b)
    BY <2>5, LenProperties
  <2>8. PICK i \in 1..Len(b) : x = b[i]
    BY <2>6, <2>7 DEF ToSet
  <2>9. PICK m \in DOMAIN R : R[m] = b \/ (HasLine(R[m], x) /\ ~secDirectiveLine(R[m][1]))
    BY <2>2, <2>3, <2>8, BlocksAreOwned
  <2> HIDE DEF b
  <2>10. ASSUME HasLine(R[m], x)
         PROVE  R[m][1].dir = "SecRule" /\ ~R[m][1].indented
    <3>1. R[m] \in Seq(Line)
      <4>1. Read(content) \in ReadState(Line)
        <5>1. PICK g : Reads(g, Line, content) /\ Read(content) = g[Len(content)]
          BY <2>2, ReadLoop
        <5>2. Len(content) \in 0..Len(content)
          BY <2>2, LenProperties
        <5> QED
          BY <5>1, <5>2 DEF Reads
      <4>2. R \in Seq(Seq(Line))
        BY <4>1 DEF Rules, ReadState
      <4> HIDE DEF R
      <4> QED
        BY <4>2, ElementOfSeq, LenProperties
    <3>2. DOMAIN R[m] = 1..Len(R[m])
      <4> HIDE DEF R
      <4> QED
        BY <3>1, LenProperties
    <3>3. R[m] \in ToSet(R)
      BY Zenon DEF ToSet
    <3>4. \E j \in DOMAIN R[m] : R[m][j].id \in Unsupported
      BY <2>10, <3>2, Zenon DEF HasLine
    <3> QED
      BY <3>3, <3>4, Zenon DEF UnsupportedAtMargin
  <2>11. R[m] = b
    BY <2>9, <2>10, Zenon DEF secDirectiveLine
  <2>12. b[1].dir = "SecRule"
    BY <2>8, <2>10, <2>11, Zenon DEF HasLine
  <2>13. extractRuleID(b) = x.id
    <3>1. \A j, l \in DOMAIN b : b[j].id # NoId /\ b[l].id # NoId => j = l
      <4>1. \A j, l \in DOMAIN R[m] : R[m][j].id # NoId /\ R[m][l].id # NoId => j = l
        BY <2>9, Zenon DEF WellFormed
      <4> QED
        BY <2>11, <4>1, Zenon
    <3>2. b[i].id # NoId /\ ~b[i].quoted
      <4>1. x.id # NoId
        BY RuleFilterAssumption
      <4> QED
        BY <2>8, <4>1, Zenon
    <3>3. \A j, l \in 1..Len(b) : b[j].id # NoId /\ b[l].id # NoId => j = l
      BY <2>7, <3>1, Zenon
    <3>4. extractRuleID(b) = b[i].id
      BY <2>7, <2>8, <3>2, <3>3, RuleId, Zenon
    <3> QED
      BY <2>8, <3>4, Zenon
  <2>14. k \in WishDrop(B, opts)
    <3>1. extractRuleID(b) \in mergeUnsupportedIDs(opts)
      BY <2>13, Zenon DEF mergeUnsupportedIDs
    <3>2. IsSecRule(b)
      BY <2>12, Zenon DEF IsSecRule
    <3> QED
      BY <2>5, <3>1, <3>2, Zenon DEF WishDrop, b
  <2>15. k \in G
    BY <2>14, Zenon DEF Drop
  <2> QED
    BY <2>6, <2>15, Zenon
<1> QED
  BY <1>1, FilteredInvariant, PTL
=============================================================================
