---------------------------- MODULE SequenceFacts ----------------------------
(***************************************************************************)
(* Facts about the operators on lists and finite sets that the pipeline is *)
(* written with: Ranked and At of Recipe, Min, Max, SetToSeq, FlattenSeq.  *)
(*                                                                         *)
(* What has to be shown by induction is put as a set of numbers that holds *)
(* 0 and with each number the next (AllNumbers), and predicates as sets,   *)
(* so that each lemma can be cited without instantiating an operator.      *)
(***************************************************************************)
EXTENDS Recipe, FiniteSetTheorems, SequenceTheorems, TLAPS

\* R orders the members of S, and no two are equal.
Orders(R, S) ==
  /\ \A x \in S : <<x, x>> \notin R
  /\ \A x, y, z \in S : <<x, y>> \in R /\ <<y, z>> \in R => <<x, z>> \in R
  /\ \A x, y \in S : x # y => <<x, y>> \in R \/ <<y, x>> \in R

Below(x, R, S) == {y \in S : <<y, x>> \in R}

-----------------------------------------------------------------------------
(***************************************************************************)
(* Ranks.                                                                  *)
(***************************************************************************)

\* The members of a finite set have the ranks 0, 1, ...: what is before the
\* later of two members is more than what is before the earlier.
LEMMA RankRises ==
  ASSUME NEW S, IsFiniteSet(S), NEW R, Orders(R, S),
         NEW x \in S, NEW y \in S, <<x, y>> \in R
  PROVE  Cardinality(Below(x, R, S)) < Cardinality(Below(y, R, S))
<1> DEFINE A == Below(x, R, S)
           B == Below(y, R, S)
<1>1. /\ A \in SUBSET B /\ x \in B /\ x \notin A
  BY DEF Orders, Below
<1>2. IsFiniteSet(B)
  <2>1. B \in SUBSET S
    BY DEF Below
  <2> QED BY <2>1, FS_Subset
<1> HIDE DEF A, B
<1>3. A # B
  BY <1>1
<1>4. /\ IsFiniteSet(A) /\ Cardinality(A) <= Cardinality(B) /\ Cardinality(A) # Cardinality(B)
  BY <1>1, <1>2, <1>3, FS_Subset
<1>5. Cardinality(A) \in Nat /\ Cardinality(B) \in Nat
  BY <1>2, <1>4, FS_CardinalityType
<1> QED BY <1>4, <1>5 DEF A, B

LEMMA RanksTaken ==
  ASSUME NEW S, IsFiniteSet(S), NEW R, Orders(R, S)
  PROVE  /\ \A x \in S : Cardinality(Below(x, R, S)) \in 0 .. Cardinality(S) - 1
         /\ \A k \in 1 .. Cardinality(S) : \E x \in S : Cardinality(Below(x, R, S)) = k - 1
         /\ \A x, y \in S : Cardinality(Below(x, R, S)) = Cardinality(Below(y, R, S)) => x = y
<1> DEFINE n == Cardinality(S)
           rank == [x \in S |-> Cardinality(Below(x, R, S)) + 1]
<1>1. n \in Nat
  BY FS_CardinalityType
<1>2. ASSUME NEW x \in S
      PROVE  Cardinality(Below(x, R, S)) \in 0 .. n - 1
  <2> DEFINE A == Below(x, R, S)
             B == S \ {x}
  <2>1. A \in SUBSET B
    BY DEF Below, Orders
  <2>2. IsFiniteSet(B) /\ Cardinality(B) = n - 1
    BY FS_RemoveElement
  <2> HIDE DEF A, B
  <2>3. IsFiniteSet(A) /\ Cardinality(A) <= n - 1
    BY <2>1, <2>2, FS_Subset
  <2>4. Cardinality(A) \in Nat
    BY <2>3, FS_CardinalityType
  <2> QED BY <2>3, <2>4, <1>1 DEF A
<1>3. ASSUME NEW x \in S, NEW y \in S, Cardinality(Below(x, R, S)) = Cardinality(Below(y, R, S))
      PROVE  x = y
  <2>1. CASE <<x, y>> \in R
    <3>1. Cardinality(Below(x, R, S)) < Cardinality(Below(y, R, S))
      BY <2>1, RankRises
    <3> QED BY <3>1, <1>2, <1>3
  <2>2. CASE <<y, x>> \in R
    <3>1. Cardinality(Below(y, R, S)) < Cardinality(Below(x, R, S))
      BY <2>2, RankRises
    <3> QED BY <3>1, <1>2, <1>3
  <2> QED BY <2>1, <2>2 DEF Orders
<1>4. rank \in Injection(S, 1 .. n)
  <2>1. rank \in [S -> 1 .. n]
    BY <1>1, <1>2
  <2>2. ASSUME NEW x \in S, NEW y \in S, rank[x] = rank[y]
        PROVE  x = y
    <3>1. Cardinality(Below(x, R, S)) = Cardinality(Below(y, R, S))
      BY <1>2, <2>2, <1>1
    <3> QED BY <3>1, <1>3
  <2> HIDE DEF rank
  <2> QED BY <2>1, <2>2 DEF Injection, IsInjective
<1>5. IsFiniteSet(1 .. n) /\ Cardinality(1 .. n) = n
  BY <1>1, FS_Interval
<1>6. rank \in Surjection(S, 1 .. n)
  BY <1>4, <1>5, FS_Injection
<1>7. ASSUME NEW k \in 1 .. n
      PROVE  \E x \in S : Cardinality(Below(x, R, S)) = k - 1
  <2>1. PICK x \in S : rank[x] = k
    BY <1>6 DEF Surjection
  <2>2. Cardinality(Below(x, R, S)) + 1 = k
    BY <2>1
  <2> QED BY <2>2, <1>2, <1>1
<1> QED BY <1>2, <1>3, <1>7

\* There is a first one.
LEMMA FirstTaken ==
  ASSUME NEW S, IsFiniteSet(S), S # {}, NEW R, Orders(R, S)
  PROVE  \E x \in S : \A y \in S \ {x} : <<x, y>> \in R
<1>1. Cardinality(S) \in Nat /\ Cardinality(S) # 0
  BY FS_CardinalityType, FS_EmptySet
<1>2. 1 \in 1 .. Cardinality(S)
  BY <1>1
<1>3. PICK x \in S : Cardinality(Below(x, R, S)) = 0
  <2>1. PICK x \in S : Cardinality(Below(x, R, S)) = 1 - 1
    BY <1>2, RanksTaken
  <2> QED BY <2>1
<1>4. Below(x, R, S) = {}
  <2>1. Below(x, R, S) \in SUBSET S
    BY DEF Below
  <2>2. IsFiniteSet(Below(x, R, S))
    BY <2>1, FS_Subset
  <2> QED BY <1>3, <2>2, FS_EmptySet
<1> QED BY <1>4 DEF Below, Orders

\* Members of a finite set of numbers by size.
Sizes(S) == {p \in S \X S : p[1] < p[2]}

LEMMA NumbersRanked ==
  ASSUME NEW S \in SUBSET Int, IsFiniteSet(S)
  PROVE  /\ \A x \in S : Cardinality({y \in S : y < x}) \in 0 .. Cardinality(S) - 1
         /\ \A k \in 1 .. Cardinality(S) : \E x \in S : Cardinality({y \in S : y < x}) = k - 1
         /\ \A x, y \in S : x < y => Cardinality({z \in S : z < x}) < Cardinality({z \in S : z < y})
<1> DEFINE n == Cardinality(S)
           rank(x) == Cardinality({y \in S : y < x})
           below(x) == Cardinality(Below(x, Sizes(S), S))
<1>1. Orders(Sizes(S), S)
  BY DEF Orders, Sizes
<1>2. ASSUME NEW x \in S
      PROVE  below(x) = rank(x)
  <2>1. Below(x, Sizes(S), S) = {y \in S : y < x}
    BY DEF Below, Sizes
  <2> QED BY <2>1
<1>3. /\ \A x \in S : below(x) \in 0 .. n - 1
      /\ \A k \in 1 .. n : \E x \in S : below(x) = k - 1
  BY <1>1, RanksTaken
<1>4. ASSUME NEW x \in S, NEW y \in S, x < y
      PROVE  below(x) < below(y)
  <2>1. <<x, y>> \in Sizes(S)
    BY <1>4 DEF Sizes
  <2> QED BY <2>1, <1>1, RankRises
<1> HIDE DEF rank, below, n
<1>5. /\ \A x \in S : rank(x) \in 0 .. n - 1
      /\ \A k \in 1 .. n : \E x \in S : rank(x) = k - 1
      /\ \A x, y \in S : x < y => rank(x) < rank(y)
  BY <1>2, <1>3, <1>4
<1> QED BY <1>5 DEF rank, n

-----------------------------------------------------------------------------
(***************************************************************************)
(* Least and greatest members, and induction.                              *)
(***************************************************************************)

LEMMA FiniteLeast ==
  ASSUME NEW S \in SUBSET Int, IsFiniteSet(S), S # {}
  PROVE  /\ Min(S) \in S /\ \A y \in S : Min(S) <= y
         /\ Max(S) \in S /\ \A y \in S : y <= Max(S)
<1> DEFINE n == Cardinality(S)
           rank(x) == Cardinality({y \in S : y < x})
<1>1. n \in Nat /\ n # 0
  BY FS_CardinalityType, FS_EmptySet
<1>2. /\ \A x \in S : rank(x) \in 0 .. n - 1
      /\ \A k \in 1 .. n : \E x \in S : rank(x) = k - 1
  BY NumbersRanked
<1>3. \A x, y \in S : x < y => rank(x) < rank(y)
  BY NumbersRanked
<1> HIDE DEF rank
<1>4. PICK x \in S : rank(x) = 0
  <2>1. 1 \in 1 .. n
    BY <1>1
  <2> QED BY <1>2, <2>1
<1>5. PICK z \in S : rank(z) = n - 1
  <2>1. n \in 1 .. n
    BY <1>1
  <2> QED BY <1>2, <2>1
<1>6. \A y \in S : x <= y
  BY <1>1, <1>2, <1>3, <1>4
<1>7. \A y \in S : y <= z
  BY <1>1, <1>2, <1>3, <1>5
<1>8. Min(S) \in S /\ \A y \in S : Min(S) <= y
  BY <1>6 DEF Min
<1>9. Max(S) \in S /\ \A y \in S : Max(S) >= y
  <2>1. \A y \in S : z >= y
    BY <1>7
  <2> QED BY <2>1 DEF Max
<1> QED BY <1>8, <1>9

LEMMA LesserOf ==
  ASSUME NEW a \in Int, NEW b \in Int
  PROVE  /\ Min({a, b}) = IF a <= b THEN a ELSE b
         /\ Max({a, b}) = IF a <= b THEN b ELSE a
<1>1. {a, b} \in SUBSET Int /\ {a, b} # {} /\ IsFiniteSet({a, b})
  <2>1. IsFiniteSet({a} \cup {b})
    BY FS_Singleton, FS_Union
  <2>2. {a} \cup {b} = {a, b}
    OBVIOUS
  <2> QED BY <2>1, <2>2
<1>2. /\ Min({a, b}) \in {a, b} /\ Min({a, b}) <= a /\ Min({a, b}) <= b
      /\ Max({a, b}) \in {a, b} /\ a <= Max({a, b}) /\ b <= Max({a, b})
  BY <1>1, FiniteLeast
<1> QED BY <1>2

\* The values of a list are finitely many.
LEMMA ValuesFinite ==
  ASSUME NEW f, IsFiniteSet(DOMAIN f)
  PROVE  IsFiniteSet({f[x] : x \in DOMAIN f})
<1> DEFINE g == [x \in DOMAIN f |-> f[x]]
           T == {f[x] : x \in DOMAIN f}
<1>1. g \in Surjection(DOMAIN f, T)
  BY DEF Surjection
<1> HIDE DEF g, T
<1>2. IsFiniteSet(T)
  BY <1>1, FS_Surjection
<1> QED BY <1>2 DEF T

LEMMA NumbersHaveLeast ==
  ASSUME NEW S \in SUBSET Nat, S # {}
  PROVE  \E x \in S : \A y \in S : x <= y
<1>1. PICK n \in S : TRUE
  OBVIOUS
<1> DEFINE T == S \cap (0 .. n)
<1>2. IsFiniteSet(T)
  <2>1. IsFiniteSet(0 .. n)
    BY FS_Interval
  <2> QED BY <2>1, FS_Intersection
<1>3. T \in SUBSET Int /\ T # {} /\ n \in T
  OBVIOUS
<1>4. Min(T) \in T /\ \A y \in T : Min(T) <= y
  BY <1>2, <1>3, FiniteLeast
<1>5. \A y \in S : y \in T \/ n < y
  OBVIOUS
<1> QED BY <1>4, <1>5, <1>3

\* Induction over the natural numbers, of which S is to be all.
LEMMA AllNumbers ==
  ASSUME NEW S \in SUBSET Nat, 0 \in S, \A n \in S : n + 1 \in S
  PROVE  S = Nat
<1> SUFFICES ASSUME Nat \ S # {} PROVE FALSE
  OBVIOUS
<1>1. PICK m \in Nat \ S : \A y \in Nat \ S : m <= y
  <2>1. Nat \ S \in SUBSET Nat
    OBVIOUS
  <2> QED BY <2>1, NumbersHaveLeast
<1>2. m - 1 \in Nat /\ m - 1 \in S
  BY <1>1
<1> QED BY <1>1, <1>2

-----------------------------------------------------------------------------
(***************************************************************************)
(* Lists.                                                                  *)
(***************************************************************************)

\* A filter leaves the elements at the places given, and all of them.
LEMMA AtPlaces ==
  ASSUME NEW s, NEW P \in SUBSET Int, IsFiniteSet(P)
  PROVE  /\ Cardinality(P) \in Nat
         /\ DOMAIN At(s, P) = 1 .. Cardinality(P)
         /\ At(s, P) = [k \in 1 .. Cardinality(P) |-> At(s, P)[k]]
         /\ \A k \in 1 .. Cardinality(P) : \E i \in P : At(s, P)[k] = s[i]
         /\ \A i \in P : \E k \in 1 .. Cardinality(P) : At(s, P)[k] = s[i]
<1> DEFINE n == Cardinality(P)
           at(k) == CHOOSE i \in P : Cardinality({j \in P : j < i}) = k - 1
<1>1. n \in Nat
  BY FS_CardinalityType
<1>2. At(s, P) = [k \in 1 .. n |-> s[at(k)]]
  BY DEF At
<1>3. /\ \A x \in P : Cardinality({j \in P : j < x}) \in 0 .. n - 1
      /\ \A k \in 1 .. n : \E x \in P : Cardinality({j \in P : j < x}) = k - 1
      /\ \A x, y \in P : x < y => Cardinality({j \in P : j < x}) < Cardinality({j \in P : j < y})
  BY NumbersRanked
<1>4. \A k \in 1 .. n : at(k) \in P /\ Cardinality({j \in P : j < at(k)}) = k - 1
  BY <1>3
<1> HIDE DEF at
<1>5. ASSUME NEW i \in P
      PROVE  \E k \in 1 .. n : at(k) = i
  <2> DEFINE rank(x) == Cardinality({j \in P : j < x})
  <2>1. /\ \A x \in P : rank(x) \in 0 .. n - 1
        /\ \A x, y \in P : x < y => rank(x) < rank(y)
        /\ \A k \in 1 .. n : at(k) \in P /\ rank(at(k)) = k - 1
    BY <1>3, <1>4
  <2> HIDE DEF rank, n
  <2>2. /\ rank(i) + 1 \in 1 .. n
        /\ \A x, y \in P : rank(x) = rank(y) => x = y
    BY <2>1, <1>1
  <2>3. at(rank(i) + 1) \in P /\ rank(at(rank(i) + 1)) = rank(i)
    BY <2>1, <2>2, <1>1
  <2> QED BY <2>2, <2>3
<1> QED BY <1>1, <1>2, <1>4, <1>5

\* A list made of a finite set has its members as elements.
LEMMA SetListed ==
  ASSUME NEW S, IsFiniteSet(S)
  PROVE  /\ Cardinality(S) \in Nat
         /\ SetToSeq(S) \in [1 .. Cardinality(S) -> S]
         /\ \A x \in S : \E i \in 1 .. Cardinality(S) : SetToSeq(S)[i] = x
<1> DEFINE n == Cardinality(S)
<1>1. n \in Nat /\ ExistsBijection(1 .. n, S)
  BY FS_CardinalityType
<1>2. \E f \in [1 .. n -> S] : IsInjective(f)
  BY <1>1 DEF ExistsBijection, Bijection, Injection
<1>3. SetToSeq(S) \in [1 .. n -> S] /\ IsInjective(SetToSeq(S))
  BY <1>2 DEF SetToSeq
<1>4. IsFiniteSet(1 .. n) /\ Cardinality(1 .. n) = n
  BY <1>1, FS_Interval
<1>5. SetToSeq(S) \in Surjection(1 .. n, S)
  <2>1. SetToSeq(S) \in Injection(1 .. n, S)
    BY <1>3 DEF Injection
  <2> QED BY <2>1, <1>4, FS_Injection
<1> QED BY <1>1, <1>3, <1>5 DEF Surjection

\* A function on 1 .. n is a sequence.
LEMMA ListIsSeq ==
  ASSUME NEW n \in Nat, NEW S, NEW s \in [1 .. n -> S]
  PROVE  s \in Seq(S) /\ Len(s) = n
<1>1. s \in Seq(S)
  BY SeqDef
<1>2. Len(s) \in Nat /\ DOMAIN s = 1 .. Len(s)
  BY <1>1, LenProperties
<1>3. 1 .. Len(s) = 1 .. n
  BY <1>2
<1> QED BY <1>1, <1>2, <1>3

\* Lists of one and of two elements.
LEMMA ShortLists ==
  ASSUME NEW S, NEW x \in S, NEW y \in S
  PROVE  /\ <<x>> \in Seq(S) /\ 1 \in DOMAIN <<x>> /\ <<x>>[1] = x
         /\ <<x, y>> \in Seq(S) /\ 1 \in DOMAIN <<x, y>> /\ 2 \in DOMAIN <<x, y>>
         /\ <<x, y>>[1] = x /\ <<x, y>>[2] = y
OBVIOUS

\* What FlattenSeq puts one behind the other are the elements of all its lists.
LEMMA Flattened ==
  ASSUME NEW n \in Nat, NEW S, NEW seqs \in [1 .. n -> Seq(S)]
  PROVE  /\ FlattenSeq(seqs) \in Seq(S)
         /\ ToSet(FlattenSeq(seqs)) = UNION {ToSet(seqs[i]) : i \in 1 .. n}
<1> DEFINE Flattens(f, m) == f = [i \in 1 .. m |-> IF i = 1 THEN seqs[i] ELSE f[i - 1] \o seqs[i]]
           Upto(m) == UNION {ToSet(seqs[i]) : i \in 1 .. m}
<1>1. Len(seqs) = n /\ seqs \in Seq(Seq(S))
  BY ListIsSeq
<1>2. CASE n = 0
  <2>1. FlattenSeq(seqs) = seqs
    BY <1>1, <1>2 DEF FlattenSeq
  <2>2. seqs = <<>>
    BY <1>1, <1>2
  <2> QED BY <1>2, <2>1, <2>2 DEF ToSet
<1>3. CASE n # 0
  <2> DEFINE E == {m \in Nat : \E f : Flattens(f, m)}
  <2>1. E = Nat
    <3>1. 0 \in E
      <4>1. Flattens(<<>>, 0)
        OBVIOUS
      <4> QED BY <4>1
    <3>2. ASSUME NEW m \in E
          PROVE  m + 1 \in E
      <4>1. PICK f : Flattens(f, m)
        OBVIOUS
      <4> DEFINE last == IF m = 0 THEN seqs[1] ELSE f[m] \o seqs[m + 1]
                 g == [i \in 1 .. m + 1 |-> IF i = m + 1 THEN last ELSE f[i]]
      <4>2. ASSUME NEW i \in 1 .. m + 1
            PROVE  g[i] = IF i = 1 THEN seqs[i] ELSE g[i - 1] \o seqs[i]
        <5>1. CASE i = m + 1
          <6>1. CASE m = 0
            BY <5>1, <6>1
          <6>2. CASE m # 0
            <7>1. m \in 1 .. m + 1 /\ m # m + 1 /\ i # 1 /\ i - 1 = m
              BY <5>1, <6>2
            <7>2. g[m] = f[m] /\ g[i] = f[m] \o seqs[m + 1]
              BY <5>1, <6>2, <7>1
            <7> QED BY <7>1, <7>2, <5>1
          <6> QED BY <6>1, <6>2
        <5>2. CASE i # m + 1
          <6>1. i \in 1 .. m /\ g[i] = f[i]
            BY <5>2
          <6>2. i # 1 => g[i - 1] = f[i - 1]
            BY <6>1
          <6> HIDE DEF g
          <6>3. f[i] = IF i = 1 THEN seqs[i] ELSE f[i - 1] \o seqs[i]
            BY <4>1, <6>1
          <6> QED BY <6>1, <6>2, <6>3
        <5> QED BY <5>1, <5>2
      <4>3. g = [i \in 1 .. m + 1 |-> g[i]]
        OBVIOUS
      <4> HIDE DEF g
      <4>4. Flattens(g, m + 1)
        BY <4>2, <4>3
      <4> HIDE DEF Flattens
      <4>5. m + 1 \in Nat /\ \E h : Flattens(h, m + 1)
        BY <4>4
      <4> QED BY <4>5
    <3> HIDE DEF E
    <3>3. E \in SUBSET Nat
      BY DEF E
    <3> QED BY <3>1, <3>2, <3>3, AllNumbers
  <2>2. \E f : Flattens(f, n)
    BY <2>1
  <2> DEFINE flat == CHOOSE f : Flattens(f, n)
  <2>3. Flattens(flat, n)
    BY <2>2
  <2>4. FlattenSeq(seqs) = flat[n]
    BY <1>1, <1>3 DEF FlattenSeq
  <2> HIDE DEF flat
  <2>5. \A i \in 1 .. n : flat[i] = IF i = 1 THEN seqs[i] ELSE flat[i - 1] \o seqs[i]
    BY <2>3
  <2> HIDE DEF Flattens
  <2> DEFINE G == {m \in Nat : m + 1 \in 1 .. n =>
                                 flat[m + 1] \in Seq(S) /\ ToSet(flat[m + 1]) = Upto(m + 1)}
  <2>6. G = Nat
    <3>1. 0 \in G
      <4>1. 1 \in 1 .. n
        BY <1>3
      <4>2. flat[1] = seqs[1] /\ seqs[1] \in Seq(S)
        BY <4>1, <2>5
      <4>3. Upto(1) = ToSet(seqs[1])
        <5>1. 1 .. 1 = {1}
          OBVIOUS
        <5> QED BY <5>1
      <4> HIDE DEF Upto
      <4> QED BY <4>2, <4>3
    <3>2. ASSUME NEW m \in G
          PROVE  m + 1 \in G
      <4> SUFFICES ASSUME m + 2 \in 1 .. n
                   PROVE  flat[m + 2] \in Seq(S) /\ ToSet(flat[m + 2]) = Upto(m + 2)
        <5> HIDE DEF Upto
        <5>1. m \in Nat /\ (m + 1) + 1 = m + 2
          OBVIOUS
        <5> QED BY <5>1
      <4>1. /\ flat[m + 1] \in Seq(S) /\ ToSet(flat[m + 1]) = Upto(m + 1)
            /\ seqs[m + 2] \in Seq(S)
        OBVIOUS
      <4>2. flat[m + 2] = flat[m + 1] \o seqs[m + 2]
        <5>1. m + 2 # 1 /\ (m + 2) - 1 = m + 1
          OBVIOUS
        <5> QED BY <5>1, <2>5
      <4>3. Upto(m + 2) = Upto(m + 1) \cup ToSet(seqs[m + 2])
        OBVIOUS
      <4>4. \A s, t \in Seq(S) : s \o t \in Seq(S) /\ ToSet(s \o t) = ToSet(s) \cup ToSet(t)
        <5>1. ASSUME NEW s \in Seq(S), NEW t \in Seq(S)
              PROVE  ToSet(s \o t) = ToSet(s) \cup ToSet(t)
          <6>1. /\ s \o t \in Seq(S) /\ Len(s \o t) = Len(s) + Len(t)
                /\ \A i \in 1 .. Len(s) + Len(t) :
                     (s \o t)[i] = IF i <= Len(s) THEN s[i] ELSE t[i - Len(s)]
            OBVIOUS
          <6>2. DOMAIN s = 1 .. Len(s) /\ DOMAIN t = 1 .. Len(t)
                /\ DOMAIN (s \o t) = 1 .. Len(s) + Len(t)
            BY <6>1
          <6>3. ToSet(s) \cup ToSet(t) \subseteq ToSet(s \o t)
            <7>1. ASSUME NEW i \in 1 .. Len(s) PROVE s[i] \in ToSet(s \o t)
              <8>1. i \in DOMAIN (s \o t) /\ (s \o t)[i] = s[i]
                BY <6>1, <6>2
              <8> QED BY <8>1 DEF ToSet
            <7>2. ASSUME NEW i \in 1 .. Len(t) PROVE t[i] \in ToSet(s \o t)
              <8>1. i + Len(s) \in DOMAIN (s \o t) /\ (s \o t)[i + Len(s)] = t[i]
                BY <6>1, <6>2
              <8> QED BY <8>1 DEF ToSet
            <7> QED BY <6>2, <7>1, <7>2 DEF ToSet
          <6>4. ToSet(s \o t) \subseteq ToSet(s) \cup ToSet(t)
            BY <6>1, <6>2 DEF ToSet
          <6> QED BY <6>3, <6>4
        <5> QED BY <5>1
      <4> HIDE DEF Upto
      <4> QED BY <4>1, <4>2, <4>3, <4>4
    <3> HIDE DEF G
    <3>3. G \in SUBSET Nat
      BY DEF G
    <3> QED BY <3>1, <3>2, <3>3, AllNumbers
  <2>7. flat[n] \in Seq(S) /\ ToSet(flat[n]) = Upto(n)
    <3> HIDE DEF Upto
    <3>1. n - 1 \in Nat /\ (n - 1) + 1 = n /\ n \in 1 .. n
      BY <1>3
    <3> QED BY <3>1, <2>6
  <2> QED BY <2>4, <2>7
<1> QED BY <1>2, <1>3
=============================================================================
