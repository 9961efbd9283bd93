----------------------------- MODULE RankLemmas -----------------------------
(***************************************************************************)
(* Lemmas about finite sets, their elements in some order, and the ranks   *)
(* of those elements. The sorted sequences of this project are defined by  *)
(* ranks: the k-th element is the one with k - 1 elements before it.       *)
(***************************************************************************)
EXTENDS Integers, Sequences, FiniteSets, SequencesExt, FiniteSetsExt,
        FiniteSetTheorems, TLAPS

\* A subset of a finite set is finite, a proper one smaller.
LEMMA FewerElements ==
    ASSUME NEW S, IsFiniteSet(S), NEW T, T \subseteq S
    PROVE  /\ IsFiniteSet(T) /\ Cardinality(T) \in Nat /\ Cardinality(S) \in Nat
           /\ Cardinality(T) <= Cardinality(S)
           /\ T # S => Cardinality(T) < Cardinality(S)
  <1>1. /\ IsFiniteSet(T) /\ Cardinality(T) <= Cardinality(S)
        /\ Cardinality(S) = Cardinality(T) <=> S = T
    BY FS_Subset
  <1>2. Cardinality(T) \in Nat /\ Cardinality(S) \in Nat
    BY <1>1, FS_CardinalityType
  <1> QED BY <1>1, <1>2

\* The numbers from 1 to n.
LEMMA Interval ==
    ASSUME NEW n \in Nat
    PROVE  IsFiniteSet(1..n) /\ Cardinality(1..n) = n
  <1>1. 1 \in Int /\ n \in Int
    OBVIOUS
  <1>2. /\ IsFiniteSet(1..n) /\ Cardinality(1..n) = IF 1 > n THEN 0 ELSE n - 1 + 1
    BY ONLY <1>1, FS_Interval
  <1> QED BY <1>2

\* A function onto a set that maps no two elements to one is a bijection.
LEMMA OneToOne ==
    ASSUME NEW S, NEW T, NEW f \in [S -> T], \A t \in T : \E s \in S : f[s] = t,
           \A a, b \in S : f[a] = f[b] => a = b
    PROVE  ExistsBijection(S, T)
  <1>1. f \in Injection(S, T) /\ f \in Surjection(S, T)
    BY DEF Injection, Surjection, IsInjective
  <1> QED BY <1>1 DEF ExistsBijection, Bijection

\* In a finite set with a strict total order R, every rank is taken.
LEMMA Ranks ==
    ASSUME NEW S, IsFiniteSet(S), NEW R,
           \A i \in S : <<i, i>> \notin R,
           \A i, j \in S : i # j => <<i, j>> \in R \/ <<j, i>> \in R,
           \A i, j, k \in S : <<i, j>> \in R /\ <<j, k>> \in R => <<i, k>> \in R,
           NEW n \in 1..Cardinality(S)
    PROVE  \E i \in S : Cardinality({j \in S : <<j, i>> \in R}) = n - 1
  <1> DEFINE below(i) == {j \in S : <<j, i>> \in R}
             rank == [i \in S |-> Cardinality(below(i))]
             N == 0..(Cardinality(S) - 1)
  <1>c. Cardinality(S) \in Nat
    BY FS_CardinalityType
  <1>1. \A i \in S : IsFiniteSet(below(i)) /\ Cardinality(below(i)) \in N
    <2> SUFFICES ASSUME NEW i \in S
                 PROVE  IsFiniteSet(below(i)) /\ Cardinality(below(i)) \in N
      OBVIOUS
    <2>1. below(i) \subseteq S /\ below(i) # S
      OBVIOUS
    <2> HIDE DEF below
    <2>2. /\ IsFiniteSet(below(i)) /\ Cardinality(below(i)) \in Nat
          /\ Cardinality(below(i)) < Cardinality(S)
      BY <2>1, FewerElements
    <2> QED BY <1>c, <2>2
  <1>2. \A i, j \in S : <<i, j>> \in R => Cardinality(below(i)) < Cardinality(below(j))
    <2> SUFFICES ASSUME NEW i \in S, NEW j \in S, <<i, j>> \in R
                 PROVE  Cardinality(below(i)) < Cardinality(below(j))
      OBVIOUS
    <2>1. below(i) \subseteq below(j) /\ below(i) # below(j)
      <3>1. i \in below(j) /\ i \notin below(i)
        OBVIOUS
      <3>2. below(i) \subseteq below(j)
        OBVIOUS
      <3> QED BY <3>1, <3>2
    <2> HIDE DEF below
    <2> QED BY <1>1, <2>1, FewerElements
  <1>3. rank \in Injection(S, N)
    <2> HIDE DEF below
    <2>1. rank \in [S -> N]
      BY <1>1
    <2>2. ASSUME NEW i \in S, NEW j \in S, rank[i] = rank[j]
          PROVE  i = j
      <3>1. Cardinality(below(i)) = Cardinality(below(j))
        BY <2>2
      <3>2. Cardinality(below(i)) \in Nat
        BY <1>1
      <3>3. ~(Cardinality(below(i)) < Cardinality(below(j)))
            /\ ~(Cardinality(below(j)) < Cardinality(below(i)))
        BY <3>1, <3>2
      <3>4. <<i, j>> \notin R /\ <<j, i>> \notin R
        BY <1>2, <3>3
      <3> QED BY <3>4
    <2> HIDE DEF rank, N
    <2> QED BY <2>1, <2>2 DEF Injection, IsInjective
  <1>4. IsFiniteSet(N) /\ Cardinality(N) = Cardinality(S)
    <2>1. 0 \in Int /\ Cardinality(S) - 1 \in Int
      BY <1>c
    <2>2. /\ IsFiniteSet(0..(Cardinality(S) - 1))
          /\ Cardinality(0..(Cardinality(S) - 1)) =
                IF 0 > Cardinality(S) - 1 THEN 0 ELSE Cardinality(S) - 1 - 0 + 1
      BY ONLY <2>1, FS_Interval
    <2> QED BY <1>c, <2>2
  <1>5. rank \in Surjection(S, N)
    <2> HIDE DEF rank, N
    <2> QED BY <1>3, <1>4, FS_Injection
  <1>6. n - 1 \in N
    BY <1>c
  <1>7. PICK i \in S : rank[i] = n - 1
    <2> HIDE DEF rank, N
    <2> QED BY <1>5, <1>6 DEF Surjection
  <1> QED BY <1>7

\* The elements of a finite set by their ranks: all of them, once each, and in
\* the order.
LEMMA RankOrder ==
    ASSUME NEW S, IsFiniteSet(S), NEW R,
           \A i \in S : <<i, i>> \notin R,
           \A i, j \in S : i # j => <<i, j>> \in R \/ <<j, i>> \in R,
           \A i, j, k \in S : <<i, j>> \in R /\ <<j, k>> \in R => <<i, k>> \in R,
           NEW f \in [1..Cardinality(S) -> S],
           \A k \in 1..Cardinality(S) : Cardinality({j \in S : <<j, f[k]>> \in R}) = k - 1
    PROVE  /\ \A i \in S : \E k \in 1..Cardinality(S) : f[k] = i
           /\ \A k, l \in 1..Cardinality(S) : k < l => <<f[k], f[l]>> \in R /\ f[k] # f[l]
  <1> DEFINE n == Cardinality(S)
             below(i) == {j \in S : <<j, i>> \in R}
  <1>1. n \in Nat
    BY FS_CardinalityType
  <1>2. \A k \in 1..n : f[k] \in S /\ Cardinality(below(f[k])) = k - 1
    OBVIOUS
  <1>3. f \in [1..n -> S]
    OBVIOUS
  <1>4. \A i, j \in S : <<i, j>> \in R => Cardinality(below(i)) < Cardinality(below(j))
    <2> SUFFICES ASSUME NEW i \in S, NEW j \in S, <<i, j>> \in R
                 PROVE  Cardinality(below(i)) < Cardinality(below(j))
      OBVIOUS
    <2>1. below(i) \subseteq below(j) /\ below(i) # below(j)
      <3>1. i \in below(j) /\ i \notin below(i)
        OBVIOUS
      <3>2. below(i) \subseteq below(j)
        OBVIOUS
      <3> QED BY <3>1, <3>2
    <2>2. IsFiniteSet(below(j))
      <3>1. below(j) \subseteq S
        OBVIOUS
      <3> HIDE DEF below
      <3> QED BY <3>1, FewerElements
    <2> HIDE DEF below
    <2> QED BY <2>1, <2>2, FewerElements
  <1>5. ASSUME NEW k \in 1..n, NEW l \in 1..n, k < l
        PROVE  <<f[k], f[l]>> \in R /\ f[k] # f[l]
    <2>1. f[k] \in S /\ f[l] \in S
      BY <1>2
    <2>2. Cardinality(below(f[k])) = k - 1 /\ Cardinality(below(f[l])) = l - 1
      BY <1>2
    <2>3. f[k] # f[l]
      <3>1. SUFFICES ASSUME f[k] = f[l] PROVE FALSE
        OBVIOUS
      <3>2. Cardinality(below(f[k])) = Cardinality(below(f[l]))
        BY ONLY <3>1
      <3>3. k - 1 = l - 1
        BY ONLY <2>2, <3>2
      <3> QED BY <1>1, <1>5, <3>3
    <2>4. <<f[l], f[k]>> \notin R
      <3>1. SUFFICES ASSUME <<f[l], f[k]>> \in R PROVE FALSE
        OBVIOUS
      <3>2. Cardinality(below(f[l])) < Cardinality(below(f[k]))
        <4> HIDE DEF below
        <4> QED BY <1>4, <2>1, <3>1
      <3> HIDE DEF below
      <3> QED BY <1>1, <1>5, <2>2, <3>2
    <2> QED BY <2>1, <2>3, <2>4
  <1>6. f \in Surjection(1..n, S)
    <2>1. IsFiniteSet(1..n) /\ Cardinality(1..n) = n
      BY <1>1, Interval
    <2>2. f \in Injection(1..n, S)
      <3>1. ASSUME NEW k \in 1..n, NEW l \in 1..n, k # l
            PROVE  f[k] # f[l]
        <4>1. k < l \/ l < k
          BY <1>1, <3>1
        <4> QED BY <1>5, <4>1
      <3> HIDE DEF n
      <3> QED BY <1>3, <3>1 DEF Injection, IsInjective
    <2> HIDE DEF n
    <2> QED BY <2>1, <2>2, FS_Injection DEF n
  <1> HIDE DEF n
  <1>7. \A i \in S : \E k \in 1..n : f[k] = i
    BY <1>6 DEF Surjection
  <1> QED BY <1>5, <1>7 DEF n

\* A sequence of the elements of a finite set, once each, has them all.
LEMMA SetSequences ==
    ASSUME NEW S, IsFiniteSet(S), NEW seq \in SetToSeqs(S)
    PROVE  /\ seq \in Seq(S) /\ Len(seq) = Cardinality(S)
           /\ \A i, j \in DOMAIN seq : i # j => seq[i] # seq[j]
           /\ \A x \in S : \E i \in DOMAIN seq : seq[i] = x
  <1> DEFINE n == Cardinality(S)
  <1>1. n \in Nat /\ IsFiniteSet(1..n) /\ Cardinality(1..n) = n
    BY FS_CardinalityType, Interval
  <1>2. seq \in [1..n -> S] /\ \A i, j \in 1..n : i # j => seq[i] # seq[j]
    BY DEF SetToSeqs
  <1> HIDE DEF n
  <1>3. seq \in Injection(1..n, S)
    BY <1>2 DEF Injection, IsInjective
  <1>4. seq \in Surjection(1..n, S)
    BY <1>1, <1>3, FS_Injection DEF n
  <1> QED BY <1>1, <1>2, <1>4 DEF Surjection, n

\* SetToSeq has all elements of a finite set.
LEMMA SetAsSequence ==
    ASSUME NEW S, IsFiniteSet(S)
    PROVE  SetToSeq(S) \in Seq(S) /\ \A x \in S : \E k \in 1..Len(SetToSeq(S)) : SetToSeq(S)[k] = x
  <1> DEFINE n == Cardinality(S)
             f == SetToSeq(S)
  <1>1. n \in Nat /\ IsFiniteSet(1..n) /\ Cardinality(1..n) = n
    <2>1. n \in Nat
      BY FS_CardinalityType
    <2>2. /\ IsFiniteSet(1..n) /\ Cardinality(1..n) = IF 1 > n THEN 0 ELSE n - 1 + 1
      <3> HIDE DEF n
      <3>1. 1 \in Int /\ n \in Int
        BY <2>1
      <3> QED BY ONLY <3>1, FS_Interval
    <2> HIDE DEF n
    <2> QED BY <2>1, <2>2
  <1>2. \E g \in [1..n -> S] : IsInjective(g)
    <2>1. PICK m \in Nat : ExistsBijection(1..m, S)
      BY FS_NatBijection
    <2>2. m = n
      BY <2>1, FS_CountingElements
    <2> QED BY <2>1, <2>2 DEF ExistsBijection, Bijection, Injection
  <1>3. f \in [1..n -> S] /\ IsInjective(f)
    BY <1>2 DEF SetToSeq
  <1> HIDE DEF f
  <1>4. f \in Surjection(1..n, S)
    <2>1. f \in Injection(1..n, S)
      BY <1>3 DEF Injection
    <2> QED BY <1>1, <2>1, FS_Injection
  <1>5. f \in Seq(S) /\ Len(f) = n
    BY <1>1, <1>3
  <1> QED BY <1>4, <1>5 DEF Surjection, f

\* Positions have ranks.
LEMMA Positions ==
    ASSUME NEW n \in Nat, NEW P, P \subseteq 1..n
    PROVE  /\ IsFiniteSet(P) /\ Cardinality(P) \in Nat
           /\ \A k \in 1..Cardinality(P) : \E i \in P : Cardinality({m \in P : m < i}) = k - 1
  <1>1. IsFiniteSet(P) /\ Cardinality(P) \in Nat
    <2>1. 1 \in Int /\ n \in Int
      OBVIOUS
    <2>2. IsFiniteSet(1..n)
      BY <2>1, FS_Interval
    <2> QED BY <2>2, FewerElements
  <1> DEFINE R == {e \in P \X P : e[1] < e[2]}
  <1>2. \A i, j \in P : <<i, j>> \in R <=> i < j
    OBVIOUS
  <1>3. ASSUME NEW k \in 1..Cardinality(P)
        PROVE  \E i \in P : Cardinality({m \in P : m < i}) = k - 1
    <2>1. PICK i \in P : Cardinality({m \in P : <<m, i>> \in R}) = k - 1
      <3>1. /\ \A i \in P : <<i, i>> \notin R
            /\ \A i, j \in P : i # j => <<i, j>> \in R \/ <<j, i>> \in R
            /\ \A i, j, l \in P : <<i, j>> \in R /\ <<j, l>> \in R => <<i, l>> \in R
        BY <1>2
      <3> HIDE DEF R
      <3> QED BY <1>1, <3>1, Ranks, ZenonT(60)
    <2>2. {m \in P : <<m, i>> \in R} = {m \in P : m < i}
      BY <1>2
    <2> QED BY <2>1, <2>2
  <1> QED BY <1>1, <1>3

\* A set of positions has a first one.
LEMMA FirstPosition ==
    ASSUME NEW n \in Nat, NEW P, P \subseteq 1..n, P # {}
    PROVE  Min(P) \in P /\ \A j \in P : Min(P) <= j
  <1>1. IsFiniteSet(P) /\ Cardinality(P) \in Nat \ {0}
    BY Positions, FS_EmptySet
  <1>2. \E i \in P : Cardinality({m \in P : m < i}) = 0
    <2>1. \A k \in 1..Cardinality(P) : \E i \in P : Cardinality({m \in P : m < i}) = k - 1
      BY Positions
    <2>2. 1 \in 1..Cardinality(P) /\ 1 - 1 = 0
      BY <1>1
    <2> QED BY <2>1, <2>2
  <1>3. PICK i \in P : Cardinality({m \in P : m < i}) = 0
    BY <1>2
  <1>4. {m \in P : m < i} = {}
    <2>1. {m \in P : m < i} \subseteq P
      OBVIOUS
    <2>2. IsFiniteSet({m \in P : m < i})
      BY <1>1, <2>1, FewerElements
    <2> QED BY <1>3, <2>2, FS_EmptySet
  <1>5. \A j \in P : i <= j
    BY <1>4
  <1> QED BY <1>5 DEF Min

\* The smaller of two numbers.
LEMMA Least ==
    ASSUME NEW a \in Int, NEW b \in Int
    PROVE  Min({a, b}) \in {a, b} /\ Min({a, b}) \in Int /\ Min({a, b}) <= a /\ Min({a, b}) <= b
  <1>1. \E x \in {a, b} : \A y \in {a, b} : x <= y
    OBVIOUS
  <1> QED BY <1>1 DEF Min

\* Every element of C is of one line, which counts its own; U has a pair for every
\* number that a line counts to.
Counted(n, C, L, line, own, count, U) ==
    /\ n \in Nat /\ C \subseteq 1..n /\ line \in [C -> L] /\ own \in [L -> SUBSET C]
    /\ \A l \in L : \A i \in C : i \in own[l] <=> line[i] = l
    /\ \A l \in L : count[l] = Cardinality(own[l])
    /\ \A u : u \in U <=> \E l \in L : \E k \in 1..count[l] : u = <<l, k>>

\* What the lines count adds up to the elements.
LEMMA CountedByLine ==
    ASSUME NEW n, NEW C, NEW L, NEW line, NEW own, NEW count, NEW U,
           Counted(n, C, L, line, own, count, U)
    PROVE  Cardinality(U) = Cardinality(C)
  <1> DEFINE of(l) == {i \in C : line[i] = l}
             before(l, i) == {m \in of(l) : m < i}
             b == [i \in C |-> <<line[i], Cardinality(before(line[i], i)) + 1>>]
  <1>0. /\ n \in Nat /\ C \subseteq 1..n /\ line \in [C -> L] /\ own \in [L -> SUBSET C]
        /\ \A l \in L : \A i \in C : i \in own[l] <=> line[i] = l
        /\ \A l \in L : count[l] = Cardinality(own[l])
    BY DEF Counted
  <1>2. \A u : u \in U <=> \E l \in L : \E k \in 1..count[l] : u = <<l, k>>
    BY DEF Counted
  <1>c. \A l \in L : own[l] = of(l)
    <2> SUFFICES ASSUME NEW l \in L
                 PROVE  own[l] = of(l)
      OBVIOUS
    <2>1. own[l] \subseteq C /\ \A i \in C : i \in own[l] <=> line[i] = l
      BY ONLY <1>0, l \in L
    <2>2. \A i : i \in of(l) <=> i \in C /\ line[i] = l
      OBVIOUS
    <2>3. \A i : i \in own[l] <=> i \in of(l)
      BY ONLY <2>1, <2>2
    <2> HIDE DEF of
    <2> QED BY ONLY <2>3
  <1>1. ASSUME NEW l \in L
        PROVE  /\ IsFiniteSet(of(l)) /\ Cardinality(of(l)) \in Nat /\ count[l] = Cardinality(of(l))
               /\ \A k \in 1..Cardinality(of(l)) : \E i \in of(l) : Cardinality(before(l, i)) = k - 1
    <2>1. of(l) \subseteq 1..n /\ count[l] = Cardinality(of(l))
      BY <1>0, <1>c
    <2>2. PICK P : P = of(l)
      OBVIOUS
    <2>3. n \in Nat /\ P \subseteq 1..n
      BY ONLY <1>0, <2>1, <2>2
    <2>4. /\ IsFiniteSet(P) /\ Cardinality(P) \in Nat
          /\ \A k \in 1..Cardinality(P) : \E i \in P : Cardinality({m \in P : m < i}) = k - 1
      BY ONLY <2>3, Positions, Zenon
    <2> HIDE DEF of
    <2> QED BY ONLY <2>1, <2>2, <2>4, Zenon DEF before
  <1>3. \A i \in C : line[i] \in L /\ i \in of(line[i]) /\ i \in Int
    BY <1>0
  <1>i. \A i \in C : i \in Int
    BY <1>0
  <1>4. ASSUME NEW l, NEW i
        PROVE  before(l, i) \subseteq of(l) /\ i \notin before(l, i)
    <2>1. before(l, i) \subseteq of(l)
      BY Zenon
    <2>2. SUFFICES ASSUME i \in before(l, i) PROVE FALSE
      BY <2>1
    <2>3. i \in C /\ i < i
      BY <2>2
    <2>4. i \in Int
      BY <1>i, <2>3
    <2> QED BY ONLY <2>3, <2>4
  <1>5. ASSUME NEW l, NEW i \in of(l), NEW j \in of(l), i < j
        PROVE  before(l, i) \subseteq before(l, j) /\ i \in before(l, j)
    <2>1. i \in Int /\ j \in Int
      BY <1>i
    <2>2. i \in before(l, j)
      BY <1>5, Zenon
    <2>3. ASSUME NEW m \in before(l, i)
          PROVE  m \in before(l, j)
      <3>1. m \in of(l) /\ m < i /\ m \in Int
        BY <1>i, <2>3
      <3>2. m < j
        BY ONLY <1>5, <2>1, <3>1
      <3> QED BY <3>1, <3>2
    <2> QED BY <2>2, <2>3
  <1>6. \A l : \A i, j \in of(l) : i \in Int /\ j \in Int /\ line[i] = l
    BY <1>0
  <1>7. \A i \in C : b[i] = <<line[i], Cardinality(before(line[i], i)) + 1>>
    OBVIOUS
  <1>d. DOMAIN b = C /\ b = [i \in C |-> b[i]]
    OBVIOUS
  <1>o. \A l : \A i \in of(l) : i \in C
    OBVIOUS
  <1> HIDE DEF of, before, b
  <1>8. ASSUME NEW i \in C
        PROVE  b[i] \in U
    <2>1. PICK l \in L : l = line[i] /\ i \in of(l)
      BY <1>3
    <2>2. IsFiniteSet(of(l)) /\ before(l, i) \subseteq of(l) /\ before(l, i) # of(l)
      BY <1>1, <1>4, <2>1
    <2>3. /\ Cardinality(before(l, i)) \in Nat /\ Cardinality(of(l)) \in Nat
          /\ Cardinality(before(l, i)) < Cardinality(of(l))
      BY <2>2, FewerElements
    <2>4. Cardinality(before(l, i)) + 1 \in 1..count[l]
      BY <1>1, <2>3
    <2> QED BY <1>2, <1>7, <2>1, <2>4
  <1>9. ASSUME NEW l \in L, NEW i \in of(l), NEW j \in of(l), i < j
        PROVE  Cardinality(before(l, i)) # Cardinality(before(l, j))
    <2>1. /\ IsFiniteSet(of(l)) /\ before(l, j) \subseteq of(l)
          /\ before(l, i) \subseteq before(l, j) /\ before(l, i) # before(l, j)
      BY <1>1, <1>4, <1>5, <1>9
    <2>2. IsFiniteSet(before(l, j))
      BY <2>1, FewerElements
    <2>3. /\ Cardinality(before(l, i)) \in Nat /\ Cardinality(before(l, j)) \in Nat
          /\ Cardinality(before(l, i)) < Cardinality(before(l, j))
      BY <2>1, <2>2, FewerElements
    <2> QED BY <2>3
  <1>10. ASSUME NEW i \in C, NEW j \in C, b[i] = b[j]
         PROVE  i = j
    <2>1. PICK l \in L : l = line[i] /\ i \in of(l)
      BY <1>3
    <2>2. line[j] = line[i] /\ Cardinality(before(line[i], i)) + 1 = Cardinality(before(line[j], j)) + 1
      BY <1>7, <1>10
    <2>3. l = line[j] /\ j \in of(l)
      BY <1>3, <2>1, <2>2
    <2>4. Cardinality(before(l, i)) \in Nat /\ Cardinality(before(l, j)) \in Nat
      BY <1>1, <1>4, FewerElements
    <2>5. Cardinality(before(l, i)) = Cardinality(before(l, j))
      BY <2>1, <2>2, <2>3, <2>4
    <2>6. i \in Int /\ j \in Int
      BY <1>3
    <2> QED BY <1>9, <2>1, <2>3, <2>5, <2>6
  <1>11. ASSUME NEW u \in U
         PROVE  \E i \in C : b[i] = u
    <2>0. PICK l \in L : \E k \in 1..count[l] : u = <<l, k>>
      BY <1>2
    <2>1. PICK k \in 1..count[l] : u = <<l, k>>
      BY <2>0
    <2>2. k \in 1..Cardinality(of(l)) /\ k \in Int
      BY <1>1, <2>1
    <2>3. PICK i \in of(l) : Cardinality(before(l, i)) = k - 1
      BY <1>1, <2>2
    <2>4. i \in C /\ line[i] = l
      BY <1>6, <1>o, <2>3
    <2>5. b[i] = <<l, k - 1 + 1>>
      BY <1>7, <2>3, <2>4
    <2>6. k - 1 + 1 = k
      BY <2>2
    <2> QED BY <2>1, <2>4, <2>5, <2>6
  <1>12. b \in [C -> U]
    BY <1>8, <1>d
  <1>13. ExistsBijection(C, U)
    BY ONLY <1>10, <1>11, <1>12, OneToOne
  <1>14. IsFiniteSet(C)
    BY <1>0, Positions
  <1> QED BY ONLY <1>13, <1>14, FS_Bijection

\* The elements of a finite set in two parts.
LEMMA TwoParts ==
    ASSUME NEW S, IsFiniteSet(S), NEW P, NEW Q, S = P \cup Q, P \cap Q = {}
    PROVE  /\ IsFiniteSet(P) /\ IsFiniteSet(Q) /\ Cardinality(P) \in Nat /\ Cardinality(Q) \in Nat
           /\ Cardinality(S) = Cardinality(P) + Cardinality(Q)
  <1>1. /\ IsFiniteSet(P) /\ Cardinality(P) \in Nat
        /\ IsFiniteSet(Q) /\ Cardinality(Q) \in Nat
    BY FewerElements
  <1>2. Cardinality(P \cup Q) = Cardinality(P) + Cardinality(Q) - Cardinality(P \cap Q)
    BY <1>1, FS_Union
  <1> QED BY <1>1, <1>2, FS_EmptySet
=============================================================================
