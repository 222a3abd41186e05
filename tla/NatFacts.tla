------------------------------ MODULE NatFacts ------------------------------
(***************************************************************************)
(* Facts about natural numbers, finite sets, their orders and sequences    *)
(* that the proofs of several components rest on.                          *)
(***************************************************************************)
EXTENDS Integers, FiniteSets, WellFoundedInduction, FiniteSetTheorems, FunctionTheorems,
        SequenceTheorems, TLAPS

\* Every non-empty set of natural numbers has a least element.
LEMMA LeastNat ==
    ASSUME NEW T, T \subseteq Nat, T # {}
    PROVE  \E n \in T : \A m \in T : n <= m
  <1> DEFINE Less == {ss \in Nat \X Nat : ss[1] < ss[2]}
  <1>1. IsWellFoundedOn(Less, Nat)
    BY NatLessThanWellFounded DEF OpToRel
  <1>2. PICK x \in T : \A y \in T : ~(<<y, x>> \in Less)
    <2> HIDE DEF Less
    <2> QED BY <1>1, WFMin
  <1>3. \A y \in T : ~(y < x)
    BY <1>2
  <1> QED BY <1>3

\* A bounded one has a greatest element.
LEMMA GreatestNat ==
    ASSUME NEW T, T \subseteq Nat, T # {}, NEW b \in Nat, \A n \in T : n <= b
    PROVE  \E n \in T : \A m \in T : m <= n
  <1> DEFINE U == {d \in 0..b : b - d \in T}
  <1>1. PICK t \in T : TRUE
    OBVIOUS
  <1>2. t \in 0..b
    OBVIOUS
  <1>3. b - t \in 0..b /\ b - (b - t) = t
    BY <1>2
  <1>4. U \subseteq Nat /\ U # {}
    BY <1>3
  <1>5. PICK u \in U : \A v \in U : u <= v
    <2> HIDE DEF U
    <2> QED BY <1>4, LeastNat
  <1>6. ASSUME NEW m \in T PROVE m <= b - u
    <2>1. b - m \in 0..b /\ b - (b - m) = m
      OBVIOUS
    <2>2. b - m \in U
      BY <2>1
    <2>3. u <= b - m
      BY <2>2, <1>5
    <2> QED BY <2>1, <2>3
  <1> QED BY <1>6

\* Induction, for a set of natural numbers.
LEMMA InductOnNat ==
    ASSUME NEW S, 0 \in S, \A n \in Nat : n \in S => n + 1 \in S
    PROVE  Nat \subseteq S
  <1> SUFFICES ASSUME Nat \ S # {} PROVE FALSE
    OBVIOUS
  <1>1. PICK n \in Nat \ S : \A m \in Nat \ S : n <= m
    BY LeastNat
  <1>2. n # 0 /\ n - 1 \in Nat
    BY <1>1
  <1>3. n - 1 \in S
    BY <1>1, <1>2
  <1> QED BY <1>1, <1>2, <1>3

\* A power of two counts subsets.
LEMMA PowerOfTwo ==
    ASSUME NEW n \in Nat
    PROVE  2 ^ n \in Nat
  <1>1. IsFiniteSet(1..n) /\ Cardinality(1..n) = n
    BY FS_Interval
  <1>2. IsFiniteSet(SUBSET (1..n)) /\ Cardinality(SUBSET (1..n)) = 2 ^ Cardinality(1..n)
    BY <1>1, FS_SUBSET
  <1> QED BY <1>1, <1>2, FS_CardinalityType

\* The values of a function on a finite set are finitely many.
LEMMA FiniteImage ==
    ASSUME NEW S, IsFiniteSet(S), NEW f, DOMAIN f = S
    PROVE  IsFiniteSet({f[x] : x \in S})
  <1> DEFINE T == {f[x] : x \in S}
             g == [x \in S |-> f[x]]
  <1>1. g \in Surjection(S, T)
    BY DEF Surjection
  <1> HIDE DEF g, T
  <1>2. IsFiniteSet(T)
    BY <1>1, FS_Surjection
  <1> QED BY <1>2 DEF T

\* Rounded up, the number of batches is enough for all.
LEMMA EnoughBatches ==
    ASSUME NEW c \in Nat, NEW b \in Nat \ {0}
    PROVE  (c + b - 1) \div b \in Nat /\ c <= b * ((c + b - 1) \div b)
  <1>1. (c + b - 1) \div b \in Nat
    BY SMT
  <1>2. c <= b * ((c + b - 1) \div b)
    BY SMT
  <1> QED BY <1>1, <1>2

\* An element of a finite set of numbers has fewer before it than the set has elements.
LEMMA RankBelow ==
    ASSUME NEW S, S \subseteq Nat, IsFiniteSet(S), NEW i \in S
    PROVE  /\ Cardinality({j \in S : j < i}) \in Nat
           /\ Cardinality({j \in S : j < i}) < Cardinality(S)
  <1> DEFINE B == {j \in S : j < i}
  <1>1. B \in SUBSET S /\ i \notin B
    OBVIOUS
  <1>2. /\ IsFiniteSet(B) /\ Cardinality(B) <= Cardinality(S)
        /\ Cardinality(S) = Cardinality(B) => S = B
    <2> HIDE DEF B
    <2> QED BY <1>1, FS_Subset
  <1>3. Cardinality(B) \in Nat /\ Cardinality(S) \in Nat
    <2> HIDE DEF B
    <2> QED BY <1>2, FS_CardinalityType
  <1> QED BY <1>1, <1>2, <1>3

\* The elements of S up to n.
UpTo(S, n) == {m \in S : m <= n}

\* The id n gets when the elements of S are numbered in their order from c + 1.
Numbering(S, c, n) == c + Cardinality(UpTo(S, n))

\* Numbering the elements of a finite set of numbers in their order from c + 1 gives each one
\* an id of its own among the next ones.
LEMMA Numbered ==
    ASSUME NEW S, S \subseteq Nat, IsFiniteSet(S), NEW c \in Nat
    PROVE  /\ Cardinality(S) \in Nat
           /\ \A n \in S : Numbering(S, c, n) \in c+1 .. c + Cardinality(S)
           /\ \A m, n \in S : Numbering(S, c, m) = Numbering(S, c, n) => m = n
           /\ IsFiniteSet({Numbering(S, c, n) : n \in S})
           /\ Cardinality({Numbering(S, c, n) : n \in S}) = Cardinality(S)
  <1> DEFINE id == [n \in S |-> Numbering(S, c, n)]
             L(n) == UpTo(S, n)
             T == {Numbering(S, c, n) : n \in S}
  <1>1. ASSUME NEW A \in SUBSET S, NEW B \in SUBSET A
        PROVE  /\ IsFiniteSet(A) /\ IsFiniteSet(B)
               /\ Cardinality(A) \in Nat /\ Cardinality(B) \in Nat
               /\ Cardinality(B) <= Cardinality(A)
               /\ Cardinality(A) = Cardinality(B) => A = B
    <2>1. IsFiniteSet(A)
      BY FS_Subset
    <2>2. /\ IsFiniteSet(B) /\ Cardinality(B) <= Cardinality(A)
          /\ Cardinality(A) = Cardinality(B) => A = B
      BY <2>1, FS_Subset
    <2> QED BY <2>1, <2>2, FS_CardinalityType
  <1>2. Cardinality(S) \in Nat
    BY FS_CardinalityType
  <1>3. ASSUME NEW n \in S
        PROVE  Cardinality(L(n)) \in 1..Cardinality(S) /\ id[n] = c + Cardinality(L(n))
    <2>1. L(n) \in SUBSET S /\ {} \in SUBSET L(n) /\ L(n) # {} /\ id[n] = c + Cardinality(L(n))
      BY DEF UpTo, Numbering
    <2> HIDE DEF L
    <2>2. Cardinality({}) = 0
      BY FS_EmptySet
    <2>3. /\ Cardinality(L(n)) \in Nat /\ Cardinality(L(n)) <= Cardinality(S)
      BY <1>1, <2>1
    <2>4. Cardinality(L(n)) # 0
      BY <1>1, <2>1, <2>2
    <2> QED BY <1>2, <2>1, <2>3, <2>4
  <1>4. ASSUME NEW m \in S, NEW n \in S, m < n
        PROVE  Cardinality(L(m)) # Cardinality(L(n))
    <2>1. n \in L(n) /\ n \notin L(m)
      BY <1>4 DEF UpTo
    <2>2. L(n) \subseteq S /\ L(m) # L(n)
      BY <2>1 DEF UpTo
    <2>3. ASSUME NEW x \in L(m) PROVE x \in L(n)
      <3>1. x \in Nat /\ m \in Nat /\ n \in Nat /\ x \in S /\ x <= m
        BY DEF UpTo
      <3> QED BY <3>1, <1>4 DEF UpTo
    <2> HIDE DEF L
    <2> QED BY <1>1, <2>2, <2>3
  <1>5. \A m, n \in S : id[m] = id[n] => m = n
    <2> SUFFICES ASSUME NEW m \in S, NEW n \in S, id[m] = id[n]
                 PROVE  m = n
      OBVIOUS
    <2>1. Cardinality(L(m)) \in Nat /\ Cardinality(L(n)) \in Nat
      BY <1>2, <1>3
    <2>2. Cardinality(L(m)) = Cardinality(L(n))
      <3> HIDE DEF L
      <3> QED BY <1>3, <2>1
    <2>3. ~(m < n) /\ ~(n < m)
      <3> HIDE DEF L
      <3> QED BY <1>4, <2>2
    <2> QED BY <2>3
  <1>6. id \in Injection(S, T) /\ id \in Surjection(S, T)
    BY <1>5 DEF Injection, Surjection, IsInjective
  <1>7. IsFiniteSet(T) /\ Cardinality(T) = Cardinality(S)
    <2> HIDE DEF T, id
    <2> QED BY <1>6, FS_Surjection
  <1>8. \A n \in S : id[n] \in c+1 .. c + Cardinality(S)
    <2> HIDE DEF L
    <2> QED BY <1>2, <1>3
  <1> QED BY <1>2, <1>5, <1>7, <1>8

\* A map that keeps the order keeps the places.
LEMMA ImageInOrder ==
    ASSUME NEW U, U \subseteq Nat, IsFiniteSet(U), NEW f \in [U -> Nat],
           \A j, k \in U : j < k => f[j] < f[k], NEW M, M = {f[k] : k \in U}
    PROVE  /\ M \subseteq Nat /\ IsFiniteSet(M) /\ Cardinality(M) = Cardinality(U)
           /\ \A k \in U : Cardinality(UpTo(M, f[k])) = Cardinality(UpTo(U, k))
  <1>1. \A j, k \in U : f[j] = f[k] => j = k
    BY SMT
  <1>2. \A j, k \in U : f[j] <= f[k] <=> j <= k
    BY <1>1, SMT
  <1>3. ASSUME NEW A \in SUBSET U, NEW B, B = {f[k] : k \in A}
        PROVE  IsFiniteSet(B) /\ Cardinality(B) = Cardinality(A)
    <2> DEFINE g == [k \in A |-> f[k]]
    <2>1. g \in Injection(A, B) /\ g \in Surjection(A, B)
      BY <1>1, <1>3 DEF Injection, Surjection, IsInjective
    <2>2. IsFiniteSet(A)
      BY FS_Subset
    <2> HIDE DEF g
    <2>3. IsFiniteSet(B) /\ (Cardinality(B) = Cardinality(A) <=> g \in Injection(A, B))
      BY ONLY <2>1, <2>2, FS_Surjection
    <2> QED BY ONLY <2>1, <2>3
  <1>4. IsFiniteSet(M) /\ Cardinality(M) = Cardinality(U)
    BY <1>3
  <1>5. ASSUME NEW k \in U PROVE Cardinality(UpTo(M, f[k])) = Cardinality(UpTo(U, k))
    <2>1. UpTo(U, k) \in SUBSET U
      BY DEF UpTo
    <2>2. UpTo(M, f[k]) = {f[j] : j \in UpTo(U, k)}
      BY <1>2 DEF UpTo
    <2> QED BY <1>3, <2>1, <2>2
  <1> QED BY <1>4, <1>5

\* The elements of a finite set can be numbered from c + 1.
LEMMA Numberable ==
    ASSUME NEW S, IsFiniteSet(S), NEW c \in Nat
    PROVE  /\ Cardinality(S) \in Nat
           /\ \E f \in [S -> (c + 1)..(c + Cardinality(S))] :
                 \A j, k \in S : f[j] = f[k] => j = k
  <1>1. Cardinality(S) \in Nat /\ ExistsBijection(1..Cardinality(S), S)
    BY FS_CardinalityType
  <1>2. PICK m \in Nat : m = Cardinality(S)
    BY <1>1
  <1>3. PICK b : b \in Bijection(1..m, S)
    BY <1>1, <1>2 DEF ExistsBijection
  <1>4. PICK g : g \in Bijection(S, 1..m)
    BY <1>3, Fun_BijInverse
  <1>5. /\ \A k \in S : g[k] \in 1..m
        /\ \A j, k \in S : g[j] = g[k] => j = k
    BY <1>4 DEF Bijection, Injection, Surjection, IsInjective
  <1> DEFINE f == [k \in S |-> c + g[k]]
  <1>6. f \in [S -> (c + 1)..(c + m)]
    BY <1>5
  <1>7. ASSUME NEW j \in S, NEW k \in S, f[j] = f[k] PROVE j = k
    <2>1. c + g[j] = c + g[k] /\ g[j] \in Int /\ g[k] \in Int
      BY <1>5, <1>7
    <2> QED BY <1>5, <2>1
  <1> HIDE DEF f
  <1> QED BY <1>2, <1>6, <1>7

\* An order on S, given as what comes before each element, is strict and total.
TotalOrder(S, before) ==
    /\ \A r \in S : before[r] \subseteq S /\ r \notin before[r]
    /\ \A q, r \in S : q # r => q \in before[r] \/ r \in before[q]
    /\ \A p, q, r \in S : p \in before[q] /\ q \in before[r] => p \in before[r]

Rank(before, r) == Cardinality(before[r])

\* The ranks of a finite set's elements are the numbers below its size, in the same order.
LEMMA Ranked ==
    ASSUME NEW S, IsFiniteSet(S), NEW before, TotalOrder(S, before)
    PROVE  /\ Cardinality(S) \in Nat
           /\ \A r \in S : Rank(before, r) \in 0 .. Cardinality(S) - 1
           /\ \A q, r \in S : q \in before[r] <=> Rank(before, q) < Rank(before, r)
           /\ \A q, r \in S : Rank(before, q) = Rank(before, r) => q = r
           /\ \A i \in 0 .. Cardinality(S) - 1 : \E r \in S : Rank(before, r) = i
  <1>1. Cardinality(S) \in Nat
    BY FS_CardinalityType
  <1>2. ASSUME NEW A \in SUBSET S, NEW B \in SUBSET A, A # B
        PROVE  /\ Cardinality(A) \in Nat /\ Cardinality(B) \in Nat
               /\ Cardinality(B) < Cardinality(A)
    <2>1. IsFiniteSet(A)
      BY FS_Subset
    <2>2. /\ IsFiniteSet(B) /\ Cardinality(B) <= Cardinality(A)
          /\ Cardinality(A) = Cardinality(B) => A = B
      BY <2>1, FS_Subset
    <2>3. Cardinality(A) \in Nat /\ Cardinality(B) \in Nat
      BY <2>1, <2>2, FS_CardinalityType
    <2> QED BY <1>2, <2>2, <2>3
  <1>3. ASSUME NEW r \in S
        PROVE  Rank(before, r) \in 0 .. Cardinality(S) - 1
    <2>1. before[r] \in SUBSET S /\ S \in SUBSET S /\ before[r] # S
      BY DEF TotalOrder
    <2>2. Cardinality(before[r]) \in Nat /\ Cardinality(before[r]) < Cardinality(S)
      BY <1>2, <2>1
    <2> QED BY <1>1, <2>2 DEF Rank
  <1>4. ASSUME NEW q \in S, NEW r \in S, q \in before[r]
        PROVE  Rank(before, q) < Rank(before, r)
    <2>1. before[r] \in SUBSET S /\ before[q] \in SUBSET before[r] /\ before[q] # before[r]
      BY <1>4 DEF TotalOrder
    <2> QED BY <1>2, <2>1 DEF Rank
  <1>5. \A q, r \in S : Rank(before, q) = Rank(before, r) => q = r
    <2> SUFFICES ASSUME NEW q \in S, NEW r \in S, Rank(before, q) = Rank(before, r), q # r
                 PROVE  FALSE
      OBVIOUS
    <2>1. q \in before[r] \/ r \in before[q]
      BY DEF TotalOrder
    <2>2. Rank(before, q) < Rank(before, r) \/ Rank(before, r) < Rank(before, q)
      BY <1>4, <2>1
    <2> QED BY <1>3, <2>2
  <1>6. \A q, r \in S : q \in before[r] <=> Rank(before, q) < Rank(before, r)
    <2> SUFFICES ASSUME NEW q \in S, NEW r \in S, Rank(before, q) < Rank(before, r)
                 PROVE  q \in before[r]
      BY <1>4
    <2>1. q # r
      BY <1>3
    <2>2. q \in before[r] \/ r \in before[q]
      BY <2>1 DEF TotalOrder
    <2>3. r \in before[q] => Rank(before, r) < Rank(before, q)
      BY <1>4
    <2> QED BY <1>3, <2>2, <2>3
  <1>7. \A i \in 0 .. Cardinality(S) - 1 : \E r \in S : Rank(before, r) = i
    <2> DEFINE f == [r \in S |-> Rank(before, r)]
               c == Cardinality(S)
               T == 0 .. c - 1
    <2>1. f \in Injection(S, T)
      BY <1>3, <1>5, Fun_IsInj
    <2>2. c \in Nat /\ c - 1 \in Int
      BY <1>1
    <2>3. IsFiniteSet(T) /\ Cardinality(T) = c
      <3> HIDE DEF c
      <3>1. IsFiniteSet(0 .. c - 1)
            /\ Cardinality(0 .. c - 1)
                 = IF 0 > c - 1 THEN 0 ELSE (c - 1) - 0 + 1
        BY <2>2, FS_Interval
      <3> QED BY <2>2, <3>1
    <2>4. f \in Surjection(S, T)
      <3> HIDE DEF f, T
      <3> QED BY <2>1, <2>3, FS_Injection
    <2>5. \A i \in T : \E r \in S : f[r] = i
      <3> HIDE DEF f, T
      <3> QED BY <2>4, Fun_SurjectionProperties
    <2> QED BY <2>5
  <1> QED BY <1>1, <1>3, <1>5, <1>6, <1>7

\* The elements with the first n ranks.
LEMMA FirstRanks ==
    ASSUME NEW S, IsFiniteSet(S), NEW before, TotalOrder(S, before), NEW n \in Nat
    PROVE  Cardinality({r \in S : Rank(before, r) < n})
             = IF Cardinality(S) < n THEN Cardinality(S) ELSE n
  <1> DEFINE c == Cardinality(S)
             m == IF c < n THEN c ELSE n
             U == {r \in S : Rank(before, r) < n}
             T == 0 .. m - 1
             f == [r \in U |-> Rank(before, r)]
  <1>1. /\ c \in Nat /\ \A r \in S : Rank(before, r) \in 0 .. c - 1
        /\ \A q, r \in S : Rank(before, q) = Rank(before, r) => q = r
        /\ \A i \in 0 .. c - 1 : \E r \in S : Rank(before, r) = i
    BY Ranked
  <1>2. m \in Nat /\ m <= n /\ m <= c
    <2> HIDE DEF c
    <2> QED BY <1>1
  <1>3. IsFiniteSet(T) /\ Cardinality(T) = m
    <2> HIDE DEF m
    <2>1. IsFiniteSet(0 .. m - 1)
          /\ Cardinality(0 .. m - 1)
               = IF 0 > m - 1 THEN 0 ELSE (m - 1) - 0 + 1
      BY <1>2, FS_Interval
    <2> QED BY <1>2, <2>1
  <1>4. ASSUME NEW r \in U PROVE Rank(before, r) \in T
    <2>1. Rank(before, r) \in 0 .. c - 1 /\ Rank(before, r) < n
      BY <1>1
    <2> HIDE DEF U, c
    <2> QED BY <1>1, <2>1
  <1>5. \A q, r \in U : Rank(before, q) = Rank(before, r) => q = r
    BY <1>1
  <1>6. f \in Injection(U, T)
    <2> HIDE DEF U, T
    <2> QED BY <1>4, <1>5, Fun_IsInj
  <1>7. \A i \in T : \E r \in U : f[r] = i
    <2> SUFFICES ASSUME NEW i \in T PROVE \E r \in U : f[r] = i
      OBVIOUS
    <2>1. i \in 0 .. c - 1 /\ i < n
      <3> HIDE DEF c
      <3> QED BY <1>1, <1>2
    <2>2. PICK r \in S : Rank(before, r) = i
      BY <1>1, <2>1
    <2> QED BY <2>1, <2>2
  <1>8. f \in Surjection(U, T)
    <2> HIDE DEF U, T
    <2>1. f \in [U -> T]
      BY <1>4
    <2> HIDE DEF f
    <2> QED BY <1>7, <2>1, Fun_IsSurj
  <1>9. Cardinality(U) = Cardinality(T)
    <2> HIDE DEF f, T, U
    <2> QED BY <1>3, <1>6, <1>8, FS_Injection
  <1> QED BY <1>3, <1>9

-----------------------------------------------------------------------------
(* Sequences. *)

\* A function on 1..n is a sequence.
LEMMA FunctionIsSeq ==
    ASSUME NEW S, NEW n \in Nat, NEW f \in [1..n -> S]
    PROVE  f \in Seq(S) /\ Len(f) = n
  <1>1. f \in Seq(S)
    BY SeqDef
  <1>2. DOMAIN f = 1..n /\ DOMAIN f = 1..Len(f) /\ Len(f) \in Nat
    BY <1>1, LenProperties
  <1> QED BY <1>1, <1>2

\* The values of a recurrence over 1..n.
Solves(f, n, base, step) == f[0] = base /\ \A i \in 1..n : f[i] = step[<<i, f[i - 1]>>]

\* A recurrence has a solution.
LEMMA Recurrence ==
    ASSUME NEW S, NEW n \in Nat, NEW base \in S, NEW step \in [(1..n) \X S -> S]
    PROVE  \E f \in [0..n -> S] : Solves(f, n, base, step)
  <1> DEFINE Good == {m \in Nat : m <= n => \E f \in [0..m -> S] : Solves(f, m, base, step)}
  <1> USE DEF Solves
  <1>1. 0 \in Good
    <2>1. [i \in 0..0 |-> base] \in [0..0 -> S]
      OBVIOUS
    <2>2. Solves([i \in 0..0 |-> base], 0, base, step)
      OBVIOUS
    <2> QED BY <2>1, <2>2
  <1>2. ASSUME NEW m \in Nat, m \in Good PROVE m + 1 \in Good
    <2> SUFFICES ASSUME m + 1 <= n PROVE \E f \in [0..(m + 1) -> S] : Solves(f, m + 1, base, step)
      OBVIOUS
    <2>1. PICK g \in [0..m -> S] : Solves(g, m, base, step)
      BY <1>2
    <2>2. step[<<m + 1, g[m]>>] \in S
      <3>1. <<m + 1, g[m]>> \in (1..n) \X S
        BY <2>1
      <3> QED BY <3>1
    <2> DEFINE f == [i \in 0..(m + 1) |-> IF i = m + 1 THEN step[<<m + 1, g[m]>>] ELSE g[i]]
    <2>3. f \in [0..(m + 1) -> S]
      BY <2>1, <2>2
    <2>4. f[0] = base
      BY <2>1
    <2>5. ASSUME NEW i \in 1..(m + 1) PROVE f[i] = step[<<i, f[i - 1]>>]
      <3>1. CASE i = m + 1
        <4>1. f[i] = step[<<m + 1, g[m]>>] /\ f[i - 1] = g[m]
          BY <3>1
        <4> QED BY <3>1, <4>1
      <3>2. CASE i # m + 1
        <4>1. i \in 1..m /\ f[i] = g[i] /\ f[i - 1] = g[i - 1]
          BY <3>2
        <4>2. g[i] = step[<<i, g[i - 1]>>]
          BY <2>1, <4>1
        <4> QED BY <4>1, <4>2
      <3> QED BY <3>1, <3>2
    <2> HIDE DEF f
    <2> QED BY <2>3, <2>4, <2>5
  <1>3. Nat \subseteq Good
    <2> HIDE DEF Good
    <2> QED BY <1>1, <1>2, InductOnNat
  <1> QED BY <1>3
=============================================================================
