---------------------------- MODULE Filing_proofs ----------------------------
(***************************************************************************)
(* The filings' extraction (FilingSpecs) and the parser it runs            *)
(* (ScheduleS), for every value of the constants: what is stored comes     *)
(* from one issue, and what is served is what was filed in it.             *)
(***************************************************************************)
EXTENDS FilingSpecs, NatFacts, TLAPS
LOCAL INSTANCE SequencesExt

-----------------------------------------------------------------------------
(* ScheduleS: how the filing tool lays a form out, and what is read of it. *)

\* Where each of some sequences ends in their concatenation.
Ends(off, seqs) ==
    /\ off \in [0..Len(seqs) -> Nat] /\ off[0] = 0
    /\ \A i \in 1..Len(seqs) : off[i] = off[i - 1] + Len(seqs[i])

\* And what the concatenation holds.
LEMMA Flattened ==
    ASSUME NEW S, NEW seqs \in Seq(Seq(S)), NEW off, Ends(off, seqs)
    PROVE  /\ FlattenSeq(seqs) \in Seq(S)
           /\ Len(FlattenSeq(seqs)) = off[Len(seqs)]
           /\ \A i \in 1..Len(seqs) : \A j \in 1..Len(seqs[i]) :
                 /\ off[i - 1] + j \in 1..off[Len(seqs)]
                 /\ FlattenSeq(seqs)[off[i - 1] + j] = seqs[i][j]
  <1> DEFINE n == Len(seqs)
             IsFlat(g) == g = [i \in 1..n |-> IF i = 1 THEN seqs[i] ELSE g[i - 1] \o seqs[i]]
             flatten == CHOOSE g : IsFlat(g)
  <1>e. /\ off \in [0..Len(seqs) -> Nat] /\ off[0] = 0
        /\ \A i \in 1..Len(seqs) : off[i] = off[i - 1] + Len(seqs[i])
    BY DEF Ends
  <1> USE <1>e
  <1>0. n \in Nat /\ \A i \in 1..n : seqs[i] \in Seq(S)
    BY LenProperties, ElementOfSeq
  <1>1. CASE n = 0
    <2>1. FlattenSeq(seqs) = seqs /\ seqs = <<>>
      BY <1>1, EmptySeq DEF FlattenSeq
    <2>2. <<>> \in Seq(S) /\ Len(<<>>) = 0
      BY EmptySeq
    <2> QED BY <1>1, <2>1, <2>2
  <1>2. CASE n # 0
    <2>1. FlattenSeq(seqs) = flatten[n]
      BY <1>2 DEF FlattenSeq
    <2>2. \E g : IsFlat(g)
      <3> DEFINE step == [p \in (1..n) \X Seq(S) |-> p[2] \o seqs[p[1]]]
      <3>1. step \in [(1..n) \X Seq(S) -> Seq(S)]
        <4>1. ASSUME NEW p \in (1..n) \X Seq(S) PROVE p[2] \o seqs[p[1]] \in Seq(S)
          BY <1>0, ConcatProperties
        <4> QED BY <4>1
      <3>2. <<>> \in Seq(S)
        BY EmptySeq
      <3>3. PICK f \in [0..n -> Seq(S)] :
               f[0] = <<>> /\ \A i \in 1..n : f[i] = step[<<i, f[i - 1]>>]
        <4> DEFINE T == Seq(S)
        <4>1. step \in [(1..n) \X T -> T] /\ <<>> \in T /\ n \in Nat
          BY <1>0, <3>1, <3>2
        <4> HIDE DEF step, n, T
        <4>2. \E f \in [0..n -> T] : Solves(f, n, <<>>, step)
          BY <4>1, Recurrence
        <4> QED BY <4>2 DEF Solves, T
      <3>4. ASSUME NEW i \in 1..n PROVE f[i] = f[i - 1] \o seqs[i]
        <4>1. i - 1 \in 0..n
          BY <1>0
        <4>2. f[i - 1] \in Seq(S) /\ <<i, f[i - 1]>> \in (1..n) \X Seq(S)
          <5> HIDE DEF n
          <5> QED BY <3>3, <4>1
        <4> QED BY <3>3, <4>2
      <3> DEFINE g == [i \in 1..n |-> f[i]]
      <3>5. ASSUME NEW i \in 1..n
            PROVE  f[i] = IF i = 1 THEN seqs[i] ELSE g[i - 1] \o seqs[i]
        <4>1. CASE i = 1
          <5>1. f[i] = <<>> \o seqs[1]
            <6>1. f[1] = f[1 - 1] \o seqs[1]
              BY <3>4, <4>1
            <6>2. 1 - 1 = 0
              OBVIOUS
            <6> QED BY <3>3, <4>1, <6>1, <6>2
          <5>2. <<>> \o seqs[1] = seqs[1]
            BY <1>0, <4>1, ConcatEmptySeq
          <5> QED BY <4>1, <5>1, <5>2
        <4>2. CASE i # 1
          <5>1. i - 1 \in 1..n
            BY <1>0, <4>2
          <5> QED BY <3>4, <4>2, <5>1
        <4> QED BY <4>1, <4>2
      <3>6. IsFlat(g)
        BY <3>5
      <3> QED BY <3>6
    <2>3. IsFlat(flatten)
      <3> HIDE DEF n
      <3> QED BY <2>2
    <2> DEFINE Flat(m) == /\ flatten[m] \in Seq(S) /\ Len(flatten[m]) = off[m]
                          /\ \A i \in 1..m : \A j \in 1..Len(seqs[i]) :
                                /\ off[i - 1] + j \in 1..off[m]
                                /\ flatten[m][off[i - 1] + j] = seqs[i][j]
               Good == {m \in Nat : m \in 1..n => Flat(m)}
    <2> HIDE DEF flatten, n
    <2>4. 0 \in Good
      OBVIOUS
    <2>5. ASSUME NEW m \in Nat, m \in Good PROVE m + 1 \in Good
      <3> SUFFICES ASSUME m + 1 \in 1..n PROVE Flat(m + 1)
        <4> HIDE DEF Flat
        <4> QED OBVIOUS
      <3>1. /\ off[m + 1] = off[m] + Len(seqs[m + 1]) /\ off[m] \in Nat
            /\ seqs[m + 1] \in Seq(S) /\ Len(seqs[m + 1]) \in Nat
        <4>1. m + 1 \in 1..Len(seqs) /\ m \in 0..Len(seqs) /\ (m + 1) - 1 = m
          BY <1>0 DEF n
        <4> QED BY <1>0, <4>1, LenProperties
      <3>2. CASE m = 0
        <4>1. flatten[1] = seqs[1]
          BY <2>3, <3>2
        <4> QED BY <3>1, <3>2, <4>1
      <3>3. CASE m # 0
        <4>1. /\ m \in 1..n /\ flatten[m] \in Seq(S) /\ Len(flatten[m]) = off[m]
              /\ \A i \in 1..m : \A j \in 1..Len(seqs[i]) :
                    /\ off[i - 1] + j \in 1..off[m]
                    /\ flatten[m][off[i - 1] + j] = seqs[i][j]
          <5> HIDE DEF Flat
          <5>1. m \in 1..n
            BY <1>0, <3>3
          <5>2. Flat(m)
            BY <2>5, <5>1
          <5> QED BY <5>1, <5>2 DEF Flat
        <4>2. flatten[m + 1] = flatten[m] \o seqs[m + 1]
          <5>1. m + 1 # 1 /\ (m + 1) - 1 = m
            BY <3>3
          <5>2. flatten[m + 1] = IF m + 1 = 1 THEN seqs[m + 1] ELSE flatten[(m + 1) - 1] \o seqs[m + 1]
            BY <2>3
          <5> QED BY <5>1, <5>2
        <4>3. /\ flatten[m + 1] \in Seq(S) /\ Len(flatten[m + 1]) = off[m + 1]
              /\ \A k \in 1..off[m + 1] :
                    flatten[m + 1][k] = IF k <= off[m] THEN flatten[m][k] ELSE seqs[m + 1][k - off[m]]
          <5>1. PICK a : a = flatten[m]
            OBVIOUS
          <5>2. PICK b : b = seqs[m + 1]
            OBVIOUS
          <5>3. a \in Seq(S) /\ b \in Seq(S)
            BY <3>1, <4>1, <5>1, <5>2
          <5>4. /\ a \o b \in Seq(S) /\ Len(a \o b) = Len(a) + Len(b)
                /\ \A k \in 1..(Len(a) + Len(b)) :
                      (a \o b)[k] = IF k <= Len(a) THEN a[k] ELSE b[k - Len(a)]
            BY <5>3, ConcatProperties
          <5> QED BY <3>1, <4>1, <4>2, <5>1, <5>2, <5>4
        <4>4. ASSUME NEW i \in 1..(m + 1), NEW j \in 1..Len(seqs[i])
              PROVE  /\ off[i - 1] + j \in 1..off[m + 1]
                     /\ flatten[m + 1][off[i - 1] + j] = seqs[i][j]
          <5>1. CASE i = m + 1
            <6>1. off[i - 1] = off[m] /\ off[m] + j \in 1..off[m + 1] /\ ~(off[m] + j <= off[m])
                  /\ (off[m] + j) - off[m] = j
              BY <3>1, <5>1
            <6> QED BY <4>3, <5>1, <6>1
          <5>2. CASE i # m + 1
            <6>1. i \in 1..m
              BY <5>2
            <6>2. /\ off[i - 1] + j \in 1..off[m]
                  /\ flatten[m][off[i - 1] + j] = seqs[i][j]
              BY <4>1, <6>1
            <6>3. off[i - 1] + j \in 1..off[m + 1] /\ off[i - 1] + j <= off[m]
              BY <3>1, <6>2
            <6> QED BY <4>3, <6>2, <6>3
          <5> QED BY <5>1, <5>2
        <4> QED BY <4>3, <4>4
      <3> QED BY <3>2, <3>3
    <2>6. n \in Good
      <3> HIDE DEF Good
      <3> QED BY <1>0, <2>4, <2>5, InductOnNat
    <2>7. n \in 1..n
      BY <1>0, <1>2
    <2> QED BY <2>1, <2>6, <2>7 DEF n
  <1> QED BY <1>1, <1>2

\* The positions of an interval are kept from its first to its last.
LEMMA KeptInterval ==
    ASSUME NEW s, NEW a \in Nat, NEW b \in Nat, a <= b, NEW I, I = (a + 1)..b,
           NEW f, f = [n \in 1..(b - a) |-> s[a + n]]
    PROVE  Kept(s, I) = f
  <1> DEFINE nth(n) == CHOOSE i \in I : Cardinality({j \in I : j <= i}) = n
  <1>1. Cardinality(I) = b - a
    <2>1. Cardinality((a + 1)..b) = IF a + 1 > b THEN 0 ELSE b - (a + 1) + 1
      BY FS_Interval
    <2> QED BY <2>1
  <1>2. ASSUME NEW i \in I PROVE Cardinality({j \in I : j <= i}) = i - a
    <2>1. {j \in I : j <= i} = (a + 1)..i
      OBVIOUS
    <2>2. Cardinality((a + 1)..i) = IF a + 1 > i THEN 0 ELSE i - (a + 1) + 1
      BY FS_Interval
    <2>3. ~(a + 1 > i) /\ i - (a + 1) + 1 = i - a
      OBVIOUS
    <2>4. Cardinality((a + 1)..i) = i - a
      BY <2>2, <2>3
    <2> QED BY ONLY <2>1, <2>4, Zenon
  <1>3. ASSUME NEW n \in 1..(b - a) PROVE nth(n) = a + n
    <2>1. a + n \in I /\ (a + n) - a = n
      OBVIOUS
    <2>2. \A i \in I : i - a = n <=> i = a + n
      OBVIOUS
    <2>3. \A i \in I : Cardinality({j \in I : j <= i}) = n <=> i = a + n
      BY ONLY <1>2, <2>2
    <2> QED BY ONLY <2>1, <2>3
  <1>4. Kept(s, I) = [n \in 1..Cardinality(I) |-> s[nth(n)]]
    BY DEF Kept
  <1> HIDE DEF nth
  <1>5. Kept(s, I) = [n \in 1..(b - a) |-> s[a + n]]
    BY <1>1, <1>3, <1>4
  <1> QED BY <1>5

\* The element kept in a place is the one with as many up to it, and every place has one.
InOrder(kept, s, S) ==
    /\ Cardinality(S) \in Nat /\ DOMAIN kept = 1..Cardinality(S)
    /\ \A i \in S : kept[Cardinality(UpTo(S, i))] = s[i]
    /\ \A n \in 1..Cardinality(S) : \E i \in S : Cardinality(UpTo(S, i)) = n

\* So it is.
LEMMA KeptInOrder ==
    ASSUME NEW s, NEW S, S \subseteq Nat, IsFiniteSet(S), NEW kept, kept = Kept(s, S)
    PROVE  InOrder(kept, s, S)
  <1> DEFINE c == Cardinality(S)
             ranks == {Numbering(S, 0, i) : i \in S}
             nth(n) == CHOOSE i \in S : Cardinality({j \in S : j <= i}) = n
  <1>1. /\ c \in Nat
        /\ \A i \in S : Numbering(S, 0, i) \in 0 + 1 .. 0 + c
        /\ \A i, j \in S : Numbering(S, 0, i) = Numbering(S, 0, j) => i = j
        /\ IsFiniteSet(ranks) /\ Cardinality(ranks) = c
    <2>1. 0 \in Nat
      OBVIOUS
    <2> QED BY ONLY <2>1, S \subseteq Nat, IsFiniteSet(S), Numbered, Zenon
  <1>2. \A i \in S : Cardinality(UpTo(S, i)) \in Nat
    <2> SUFFICES ASSUME NEW i \in S PROVE Cardinality(UpTo(S, i)) \in Nat
      OBVIOUS
    <2>1. UpTo(S, i) \in SUBSET S
      BY DEF UpTo
    <2> QED BY <2>1, FS_Subset, FS_CardinalityType
  <1>3. \A i \in S : Numbering(S, 0, i) = Cardinality(UpTo(S, i))
    BY <1>2 DEF Numbering
  <1> HIDE DEF c
  <1>4. ranks = 1..c
    <2>1. ranks \in SUBSET (1..c)
      BY <1>1
    <2>2. IsFiniteSet(1..c) /\ Cardinality(1..c) = c
      <3>1. 1 \in Int /\ c \in Int
        BY <1>1
      <3>2. IsFiniteSet(1..c) /\ Cardinality(1..c) = IF 1 > c THEN 0 ELSE c - 1 + 1
        BY <3>1, FS_Interval
      <3> QED BY <1>1, <3>2
    <2> HIDE DEF ranks
    <2> QED BY <1>1, <2>1, <2>2, FS_Subset
  <1>5. ASSUME NEW i \in S
        PROVE  /\ Cardinality(UpTo(S, i)) \in 1..c
               /\ nth(Cardinality(UpTo(S, i))) = i
    <2>1. Cardinality(UpTo(S, i)) \in 1..c
      BY <1>1, <1>3
    <2>2. \A j \in S : Cardinality(UpTo(S, j)) = Cardinality(UpTo(S, i)) => j = i
      BY <1>1, <1>3
    <2>3. \A j \in S : UpTo(S, j) = {m \in S : m <= j}
      BY DEF UpTo
    <2>4. \A j \in S : Cardinality({m \in S : m <= j}) = Cardinality(UpTo(S, i)) <=> j = i
      BY <2>2, <2>3
    <2> QED BY <2>1, <2>4
  <1>6. kept = [n \in 1..c |-> s[nth(n)]]
    BY DEF Kept, c
  <1> HIDE DEF nth
  <1>7. \A i \in S : kept[Cardinality(UpTo(S, i))] = s[i]
    BY <1>5, <1>6
  <1>8. \A n \in 1..c : \E i \in S : Cardinality(UpTo(S, i)) = n
    BY <1>3, <1>4
  <1> QED BY <1>1, <1>6, <1>7, <1>8 DEF c, InOrder

\* What is kept of the image is the image of what is kept.
SameKept(kept, own, s, f, U) ==
    /\ DOMAIN kept = DOMAIN own
    /\ \A i \in DOMAIN own : own[i] \in U /\ kept[i] = s[f[own[i]]]

\* If the map keeps the order.
LEMMA KeptImage ==
    ASSUME NEW U, U \subseteq Nat, IsFiniteSet(U), NEW f \in [U -> Nat],
           \A j, k \in U : j < k => f[j] < f[k], NEW M, M = {f[k] : k \in U},
           NEW s, NEW kept, kept = Kept(s, M),
           NEW D, U \subseteq D, NEW t, t = [k \in D |-> k], NEW own, own = Kept(t, U)
    PROVE  SameKept(kept, own, s, f, U)
  <1>1. /\ M \subseteq Nat /\ IsFiniteSet(M) /\ Cardinality(M) = Cardinality(U)
        /\ \A k \in U : Cardinality(UpTo(M, f[k])) = Cardinality(UpTo(U, k))
    BY ImageInOrder
  <1>2. /\ DOMAIN kept = 1..Cardinality(M)
        /\ \A i \in M : kept[Cardinality(UpTo(M, i))] = s[i]
    <2>1. M \subseteq Nat /\ IsFiniteSet(M)
      BY <1>1
    <2>2. InOrder(kept, s, M)
      BY ONLY <2>1, kept = Kept(s, M), KeptInOrder
    <2> QED BY ONLY <2>2 DEF InOrder
  <1>3. /\ DOMAIN own = 1..Cardinality(U)
        /\ \A k \in U : own[Cardinality(UpTo(U, k))] = t[k]
        /\ \A n \in 1..Cardinality(U) : \E k \in U : Cardinality(UpTo(U, k)) = n
    <2>1. InOrder(own, t, U)
      BY ONLY U \subseteq Nat, IsFiniteSet(U), own = Kept(t, U), KeptInOrder
    <2> QED BY ONLY <2>1 DEF InOrder
  <1>4. ASSUME NEW n \in DOMAIN own PROVE own[n] \in U /\ kept[n] = s[f[own[n]]]
    <2>1. PICK k \in U : Cardinality(UpTo(U, k)) = n
      BY <1>3
    <2>2. own[n] = k
      BY <1>3, <2>1
    <2>3. f[k] \in M /\ Cardinality(UpTo(M, f[k])) = n
      BY <1>1, <2>1
    <2> QED BY <1>2, <2>1, <2>2, <2>3
  <1> QED BY <1>1, <1>2, <1>3, <1>4 DEF SameKept

\* The smaller of two numbers.
LEMMA MinOfTwo ==
    ASSUME NEW a \in Nat, NEW b \in Nat
    PROVE  Min({a, b}) = IF a <= b THEN a ELSE b
  <1>1. \A x \in {a, b} : (\A y \in {a, b} : x <= y) <=> x = IF a <= b THEN a ELSE b
    OBVIOUS
  <1>2. (IF a <= b THEN a ELSE b) \in {a, b}
    OBVIOUS
  <1> QED BY <1>1, <1>2 DEF Min

\* Line k stands on page Batch(k), and the pages before it are full.
LEMMA PageOfLine ==
    ASSUME NEW k \in Nat \ {0}, NEW length \in Nat \ {0}, NEW n, n = (k + length - 1) \div length
    PROVE  /\ n \in Nat \ {0} /\ length * (n - 1) \in Nat /\ length * n \in Nat
           /\ length * (n - 1) < k /\ k <= length * n
           /\ length * n = length * (n - 1) + length
  <1>1. n \in Nat /\ k <= length * n
    BY EnoughBatches
  <1>2. length * n < k + length
    BY SMT
  <1>3. n # 0
    BY <1>1, SMT
  <1>4. length * n = length * (n - 1) + length /\ length * n \in Nat /\ length * (n - 1) \in Nat
    BY <1>1, <1>3, SMT
  <1> QED BY <1>1, <1>2, <1>3, <1>4

\* The pages of the form, their lines with the page they stand on.
PageLines(pages) ==
    [n \in DOMAIN pages |-> [i \in DOMAIN pages[n] |->
        [page |-> n, label |-> pages[n][i].label, value |-> pages[n][i].value]]]

Labels == {"omb", "select orbit type", "prose", "total_satellites", "inclination_deg",
           "arg_perigee_deg", "apogee_km", "perigee_km"} \cup BAND_LABELS
FormLine == [label : Labels, value : Nat]
CitedLine == [page : Nat, label : Labels, value : Nat]

\* A page holds the lines from where the page before it ends.
LEMMA PageHolds ==
    ASSUME NEW L \in Seq(FormLine), NEW length \in Nat \ {0},
           NEW n \in Nat \ {0}, length * (n - 1) <= Len(L)
    PROVE  LET page == SubSeq(L, length * (n - 1) + 1, Min({length * n, Len(L)}))
           IN  /\ page \in Seq(FormLine)
               /\ Len(page) = Min({length * n, Len(L)}) - length * (n - 1)
               /\ \A i \in 1..Len(page) : /\ length * (n - 1) + i \in 1..Len(L)
                                         /\ page[i] = L[length * (n - 1) + i]
  <1> DEFINE a == length * (n - 1)
             b == Min({length * n, Len(L)})
  <1>1. a \in Nat /\ length * n \in Nat /\ length * n = a + length
    BY SMT
  <1>2. Len(L) \in Nat
    BY LenProperties
  <1>3. b = IF length * n <= Len(L) THEN length * n ELSE Len(L)
    BY <1>1, <1>2, MinOfTwo
  <1> HIDE DEF a, b
  <1>4. b \in Nat /\ a <= b /\ b <= Len(L)
    BY <1>1, <1>2, <1>3 DEF a
  <1>5. \A i \in (a + 1)..b : L[i] \in FormLine
    BY <1>1, <1>2, <1>4, ElementOfSeq
  <1> DEFINE page == SubSeq(L, a + 1, b)
  <1>6. /\ page \in Seq(FormLine)
        /\ Len(page) = IF a + 1 <= b THEN b - (a + 1) + 1 ELSE 0
        /\ \A i \in 1..(b - (a + 1) + 1) : page[i] = L[(a + 1) + i - 1]
    BY <1>1, <1>4, <1>5, SubSeqProperties
  <1> HIDE DEF page
  <1>7. Len(page) = b - a
    BY <1>1, <1>4, <1>6
  <1>8. ASSUME NEW i \in 1..Len(page) PROVE a + i \in 1..Len(L) /\ page[i] = L[a + i]
    <2>1. /\ i \in 1..(b - (a + 1) + 1) /\ (a + 1) + i - 1 = a + i /\ a + i \in 1..Len(L)
      BY <1>1, <1>2, <1>4, <1>7
    <2> QED BY <1>6, <2>1
  <1> QED BY <1>6, <1>7, <1>8 DEF page, a, b

\* Line k of the form is on its page, in its place.
OnItsPage(T, length, pages, k) ==
    LET n == (k + length - 1) \div length
        i == k - length * (n - 1)
    IN  /\ T[k].page = n /\ n \in Nat /\ n \in DOMAIN pages
        /\ length * (n - 1) \in Nat /\ Len(pages[n]) \in Nat
        /\ i \in 1..Len(pages[n]) /\ pages[n][i].value = T[k].value

\* What is read off the pages is the form, line by line, each citing a page that supports it.
ReadBack(T, L, length, pages) ==
    /\ T \in Seq(CitedLine) /\ Len(T) = Len(L)
    /\ \A k \in 1..Len(L) : /\ T[k].label = L[k].label /\ T[k].value = L[k].value
                           /\ OnItsPage(T, length, pages, k) /\ PageSupports(pages, T[k])

\* However long a page is.
LEMMA LinesOfForm ==
    ASSUME NEW L \in Seq(FormLine), NEW length \in Nat \ {0}, NEW pages, pages = Paginate(L, length)
    PROVE  ReadBack(Lines(pages), L, length, pages)
  <1> DEFINE size == Len(L)
             count == (size + length - 1) \div length
             seqs == PageLines(pages)
             off == [n \in 0..count |-> Min({length * n, size})]
  <1>1. size \in Nat /\ DOMAIN L = 1..size
    BY LenProperties
  <1>2. count \in Nat /\ size <= length * count
    BY <1>1, EnoughBatches
  <1>3. ASSUME NEW n \in 1..count PROVE length * (n - 1) <= size /\ length * (n - 1) \in Nat
    <2>1. count - 1 >= n - 1 /\ length * (n - 1) <= length * (count - 1)
      BY <1>2, SMT
    <2> QED BY <1>1, SMT
  <1>4. ASSUME NEW n \in 1..count
        PROVE  /\ n \in DOMAIN pages
               /\ pages[n] = SubSeq(L, length * (n - 1) + 1, Min({length * n, size}))
    BY DEF Paginate
  <1>5. DOMAIN pages = 1..count
    BY DEF Paginate
  <1> HIDE DEF size, count
  <1>6. ASSUME NEW n \in 1..count
        PROVE  /\ pages[n] \in Seq(FormLine) /\ DOMAIN pages[n] = 1..Len(pages[n])
               /\ Len(pages[n]) = Min({length * n, size}) - length * (n - 1)
               /\ \A i \in 1..Len(pages[n]) :
                     length * (n - 1) + i \in 1..size /\ pages[n][i] = L[length * (n - 1) + i]
    <2>1. n \in Nat \ {0} /\ length * (n - 1) <= Len(L)
      BY <1>2, <1>3 DEF size
    <2>2. /\ pages[n] \in Seq(FormLine)
          /\ Len(pages[n]) = Min({length * n, size}) - length * (n - 1)
          /\ \A i \in 1..Len(pages[n]) :
                length * (n - 1) + i \in 1..size /\ pages[n][i] = L[length * (n - 1) + i]
      <3>1. PICK page : page = SubSeq(L, length * (n - 1) + 1, Min({length * n, Len(L)}))
        OBVIOUS
      <3>2. /\ page \in Seq(FormLine)
            /\ Len(page) = Min({length * n, Len(L)}) - length * (n - 1)
            /\ \A i \in 1..Len(page) : /\ length * (n - 1) + i \in 1..Len(L)
                                      /\ page[i] = L[length * (n - 1) + i]
        BY <2>1, <3>1, PageHolds
      <3>3. pages[n] = page
        BY <1>4, <3>1 DEF size
      <3> QED BY <3>2, <3>3 DEF size
    <2> QED BY <2>2, LenProperties
  <1>7. off \in [0..count -> Nat] /\ off[0] = 0 /\ off[count] = size
    <2>1. ASSUME NEW n \in 0..count PROVE length * n \in Nat /\ Min({length * n, size}) \in Nat
      <3>1. n \in Nat /\ length * n \in Nat
        BY <1>2, SMT
      <3> QED BY <3>1, <1>1, MinOfTwo
    <2>2. length * 0 = 0 /\ Min({0, size}) = 0
      <3>1. 0 <= size
        BY <1>1
      <3> QED BY <3>1, <1>1, MinOfTwo
    <2>3. Min({length * count, size}) = size
      <3>1. length * count \in Nat
        BY <1>2, SMT
      <3> QED BY <3>1, <1>1, <1>2, MinOfTwo
    <2>4. off \in [0..count -> Nat]
      BY <2>1
    <2>5. off[0] = 0
      <3>1. 0 \in 0..count
        BY <1>2
      <3>2. off[0] = Min({length * 0, size})
        BY <3>1
      <3> QED BY <2>2, <3>2
    <2>6. off[count] = size
      BY <1>2, <2>3
    <2> QED BY <2>4, <2>5, <2>6
  <1>8. \A n \in 1..count : off[n - 1] = length * (n - 1)
    <2> SUFFICES ASSUME NEW n \in 1..count PROVE off[n - 1] = length * (n - 1)
      OBVIOUS
    <2>1. n - 1 \in 0..count /\ length * (n - 1) <= size /\ length * (n - 1) \in Nat
      BY <1>2, <1>3
    <2>2. Min({length * (n - 1), size}) = length * (n - 1)
      BY <1>1, <2>1, MinOfTwo
    <2> QED BY <2>1, <2>2
  <1>9. /\ seqs \in Seq(Seq(CitedLine)) /\ Len(seqs) = count
        /\ \A n \in 1..count : Len(seqs[n]) = Len(pages[n])
    <2>1. ASSUME NEW n \in 1..count
          PROVE  seqs[n] \in Seq(CitedLine) /\ Len(seqs[n]) = Len(pages[n])
      <3>1. Len(pages[n]) \in Nat /\ \A i \in 1..Len(pages[n]) : pages[n][i] \in FormLine
        BY <1>6, LenProperties, ElementOfSeq
      <3>2. seqs[n] \in [1..Len(pages[n]) -> CitedLine]
        BY <1>2, <1>5, <1>6, <3>1 DEF PageLines, FormLine, CitedLine
      <3> QED BY <3>1, <3>2, FunctionIsSeq
    <2>2. seqs \in [1..count -> Seq(CitedLine)]
      BY <2>1, <1>5 DEF PageLines
    <2> QED BY <2>1, <2>2, <1>2, FunctionIsSeq
  <1>10. \A n \in 1..count : off[n] = off[n - 1] + Len(seqs[n])
    <2> SUFFICES ASSUME NEW n \in 1..count PROVE off[n] = off[n - 1] + Len(seqs[n])
      OBVIOUS
    <2>0. n \in 0..count
      BY <1>2
    <2>1. off[n] = Min({length * n, size}) /\ off[n] \in Nat
      BY <2>0, <1>7
    <2>2. Len(seqs[n]) = off[n] - length * (n - 1) /\ off[n - 1] = length * (n - 1)
      BY <1>6, <1>8, <1>9, <2>1
    <2>3. length * (n - 1) \in Nat
      BY <1>3
    <2> HIDE DEF off, seqs
    <2> QED BY <2>1, <2>2, <2>3
  <1>11. Lines(pages) = FlattenSeq(seqs)
    BY DEF Lines, PageLines
  <1>12. /\ Lines(pages) \in Seq(CitedLine) /\ Len(Lines(pages)) = size
         /\ \A n \in 1..count : \A i \in 1..Len(seqs[n]) :
               Lines(pages)[off[n - 1] + i] = seqs[n][i]
    <2> HIDE DEF seqs, off
    <2>1. Ends(off, seqs)
      BY <1>7, <1>9, <1>10 DEF Ends
    <2>2. /\ FlattenSeq(seqs) \in Seq(CitedLine) /\ Len(FlattenSeq(seqs)) = off[Len(seqs)]
          /\ \A n \in 1..Len(seqs) : \A i \in 1..Len(seqs[n]) :
                FlattenSeq(seqs)[off[n - 1] + i] = seqs[n][i]
      <3> DEFINE T == CitedLine
      <3>1. seqs \in Seq(Seq(T)) /\ Ends(off, seqs)
        BY <1>9, <2>1
      <3> HIDE DEF T
      <3>2. /\ FlattenSeq(seqs) \in Seq(T) /\ Len(FlattenSeq(seqs)) = off[Len(seqs)]
            /\ \A n \in 1..Len(seqs) : \A i \in 1..Len(seqs[n]) :
                  /\ off[n - 1] + i \in 1..off[Len(seqs)]
                  /\ FlattenSeq(seqs)[off[n - 1] + i] = seqs[n][i]
        BY ONLY <3>1, Flattened
      <3> QED BY <3>2 DEF T
    <2> QED BY <1>7, <1>9, <1>11, <2>2
  <1>13. ASSUME NEW k \in 1..size
         PROVE  /\ Lines(pages)[k].label = L[k].label
                /\ Lines(pages)[k].value = L[k].value
                /\ OnItsPage(Lines(pages), length, pages, k)
                /\ PageSupports(pages, Lines(pages)[k])
    <2>0. PICK n : n = (k + length - 1) \div length
      OBVIOUS
    <2> DEFINE i == k - length * (n - 1)
    <2>1. /\ n \in Nat \ {0} /\ length * (n - 1) \in Nat /\ length * n \in Nat
          /\ length * (n - 1) < k /\ k <= length * n
          /\ length * n = length * (n - 1) + length
      <3>1. k \in Nat \ {0}
        BY <1>1
      <3> QED BY <2>0, <3>1, PageOfLine
    <2>2. n \in 1..count
      <3>1. k + length - 1 <= size + length - 1
        BY <1>1
      <3>2. n <= count
        BY <1>1, <2>0, <3>1, SMT DEF count
      <3> QED BY <1>2, <2>1, <3>2
    <2>3. i \in 1..Len(pages[n]) /\ length * (n - 1) + i = k
      <3>1. k <= Min({length * n, size})
        BY <1>1, <2>1, MinOfTwo
      <3>2. Min({length * n, size}) \in Nat
        BY <1>1, <2>1, MinOfTwo
      <3>3. Len(pages[n]) = Min({length * n, size}) - length * (n - 1)
        BY <1>6, <2>2
      <3> QED BY <1>1, <2>1, <3>1, <3>2, <3>3
    <2>4. pages[n][i] = L[k] /\ n \in DOMAIN pages /\ i \in DOMAIN pages[n]
      BY <1>5, <1>6, <2>2, <2>3
    <2>5. seqs[n][i] = [page |-> n, label |-> L[k].label, value |-> L[k].value]
      BY <2>4 DEF PageLines
    <2>6. Lines(pages)[k] = seqs[n][i]
      <3> HIDE DEF seqs, off, i
      <3> QED BY <1>8, <1>9, <1>12, <2>2, <2>3
    <2>7. PageSupports(pages, [page |-> n, label |-> L[k].label, value |-> L[k].value])
      BY <2>4 DEF PageSupports
    <2>8. OnItsPage(Lines(pages), length, pages, k)
      <3>1. Lines(pages)[k].page = n /\ Lines(pages)[k].value = L[k].value
        BY <2>5, <2>6
      <3>2. Len(pages[n]) \in Nat
        BY <1>6, <2>2, LenProperties
      <3>3. pages[n][k - length * (n - 1)] = L[k] /\ k - length * (n - 1) \in 1..Len(pages[n])
        BY <2>3, <2>4
      <3> QED BY ONLY <2>0, <2>1, <2>4, <3>1, <3>2, <3>3 DEF OnItsPage
    <2> QED BY <2>5, <2>6, <2>7, <2>8
  <1> QED BY <1>12, <1>13 DEF size, ReadBack

\* A band on the form, and a line of the frequency table.
BandForm == [service : Seq(Nat) \ {<<>>}, freq_low_mhz : Nat, freq_high_mhz : Nat, direction : Nat]
TableLine == [label : BAND_LABELS, value : Nat]

\* The lines of a band: its service label, two frequencies and a direction.
BandInLines(lines, b) ==
    /\ lines \in Seq(TableLine) /\ Len(b.service) \in Nat \ {0}
    /\ Len(lines) = Len(b.service) + 3
    /\ \A j \in 1..Len(b.service) : lines[j] = Of("service", b.service[j])
    /\ lines[Len(b.service) + 1] = Of("low", b.freq_low_mhz)
    /\ lines[Len(b.service) + 2] = Of("high", b.freq_high_mhz)
    /\ lines[Len(b.service) + 3] = Of("direction", b.direction)

\* So the filing tool prints it.
LEMMA LinesOfBand ==
    ASSUME NEW b \in BandForm, NEW lines, lines = BandLines(b)
    PROVE  BandInLines(lines, b)
  <1> DEFINE m == Len(b.service)
             label == [i \in DOMAIN b.service |-> Of("service", b.service[i])]
             cells == <<Of("low", b.freq_low_mhz), Of("high", b.freq_high_mhz),
                        Of("direction", b.direction)>>
  <1>1. /\ b.service \in Seq(Nat) /\ b.service # <<>> /\ b.freq_low_mhz \in Nat
        /\ b.freq_high_mhz \in Nat /\ b.direction \in Nat
    BY DEF BandForm
  <1>2. m \in Nat \ {0} /\ DOMAIN b.service = 1..m /\ \A i \in 1..m : b.service[i] \in Nat
    BY <1>1, LenProperties, ElementOfSeq, EmptySeq
  <1>3. \A v \in Nat : /\ Of("service", v) \in TableLine /\ Of("low", v) \in TableLine
                       /\ Of("high", v) \in TableLine /\ Of("direction", v) \in TableLine
    BY DEF Of, TableLine, BAND_LABELS
  <1>4. label \in Seq(TableLine) /\ Len(label) = m /\ \A i \in 1..m : label[i] = Of("service", b.service[i])
    <2>1. label \in [1..m -> TableLine]
      BY <1>2, <1>3
    <2>2. m \in Nat
      BY <1>2
    <2>3. \A i \in 1..m : label[i] = Of("service", b.service[i])
      BY <1>2
    <2> HIDE DEF label, m
    <2> QED BY <2>1, <2>2, <2>3, FunctionIsSeq
  <1>5. /\ cells \in Seq(TableLine) /\ Len(cells) = 3
        /\ cells[1] = Of("low", b.freq_low_mhz) /\ cells[2] = Of("high", b.freq_high_mhz)
        /\ cells[3] = Of("direction", b.direction)
    <2>1. cells \in TableLine \X TableLine \X TableLine
      BY <1>1, <1>3
    <2>2. cells \in [1..3 -> TableLine]
      BY <2>1
    <2>3. cells \in Seq(TableLine) /\ Len(cells) = 3
      <3> HIDE DEF cells
      <3> QED BY <2>2, FunctionIsSeq
    <2> QED BY <2>3
  <1>6. lines = label \o cells
    BY DEF BandLines
  <1> HIDE DEF label, cells, m
  <1>7. /\ label \o cells \in Seq(TableLine) /\ Len(label \o cells) = Len(label) + Len(cells)
        /\ \A i \in 1..(Len(label) + Len(cells)) :
              (label \o cells)[i] = IF i <= Len(label) THEN label[i] ELSE cells[i - Len(label)]
    BY <1>4, <1>5, ConcatProperties
  <1>8. /\ lines \in Seq(TableLine) /\ Len(lines) = m + 3
        /\ \A i \in 1..(m + 3) : lines[i] = IF i <= m THEN label[i] ELSE cells[i - m]
    BY <1>4, <1>5, <1>6, <1>7
  <1>9. \A i \in 1..m : i \in 1..(m + 3) /\ i <= m
    BY <1>2
  <1>10. /\ m + 1 \in 1..(m + 3) /\ ~(m + 1 <= m) /\ (m + 1) - m = 1
         /\ m + 2 \in 1..(m + 3) /\ ~(m + 2 <= m) /\ (m + 2) - m = 2
         /\ m + 3 \in 1..(m + 3) /\ ~(m + 3 <= m) /\ (m + 3) - m = 3
    BY <1>2
  <1>11. \A i \in 1..m : lines[i] = Of("service", b.service[i])
    BY ONLY <1>4, <1>8, <1>9
  <1>12. lines[m + 1] = cells[1] /\ lines[m + 2] = cells[2] /\ lines[m + 3] = cells[3]
    BY ONLY <1>8, <1>10
  <1> QED BY <1>2, <1>5, <1>8, <1>11, <1>12 DEF BandInLines, m

\* The lines of the frequency table: its head, and each band from where the one before it ends.
TableInLines(R, bands, off) ==
    /\ R \in Seq(TableLine) /\ off \in [0..Len(bands) -> Nat] /\ off[0] = 0
    /\ Len(R) = 1 + off[Len(bands)] /\ R[1] = Of("mode", 0)
    /\ \A k \in 1..Len(bands) :
          /\ BandInLines(BandLines(bands[k]), bands[k])
          /\ off[k] = off[k - 1] + Len(BandLines(bands[k]))
          /\ off[k] = Len(FlattenSeq([i \in 1..k |-> BandLines(bands[i])]))
          /\ \A j \in 1..Len(BandLines(bands[k])) :
                /\ 1 + off[k - 1] + j \in 1..Len(R)
                /\ R[1 + off[k - 1] + j] = BandLines(bands[k])[j]

\* However many bands there are.
LEMMA LinesOfTable ==
    ASSUME NEW bands \in Seq(BandForm), NEW R, R = BandTable(bands)
    PROVE  \E off : TableInLines(R, bands, off)
  <1> DEFINE n == Len(bands)
             seqs == [i \in DOMAIN bands |-> BandLines(bands[i])]
             step == [p \in (1..n) \X Nat |-> p[2] + Len(seqs[p[1]])]
  <1>1. n \in Nat /\ DOMAIN bands = 1..n /\ \A i \in 1..n : bands[i] \in BandForm
    BY LenProperties, ElementOfSeq
  <1>2. ASSUME NEW i \in 1..n
        PROVE  /\ BandInLines(BandLines(bands[i]), bands[i])
               /\ BandLines(bands[i]) \in Seq(TableLine) /\ Len(BandLines(bands[i])) \in Nat
    <2>1. PICK lines : lines = BandLines(bands[i])
      OBVIOUS
    <2>2. BandInLines(lines, bands[i])
      BY <1>1, <2>1, LinesOfBand
    <2>3. lines \in Seq(TableLine)
      BY <2>2 DEF BandInLines
    <2>4. Len(lines) \in Nat
      BY <2>3, LenProperties
    <2> QED BY <2>1, <2>2, <2>3, <2>4
  <1>3. seqs \in [1..n -> Seq(TableLine)] /\ \A i \in 1..n : seqs[i] = BandLines(bands[i])
    BY <1>1, <1>2
  <1>4. seqs \in Seq(Seq(TableLine)) /\ Len(seqs) = n
    <2> HIDE DEF seqs, n
    <2> QED BY <1>1, <1>3, FunctionIsSeq
  <1>5. step \in [(1..n) \X Nat -> Nat]
    <2>1. ASSUME NEW p \in (1..n) \X Nat PROVE p[2] + Len(seqs[p[1]]) \in Nat
      <3>1. p[1] \in 1..n /\ p[2] \in Nat
        OBVIOUS
      <3>2. Len(seqs[p[1]]) \in Nat
        BY <1>2, <1>3, <3>1
      <3> HIDE DEF seqs
      <3> QED BY <3>1, <3>2
    <2> QED BY <2>1
  <1>6. PICK off \in [0..n -> Nat] : Solves(off, n, 0, step)
    <2>1. 0 \in Nat
      OBVIOUS
    <2> HIDE DEF step, n
    <2> QED BY ONLY <1>1, <1>5, <2>1, Recurrence
  <1>7. off[0] = 0 /\ \A i \in 1..n : off[i] = off[i - 1] + Len(seqs[i])
    <2>1. ASSUME NEW i \in 1..n PROVE off[i] = off[i - 1] + Len(seqs[i])
      <3>1. off[i] = step[<<i, off[i - 1]>>]
        BY <1>6 DEF Solves
      <3>2. i - 1 \in 0..n
        BY <1>1
      <3>3. off[i - 1] \in Nat /\ <<i, off[i - 1]>> \in (1..n) \X Nat
        <4> HIDE DEF n, step
        <4> QED BY <1>6, <3>2
      <3> QED BY <3>1, <3>3
    <2>2. off[0] = 0
      BY <1>6 DEF Solves
    <2> QED BY <2>1, <2>2
  <1>8. /\ FlattenSeq(seqs) \in Seq(TableLine) /\ Len(FlattenSeq(seqs)) = off[n]
        /\ \A i \in 1..n : \A j \in 1..Len(seqs[i]) :
              /\ off[i - 1] + j \in 1..off[n]
              /\ FlattenSeq(seqs)[off[i - 1] + j] = seqs[i][j]
    <2> DEFINE S == TableLine
    <2>1. seqs \in Seq(Seq(S)) /\ Ends(off, seqs)
      <3> HIDE DEF seqs, n
      <3> QED BY <1>4, <1>6, <1>7 DEF Ends
    <2> HIDE DEF S, seqs
    <2>2. /\ FlattenSeq(seqs) \in Seq(S) /\ Len(FlattenSeq(seqs)) = off[Len(seqs)]
          /\ \A i \in 1..Len(seqs) : \A j \in 1..Len(seqs[i]) :
                /\ off[i - 1] + j \in 1..off[Len(seqs)]
                /\ FlattenSeq(seqs)[off[i - 1] + j] = seqs[i][j]
      BY ONLY <2>1, Flattened, SMTT(60)
    <2> QED BY <1>4, <2>2 DEF S
  <1>9. ASSUME NEW k \in 1..n
        PROVE  off[k] = Len(FlattenSeq([i \in 1..k |-> BandLines(bands[i])]))
    <2> DEFINE front == [i \in 1..k |-> BandLines(bands[i])]
               upto == [i \in 0..k |-> off[i]]
               S == TableLine
    <2>1. k \in Nat /\ 1..k \subseteq 1..n /\ 0..k \subseteq 0..n
      BY <1>1
    <2>2. front \in [1..k -> Seq(S)] /\ \A i \in 1..k : front[i] = seqs[i]
      BY <1>2, <1>3, <2>1
    <2>3. upto \in [0..k -> Nat] /\ upto[0] = 0 /\ upto[k] = off[k]
      <3> HIDE DEF n
      <3> QED BY <1>6, <1>7, <2>1
    <2>4. \A i \in 1..k : upto[i] = upto[i - 1] + Len(front[i])
      <3> SUFFICES ASSUME NEW i \in 1..k PROVE upto[i] = upto[i - 1] + Len(front[i])
        OBVIOUS
      <3>1. i \in 0..k /\ i - 1 \in 0..k /\ i \in 1..n
        BY <2>1
      <3>2. upto[i] = off[i] /\ upto[i - 1] = off[i - 1]
        BY <3>1
      <3>3. front[i] = seqs[i]
        BY <2>2
      <3> HIDE DEF upto, front, seqs, n
      <3> QED BY <1>7, <3>1, <3>2, <3>3
    <2> HIDE DEF front, upto, S
    <2>5. front \in Seq(Seq(S)) /\ Len(front) = k
      BY <2>1, <2>2, FunctionIsSeq
    <2>6. Ends(upto, front)
      BY <2>3, <2>4, <2>5 DEF Ends
    <2>7. Len(FlattenSeq(front)) = upto[Len(front)]
      BY ONLY <2>5, <2>6, Flattened
    <2> QED BY <2>3, <2>5, <2>7 DEF front
  <1> DEFINE flat == FlattenSeq(seqs)
             head == <<Of("mode", 0)>>
  <1>10. head \in Seq(TableLine) /\ Len(head) = 1 /\ head[1] = Of("mode", 0)
    <2>1. Of("mode", 0) \in TableLine
      BY DEF Of, TableLine, BAND_LABELS
    <2> QED BY <2>1
  <1>11. R = head \o flat
    BY DEF BandTable
  <1> HIDE DEF head, flat, seqs, step, n
  <1>12. flat \in Seq(TableLine) /\ Len(flat) = off[n] /\ off[n] \in Nat
    BY <1>1, <1>6, <1>8 DEF flat
  <1>13. /\ R \in Seq(TableLine) /\ Len(R) = 1 + off[n]
         /\ \A i \in 1..(1 + off[n]) : R[i] = IF i <= 1 THEN head[i] ELSE flat[i - 1]
    <2>1. /\ head \o flat \in Seq(TableLine) /\ Len(head \o flat) = Len(head) + Len(flat)
          /\ \A i \in 1..(Len(head) + Len(flat)) :
                (head \o flat)[i] = IF i <= Len(head) THEN head[i] ELSE flat[i - Len(head)]
      BY <1>10, <1>12, ConcatProperties
    <2> QED BY <1>10, <1>11, <1>12, <2>1
  <1>14. R[1] = Of("mode", 0)
    <2>1. 1 \in 1..(1 + off[n])
      BY <1>12
    <2> QED BY <1>10, <1>13, <2>1
  <1>15. ASSUME NEW k \in 1..n, NEW j \in 1..Len(BandLines(bands[k]))
         PROVE  /\ 1 + off[k - 1] + j \in 1..Len(R)
                /\ R[1 + off[k - 1] + j] = BandLines(bands[k])[j]
    <2>1. PICK x : x = off[k - 1] + j
      OBVIOUS
    <2>2. x \in 1..off[n] /\ flat[x] = BandLines(bands[k])[j]
      BY <1>3, <1>8, <2>1 DEF flat
    <2>3. off[k - 1] \in Nat /\ j \in Nat
      <3>1. k - 1 \in 0..n
        BY <1>1
      <3>2. Len(BandLines(bands[k])) \in Nat
        BY <1>2
      <3> QED BY <1>6, <3>1, <3>2
    <2>4. 1 + off[k - 1] + j = 1 + x /\ 1 + x \in 1..(1 + off[n]) /\ ~(1 + x <= 1) /\ (1 + x) - 1 = x
      <3>1. PICK o : o = off[k - 1]
        OBVIOUS
      <3>2. PICK size : size = off[n]
        OBVIOUS
      <3>3. o \in Nat /\ j \in Nat /\ x = o + j /\ x \in 1..size /\ size \in Nat
        BY <1>12, <2>1, <2>2, <2>3, <3>1, <3>2
      <3>4. 1 + o + j = 1 + x /\ 1 + x \in 1..(1 + size) /\ ~(1 + x <= 1) /\ (1 + x) - 1 = x
        BY ONLY <3>3
      <3> QED BY ONLY <3>1, <3>2, <3>4
    <2> QED BY ONLY <1>13, <2>2, <2>4
  <1>16. \A k \in 1..n : off[k] = off[k - 1] + Len(BandLines(bands[k]))
    BY <1>3, <1>7
  <1>17. TableInLines(R, bands, off)
    BY <1>2, <1>6, <1>7, <1>9, <1>13, <1>14, <1>15, <1>16 DEF TableInLines, n
  <1> QED BY <1>17

\* The form of an issue is well filled in.
WellFiled(filed) ==
    /\ filed.report \in BOOLEAN /\ filed.satellites \in Nat
    /\ filed.planes \in Seq(Nat \X Nat \X Nat \X Nat) /\ filed.bands \in Seq(BandForm)

\* The form has three lines of its own, four for each plane, and R for the frequency table.
LaidOut(L, filed, P, R) ==
    /\ P \in Nat /\ R \in Nat
    /\ L \in Seq(FormLine) /\ Len(L) = 3 + 4 * P + R
    /\ L[1].label = "omb" /\ L[2].label \in {"select orbit type", "prose"}
    /\ L[2].label = "select orbit type" => filed.report = TRUE
    /\ L[3] = Of("total_satellites", filed.satellites)
    /\ \A q \in 1..P : \A k \in 1..4 :
          L[3 + 4 * (q - 1) + k] = PlaneLines(filed.planes[q])[k]
    /\ BandTable(filed.bands) \in Seq(TableLine)
    /\ \A i \in 1..R : /\ BandTable(filed.bands)[i] \in TableLine
                       /\ L[3 + 4 * P + i] = BandTable(filed.bands)[i]

\* So the filing tool lays it out.
LEMMA LinesOfFiled ==
    ASSUME NEW filed, WellFiled(filed), NEW L, L = FormLines(filed),
           NEW P, P = Len(filed.planes), NEW R, R = Len(BandTable(filed.bands))
    PROVE  LaidOut(L, filed, P, R)
  <1> DEFINE head == <<Of("omb", 0), Of(IF filed.report THEN "select orbit type" ELSE "prose", 0),
                       Of("total_satellites", filed.satellites)>>
             seqs == [i \in DOMAIN filed.planes |-> PlaneLines(filed.planes[i])]
             tail == BandTable(filed.bands)
             off == [n \in 0..P |-> 4 * n]
  <1>1. /\ P \in Nat /\ DOMAIN filed.planes = 1..P
        /\ \A q \in 1..P : filed.planes[q] \in Nat \X Nat \X Nat \X Nat
    BY LenProperties, ElementOfSeq DEF WellFiled
  <1>2. head \in Seq(FormLine) /\ Len(head) = 3
    <2>1. Of("omb", 0) \in FormLine /\ Of("total_satellites", filed.satellites) \in FormLine
      BY DEF Of, FormLine, Labels, WellFiled
    <2>2. Of(IF filed.report THEN "select orbit type" ELSE "prose", 0) \in FormLine
      BY DEF Of, FormLine, Labels, WellFiled
    <2>3. head \in FormLine \X FormLine \X FormLine
      BY <2>1, <2>2
    <2> HIDE DEF head
    <2>4. head \in [1..3 -> FormLine]
      BY <2>3
    <2> QED BY <2>4, FunctionIsSeq
  <1>3. tail \in Seq(TableLine) /\ tail \in Seq(FormLine) /\ Len(tail) = R /\ R \in Nat
        /\ \A i \in 1..R : tail[i] \in TableLine
    <2>1. PICK table : table = BandTable(filed.bands)
      OBVIOUS
    <2>2. filed.bands \in Seq(BandForm)
      BY DEF WellFiled
    <2>3. PICK ends : TableInLines(table, filed.bands, ends)
      BY ONLY <2>1, <2>2, LinesOfTable
    <2>4. table \in Seq(TableLine)
      BY ONLY <2>3 DEF TableInLines
    <2>5. Len(table) \in Nat /\ table \in [1..Len(table) -> TableLine]
      BY ONLY <2>4, LenProperties
    <2>6. TableLine \subseteq FormLine
      BY DEF TableLine, FormLine, Labels
    <2>7. table \in [1..Len(table) -> FormLine]
      BY ONLY <2>5, <2>6
    <2>8. table \in Seq(FormLine)
      BY ONLY <2>5, <2>7, FunctionIsSeq
    <2> QED BY <2>1, <2>4, <2>5, <2>8
  <1>0. P \in Nat /\ R \in Nat
    BY <1>1, <1>3
  <1>4. \A q \in 1..P : /\ PlaneLines(filed.planes[q]) \in Seq(FormLine)
                        /\ Len(PlaneLines(filed.planes[q])) = 4
    <2> SUFFICES ASSUME NEW p \in Nat \X Nat \X Nat \X Nat
                 PROVE  PlaneLines(p) \in Seq(FormLine) /\ Len(PlaneLines(p)) = 4
      BY <1>1
    <2>1. p[1] \in Nat /\ p[2] \in Nat /\ p[3] \in Nat /\ p[4] \in Nat
      OBVIOUS
    <2>2. PlaneLines(p) \in FormLine \X FormLine \X FormLine \X FormLine
      <3>1. /\ Of("inclination_deg", p[1]) \in FormLine /\ Of("arg_perigee_deg", p[2]) \in FormLine
            /\ Of("apogee_km", p[3]) \in FormLine /\ Of("perigee_km", p[4]) \in FormLine
        BY <2>1 DEF Of, FormLine, Labels
      <3> QED BY <3>1 DEF PlaneLines
    <2>3. PlaneLines(p) \in [1..4 -> FormLine]
      BY <2>2
    <2>4. PICK f : f = PlaneLines(p)
      OBVIOUS
    <2>5. f \in [1..4 -> FormLine] /\ 4 \in Nat
      BY <2>3, <2>4
    <2>6. f \in Seq(FormLine) /\ Len(f) = 4
      BY ONLY <2>5, FunctionIsSeq
    <2> QED BY <2>4, <2>6
  <1>5. seqs \in Seq(Seq(FormLine)) /\ Len(seqs) = P /\ \A q \in 1..P : Len(seqs[q]) = 4
    <2>1. seqs \in [1..P -> Seq(FormLine)]
      BY <1>1, <1>4
    <2> QED BY <1>1, <1>4, <2>1, FunctionIsSeq
  <1>6. Ends(off, seqs)
    <2>1. off \in [0..P -> Nat] /\ off[0] = 0
      BY <1>1
    <2>2. \A n \in 1..P : off[n] = off[n - 1] + 4
      BY <1>1
    <2> HIDE DEF off, seqs
    <2> QED BY <1>5, <2>1, <2>2 DEF Ends
  <1>7. /\ FlattenSeq(seqs) \in Seq(FormLine) /\ Len(FlattenSeq(seqs)) = 4 * P
        /\ \A q \in 1..P : \A k \in 1..4 :
              FlattenSeq(seqs)[4 * (q - 1) + k] = PlaneLines(filed.planes[q])[k]
    <2> DEFINE T == FormLine
    <2>1. seqs \in Seq(Seq(T)) /\ Ends(off, seqs)
      BY <1>5, <1>6
    <2>2. off[P] = 4 * P
      BY <1>0
    <2>4. \A q \in 1..P : off[q - 1] = 4 * (q - 1)
      BY <1>0
    <2>5. \A q \in 1..P : seqs[q] = PlaneLines(filed.planes[q])
      BY <1>1
    <2> HIDE DEF T, off, seqs
    <2>3. /\ FlattenSeq(seqs) \in Seq(T) /\ Len(FlattenSeq(seqs)) = off[Len(seqs)]
          /\ \A n \in 1..Len(seqs) : \A i \in 1..Len(seqs[n]) :
                /\ off[n - 1] + i \in 1..off[Len(seqs)]
                /\ FlattenSeq(seqs)[off[n - 1] + i] = seqs[n][i]
      BY ONLY <2>1, Flattened
    <2>6. ASSUME NEW q \in 1..P, NEW k \in 1..4
          PROVE  FlattenSeq(seqs)[4 * (q - 1) + k] = PlaneLines(filed.planes[q])[k]
      <3>1. q \in 1..Len(seqs) /\ k \in 1..Len(seqs[q])
        BY <1>5
      <3>2. FlattenSeq(seqs)[off[q - 1] + k] = seqs[q][k]
        BY <2>3, <3>1
      <3> QED BY <2>4, <2>5, <3>2
    <2>7. FlattenSeq(seqs) \in Seq(FormLine) /\ Len(FlattenSeq(seqs)) = 4 * P
      BY <1>5, <2>2, <2>3 DEF T
    <2> QED BY <2>6, <2>7
  <1>8. L = (head \o FlattenSeq(seqs)) \o tail
    BY DEF FormLines
  <1>9. /\ head[1].label = "omb" /\ head[2].label \in {"select orbit type", "prose"}
        /\ head[2].label = "select orbit type" => filed.report = TRUE
        /\ head[3] = Of("total_satellites", filed.satellites)
    <2>1. filed.report \in BOOLEAN
      BY DEF WellFiled
    <2> QED BY <2>1 DEF Of
  <1> DEFINE flat == FlattenSeq(seqs)
  <1> HIDE DEF head, seqs, tail, off, flat
  <1>10. /\ head \o flat \in Seq(FormLine) /\ Len(head \o flat) = 3 + 4 * P
         /\ \A i \in 1..(3 + 4 * P) :
               (head \o flat)[i] = IF i <= 3 THEN head[i] ELSE flat[i - 3]
    <2>1. flat \in Seq(FormLine) /\ Len(flat) = 4 * P
      BY <1>7 DEF flat
    <2>2. /\ head \o flat \in Seq(FormLine) /\ Len(head \o flat) = Len(head) + Len(flat)
          /\ \A i \in 1..(Len(head) + Len(flat)) :
                (head \o flat)[i] = IF i <= Len(head) THEN head[i] ELSE flat[i - Len(head)]
      BY <1>2, <2>1, ConcatProperties
    <2> QED BY <1>2, <2>1, <2>2
  <1>11. /\ L \in Seq(FormLine) /\ Len(L) = (3 + 4 * P) + R
         /\ \A i \in 1..((3 + 4 * P) + R) :
               L[i] = IF i <= 3 + 4 * P THEN (head \o flat)[i] ELSE tail[i - (3 + 4 * P)]
    <2>1. PICK front : front = head \o flat
      OBVIOUS
    <2>2. front \in Seq(FormLine) /\ Len(front) = 3 + 4 * P
      BY <1>10, <2>1
    <2>3. /\ front \o tail \in Seq(FormLine) /\ Len(front \o tail) = Len(front) + Len(tail)
          /\ \A i \in 1..(Len(front) + Len(tail)) :
                (front \o tail)[i] = IF i <= Len(front) THEN front[i] ELSE tail[i - Len(front)]
      BY <1>3, <2>2, ConcatProperties
    <2>4. L = front \o tail
      BY <1>8, <2>1 DEF flat
    <2> QED BY <1>3, <2>1, <2>2, <2>3, <2>4
  <1>12. L[1] = head[1] /\ L[2] = head[2] /\ L[3] = head[3]
    <2>1. \A i \in 1..3 : i \in 1..((3 + 4 * P) + R) /\ i \in 1..(3 + 4 * P) /\ i <= 3 + 4 * P /\ i <= 3
      BY ONLY <1>0
    <2>2. \A i \in 1..3 : L[i] = head[i]
      BY <1>10, <1>11, <2>1
    <2> QED BY <2>2
  <1>13. ASSUME NEW q \in 1..P, NEW k \in 1..4
         PROVE  L[3 + 4 * (q - 1) + k] = PlaneLines(filed.planes[q])[k]
    <2> DEFINE i == 3 + 4 * (q - 1) + k
    <2>1. i \in 1..(3 + 4 * P) /\ ~(i <= 3) /\ i - 3 = 4 * (q - 1) + k /\ i <= 3 + 4 * P
          /\ i \in 1..((3 + 4 * P) + R)
      <3>1. q \in 1..P /\ k \in 1..4
        OBVIOUS
      <3> QED BY ONLY <1>0, <3>1
    <2> HIDE DEF i
    <2>2. L[i] = flat[4 * (q - 1) + k]
      BY <1>10, <1>11, <2>1
    <2> QED BY <1>7, <2>2 DEF i, flat
  <1>14. ASSUME NEW i \in 1..R PROVE L[3 + 4 * P + i] = tail[i]
    <2>1. /\ 3 + 4 * P + i \in 1..((3 + 4 * P) + R) /\ ~(3 + 4 * P + i <= 3 + 4 * P)
          /\ (3 + 4 * P + i) - (3 + 4 * P) = i
      <3>1. i \in 1..R
        OBVIOUS
      <3> QED BY ONLY <1>0, <3>1
    <2> QED BY <1>11, <2>1
  <1> QED BY <1>0, <1>3, <1>9, <1>11, <1>12, <1>13, <1>14 DEF LaidOut, tail

\* A value with its page, a plane under construction, and what has been read so far.
Cite == [value : Nat, page : Nat]
PartialPlanes == UNION {[D -> Cite] : D \in SUBSET Labels}
Readings == [done : Seq(PartialPlanes), current : PartialPlanes]

\* The readings of ParsePlanes, line by line.
IsReading(T, read) ==
    read = [n \in 0..Len(T) |-> IF n = 0 THEN [done |-> <<>>, current |-> NoPlane]
                               ELSE ReadLine(read[n - 1], T[n])]

\* A line is added to a plane.
LEMMA PlaneWithLine ==
    ASSUME NEW p \in PartialPlanes, NEW l \in CitedLine
    PROVE  PlaneWith(p, l) \in PartialPlanes
  <1>1. PICK D \in SUBSET Labels : p \in [D -> Cite]
    BY DEF PartialPlanes
  <1>2. l.label \in Labels /\ [value |-> l.value, page |-> l.page] \in Cite
    BY DEF CitedLine, Cite
  <1>3. PlaneWith(p, l) \in [D \cup {l.label} -> Cite]
    BY <1>1, <1>2 DEF PlaneWith
  <1>4. D \cup {l.label} \in SUBSET Labels
    BY <1>2
  <1> QED BY <1>3, <1>4 DEF PartialPlanes

\* Nothing read is the plane without values.
LEMMA NoPlaneIsPartial == NoPlane \in PartialPlanes
  <1>1. NoPlane \in [{} -> Cite]
    BY DEF NoPlane
  <1> QED BY <1>1 DEF PartialPlanes

\* Any lines can be read.
LEMMA ReadingIsThere ==
    ASSUME NEW T \in Seq(CitedLine)
    PROVE  \E read : IsReading(T, read)
  <1> DEFINE n == Len(T)
             start == [done |-> <<>>, current |-> NoPlane]
             step == [p \in (1..n) \X Readings |-> ReadLine(p[2], T[p[1]])]
  <1>1. n \in Nat /\ \A i \in 1..n : T[i] \in CitedLine
    BY LenProperties, ElementOfSeq
  <1>2. start \in Readings
    BY NoPlaneIsPartial, EmptySeq DEF Readings
  <1>3. ASSUME NEW acc \in Readings, NEW l \in CitedLine PROVE ReadLine(acc, l) \in Readings
    <2>1. acc.done \in Seq(PartialPlanes) /\ acc.current \in PartialPlanes
      BY DEF Readings
    <2>2. Append(acc.done, acc.current) \in Seq(PartialPlanes)
      BY <2>1, AppendProperties
    <2>3. PlaneWith(NoPlane, l) \in PartialPlanes /\ PlaneWith(acc.current, l) \in PartialPlanes
      BY <2>1, NoPlaneIsPartial, PlaneWithLine
    <2> QED BY <2>1, <2>2, <2>3 DEF ReadLine, Readings
  <1>4. step \in [(1..n) \X Readings -> Readings]
    BY <1>1, <1>3
  <1>5. PICK f \in [0..n -> Readings] : Solves(f, n, start, step)
    <2> HIDE DEF n, start, step
    <2> QED BY <1>1, <1>2, <1>4, Recurrence
  <1>6. ASSUME NEW i \in 0..n
        PROVE  f[i] = IF i = 0 THEN start ELSE ReadLine(f[i - 1], T[i])
    <2>1. CASE i = 0
      BY <1>5, <2>1 DEF Solves
    <2>2. CASE i # 0
      <3>1. i \in 1..n /\ i - 1 \in 0..n
        <4> HIDE DEF n
        <4> QED BY <1>1, <2>2
      <3>2. f[i - 1] \in Readings /\ <<i, f[i - 1]>> \in (1..n) \X Readings
        <4> HIDE DEF n
        <4> QED BY <1>5, <3>1
      <3>3. f[i] = step[<<i, f[i - 1]>>]
        <4> HIDE DEF n, step
        <4> QED BY <1>5, <3>1 DEF Solves
      <3> QED BY <2>2, <3>2, <3>3
    <2> QED BY <2>1, <2>2
  <1>7. f = [i \in 0..n |-> f[i]]
    OBVIOUS
  <1>8. f = [i \in 0..n |-> IF i = 0 THEN start ELSE ReadLine(f[i - 1], T[i])]
    <2> HIDE DEF n, start, step
    <2> QED BY <1>6, <1>7
  <1> QED BY <1>8 DEF IsReading

-----------------------------------------------------------------------------
\* The lines of a form with P planes and R lines of the frequency table.
Layout(T, P, R) ==
    /\ T \in Seq(CitedLine) /\ P \in Nat /\ R \in Nat /\ Len(T) = 3 + 4 * P + R
    /\ \A i \in 1..3 : T[i].label \notin ORBIT_FIELDS
    /\ \A q \in 1..P : /\ T[3 + 4 * (q - 1) + 1].label = "inclination_deg"
                       /\ T[3 + 4 * (q - 1) + 2].label = "arg_perigee_deg"
                       /\ T[3 + 4 * (q - 1) + 3].label = "apogee_km"
                       /\ T[3 + 4 * (q - 1) + 4].label = "perigee_km"
    /\ \A i \in 1..R : T[3 + 4 * P + i].label \in BAND_LABELS

\* The plane that four lines from b + 1 on give, each value with its own page.
Cited(l) == [value |-> l.value, page |-> l.page]
PlaneFrom(T, b) == [inclination_deg |-> Cited(T[b + 1]), arg_perigee_deg |-> Cited(T[b + 2]),
                    apogee_km |-> Cited(T[b + 3]), perigee_km |-> Cited(T[b + 4])]
PlanesOf(T, n) == [q \in 1..n |-> PlaneFrom(T, 3 + 4 * (q - 1))]

\* What has been read once q planes are through: the last of them is still open.
After(T, q) ==
    [done |-> PlanesOf(T, IF q = 0 THEN 0 ELSE q - 1),
     current |-> IF q = 0 THEN NoPlane ELSE PlaneFrom(T, 3 + 4 * (q - 1))]

\* A line of a form field joins the open plane, unless the field is taken.
LEMMA FieldJoins ==
    ASSUME NEW done, NEW plane, NEW r, r = [done |-> done, current |-> plane],
           NEW l, l.label \in ORBIT_FIELDS, l.label \notin DOMAIN plane
    PROVE  ReadLine(r, l) = [done |-> done, current |-> PlaneWith(plane, l)]
  <1>1. r.done = done /\ r.current = plane
    OBVIOUS
  <1> QED BY <1>1 DEF ReadLine

\* Four lines in the order of the form give a plane.
LEMMA FourLines ==
    ASSUME NEW T, NEW b \in Nat,
           T[b + 1].label = "inclination_deg", T[b + 2].label = "arg_perigee_deg",
           T[b + 3].label = "apogee_km", T[b + 4].label = "perigee_km",
           NEW acc, NEW done, NEW r1, NEW r2, NEW r3, NEW r4,
           \/ acc.current = NoPlane /\ done = acc.done
           \/ "inclination_deg" \in DOMAIN acc.current /\ done = Append(acc.done, acc.current),
           r1 = ReadLine(acc, T[b + 1]), r2 = ReadLine(r1, T[b + 2]),
           r3 = ReadLine(r2, T[b + 3]), r4 = ReadLine(r3, T[b + 4])
    PROVE  r4 = [done |-> done, current |-> PlaneFrom(T, b)]
  <1>0. {"inclination_deg", "arg_perigee_deg", "apogee_km", "perigee_km"} = ORBIT_FIELDS
    BY DEF ORBIT_FIELDS
  <1>1. r1 = [done |-> done, current |-> PlaneWith(NoPlane, T[b + 1])]
    <2>1. CASE acc.current = NoPlane /\ done = acc.done
      <3>1. "inclination_deg" \notin DOMAIN acc.current
        BY <2>1 DEF NoPlane
      <3> QED BY <2>1, <3>1, <1>0 DEF ReadLine
    <2>2. CASE "inclination_deg" \in DOMAIN acc.current /\ done = Append(acc.done, acc.current)
      BY <2>2, <1>0 DEF ReadLine
    <2> QED BY <2>1, <2>2
  <1>2. PICK p1 : p1 = PlaneWith(NoPlane, T[b + 1])
    OBVIOUS
  <1>3. DOMAIN p1 = {"inclination_deg"} /\ p1["inclination_deg"] = Cited(T[b + 1])
    BY <1>2 DEF PlaneWith, NoPlane, Cited
  <1>4. PICK p2 : p2 = PlaneWith(p1, T[b + 2])
    OBVIOUS
  <1>5. /\ DOMAIN p2 = {"inclination_deg", "arg_perigee_deg"}
        /\ p2["inclination_deg"] = Cited(T[b + 1]) /\ p2["arg_perigee_deg"] = Cited(T[b + 2])
    BY <1>3, <1>4 DEF PlaneWith, Cited
  <1>6. r2 = [done |-> done, current |-> p2]
    <2>1. r1 = [done |-> done, current |-> p1] /\ "arg_perigee_deg" \notin DOMAIN p1
      BY <1>1, <1>2, <1>3
    <2> QED BY <1>0, <1>4, <2>1, FieldJoins
  <1>7. PICK p3 : p3 = PlaneWith(p2, T[b + 3])
    OBVIOUS
  <1>8. /\ DOMAIN p3 = {"inclination_deg", "arg_perigee_deg", "apogee_km"}
        /\ p3["inclination_deg"] = Cited(T[b + 1]) /\ p3["arg_perigee_deg"] = Cited(T[b + 2])
        /\ p3["apogee_km"] = Cited(T[b + 3])
    BY <1>5, <1>7 DEF PlaneWith, Cited
  <1>9. r3 = [done |-> done, current |-> p3]
    <2>1. "apogee_km" \notin DOMAIN p2
      BY <1>5
    <2> QED BY <1>0, <1>6, <1>7, <2>1, FieldJoins
  <1>10. PICK p4 : p4 = PlaneWith(p3, T[b + 4])
    OBVIOUS
  <1>11. p4 = PlaneFrom(T, b)
    <2>1. p4 = [k \in ORBIT_FIELDS |-> p4[k]]
      BY <1>0, <1>8, <1>10 DEF PlaneWith
    <2>2. /\ p4["inclination_deg"] = Cited(T[b + 1]) /\ p4["arg_perigee_deg"] = Cited(T[b + 2])
          /\ p4["apogee_km"] = Cited(T[b + 3]) /\ p4["perigee_km"] = Cited(T[b + 4])
      BY <1>8, <1>10 DEF PlaneWith, Cited
    <2> QED BY <1>0, <2>1, <2>2 DEF PlaneFrom
  <1>12. r4 = [done |-> done, current |-> p4]
    <2>1. "perigee_km" \notin DOMAIN p3
      BY <1>8
    <2> QED BY <1>0, <1>9, <1>10, <2>1, FieldJoins
  <1> QED BY <1>11, <1>12

\* The planes of n planes are those of one fewer and one more.
LEMMA OneMorePlane ==
    ASSUME NEW T, NEW n \in Nat
    PROVE  /\ PlanesOf(T, 0) = <<>>
           /\ PlanesOf(T, n + 1) = Append(PlanesOf(T, n), PlaneFrom(T, 3 + 4 * n))
  <1> DEFINE S == {PlaneFrom(T, b) : b \in Nat}
  <1>1. \A m \in Nat : PlanesOf(T, m) \in Seq(S) /\ Len(PlanesOf(T, m)) = m
    <2> SUFFICES ASSUME NEW m \in Nat PROVE PlanesOf(T, m) \in Seq(S) /\ Len(PlanesOf(T, m)) = m
      OBVIOUS
    <2>1. PlanesOf(T, m) \in [1..m -> S]
      <3>1. \A q \in 1..m : 3 + 4 * (q - 1) \in Nat
        OBVIOUS
      <3> QED BY <3>1 DEF PlanesOf
    <2> HIDE DEF S
    <2> QED BY <2>1, FunctionIsSeq
  <1>2. PlaneFrom(T, 3 + 4 * n) \in S
    OBVIOUS
  <1> HIDE DEF S
  <1>3. PlanesOf(T, 0) = <<>>
    BY <1>1, EmptySeq
  <1>4. PICK a : a = PlanesOf(T, n)
    OBVIOUS
  <1>5. PICK x : x = PlaneFrom(T, 3 + 4 * n)
    OBVIOUS
  <1>6. /\ Append(a, x) \in Seq(S) /\ Len(Append(a, x)) = n + 1
        /\ \A i \in 1..n : Append(a, x)[i] = a[i]
        /\ Append(a, x)[n + 1] = x
    <2>1. a \in Seq(S) /\ Len(a) = n /\ x \in S
      BY <1>1, <1>2, <1>4, <1>5
    <2> QED BY ONLY <2>1, AppendProperties
  <1>7. Append(a, x) = [i \in 1..(n + 1) |-> Append(a, x)[i]]
    BY <1>6, LenProperties
  <1>8. ASSUME NEW i \in 1..(n + 1) PROVE Append(a, x)[i] = PlaneFrom(T, 3 + 4 * (i - 1))
    <2>1. CASE i = n + 1
      BY <1>5, <1>6, <2>1
    <2>2. CASE i # n + 1
      <3>1. i \in 1..n
        BY <2>2
      <3> QED BY <1>4, <1>6, <3>1 DEF PlanesOf
    <2> QED BY <2>1, <2>2
  <1>9. Append(a, x) = PlanesOf(T, n + 1)
    BY <1>7, <1>8 DEF PlanesOf
  <1> QED BY <1>3, <1>4, <1>5, <1>9

\* When a form has been read its planes have, the last one open.
LEMMA PlanesRead ==
    ASSUME NEW T, NEW P, NEW R, Layout(T, P, R), NEW read, IsReading(T, read)
    PROVE  read[Len(T)] = After(T, P)
  <1>1. P \in Nat /\ R \in Nat /\ Len(T) = 3 + 4 * P + R
    BY DEF Layout
  <1>2. /\ read[0] = [done |-> <<>>, current |-> NoPlane]
        /\ \A i \in 1..(3 + 4 * P + R) : read[i] = ReadLine(read[i - 1], T[i])
    BY <1>1 DEF IsReading
  <1>3. ASSUME NEW i \in 1..(3 + 4 * P + R), T[i].label \notin ORBIT_FIELDS
        PROVE  read[i] = read[i - 1]
    BY <1>2, <1>3 DEF ReadLine
  <1>4. read[3] = After(T, 0)
    <2>1. \A i \in 1..3 : i \in 1..(3 + 4 * P + R) /\ T[i].label \notin ORBIT_FIELDS
      BY <1>1 DEF Layout
    <2>2. read[1] = read[0] /\ read[2] = read[1] /\ read[3] = read[2]
      <3>1. read[1] = read[1 - 1] /\ read[2] = read[2 - 1] /\ read[3] = read[3 - 1]
        BY <1>3, <2>1
      <3> QED BY <3>1
    <2>3. PlanesOf(T, 0) = <<>>
      BY OneMorePlane
    <2> QED BY <1>2, <2>2, <2>3 DEF After
  <1>5. ASSUME NEW q \in Nat, q + 1 <= P, read[3 + 4 * q] = After(T, q)
        PROVE  read[3 + 4 * (q + 1)] = After(T, q + 1)
    <2>1. PICK b \in Nat : b = 3 + 4 * q
      OBVIOUS
    <2>2. /\ T[b + 1].label = "inclination_deg" /\ T[b + 2].label = "arg_perigee_deg"
          /\ T[b + 3].label = "apogee_km" /\ T[b + 4].label = "perigee_km"
      <3>1. q + 1 \in 1..P /\ 3 + 4 * ((q + 1) - 1) = b
        BY <1>1, <1>5, <2>1
      <3> QED BY <3>1 DEF Layout
    <2>3. /\ b + 1 \in 1..(3 + 4 * P + R) /\ b + 2 \in 1..(3 + 4 * P + R)
          /\ b + 3 \in 1..(3 + 4 * P + R) /\ b + 4 \in 1..(3 + 4 * P + R)
          /\ (b + 1) - 1 = b /\ (b + 2) - 1 = b + 1 /\ (b + 3) - 1 = b + 2 /\ (b + 4) - 1 = b + 3
      BY <1>1, <1>5, <2>1
    <2>4. /\ read[b + 1] = ReadLine(read[b], T[b + 1])
          /\ read[b + 2] = ReadLine(read[b + 1], T[b + 2])
          /\ read[b + 3] = ReadLine(read[b + 2], T[b + 3])
          /\ read[b + 4] = ReadLine(read[b + 3], T[b + 4])
      BY <1>2, <2>3
    <2>5. PICK acc : acc = read[b]
      OBVIOUS
    <2>6. \/ acc.current = NoPlane /\ PlanesOf(T, q) = acc.done
          \/ "inclination_deg" \in DOMAIN acc.current /\ PlanesOf(T, q) = Append(acc.done, acc.current)
      <3>1. acc = After(T, q)
        BY <1>5, <2>1, <2>5
      <3>2. CASE q = 0
        BY <3>1, <3>2 DEF After
      <3>3. CASE q # 0
        <4>1. q - 1 \in Nat /\ (q - 1) + 1 = q
          BY <3>3
        <4>2. acc.done = PlanesOf(T, q - 1) /\ acc.current = PlaneFrom(T, 3 + 4 * (q - 1))
          BY <3>1, <3>3 DEF After
        <4>3. PlanesOf(T, q) = Append(acc.done, acc.current)
          BY <4>1, <4>2, OneMorePlane
        <4>4. "inclination_deg" \in DOMAIN acc.current
          BY <4>2 DEF PlaneFrom
        <4> QED BY <4>3, <4>4
      <3> QED BY <3>2, <3>3
    <2>7. read[b + 4] = [done |-> PlanesOf(T, q), current |-> PlaneFrom(T, b)]
      <3>1. PICK r1 : r1 = read[b + 1]
        OBVIOUS
      <3>2. PICK r2 : r2 = read[b + 2]
        OBVIOUS
      <3>3. PICK r3 : r3 = read[b + 3]
        OBVIOUS
      <3>4. PICK r4 : r4 = read[b + 4]
        OBVIOUS
      <3>5. PICK done : done = PlanesOf(T, q)
        OBVIOUS
      <3>6. /\ r1 = ReadLine(acc, T[b + 1]) /\ r2 = ReadLine(r1, T[b + 2])
            /\ r3 = ReadLine(r2, T[b + 3]) /\ r4 = ReadLine(r3, T[b + 4])
        BY <2>4, <2>5, <3>1, <3>2, <3>3, <3>4
      <3>7. \/ acc.current = NoPlane /\ done = acc.done
            \/ "inclination_deg" \in DOMAIN acc.current /\ done = Append(acc.done, acc.current)
        BY <2>6, <3>5
      <3>8. r4 = [done |-> done, current |-> PlaneFrom(T, b)]
        BY ONLY b \in Nat, <2>2, <3>6, <3>7, FourLines, ZenonT(60)
      <3> QED BY <3>4, <3>5, <3>8
    <2>8. b + 4 = 3 + 4 * (q + 1)
      BY <2>1
    <2>9. After(T, q + 1) = [done |-> PlanesOf(T, q), current |-> PlaneFrom(T, b)]
      <3>1. q + 1 # 0 /\ (q + 1) - 1 = q
        OBVIOUS
      <3> QED BY <2>1, <3>1 DEF After
    <2> QED BY <2>7, <2>8, <2>9
  <1> DEFINE Planes == {q \in Nat : q <= P => read[3 + 4 * q] = After(T, q)}
             Rest == {i \in Nat : i <= R => read[3 + 4 * P + i] = After(T, P)}
  <1>6. P \in Planes
    <2>1. 0 \in Planes
      BY <1>4
    <2>2. ASSUME NEW q \in Nat, q \in Planes PROVE q + 1 \in Planes
      <3>1. q + 1 <= P => q <= P
        BY <1>1
      <3> QED BY <1>5, <2>2, <3>1
    <2> HIDE DEF Planes
    <2> QED BY <1>1, <2>1, <2>2, InductOnNat
  <1>7. R \in Rest
    <2>1. 0 \in Rest
      <3>1. 3 + 4 * P + 0 = 3 + 4 * P
        BY <1>1
      <3> QED BY <1>1, <1>6, <3>1
    <2>2. ASSUME NEW i \in Nat, i \in Rest PROVE i + 1 \in Rest
      <3> SUFFICES ASSUME i + 1 <= R PROVE read[3 + 4 * P + (i + 1)] = After(T, P)
        OBVIOUS
      <3>1. PICK k : k = 3 + 4 * P + (i + 1)
        OBVIOUS
      <3>2. k \in 1..(3 + 4 * P + R) /\ k - 1 = 3 + 4 * P + i /\ i + 1 \in 1..R /\ i <= R
        BY <1>1, <3>1
      <3>3. T[k].label \in BAND_LABELS
        BY <3>1, <3>2 DEF Layout
      <3>4. T[k].label \notin ORBIT_FIELDS
        BY <3>3 DEF ORBIT_FIELDS, BAND_LABELS
      <3>5. read[k] = read[k - 1]
        BY <1>3, <3>2, <3>4
      <3> QED BY <2>2, <3>1, <3>2, <3>5
    <2> HIDE DEF Rest
    <2> QED BY <1>1, <2>1, <2>2, InductOnNat
  <1> QED BY <1>1, <1>7

\* The parser reads every plane of a form, in their order.
LEMMA PlanesParsed ==
    ASSUME NEW pages, NEW T, T = Lines(pages), NEW P, NEW R, Layout(T, P, R)
    PROVE  ParsePlanes(pages) = PlanesOf(T, P)
  <1> DEFINE read == CHOOSE g : IsReading(T, g)
             end == read[Len(T)]
  <1>1. T \in Seq(CitedLine) /\ P \in Nat
    BY DEF Layout
  <1>2. IsReading(T, read)
    BY <1>1, ReadingIsThere
  <1>3. ParsePlanes(pages) =
           IF DOMAIN end.current \cap {"apogee_km", "inclination_deg"} = {} THEN end.done
           ELSE Append(end.done, end.current)
    BY DEF ParsePlanes, IsReading
  <1> HIDE DEF read
  <1>4. end = After(T, P)
    BY <1>2, PlanesRead
  <1> HIDE DEF end
  <1>5. CASE P = 0
    <2>1. end.current = NoPlane /\ end.done = PlanesOf(T, P)
      BY <1>4, <1>5 DEF After
    <2>2. DOMAIN end.current = {}
      BY <2>1 DEF NoPlane
    <2> QED BY <1>3, <2>1, <2>2
  <1>6. CASE P # 0
    <2>1. end.current = PlaneFrom(T, 3 + 4 * (P - 1)) /\ end.done = PlanesOf(T, P - 1)
      BY <1>4, <1>6 DEF After
    <2>2. "inclination_deg" \in DOMAIN end.current
      BY <2>1 DEF PlaneFrom
    <2>3. P - 1 \in Nat /\ (P - 1) + 1 = P
      BY <1>1, <1>6
    <2>4. PlanesOf(T, P) = Append(PlanesOf(T, P - 1), PlaneFrom(T, 3 + 4 * (P - 1)))
      BY <2>3, OneMorePlane
    <2> QED BY <1>3, <2>1, <2>2, <2>4
  <1> QED BY <1>5, <1>6

\* Every scalar that is found is read off a line, the number of satellites off the third.
LEMMA ScalarsParsed ==
    ASSUME NEW pages, NEW T, T = Lines(pages), NEW P, NEW R, Layout(T, P, R),
           T[3].label = "total_satellites", T[1].label # "total_satellites",
           T[2].label # "total_satellites"
    PROVE  LET scalars == ParseScalars(pages)
           IN  /\ "total_satellites" \in DOMAIN scalars
               /\ scalars["total_satellites"] = Cited(T[3])
               /\ \A k \in DOMAIN scalars : \E i \in 1..Len(T) : scalars[k] = Cited(T[i])
  <1> DEFINE At(k) == {i \in DOMAIN T : T[i].label = k}
             first(k) == CHOOSE j \in At(k) : \A h \in At(k) : j <= h
             found == {s \in SCALARS : At(s) # {}}
             scalars == [k \in found |-> Cited(T[first(k)])]
  <1>1. ParseScalars(pages) = scalars
    BY DEF ParseScalars, Cited
  <1>2. DOMAIN T = 1..Len(T) /\ Len(T) \in Nat /\ 3 \in 1..Len(T) /\ Len(T) = 3 + 4 * P + R
    BY LenProperties DEF Layout
  <1>3. ASSUME NEW k \in found
        PROVE  first(k) \in At(k) /\ \A h \in At(k) : first(k) <= h
    <2>1. PICK x \in At(k) : TRUE
      OBVIOUS
    <2>2. At(k) \subseteq Nat
      BY <1>2
    <2> HIDE DEF At
    <2>3. \E j \in At(k) : \A h \in At(k) : j <= h
      BY <2>1, <2>2, LeastNat
    <2> QED BY <2>3
  <1>4. "total_satellites" \in found
    BY <1>2 DEF SCALARS
  <1>5. first("total_satellites") = 3
    <2>1. 3 \in At("total_satellites") /\ 1 \notin At("total_satellites") /\ 2 \notin At("total_satellites")
      BY <1>2
    <2>2. At("total_satellites") \subseteq 1..Len(T)
      BY <1>2
    <2> HIDE DEF At, first, found
    <2>3. first("total_satellites") \in At("total_satellites") /\ first("total_satellites") <= 3
      BY <1>3, <1>4, <2>1
    <2>4. PICK n \in 1..Len(T) : n = first("total_satellites")
      BY <2>2, <2>3
    <2>5. n = 3
      BY <1>2, <2>1, <2>3, <2>4
    <2> QED BY <2>4, <2>5
  <1>6. ASSUME NEW k \in DOMAIN scalars PROVE \E i \in 1..Len(T) : scalars[k] = Cited(T[i])
    <2>1. first(k) \in 1..Len(T)
      BY <1>2, <1>3
    <2>2. scalars[k] = Cited(T[first(k)])
      OBVIOUS
    <2> HIDE DEF scalars, first
    <2> QED BY <2>1, <2>2
  <1>7. "total_satellites" \in DOMAIN scalars /\ scalars["total_satellites"] = Cited(T[3])
    <2> HIDE DEF found, first
    <2> QED BY <1>4, <1>5
  <1> HIDE DEF scalars
  <1> QED BY <1>1, <1>6, <1>7

-----------------------------------------------------------------------------
(* The frequency table. *)

\* The lines of a band are those behind the first line up to the last.
BandStands(T, b, first, last) ==
    /\ Len(b.service) \in Nat \ {0} /\ last = first + Len(b.service) + 3
    /\ \A j \in 1..Len(b.service) :
          T[first + j].label = "service" /\ T[first + j].value = b.service[j]
    /\ T[last - 2].label = "low" /\ T[last - 2].value = b.freq_low_mhz
    /\ T[last - 1].label = "high" /\ T[last - 1].value = b.freq_high_mhz
    /\ T[last].label = "direction" /\ T[last].value = b.direction

\* The bands end the form, each on its line, and every line stands on its page.
Table(T, filed, end) ==
    /\ T \in Seq(CitedLine) /\ filed.bands \in Seq(BandForm)
    /\ end \in [0..Len(filed.bands) -> Nat \ {0}]
    /\ Len(T) = end[Len(filed.bands)]
    /\ \A i \in 1..end[0] : T[i].label # "service"
    /\ \A k \in 1..Len(filed.bands) :
          /\ BandEnd(filed, k) = end[k]
          /\ BandStands(T, filed.bands[k], end[k - 1], end[k])
    /\ \A i \in 1..Len(T) : T[i].page = PageOf(filed, i)

\* A band takes four lines or more.
LEMMA EndsIncrease ==
    ASSUME NEW T, NEW filed, NEW end, Table(T, filed, end)
    PROVE  \A j, k \in 0..Len(filed.bands) : j < k => end[j] + 4 <= end[k]
  <1> DEFINE n == Len(filed.bands)
             Good == {k \in Nat : k \in 0..n => \A j \in 0..n : j < k => end[j] + 4 <= end[k]}
  <1>1. n \in Nat /\ end \in [0..n -> Nat \ {0}]
    BY LenProperties DEF Table
  <1>2. ASSUME NEW k \in 1..n PROVE end[k - 1] + 4 <= end[k]
    <2>1. BandStands(T, filed.bands[k], end[k - 1], end[k])
      BY DEF Table
    <2>2. PICK m : m = Len(filed.bands[k].service)
      OBVIOUS
    <2>3. m \in Nat \ {0} /\ end[k] = end[k - 1] + m + 3
      BY ONLY <2>1, <2>2 DEF BandStands
    <2>4. end[k - 1] \in Nat
      BY <1>1
    <2> QED BY ONLY <2>3, <2>4
  <1> HIDE DEF n
  <1>3. 0 \in Good
    OBVIOUS
  <1>4. ASSUME NEW k \in Nat, k \in Good PROVE k + 1 \in Good
    <2> SUFFICES ASSUME k + 1 \in 0..n, NEW j \in 0..n, j < k + 1 PROVE end[j] + 4 <= end[k + 1]
      OBVIOUS
    <2>1. k + 1 \in 1..n /\ (k + 1) - 1 = k /\ k \in 0..n
      BY <1>1
    <2>2. end[k] + 4 <= end[k + 1] /\ end[j] \in Nat /\ end[k] \in Nat /\ end[k + 1] \in Nat
      BY <1>1, <1>2, <2>1
    <2>3. j # k => end[j] + 4 <= end[k]
      BY <1>4, <2>1
    <2> QED BY <2>2, <2>3
  <1>5. Nat \subseteq Good
    <2> HIDE DEF Good
    <2> QED BY <1>3, <1>4, InductOnNat
  <1>6. ASSUME NEW j \in 0..n, NEW k \in 0..n, j < k PROVE end[j] + 4 <= end[k]
    <2>1. k \in Good
      <3> HIDE DEF Good
      <3> QED BY <1>5
    <2> QED BY <1>6, <2>1
  <1> QED BY <1>6 DEF n

\* Every line behind the head of the table is a band's.
LEMMA LineOfBand ==
    ASSUME NEW T, NEW filed, NEW end, Table(T, filed, end),
           NEW i \in Nat, end[0] < i, i <= Len(T)
    PROVE  \E k \in 1..Len(filed.bands) : end[k - 1] < i /\ i <= end[k]
  <1> DEFINE n == Len(filed.bands)
             reach == {k \in 0..n : i <= end[k]}
  <1>1. n \in Nat /\ end \in [0..n -> Nat \ {0}] /\ i <= end[n]
    BY LenProperties DEF Table
  <1> HIDE DEF n
  <1>2. n \in reach /\ reach \subseteq Nat
    BY <1>1
  <1>3. PICK k \in reach : \A m \in reach : k <= m
    <2> HIDE DEF reach
    <2> QED BY <1>2, LeastNat
  <1>4. k \in 0..n /\ i <= end[k] /\ k # 0
    BY <1>1
  <1>5. k \in 1..n /\ k - 1 \in 0..n /\ ~(k <= k - 1)
    BY <1>1, <1>4
  <1>6. ~(i <= end[k - 1])
    BY <1>3, <1>5
  <1>7. end[k - 1] < i
    BY <1>1, <1>5, <1>6
  <1> QED BY <1>4, <1>5, <1>7 DEF n

\* The parser finds the bands that no page break splits, by the last line of their label.
LEMMA MatchesAreUnbroken ==
    ASSUME NEW T, NEW filed, NEW end, Table(T, filed, end)
    PROVE  BandMatches(T) = {end[k] - 3 : k \in Unbroken(filed)}
  <1> DEFINE n == Len(filed.bands)
  <1>1. /\ n \in Nat /\ DOMAIN filed.bands = 1..n /\ end \in [0..n -> Nat \ {0}]
        /\ DOMAIN T = 1..Len(T) /\ Len(T) = end[n] /\ Len(T) \in Nat
    BY LenProperties DEF Table
  <1>2. ASSUME NEW k \in 1..n
        PROVE  /\ end[k - 1] \in Nat \ {0} /\ end[k] \in Nat /\ end[k] <= Len(T)
               /\ Len(filed.bands[k].service) \in Nat \ {0}
               /\ end[k] = end[k - 1] + Len(filed.bands[k].service) + 3
               /\ \A j \in 1..Len(filed.bands[k].service) : T[end[k - 1] + j].label = "service"
               /\ T[end[k] - 2].label = "low" /\ T[end[k] - 1].label = "high"
               /\ T[end[k]].label = "direction"
    <2>1. BandStands(T, filed.bands[k], end[k - 1], end[k])
      BY DEF Table
    <2>2. /\ Len(filed.bands[k].service) \in Nat \ {0}
          /\ end[k] = end[k - 1] + Len(filed.bands[k].service) + 3
          /\ \A j \in 1..Len(filed.bands[k].service) : T[end[k - 1] + j].label = "service"
          /\ T[end[k] - 2].label = "low" /\ T[end[k] - 1].label = "high"
          /\ T[end[k]].label = "direction"
      BY ONLY <2>1 DEF BandStands
    <2>3. k - 1 \in 0..n /\ k \in 0..n /\ n \in 0..n /\ (k = n \/ k < n)
      BY <1>1
    <2>4. end[k - 1] \in Nat \ {0} /\ end[k] \in Nat /\ end[n] \in Nat
      BY <1>1, <2>3
    <2>5. k < n => end[k] + 4 <= end[n]
      BY <2>3, EndsIncrease
    <2>6. end[k] <= end[n]
      BY ONLY <2>3, <2>4, <2>5
    <2> QED BY <1>1, <2>2, <2>4, <2>6
  <1>3. \A i \in 1..Len(T) : T[i].page = PageOf(filed, i)
    BY DEF Table
  <1>4. ASSUME NEW k \in Unbroken(filed) PROVE end[k] - 3 \in BandMatches(T)
    <2>1. k \in 1..n /\ PageOf(filed, BandEnd(filed, k) - 3) = PageOf(filed, BandEnd(filed, k))
      BY <1>1 DEF Unbroken
    <2>2. BandEnd(filed, k) = end[k]
      BY <2>1 DEF Table
    <2>3. PICK m : m = Len(filed.bands[k].service)
      OBVIOUS
    <2>4. PICK b : b = end[k - 1]
      OBVIOUS
    <2>5. PICK e : e = end[k]
      OBVIOUS
    <2>6. /\ b \in Nat \ {0} /\ e \in Nat /\ e <= Len(T) /\ m \in Nat \ {0} /\ e = b + m + 3
          /\ \A j \in 1..m : T[b + j].label = "service"
          /\ T[e - 2].label = "low" /\ T[e - 1].label = "high" /\ T[e].label = "direction"
      BY <1>2, <2>1, <2>3, <2>4, <2>5
    <2>7. e - 3 = b + m /\ m \in 1..m /\ e - 3 \in 1..Len(T) /\ e \in 1..Len(T)
          /\ (e - 3) + 1 = e - 2 /\ (e - 3) + 2 = e - 1 /\ (e - 3) + 3 = e
      BY ONLY <1>1, <2>6
    <2>8. T[e - 3].label = "service"
      BY <2>6, <2>7
    <2>9. T[e - 3].page = T[e].page
      BY <1>3, <2>1, <2>2, <2>5, <2>7
    <2> QED BY <1>1, <2>5, <2>6, <2>7, <2>8, <2>9 DEF BandMatches
  <1>5. ASSUME NEW i \in BandMatches(T) PROVE \E k \in Unbroken(filed) : i = end[k] - 3
    <2>1. /\ i \in 1..Len(T) /\ i + 3 \in 1..Len(T) /\ T[i].page = T[i + 3].page
          /\ T[i].label = "service" /\ T[i + 1].label = "low"
      BY <1>1 DEF BandMatches
    <2>2. end[0] < i
      <3>1. ~(i \in 1..end[0])
        BY <2>1 DEF Table
      <3>2. end[0] \in Nat
        BY <1>1
      <3> QED BY <2>1, <3>1, <3>2
    <2>3. PICK k \in 1..n : end[k - 1] < i /\ i <= end[k]
      <3>1. i \in Nat /\ i <= Len(T)
        BY <1>1, <2>1
      <3> QED BY <2>2, <3>1, LineOfBand
    <2>4. PICK m : m = Len(filed.bands[k].service)
      OBVIOUS
    <2>5. PICK b : b = end[k - 1]
      OBVIOUS
    <2>6. PICK e : e = end[k]
      OBVIOUS
    <2>7. /\ b \in Nat \ {0} /\ e \in Nat /\ e <= Len(T) /\ m \in Nat \ {0} /\ e = b + m + 3
          /\ \A j \in 1..m : T[b + j].label = "service"
          /\ T[e - 2].label = "low" /\ T[e - 1].label = "high" /\ T[e].label = "direction"
      BY <1>2, <2>4, <2>5, <2>6
    <2>8. i \in Nat /\ b < i /\ i <= e
      BY <2>1, <2>3, <2>5, <2>6
    <2>9. i # e /\ i # e - 1 /\ i # e - 2
      BY ONLY <2>1, <2>7
    <2>10. i = e - 3
      <3>1. CASE i < e - 3
        <4>1. PICK j : j = (i + 1) - b
          OBVIOUS
        <4>2. j \in 1..m /\ b + j = i + 1
          BY ONLY <2>7, <2>8, <3>1, <4>1
        <4>3. T[i + 1].label = "service"
          BY ONLY <2>7, <4>2
        <4> QED BY ONLY <2>1, <4>3
      <3>2. ~(i < e - 3) => i = e - 3
        BY ONLY <2>7, <2>8, <2>9
      <3> QED BY <3>1, <3>2
    <2>11. k \in Unbroken(filed)
      <3>1. BandEnd(filed, k) = e
        BY <2>6 DEF Table
      <3>2. i + 3 = e
        BY ONLY <2>7, <2>10
      <3>3. PageOf(filed, e - 3) = PageOf(filed, e)
        BY <1>3, <2>1, <2>10, <3>2
      <3> QED BY <1>1, <3>1, <3>3 DEF Unbroken
    <2> QED BY <2>6, <2>10, <2>11
  <1> QED BY <1>4, <1>5

\* The row that the parser makes of the band whose label ends on line i.
BandRow(T, i) ==
    [service |-> MatchedService(T, i), freq_low_mhz |-> T[i + 1].value,
     freq_high_mhz |-> T[i + 2].value, direction |-> T[i + 3].value, source_page |-> T[i].page]

\* It is the band that was filed, but for what a page break or a second wrap cuts off its label.
LEMMA BandRead ==
    ASSUME NEW T, NEW filed, NEW end, Table(T, filed, end), NEW k \in Unbroken(filed)
    PROVE  BandAsFiled(BandRow(T, end[k] - 3), filed, k)
  <1>1. /\ k \in 1..Len(filed.bands) /\ Len(filed.bands) \in Nat
        /\ end \in [0..Len(filed.bands) -> Nat \ {0}]
        /\ \A i \in 1..Len(T) : T[i].page = PageOf(filed, i)
        /\ Len(T) = end[Len(filed.bands)]
    BY LenProperties DEF Table, Unbroken
  <1>2. PICK c : c = filed.bands[k]
    OBVIOUS
  <1>3. PICK m : m = Len(c.service)
    OBVIOUS
  <1>4. PICK b : b = end[k - 1]
    OBVIOUS
  <1>5. PICK e : e = end[k]
    OBVIOUS
  <1>6. BandEnd(filed, k) = e /\ BandStands(T, c, b, e)
    BY <1>1, <1>2, <1>4, <1>5 DEF Table
  <1>7. /\ m \in Nat \ {0} /\ e = b + m + 3
        /\ \A j \in 1..m : T[b + j].label = "service" /\ T[b + j].value = c.service[j]
        /\ T[e - 2].value = c.freq_low_mhz /\ T[e - 1].value = c.freq_high_mhz
        /\ T[e].label = "direction" /\ T[e].value = c.direction
    BY ONLY <1>3, <1>6 DEF BandStands
  <1>8. b \in Nat \ {0} /\ e \in Nat /\ e <= Len(T)
    <2>1. k - 1 \in 0..Len(filed.bands) /\ k \in 0..Len(filed.bands)
      BY <1>1
    <2>2. b \in Nat \ {0} /\ e \in Nat
      BY <1>1, <1>4, <1>5, <2>1
    <2>3. Len(filed.bands) \in 0..Len(filed.bands)
      BY <1>1
    <2>4. k < Len(filed.bands) => e + 4 <= Len(T)
      BY <1>1, <1>5, <2>1, <2>3, EndsIncrease
    <2>5. k = Len(filed.bands) => e = Len(T)
      BY <1>1, <1>5
    <2>6. end[Len(filed.bands)] \in Nat
      BY <1>1, <2>3
    <2> QED BY <1>1, <2>2, <2>4, <2>5, <2>6
  <1>9. PICK i : i = e - 3
    OBVIOUS
  <1>10. /\ i = b + m /\ i + 1 = e - 2 /\ i + 2 = e - 1 /\ i + 3 = e /\ m \in 1..m
         /\ i > 1 /\ i \in 1..Len(T)
    BY ONLY <1>7, <1>8, <1>9
  <1>11. T[i].value = c.service[m]
    BY ONLY <1>7, <1>10
  <1>12. PICK service : service = MatchedService(T, i)
    OBVIOUS
  <1>13. service = <<T[i - 1].value, T[i].value>> \/ service = <<T[i].value>>
    BY ONLY <1>12 DEF MatchedService
  <1>14. service[Len(service)] = c.service[m]
    <2>1. PICK u : u = T[i - 1].value
      OBVIOUS
    <2>2. PICK v : v = T[i].value
      OBVIOUS
    <2>3. CASE service = <<u, v>>
      <3>1. Len(service) = 2 /\ service[2] = v
        BY ONLY <2>3
      <3> QED BY ONLY <1>11, <2>2, <3>1
    <2>4. CASE service = <<v>>
      <3>1. Len(service) = 1 /\ service[1] = v
        BY ONLY <2>4
      <3> QED BY ONLY <1>11, <2>2, <3>1
    <2> QED BY ONLY <1>13, <2>1, <2>2, <2>3, <2>4
  <1>15. ASSUME k \in Wrapped(filed) PROVE service = c.service
    <2>1. m = 2 /\ PageOf(filed, e - 4) = PageOf(filed, e - 3)
      BY <1>2, <1>3, <1>6, <1>15 DEF Wrapped
    <2>2. i - 1 = b + 1 /\ i - 1 = e - 4 /\ 1 \in 1..m /\ i - 1 \in 1..Len(T) /\ (i - 4) + 3 = i - 1
      BY ONLY <1>7, <1>8, <1>9, <1>10, <2>1
    <2>3. T[i - 1].label = "service" /\ T[i - 1].value = c.service[1]
      BY ONLY <1>7, <2>2
    <2>4. T[i - 1].page = T[i].page
      BY <1>1, <1>9, <1>10, <2>1, <2>2
    <2>5. i - 4 \notin BandMatches(T)
      BY <2>2, <2>3 DEF BandMatches
    <2>6. service = <<T[i - 1].value, T[i].value>>
      BY <1>10, <1>12, <2>3, <2>4, <2>5 DEF MatchedService, LETTERS
    <2>7. c.service \in Seq(Nat)
      <3>1. c \in BandForm
        BY <1>1, <1>2, ElementOfSeq DEF Table
      <3> QED BY <3>1 DEF BandForm
    <2>8. c.service = <<c.service[1], c.service[2]>>
      <3>1. PICK s : s = c.service
        OBVIOUS
      <3>2. s \in Seq(Nat) /\ Len(s) = 2
        BY <1>3, <2>1, <2>7, <3>1
      <3>3. DOMAIN s = 1..2 /\ s = [j \in 1..2 |-> s[j]]
        BY <3>2, LenProperties
      <3>4. s = <<s[1], s[2]>>
        BY <3>3
      <3> QED BY <3>1, <3>4
    <2> QED BY <1>11, <2>1, <2>3, <2>6, <2>8
  <1>16. PICK row : row = BandRow(T, i)
    OBVIOUS
  <1>17. /\ row.service = service /\ row.freq_low_mhz = c.freq_low_mhz
         /\ row.freq_high_mhz = c.freq_high_mhz /\ row.direction = c.direction
    BY ONLY <1>7, <1>10, <1>12, <1>16 DEF BandRow
  <1>18. BandAsFiled(row, filed, k)
    BY <1>2, <1>3, <1>14, <1>15, <1>17 DEF BandAsFiled
  <1> QED BY <1>5, <1>9, <1>16, <1>18

\* What is between two lines of a page is on that page.
LEMMA PageBetween ==
    ASSUME NEW length \in Nat \ {0}, NEW a \in Nat \ {0}, NEW x \in Nat, NEW b \in Nat,
           a <= x, x <= b, (a + length - 1) \div length = (b + length - 1) \div length
    PROVE  (x + length - 1) \div length = (a + length - 1) \div length
  <1>1. PICK n : n = (a + length - 1) \div length
    OBVIOUS
  <1>2. PICK p : p = (x + length - 1) \div length
    OBVIOUS
  <1>3. n \in Nat \ {0} /\ length * (n - 1) < a /\ length * (n - 1) \in Nat
    BY <1>1, PageOfLine
  <1>4. b \in Nat \ {0} /\ n = (b + length - 1) \div length
    BY <1>1
  <1>5. b <= length * n /\ length * n \in Nat
    BY ONLY <1>4, length \in Nat \ {0}, PageOfLine
  <1>6. x \in Nat \ {0}
    OBVIOUS
  <1>7. /\ p \in Nat \ {0} /\ length * (p - 1) < x /\ x <= length * p
        /\ length * (p - 1) \in Nat /\ length * p \in Nat
    BY ONLY <1>2, <1>6, length \in Nat \ {0}, PageOfLine
  <1>8. length * (p - 1) < length * n
    BY <1>5, <1>7
  <1>9. length * (n - 1) < length * p
    BY <1>3, <1>7
  <1>10. p - 1 < n
    <2> SUFFICES ASSUME n <= p - 1 PROVE FALSE
      BY <1>3, <1>7
    <2>1. length * n <= length * (p - 1)
      BY <1>3, <1>7, SMT
    <2> QED BY <1>5, <1>7, <1>8, <2>1
  <1>11. n - 1 < p
    <2> SUFFICES ASSUME p <= n - 1 PROVE FALSE
      BY <1>3, <1>7
    <2>1. length * p <= length * (n - 1)
      BY <1>3, <1>7, SMT
    <2> QED BY <1>3, <1>7, <1>9, <2>1
  <1>12. p = n
    BY <1>3, <1>7, <1>10, <1>11
  <1> QED BY <1>1, <1>2, <1>12

\* The tokens of one line, and of two that follow each other, stand on their page.
LEMMA TokensStand ==
    ASSUME NEW T, NEW length \in Nat \ {0}, NEW pages, NEW k \in Nat, OnItsPage(T, length, pages, k)
    PROVE  /\ Stand(pages[T[k].page], <<T[k].value>>)
           /\ OnItsPage(T, length, pages, k + 1) /\ T[k + 1].page = T[k].page =>
                 Stand(pages[T[k].page], <<T[k].value, T[k + 1].value>>)
  <1>1. PICK n : n = (k + length - 1) \div length
    OBVIOUS
  <1>2. PICK a : a = length * (n - 1)
    OBVIOUS
  <1>3. PICK page : page = pages[n]
    OBVIOUS
  <1>4. /\ T[k].page = n /\ a \in Nat /\ Len(page) \in Nat
        /\ k - a \in 1..Len(page) /\ page[k - a].value = T[k].value
    BY ONLY <1>1, <1>2, <1>3, OnItsPage(T, length, pages, k) DEF OnItsPage
  <1>5. PICK u : u = T[k].value
    OBVIOUS
  <1>6. PICK v : v = T[k + 1].value
    OBVIOUS
  <1>7. Stand(page, <<u>>)
    <2>1. Len(<<u>>) = 1 /\ DOMAIN <<u>> = 1..1 /\ <<u>>[1] = u
      OBVIOUS
    <2>2. k - a - 1 \in 0..(Len(page) - 1) /\ (k - a - 1) + 1 = k - a
      BY <1>4
    <2>3. \A j \in 1..1 : j = 1
      OBVIOUS
    <2>4. \A j \in DOMAIN <<u>> : page[(k - a - 1) + j].value = <<u>>[j]
      BY <1>4, <1>5, <2>1, <2>2, <2>3
    <2> QED BY <2>1, <2>2, <2>4 DEF Stand
  <1>8. ASSUME OnItsPage(T, length, pages, k + 1), T[k + 1].page = T[k].page
        PROVE  Stand(page, <<u, v>>)
    <2>1. PICK p : p = ((k + 1) + length - 1) \div length
      OBVIOUS
    <2>2. /\ T[k + 1].page = p
          /\ (k + 1) - length * (p - 1) \in 1..Len(pages[p])
          /\ pages[p][(k + 1) - length * (p - 1)].value = T[k + 1].value
      BY ONLY <1>8, <2>1 DEF OnItsPage
    <2>3. p = n
      BY <1>4, <1>8, <2>2
    <2>4. (k + 1) - a \in 1..Len(page) /\ page[(k + 1) - a].value = v
      BY ONLY <1>2, <1>3, <1>6, <2>2, <2>3
    <2>5. Len(<<u, v>>) = 2 /\ DOMAIN <<u, v>> = 1..2 /\ <<u, v>>[1] = u /\ <<u, v>>[2] = v
      OBVIOUS
    <2>6. /\ k - a - 1 \in 0..(Len(page) - 2) /\ (k - a - 1) + 1 = k - a
          /\ (k - a - 1) + 2 = (k + 1) - a
      BY <1>4, <2>4
    <2>7. \A j \in 1..2 : j = 1 \/ j = 2
      OBVIOUS
    <2>8. \A j \in DOMAIN <<u, v>> : page[(k - a - 1) + j].value = <<u, v>>[j]
      BY <1>4, <1>5, <2>4, <2>5, <2>6, <2>7
    <2> QED BY <2>5, <2>6, <2>8 DEF Stand
  <1> QED BY <1>3, <1>4, <1>5, <1>6, <1>7, <1>8

\* So no band that the parser found is kept back.
LEMMA BandRowValid ==
    ASSUME NEW T \in Seq(CitedLine), NEW length \in Nat \ {0}, NEW pages,
           \A k \in 1..Len(T) : OnItsPage(T, length, pages, k), NEW i \in BandMatches(T)
    PROVE  ValidateBand(pages, BandRow(T, i))
  <1>1. /\ i \in 1..Len(T) /\ i + 3 \in 1..Len(T) /\ Len(T) \in Nat
        /\ T[i].page = T[i + 3].page
    BY LenProperties DEF BandMatches
  <1>2. PICK size : size = Len(T)
    OBVIOUS
  <1>3. i \in Nat \ {0} /\ i + 1 \in 1..size /\ i + 2 \in 1..size /\ i + 3 \in 1..size /\ size \in Nat
    BY ONLY <1>1, <1>2
  <1>4. \A k \in 1..size : T[k].page = (k + length - 1) \div length
    BY <1>2 DEF OnItsPage
  <1>5. T[i + 1].page = T[i].page /\ T[i + 2].page = T[i].page /\ T[i + 3].page = T[i].page
    <2>1. /\ i \in 1..size /\ i \in Nat \ {0} /\ i + 1 \in Nat /\ i + 2 \in Nat /\ i + 3 \in Nat
          /\ i <= i + 1 /\ i + 1 <= i + 3 /\ i <= i + 2 /\ i + 2 <= i + 3
      BY <1>1, <1>2, <1>3
    <2>2. (i + length - 1) \div length = ((i + 3) + length - 1) \div length
      BY <1>1, <1>3, <1>4, <2>1
    <2>3. ((i + 1) + length - 1) \div length = (i + length - 1) \div length
      BY ONLY <2>1, <2>2, length \in Nat \ {0}, PageBetween
    <2>4. ((i + 2) + length - 1) \div length = (i + length - 1) \div length
      BY ONLY <2>1, <2>2, length \in Nat \ {0}, PageBetween
    <2> QED BY <1>1, <1>3, <1>4, <2>1, <2>3, <2>4
  <1>6. PICK page : page = T[i].page
    OBVIOUS
  <1>7. page \in DOMAIN pages
    BY <1>1, <1>6 DEF OnItsPage
  <1>8. ASSUME NEW k \in 1..size PROVE Stand(pages[T[k].page], <<T[k].value>>)
    <2>1. k \in Nat /\ OnItsPage(T, length, pages, k)
      BY <1>2
    <2> QED BY ONLY <2>1, length \in Nat \ {0}, TokensStand
  <1>9. /\ Stand(pages[page], <<T[i].value>>) /\ Stand(pages[page], <<T[i + 1].value>>)
        /\ Stand(pages[page], <<T[i + 2].value>>) /\ Stand(pages[page], <<T[i + 3].value>>)
    BY <1>1, <1>2, <1>3, <1>5, <1>6, <1>8
  <1>10. Stand(pages[page], MatchedService(T, i))
    <2>1. CASE MatchedService(T, i) = <<T[i].value>>
      BY <1>9, <2>1
    <2>2. CASE MatchedService(T, i) # <<T[i].value>>
      <3>1. /\ i > 1 /\ T[i - 1].page = T[i].page
            /\ MatchedService(T, i) = <<T[i - 1].value, T[i].value>>
        BY <2>2 DEF MatchedService
      <3>2. i - 1 \in 1..size /\ i - 1 \in Nat /\ (i - 1) + 1 = i /\ i \in 1..size
        BY <1>1, <1>2, <1>3, <3>1
      <3>3. OnItsPage(T, length, pages, i - 1) /\ OnItsPage(T, length, pages, (i - 1) + 1)
        BY <1>2, <3>2
      <3>4. T[(i - 1) + 1].page = T[i - 1].page
        BY <3>1, <3>2
      <3>5. Stand(pages[T[i - 1].page], <<T[i - 1].value, T[(i - 1) + 1].value>>)
        BY ONLY <3>2, <3>3, <3>4, length \in Nat \ {0}, TokensStand
      <3> QED BY <1>6, <3>1, <3>2, <3>5
    <2> QED BY <2>1, <2>2
  <1>11. PICK row : row = BandRow(T, i)
    OBVIOUS
  <1>12. /\ row.source_page = page /\ row.service = MatchedService(T, i)
         /\ row["freq_low_mhz"] = T[i + 1].value /\ row["freq_high_mhz"] = T[i + 2].value
         /\ row["direction"] = T[i + 3].value
    BY ONLY <1>6, <1>11 DEF BandRow
  <1>13. ASSUME NEW k \in {"freq_low_mhz", "freq_high_mhz", "direction"}
         PROVE  Stand(pages[page], <<row[k]>>)
    BY <1>9, <1>12
  <1>14. ValidateBand(pages, row)
    BY <1>7, <1>10, <1>12, <1>13 DEF ValidateBand
  <1> QED BY <1>11, <1>14

\* The lines of the planes carry the names of their fields.
LEMMA FieldLines ==
    ASSUME NEW L, NEW filed, NEW P, NEW R, LaidOut(L, filed, P, R), NEW k \in 4..(3 + 4 * P)
    PROVE  L[k].label \in ORBIT_FIELDS
  <1>1. P \in Nat /\ \A q \in 1..P : \A j \in 1..4 :
           L[3 + 4 * (q - 1) + j] = PlaneLines(filed.planes[q])[j]
    BY DEF LaidOut
  <1>0. P \in Nat
    BY <1>1
  <1>2. PICK i \in Nat \ {0} : k = 3 + i /\ i <= 4 * P
    <2>1. k \in 4..(3 + 4 * P)
      OBVIOUS
    <2>2. k - 3 \in Nat \ {0} /\ k = 3 + (k - 3) /\ k - 3 <= 4 * P
      BY ONLY <1>0, <2>1
    <2> QED BY <2>2
  <1>3. PICK q : q = (i + 4 - 1) \div 4
    OBVIOUS
  <1>4. /\ q \in Nat \ {0} /\ 4 * (q - 1) < i /\ i <= 4 * q
    <2>1. 4 \in Nat \ {0}
      OBVIOUS
    <2> QED BY ONLY <1>2, <1>3, <2>1, PageOfLine
  <1>5. PICK j : j = i - 4 * (q - 1)
    OBVIOUS
  <1>6. q \in 1..P /\ j \in 1..4 /\ k = 3 + 4 * (q - 1) + j
    BY ONLY <1>0, <1>2, <1>4, <1>5
  <1>7. L[k] = PlaneLines(filed.planes[q])[j]
    BY ONLY <1>1, <1>6
  <1>8. j \in {1, 2, 3, 4}
    BY ONLY <1>6
  <1> QED BY ONLY <1>7, <1>8 DEF PlaneLines, Of, ORBIT_FIELDS

\* What is read of a form ends with the frequency table.
LEMMA TableRead ==
    ASSUME NEW filed, WellFiled(filed), NEW L, NEW P, P = Len(filed.planes),
           NEW R, R = Len(BandTable(filed.bands)), LaidOut(L, filed, P, R),
           NEW pages, NEW T, ReadBack(T, L, filed.length, pages)
    PROVE  \E end : Table(T, filed, end)
  <1>1. PICK table : table = BandTable(filed.bands)
    OBVIOUS
  <1>2. PICK bands : bands = filed.bands
    OBVIOUS
  <1>3. bands \in Seq(BandForm)
    BY <1>2 DEF WellFiled
  <1>4. PICK off : TableInLines(table, bands, off)
    BY ONLY <1>1, <1>2, <1>3, LinesOfTable
  <1>5. PICK n : n = Len(bands)
    OBVIOUS
  <1>6. /\ off \in [0..n -> Nat] /\ off[0] = 0 /\ R = 1 + off[n] /\ table[1] = Of("mode", 0)
        /\ \A k \in 1..n :
              /\ BandInLines(BandLines(bands[k]), bands[k])
              /\ off[k] = off[k - 1] + Len(BandLines(bands[k]))
              /\ off[k] = Len(FlattenSeq([i \in 1..k |-> BandLines(bands[i])]))
              /\ \A j \in 1..Len(BandLines(bands[k])) :
                    /\ 1 + off[k - 1] + j \in 1..R
                    /\ table[1 + off[k - 1] + j] = BandLines(bands[k])[j]
    BY <1>1, <1>4, <1>5 DEF TableInLines
  <1>7. /\ P \in Nat /\ R \in Nat /\ Len(L) = 3 + 4 * P + R
        /\ L[1].label = "omb" /\ L[2].label \in {"select orbit type", "prose"}
        /\ L[3] = Of("total_satellites", filed.satellites)
        /\ \A i \in 1..R : L[3 + 4 * P + i] = table[i]
    BY <1>1 DEF LaidOut
  <1>8. n \in Nat
    BY <1>3, <1>5, LenProperties
  <1>9. /\ T \in Seq(CitedLine) /\ Len(T) = 3 + 4 * P + R
        /\ \A k \in 1..(3 + 4 * P + R) :
              /\ T[k].label = L[k].label /\ T[k].value = L[k].value
              /\ OnItsPage(T, filed.length, pages, k)
    BY <1>7 DEF ReadBack
  <1>0. P \in Nat /\ R \in Nat /\ n \in Nat
    BY <1>7, <1>8
  <1> DEFINE end == [k \in 0..n |-> 4 + 4 * P + off[k]]
  <1>10. end \in [0..n -> Nat \ {0}] /\ \A k \in 0..n : end[k] = 4 + 4 * P + off[k]
    BY <1>0, <1>6
  <1> HIDE DEF end
  <1>11. Len(T) = end[n] /\ end[0] = 4 + 4 * P
    <2>1. n \in 0..n /\ 0 \in 0..n
      BY <1>0
    <2>2. off[n] \in Nat
      BY <1>6, <2>1
    <2> QED BY <1>0, <1>6, <1>9, <1>10, <2>1, <2>2
  <1>12. ASSUME NEW i \in 1..R
         PROVE  T[3 + 4 * P + i].label = table[i].label /\ T[3 + 4 * P + i].value = table[i].value
    <2>1. i \in 1..R
      OBVIOUS
    <2>2. 3 + 4 * P + i \in 1..(3 + 4 * P + R)
      BY ONLY <1>0, <2>1
    <2> QED BY ONLY <1>7, <1>9, <2>1, <2>2
  <1>13. ASSUME NEW i \in 1..end[0] PROVE T[i].label # "service"
    <2>1. i \in 1..(4 + 4 * P) /\ R \in Nat \ {0} /\ 1 \in 1..R
      <3>1. n \in 0..n
        BY <1>0
      <3>2. off[n] \in Nat
        BY <1>6, <3>1
      <3> QED BY <1>0, <1>6, <1>11, <3>2
    <2>2. i \in {1, 2, 3} \/ i \in 4..(3 + 4 * P) \/ i = 3 + 4 * P + 1
      BY ONLY <1>0, <2>1
    <2>3. CASE i = 3 + 4 * P + 1
      <3>1. T[i].label = table[1].label
        BY <1>12, <2>1, <2>3
      <3> QED BY ONLY <1>6, <3>1 DEF Of
    <2>4. CASE i \in 4..(3 + 4 * P)
      <3>1. L[i].label \in ORBIT_FIELDS
        BY <2>4, FieldLines
      <3>2. i \in 1..(3 + 4 * P + R)
        BY ONLY <1>0, <2>4
      <3>3. T[i].label = L[i].label
        BY ONLY <1>9, <3>2
      <3> QED BY ONLY <3>1, <3>3 DEF ORBIT_FIELDS
    <2>5. CASE i \in {1, 2, 3}
      <3>1. i \in 1..(3 + 4 * P + R)
        BY ONLY <1>0, <2>5
      <3>2. T[i].label = L[i].label
        BY ONLY <1>9, <3>1
      <3>3. L[3].label = "total_satellites"
        <4>1. L[3] = Of("total_satellites", filed.satellites)
          BY ONLY <1>7
        <4> QED BY ONLY <4>1 DEF Of
      <3> QED BY ONLY <1>7, <2>5, <3>2, <3>3
    <2> QED BY <2>2, <2>3, <2>4, <2>5
  <1>14. ASSUME NEW k \in 1..n PROVE BandStands(T, bands[k], end[k - 1], end[k])
    <2>1. PICK c : c = bands[k]
      OBVIOUS
    <2>2. PICK lines : lines = BandLines(c)
      OBVIOUS
    <2>3. PICK m : m = Len(c.service)
      OBVIOUS
    <2>4. /\ m \in Nat \ {0} /\ Len(lines) = m + 3
          /\ \A j \in 1..m : lines[j] = Of("service", c.service[j])
          /\ lines[m + 1] = Of("low", c.freq_low_mhz)
          /\ lines[m + 2] = Of("high", c.freq_high_mhz)
          /\ lines[m + 3] = Of("direction", c.direction)
      <3>1. BandInLines(lines, c)
        BY <1>6, <2>1, <2>2
      <3> QED BY ONLY <2>3, <3>1 DEF BandInLines
    <2>5. k - 1 \in 0..n /\ k \in 0..n
      BY <1>0
    <2>6. PICK a : a = end[k - 1]
      OBVIOUS
    <2>7. PICK o : o = off[k - 1]
      OBVIOUS
    <2>8. PICK e : e = end[k]
      OBVIOUS
    <2>9. o \in Nat /\ a = 4 + 4 * P + o /\ off[k] = o + (m + 3) /\ e = 4 + 4 * P + off[k]
      BY <1>6, <1>10, <2>1, <2>2, <2>4, <2>5, <2>6, <2>7, <2>8
    <2>10. e = a + m + 3 /\ a \in Nat /\ e \in Nat
      BY ONLY <1>0, <2>4, <2>9
    <2>11. ASSUME NEW j \in 1..(m + 3)
           PROVE  T[a + j].label = lines[j].label /\ T[a + j].value = lines[j].value
      <3>1. 1 + o + j \in 1..R /\ table[1 + o + j] = lines[j]
        BY <1>6, <2>1, <2>2, <2>4, <2>7
      <3>2. j \in 1..(m + 3)
        OBVIOUS
      <3>3. 3 + 4 * P + (1 + o + j) = a + j
        BY ONLY <1>0, <2>4, <2>9, <3>2
      <3>4. /\ T[3 + 4 * P + (1 + o + j)].label = table[1 + o + j].label
            /\ T[3 + 4 * P + (1 + o + j)].value = table[1 + o + j].value
        BY <1>12, <3>1
      <3> QED BY ONLY <3>1, <3>3, <3>4
    <2>12. /\ m + 1 \in 1..(m + 3) /\ m + 2 \in 1..(m + 3) /\ m + 3 \in 1..(m + 3)
           /\ a + (m + 1) = e - 2 /\ a + (m + 2) = e - 1 /\ a + (m + 3) = e
           /\ \A j \in 1..m : j \in 1..(m + 3)
      BY ONLY <2>4, <2>10
    <2>13. \A j \in 1..m : T[a + j].label = "service" /\ T[a + j].value = c.service[j]
      <3> SUFFICES ASSUME NEW j \in 1..m
                   PROVE  T[a + j].label = "service" /\ T[a + j].value = c.service[j]
        OBVIOUS
      <3>1. j \in 1..(m + 3)
        BY <2>12
      <3>2. T[a + j].label = lines[j].label /\ T[a + j].value = lines[j].value
        BY <2>11, <3>1
      <3>3. lines[j] = Of("service", c.service[j])
        BY <2>4
      <3> QED BY ONLY <3>2, <3>3 DEF Of
    <2>14. /\ T[e - 2].label = lines[m + 1].label /\ T[e - 2].value = lines[m + 1].value
           /\ T[e - 1].label = lines[m + 2].label /\ T[e - 1].value = lines[m + 2].value
           /\ T[e].label = lines[m + 3].label /\ T[e].value = lines[m + 3].value
      <3>1. /\ T[a + (m + 1)].label = lines[m + 1].label /\ T[a + (m + 1)].value = lines[m + 1].value
            /\ T[a + (m + 2)].label = lines[m + 2].label /\ T[a + (m + 2)].value = lines[m + 2].value
            /\ T[a + (m + 3)].label = lines[m + 3].label /\ T[a + (m + 3)].value = lines[m + 3].value
        BY ONLY <2>11, <2>12
      <3> QED BY ONLY <2>12, <3>1
    <2>15. /\ lines[m + 1].label = "low" /\ lines[m + 1].value = c.freq_low_mhz
           /\ lines[m + 2].label = "high" /\ lines[m + 2].value = c.freq_high_mhz
           /\ lines[m + 3].label = "direction" /\ lines[m + 3].value = c.direction
      BY ONLY <2>4 DEF Of
    <2>16. BandStands(T, c, a, e)
      BY ONLY <2>3, <2>4, <2>10, <2>13, <2>14, <2>15 DEF BandStands
    <2> QED BY <2>1, <2>6, <2>8, <2>16
  <1>15. ASSUME NEW k \in 1..n PROVE BandEnd(filed, k) = end[k]
    <2>1. off[k] = Len(FlattenSeq([i \in 1..k |-> BandLines(bands[i])]))
      BY <1>6
    <2>2. BandEnd(filed, k) = 4 + 4 * P + off[k]
      BY <1>2, <2>1 DEF BandEnd
    <2>3. k \in 0..n
      BY <1>0
    <2> QED BY <1>10, <2>2, <2>3
  <1>16. \A i \in 1..Len(T) : T[i].page = PageOf(filed, i)
    BY <1>9 DEF OnItsPage, PageOf
  <1>17. Table(T, filed, end)
    BY <1>2, <1>3, <1>5, <1>9, <1>10, <1>11, <1>13, <1>14, <1>15, <1>16 DEF Table
  <1> QED BY <1>17

\* The lines of an issue are those of the form, and each value is on the page it cites.
IssueRead(T, filed, pages, P, R) ==
    /\ Layout(T, P, R)
    /\ T[1].label # "total_satellites" /\ T[2].label # "total_satellites"
    /\ T[3].label = "total_satellites" /\ T[3].value = filed.satellites
    /\ \A q \in 1..P : \A k \in 1..4 : T[3 + 4 * (q - 1) + k].value = filed.planes[q][k]
    /\ \E end : Table(T, filed, end)
    /\ \A i \in 1..Len(T) : OnItsPage(T, filed.length, pages, i)
    /\ \A i \in 1..Len(T) : PageSupports(pages, Cited(T[i]))

\* Whatever was filed.
LEMMA IssueLines ==
    ASSUME NEW issue \in DOMAIN Issues, NEW filed, filed = Issues[issue],
           NEW pages, pages = Pages[issue], NEW T, T = Lines(pages),
           NEW P, P = Len(filed.planes), NEW R, R = Len(BandTable(filed.bands))
    PROVE  IssueRead(T, filed, pages, P, R)
  <1>1. WellFiled(filed) /\ filed.length \in Nat \ {0}
    BY IssuesAssumption DEF WellFiled, BandForm
  <1>2. PICK L : L = FormLines(filed)
    OBVIOUS
  <1>3. pages = Paginate(L, filed.length)
    BY <1>2 DEF Pages
  <1>a. LaidOut(L, filed, P, R)
    BY <1>1, <1>2, LinesOfFiled
  <1>4. /\ P \in Nat /\ R \in Nat
        /\ L \in Seq(FormLine) /\ Len(L) = 3 + 4 * P + R
        /\ L[1].label = "omb" /\ L[2].label \in {"select orbit type", "prose"}
        /\ L[3] = Of("total_satellites", filed.satellites)
        /\ \A q \in 1..P : \A k \in 1..4 :
              L[3 + 4 * (q - 1) + k] = PlaneLines(filed.planes[q])[k]
        /\ \A i \in 1..R : /\ BandTable(filed.bands)[i] \in TableLine
                           /\ L[3 + 4 * P + i] = BandTable(filed.bands)[i]
    BY <1>a DEF LaidOut
  <1>b. ReadBack(T, L, filed.length, pages)
    BY <1>1, <1>3, <1>4, LinesOfForm
  <1>5. /\ T \in Seq(CitedLine) /\ Len(T) = Len(L)
        /\ \A k \in 1..Len(L) : /\ T[k].label = L[k].label /\ T[k].value = L[k].value
                               /\ OnItsPage(T, filed.length, pages, k) /\ PageSupports(pages, T[k])
    BY <1>b DEF ReadBack
  <1>0. P \in Nat /\ R \in Nat
    BY <1>4
  <1>6. \A k \in 1..(3 + 4 * P + R) : T[k].label = L[k].label /\ T[k].value = L[k].value
    BY <1>4, <1>5
  <1>7. 1 \in 1..(3 + 4 * P + R) /\ 2 \in 1..(3 + 4 * P + R) /\ 3 \in 1..(3 + 4 * P + R)
    BY ONLY <1>0
  <1>8. ASSUME NEW q \in 1..P, NEW k \in 1..4
        PROVE  /\ T[3 + 4 * (q - 1) + k].label = PlaneLines(filed.planes[q])[k].label
               /\ T[3 + 4 * (q - 1) + k].value = PlaneLines(filed.planes[q])[k].value
    <2>1. 3 + 4 * (q - 1) + k \in 1..(3 + 4 * P + R)
      <3>1. P \in Nat /\ R \in Nat /\ q \in 1..P /\ k \in 1..4
        BY <1>4
      <3> QED BY ONLY <3>1
    <2> QED BY <1>4, <1>6, <2>1
  <1>9. ASSUME NEW i \in 1..R PROVE T[3 + 4 * P + i].label \in BAND_LABELS
    <2>1. PICK k : k = 3 + 4 * P + i
      OBVIOUS
    <2>2. k \in 1..(3 + 4 * P + R)
      <3>1. P \in Nat /\ R \in Nat /\ i \in 1..R
        BY <1>4
      <3> QED BY ONLY <2>1, <3>1
    <2>3. L[k] \in TableLine
      BY <1>4, <2>1
    <2>4. T[k].label = L[k].label
      BY <1>6, <2>2
    <2> QED BY ONLY <2>1, <2>3, <2>4 DEF TableLine
  <1>10. /\ T[1].label = "omb" /\ T[2].label \in {"select orbit type", "prose"}
         /\ T[3].label = "total_satellites" /\ T[3].value = filed.satellites
    <2>1. T[1].label = L[1].label /\ T[2].label = L[2].label /\ T[3].label = L[3].label
          /\ T[3].value = L[3].value
      BY ONLY <1>6, <1>7
    <2>2. L[3].label = "total_satellites" /\ L[3].value = filed.satellites
      <3>1. L[3] = Of("total_satellites", filed.satellites)
        BY ONLY <1>4
      <3> QED BY ONLY <3>1 DEF Of
    <2>3. L[1].label = "omb" /\ L[2].label \in {"select orbit type", "prose"}
      BY ONLY <1>4
    <2> QED BY ONLY <2>1, <2>2, <2>3
  <1>11. \A p : /\ PlaneLines(p)[1].label = "inclination_deg" /\ PlaneLines(p)[2].label = "arg_perigee_deg"
                /\ PlaneLines(p)[3].label = "apogee_km" /\ PlaneLines(p)[4].label = "perigee_km"
                /\ \A k \in 1..4 : PlaneLines(p)[k].value = p[k]
    <2> TAKE p
    <2>1. \A k \in 1..4 : k \in {1, 2, 3, 4}
      OBVIOUS
    <2>2. \A k \in {1, 2, 3, 4} : PlaneLines(p)[k].value = p[k]
      BY DEF PlaneLines, Of
    <2> QED BY <2>1, <2>2 DEF PlaneLines, Of
  <1>12. ASSUME NEW q \in 1..P
         PROVE  /\ T[3 + 4 * (q - 1) + 1].label = "inclination_deg"
                /\ T[3 + 4 * (q - 1) + 2].label = "arg_perigee_deg"
                /\ T[3 + 4 * (q - 1) + 3].label = "apogee_km"
                /\ T[3 + 4 * (q - 1) + 4].label = "perigee_km"
    <2>1. 1 \in 1..4 /\ 2 \in 1..4 /\ 3 \in 1..4 /\ 4 \in 1..4
      OBVIOUS
    <2>2. PICK p : p = PlaneLines(filed.planes[q])
      OBVIOUS
    <2>3. /\ p[1].label = "inclination_deg" /\ p[2].label = "arg_perigee_deg"
          /\ p[3].label = "apogee_km" /\ p[4].label = "perigee_km"
      BY ONLY <1>11, <2>2
    <2>4. \A k \in 1..4 : T[3 + 4 * (q - 1) + k].label = p[k].label
      BY <1>8, <2>2
    <2> QED BY ONLY <2>1, <2>3, <2>4
  <1>13. ASSUME NEW i \in 1..3 PROVE T[i].label \notin ORBIT_FIELDS
    <2>1. i \in {1, 2, 3}
      OBVIOUS
    <2> QED BY <1>10, <2>1 DEF ORBIT_FIELDS
  <1>14. Layout(T, P, R)
    <2>1. T \in Seq(CitedLine) /\ P \in Nat /\ R \in Nat /\ Len(T) = 3 + 4 * P + R
      BY ONLY <1>4, <1>5
    <2> QED BY ONLY <1>9, <1>12, <1>13, <2>1 DEF Layout
  <1>15. ASSUME NEW i \in 1..Len(T) PROVE PageSupports(pages, Cited(T[i]))
    BY <1>5 DEF PageSupports, Cited
  <1>16. T[1].label # "total_satellites" /\ T[2].label # "total_satellites"
    BY ONLY <1>10
  <1>17. \A q \in 1..P : \A k \in 1..4 : T[3 + 4 * (q - 1) + k].value = filed.planes[q][k]
    BY ONLY <1>8, <1>11
  <1>18. \E end : Table(T, filed, end)
    BY <1>1, <1>a, <1>b, TableRead
  <1>19. \A i \in 1..Len(T) : OnItsPage(T, filed.length, pages, i)
    BY <1>5
  <1> QED BY ONLY <1>10, <1>14, <1>15, <1>16, <1>17, <1>18, <1>19 DEF IssueRead

\* Two of the anchors are on the pages of a report only.
LEMMA OnlyReportsPass ==
    ASSUME NEW issue \in DOMAIN Issues, IsScheduleS(Pages[issue])
    PROVE  Issues[issue].report
  <1>1. PICK filed : filed = Issues[issue]
    OBVIOUS
  <1>2. PICK L : L = FormLines(filed)
    OBVIOUS
  <1>3. PICK pages : pages = Pages[issue]
    OBVIOUS
  <1>4. PICK length : length = filed.length
    OBVIOUS
  <1>5. WellFiled(filed) /\ length \in Nat \ {0}
    BY <1>1, <1>4, IssuesAssumption DEF WellFiled, BandForm
  <1>6. pages = Paginate(L, length)
    BY <1>1, <1>2, <1>3, <1>4 DEF Pages
  <1>7. PICK P : P = Len(filed.planes)
    OBVIOUS
  <1>8. PICK R : R = Len(BandTable(filed.bands))
    OBVIOUS
  <1>9. LaidOut(L, filed, P, R)
    BY <1>2, <1>5, <1>7, <1>8, LinesOfFiled
  <1>10. /\ P \in Nat /\ R \in Nat
         /\ L \in Seq(FormLine) /\ Len(L) = 3 + 4 * P + R
         /\ L[1].label = "omb" /\ L[2].label \in {"select orbit type", "prose"}
         /\ L[2].label = "select orbit type" => filed.report = TRUE
         /\ L[3] = Of("total_satellites", filed.satellites)
         /\ \A i \in 1..R : /\ BandTable(filed.bands)[i] \in TableLine
                            /\ L[3 + 4 * P + i] = BandTable(filed.bands)[i]
    BY <1>9 DEF LaidOut
  <1>0. P \in Nat /\ R \in Nat /\ Len(L) = 3 + 4 * P + R
    BY <1>10
  <1>11. SUFFICES ASSUME ~filed.report PROVE FALSE
    BY <1>1
  <1>12. ASSUME NEW k \in 1..Len(L), L[k].label \in ANCHORS PROVE L[k].label = "omb"
    <2>1. CASE k \in {1, 2, 3}
      <3>1. L[1].label = "omb" /\ L[2].label = "prose" /\ L[3].label = "total_satellites"
        <4>1. L[3].label = "total_satellites"
          <5>1. L[3] = Of("total_satellites", filed.satellites)
            BY ONLY <1>10
          <5> QED BY ONLY <5>1 DEF Of
        <4> QED BY ONLY <1>10, <1>11, <4>1
      <3>2. L[k].label \in ANCHORS
        BY <1>12
      <3> QED BY ONLY <2>1, <3>1, <3>2 DEF ANCHORS
    <2>2. CASE k \in 4..(3 + 4 * P)
      <3>1. L[k].label \in ORBIT_FIELDS
        BY <1>9, <2>2, FieldLines
      <3>2. L[k].label \in ANCHORS
        BY <1>12
      <3> QED BY ONLY <3>1, <3>2 DEF ANCHORS, ORBIT_FIELDS
    <2>3. CASE k \in (3 + 4 * P + 1)..Len(L)
      <3>1. PICK i : i = k - (3 + 4 * P)
        OBVIOUS
      <3>2. i \in 1..R /\ k = 3 + 4 * P + i
        BY ONLY <1>0, <2>3, <3>1
      <3>3. L[k] \in TableLine
        BY ONLY <1>10, <3>2
      <3>4. L[k].label \in ANCHORS
        BY <1>12
      <3> QED BY ONLY <3>3, <3>4 DEF TableLine, BAND_LABELS, ANCHORS
    <2>4. k \in {1, 2, 3} \/ k \in 4..(3 + 4 * P) \/ k \in (3 + 4 * P + 1)..Len(L)
      <3>1. k \in 1..Len(L)
        OBVIOUS
      <3> QED BY ONLY <1>0, <3>1
    <2> QED BY <2>1, <2>2, <2>3, <2>4
  <1>13. ASSUME NEW n \in DOMAIN pages, NEW i \in DOMAIN pages[n], pages[n][i].label \in ANCHORS
         PROVE  pages[n][i].label = "omb"
    <2>1. PICK count : count = (Len(L) + length - 1) \div length
      OBVIOUS
    <2>2. count \in Nat /\ n \in 1..count
          /\ pages[n] = SubSeq(L, length * (n - 1) + 1, Min({length * n, Len(L)}))
      <3>1. Len(L) \in Nat
        BY <1>10, LenProperties
      <3>2. count \in Nat
        BY <1>5, <2>1, <3>1, EnoughBatches
      <3> QED BY <1>6, <2>1, <3>2 DEF Paginate
    <2>3. n \in Nat \ {0} /\ length * (n - 1) <= Len(L)
      <3>1. Len(L) \in Nat
        BY <1>10, LenProperties
      <3>2. length * count <= Len(L) + length - 1
        BY <1>5, <2>1, <3>1, SMT
      <3>3. n \in Nat /\ 1 <= n /\ n <= count /\ length \in Nat /\ 1 <= length
        BY <1>5, <2>2
      <3>4. length * n <= length * count
        BY <2>2, <3>3, SMT
      <3>5. length * (n - 1) = length * n - length
        BY <3>3, SMT
      <3>6. length * n \in Int /\ length * count \in Int
        BY <2>2, <3>3
      <3> QED BY <3>1, <3>2, <3>3, <3>4, <3>5, <3>6
    <2>4. PICK page : page = pages[n]
      OBVIOUS
    <2>5. /\ page \in Seq(FormLine)
          /\ \A h \in 1..Len(page) : /\ length * (n - 1) + h \in 1..Len(L)
                                     /\ page[h] = L[length * (n - 1) + h]
      <3>1. L \in Seq(FormLine) /\ length \in Nat \ {0}
        BY <1>5, <1>10
      <3>2. page = SubSeq(L, length * (n - 1) + 1, Min({length * n, Len(L)}))
        BY <2>2, <2>4
      <3> QED BY ONLY <2>3, <3>1, <3>2, PageHolds
    <2>6. i \in 1..Len(page)
      BY <2>4, <2>5, LenProperties
    <2>7. PICK k \in 1..Len(L) : page[i] = L[k]
      BY <2>5, <2>6
    <2> QED BY <1>12, <1>13, <2>4, <2>7
  <1> DEFINE head == UNION {{pages[n][i].label : i \in DOMAIN pages[n]} : n \in DOMAIN pages \cap 1..3}
             found == head \cap ANCHORS
  <1>14. found \in SUBSET {"omb"}
    BY <1>13
  <1>15. Cardinality(found) >= 2
    BY <1>3 DEF IsScheduleS
  <1> HIDE DEF found
  <1>16. Cardinality(found) \in Nat /\ Cardinality(found) <= 1
    <2>1. IsFiniteSet({"omb"}) /\ Cardinality({"omb"}) = 1
      BY FS_Singleton
    <2>2. IsFiniteSet(found) /\ Cardinality(found) <= 1
      BY <1>14, <2>1, FS_Subset
    <2> QED BY <2>2, FS_CardinalityType
  <1> QED BY <1>15, <1>16

\* All of a sequence is kept.
LEMMA AllKept ==
    ASSUME NEW n \in Nat, NEW row, row = [i \in 1..n |-> row[i]], NEW I, I = 1..n
    PROVE  Kept(row, I) = row
  <1>1. I = (0 + 1)..n
    OBVIOUS
  <1>2. row = [i \in 1..(n - 0) |-> row[0 + i]]
    OBVIOUS
  <1>3. 0 \in Nat /\ 0 <= n
    OBVIOUS
  <1> QED BY ONLY <1>1, <1>2, <1>3, n \in Nat, KeptInterval

\* A sequence of some length.
Listed(s) == \E n \in Nat : s = [i \in 1..n |-> s[i]]

\* The planes of an issue are those that were filed, and the validator lets all of them pass.
PlanesAsFiled(issue, planes) ==
    /\ Listed(planes) /\ \A i \in DOMAIN planes : ValidateFieldwise(Pages[issue], planes[i])
    /\ [i \in DOMAIN planes |->
          <<planes[i].inclination_deg.value, planes[i].arg_perigee_deg.value,
            planes[i].apogee_km.value, planes[i].perigee_km.value>>] = Issues[issue].planes

\* Its bands are those that no page break splits.
BandsAsFiled(issue, bands, unbroken) ==
    /\ Listed(bands) /\ \A i \in DOMAIN bands : ValidateBand(Pages[issue], bands[i])
    /\ DOMAIN bands = DOMAIN unbroken
    /\ \A i \in DOMAIN bands : BandAsFiled(bands[i], Issues[issue], unbroken[i])

\* The parser reads every plane as it was filed.
LEMMA PlanesOfIssue ==
    ASSUME NEW issue \in DOMAIN Issues, NEW planes, planes = Parsed[issue].planes
    PROVE  PlanesAsFiled(issue, planes)
  <1>1. PICK filed : filed = Issues[issue]
    OBVIOUS
  <1>2. PICK pages : pages = Pages[issue]
    OBVIOUS
  <1>3. PICK T : T = Lines(pages)
    OBVIOUS
  <1>4. PICK P : P = Len(filed.planes)
    OBVIOUS
  <1>5. PICK R : R = Len(BandTable(filed.bands))
    OBVIOUS
  <1>6. IssueRead(T, filed, pages, P, R)
    BY <1>1, <1>2, <1>3, <1>4, <1>5, IssueLines
  <1>7. /\ Layout(T, P, R) /\ \A i \in 1..Len(T) : PageSupports(pages, Cited(T[i]))
        /\ \A q \in 1..P : \A k \in 1..4 : T[3 + 4 * (q - 1) + k].value = filed.planes[q][k]
    BY ONLY <1>6 DEF IssueRead
  <1>8. P \in Nat /\ R \in Nat /\ Len(T) = 3 + 4 * P + R
    BY <1>7 DEF Layout
  <1>9. /\ filed.planes = [i \in 1..P |-> filed.planes[i]]
        /\ \A i \in 1..P : filed.planes[i] \in Nat \X Nat \X Nat \X Nat
    <2>1. filed.planes \in Seq(Nat \X Nat \X Nat \X Nat)
      BY <1>1, IssuesAssumption
    <2>2. filed.planes \in [1..P -> Nat \X Nat \X Nat \X Nat]
      BY <1>4, <2>1, LenProperties
    <2> QED BY <2>2
  <1>10. planes = ParsePlanes(pages)
    BY <1>2 DEF Parsed
  <1>11. planes = [i \in 1..P |-> PlaneFrom(T, 3 + 4 * (i - 1))]
    BY <1>3, <1>7, <1>10, PlanesParsed DEF PlanesOf
  <1>12. ASSUME NEW i \in 1..P
         PROVE  /\ ValidateFieldwise(pages, planes[i])
                /\ filed.planes[i] =
                      <<planes[i].inclination_deg.value, planes[i].arg_perigee_deg.value,
                        planes[i].apogee_km.value, planes[i].perigee_km.value>>
    <2>1. PICK b : b = 3 + 4 * (i - 1)
      OBVIOUS
    <2>2. b + 1 \in 1..Len(T) /\ b + 2 \in 1..Len(T) /\ b + 3 \in 1..Len(T) /\ b + 4 \in 1..Len(T)
      <3>1. i \in 1..P
        OBVIOUS
      <3> QED BY ONLY <1>8, <2>1, <3>1
    <2>3. planes[i] = PlaneFrom(T, b)
      BY <1>11, <2>1
    <2>4. /\ PageSupports(pages, Cited(T[b + 1])) /\ PageSupports(pages, Cited(T[b + 2]))
          /\ PageSupports(pages, Cited(T[b + 3])) /\ PageSupports(pages, Cited(T[b + 4]))
      BY <1>7, <2>2
    <2>5. ValidateFieldwise(pages, planes[i])
      BY <2>3, <2>4 DEF ValidateFieldwise, PlaneFrom
    <2>6. /\ T[b + 1].value = filed.planes[i][1] /\ T[b + 2].value = filed.planes[i][2]
          /\ T[b + 3].value = filed.planes[i][3] /\ T[b + 4].value = filed.planes[i][4]
      BY <1>7, <2>1
    <2>7. filed.planes[i] = <<filed.planes[i][1], filed.planes[i][2], filed.planes[i][3],
                              filed.planes[i][4]>>
      BY <1>9
    <2>8. filed.planes[i] =
             <<planes[i].inclination_deg.value, planes[i].arg_perigee_deg.value,
               planes[i].apogee_km.value, planes[i].perigee_km.value>>
      BY <2>3, <2>6, <2>7 DEF PlaneFrom, Cited
    <2> QED BY <2>5, <2>8
  <1>13. DOMAIN planes = 1..P /\ planes = [i \in 1..P |-> planes[i]]
    BY <1>11
  <1>14. Listed(planes)
    BY <1>8, <1>13 DEF Listed
  <1>15. [i \in DOMAIN planes |->
             <<planes[i].inclination_deg.value, planes[i].arg_perigee_deg.value,
               planes[i].apogee_km.value, planes[i].perigee_km.value>>] = filed.planes
    BY <1>9, <1>12, <1>13
  <1>16. \A i \in DOMAIN planes : ValidateFieldwise(Pages[issue], planes[i])
    BY <1>2, <1>12, <1>13
  <1> QED BY <1>1, <1>14, <1>15, <1>16 DEF PlanesAsFiled

\* And every band that no page break splits.
LEMMA BandsOfIssue ==
    ASSUME NEW issue \in DOMAIN Issues, NEW bands, bands = Parsed[issue].bands,
           NEW filed, filed = Issues[issue], NEW D, D = DOMAIN filed.bands,
           NEW t, t = [k \in D |-> k], NEW unbroken, unbroken = Kept(t, Unbroken(filed))
    PROVE  BandsAsFiled(issue, bands, unbroken)
  <1>1. PICK pages : pages = Pages[issue]
    OBVIOUS
  <1>2. PICK T : T = Lines(pages)
    OBVIOUS
  <1>3. PICK P : P = Len(filed.planes)
    OBVIOUS
  <1>4. PICK R : R = Len(BandTable(filed.bands))
    OBVIOUS
  <1>5. IssueRead(T, filed, pages, P, R)
    BY <1>1, <1>2, <1>3, <1>4, IssueLines
  <1>6. \A i \in 1..Len(T) : OnItsPage(T, filed.length, pages, i)
    BY ONLY <1>5 DEF IssueRead
  <1>7. PICK end : Table(T, filed, end)
    BY ONLY <1>5 DEF IssueRead
  <1>8. PICK U : U = Unbroken(filed)
    OBVIOUS
  <1>9. PICK M : M = BandMatches(T)
    OBVIOUS
  <1>10. PICK row : row = [i \in M |-> BandRow(T, i)]
    OBVIOUS
  <1>11. bands = Kept(row, M)
    <2>1. bands = ParseBands(pages)
      BY <1>1 DEF Parsed
    <2>2. ParseBands(pages) = Kept([i \in BandMatches(T) |-> BandRow(T, i)], BandMatches(T))
      BY <1>2 DEF ParseBands, BandRow
    <2> QED BY <1>9, <1>10, <2>1, <2>2
  <1>12. PICK n : n = Len(filed.bands)
    OBVIOUS
  <1>13. /\ n \in Nat /\ D = 1..n /\ end \in [0..n -> Nat \ {0}] /\ U \subseteq 1..n
         /\ T \in Seq(CitedLine)
    <2>1. filed.bands \in Seq(BandForm) /\ end \in [0..n -> Nat \ {0}] /\ T \in Seq(CitedLine)
      BY ONLY <1>7, <1>12 DEF Table
    <2>2. n \in Nat /\ D = 1..n
      BY <1>12, <2>1, LenProperties
    <2> QED BY <1>8, <2>1, <2>2 DEF Unbroken
  <1> DEFINE f == [k \in U |-> end[k] - 3]
  <1>14. \A j, k \in 0..n : j < k => end[j] + 4 <= end[k]
    BY <1>7, <1>12, EndsIncrease
  <1>15. ASSUME NEW k \in U PROVE end[k] - 3 \in Nat
    <2>1. k \in 1..n /\ 0 \in 0..n /\ k \in 0..n /\ 0 < k
      BY <1>13
    <2>2. end[0] + 4 <= end[k] /\ end[0] \in Nat /\ end[k] \in Nat
      BY <1>13, <1>14, <2>1
    <2> QED BY <2>2
  <1>16. f \in [U -> Nat] /\ \A k \in U : f[k] = end[k] - 3
    BY <1>15
  <1>17. \A j, k \in U : j < k => f[j] < f[k]
    <2> SUFFICES ASSUME NEW j \in U, NEW k \in U, j < k PROVE f[j] < f[k]
      OBVIOUS
    <2>1. j \in 0..n /\ k \in 0..n
      BY <1>13
    <2>2. end[j] + 4 <= end[k] /\ end[j] \in Nat /\ end[k] \in Nat
      BY <1>13, <1>14, <2>1
    <2>3. f[j] = end[j] - 3 /\ f[k] = end[k] - 3
      BY <1>16
    <2> HIDE DEF f
    <2> QED BY <2>2, <2>3
  <1>18. M = {f[k] : k \in U}
    <2>1. M = {end[k] - 3 : k \in U}
      BY <1>7, <1>8, <1>9, MatchesAreUnbroken
    <2> HIDE DEF f
    <2> QED BY <1>16, <2>1
  <1> HIDE DEF f
  <1>19. U \subseteq Nat /\ IsFiniteSet(U) /\ U \subseteq D
    <2>1. 1 \in Int /\ n \in Int /\ U \in SUBSET (1..n)
      BY <1>13
    <2>2. IsFiniteSet(1..n)
      BY ONLY <2>1, FS_Interval
    <2>3. IsFiniteSet(U)
      BY ONLY <2>1, <2>2, FS_Subset
    <2> QED BY <1>13, <2>3
  <1>20. unbroken = Kept(t, U)
    BY <1>8
  <1>21. /\ DOMAIN bands = DOMAIN unbroken
         /\ \A i \in DOMAIN unbroken : unbroken[i] \in U /\ bands[i] = row[f[unbroken[i]]]
    <2>1. SameKept(bands, unbroken, row, f, U)
      BY ONLY <1>11, <1>16, <1>17, <1>18, <1>19, <1>20, t = [k \in D |-> k], KeptImage
    <2> QED BY ONLY <2>1 DEF SameKept
  <1>22. ASSUME NEW i \in DOMAIN bands
         PROVE  /\ ValidateBand(pages, bands[i]) /\ BandAsFiled(bands[i], filed, unbroken[i])
    <2>1. PICK k : k = unbroken[i]
      OBVIOUS
    <2>2. k \in U /\ bands[i] = row[end[k] - 3] /\ end[k] - 3 \in M
      <3>1. i \in DOMAIN unbroken
        BY <1>21
      <3>2. k \in U /\ bands[i] = row[f[k]]
        BY <1>21, <2>1, <3>1
      <3>3. f[k] = end[k] - 3
        BY <1>16, <3>2
      <3>4. f[k] \in M
        BY <1>18, <3>2
      <3> QED BY <3>2, <3>3, <3>4
    <2>3. bands[i] = BandRow(T, end[k] - 3)
      BY <1>10, <2>2
    <2>4. BandAsFiled(BandRow(T, end[k] - 3), filed, k)
      BY <1>7, <1>8, <2>2, BandRead
    <2>5. PICK h : h = end[k] - 3
      OBVIOUS
    <2>6. ValidateBand(pages, BandRow(T, h))
      <3>1. h \in BandMatches(T)
        BY <1>9, <2>2, <2>5
      <3>2. filed.length \in Nat \ {0}
        BY IssuesAssumption
      <3> QED BY ONLY <1>6, <1>13, <3>1, <3>2, BandRowValid
    <2> QED BY <2>1, <2>3, <2>4, <2>5, <2>6
  <1>23. Listed(bands)
    <2>1. InOrder(bands, row, M)
      <3>1. M \subseteq Nat /\ IsFiniteSet(M)
        <4>1. \A j, k \in U : j < k => f[j] < f[k]
          BY <1>17
        <4> QED BY ONLY <1>16, <1>18, <1>19, <4>1, ImageInOrder
      <3> QED BY ONLY <1>11, <3>1, KeptInOrder
    <2>2. Cardinality(M) \in Nat /\ DOMAIN bands = 1..Cardinality(M)
      BY ONLY <2>1 DEF InOrder
    <2>3. bands = [i \in DOMAIN bands |-> bands[i]]
      BY <1>11 DEF Kept
    <2> QED BY <2>2, <2>3 DEF Listed
  <1> QED BY <1>1, <1>21, <1>22, <1>23 DEF BandsAsFiled

\* And the summary, of which every value is on the page it cites.
LEMMA ScalarsOfIssue ==
    ASSUME NEW issue \in DOMAIN Issues, NEW scalars, scalars = Parsed[issue].scalars
    PROVE  ScalarsValid(issue) /\ scalars.total_satellites.value = Issues[issue].satellites
  <1>1. PICK filed : filed = Issues[issue]
    OBVIOUS
  <1>2. PICK pages : pages = Pages[issue]
    OBVIOUS
  <1>3. PICK T : T = Lines(pages)
    OBVIOUS
  <1>4. PICK P : P = Len(filed.planes)
    OBVIOUS
  <1>5. PICK R : R = Len(BandTable(filed.bands))
    OBVIOUS
  <1>6. IssueRead(T, filed, pages, P, R)
    BY <1>1, <1>2, <1>3, <1>4, <1>5, IssueLines
  <1>7. /\ Layout(T, P, R) /\ \A i \in 1..Len(T) : PageSupports(pages, Cited(T[i]))
        /\ T[1].label # "total_satellites" /\ T[2].label # "total_satellites"
        /\ T[3].label = "total_satellites" /\ T[3].value = filed.satellites
    BY ONLY <1>6 DEF IssueRead
  <1>8. scalars = ParseScalars(pages)
    BY <1>2 DEF Parsed
  <1>9. /\ "total_satellites" \in DOMAIN scalars
        /\ scalars["total_satellites"] = Cited(T[3])
        /\ \A k \in DOMAIN scalars : \E i \in 1..Len(T) : scalars[k] = Cited(T[i])
    BY <1>3, <1>7, <1>8, ScalarsParsed
  <1>10. ValidateFieldwise(pages, scalars)
    BY <1>7, <1>9 DEF ValidateFieldwise
  <1>11. ScalarsValid(issue)
    <2>1. Parsed[issue].scalars = scalars
      OBVIOUS
    <2> QED BY <1>2, <1>10, <2>1 DEF ScalarsValid
  <1>12. scalars.total_satellites.value = filed.satellites
    BY <1>7, <1>9 DEF Cited
  <1> QED BY <1>1, <1>11, <1>12

-----------------------------------------------------------------------------
(* FilingSpecs. *)

\* The document an extraction has in hand.
Held(e) == IF e.pc \in {"fetched", "parsed"} THEN {e.doc} ELSE {}

\* What holds of an extraction whatever the others do: the document in hand has left its list, and
\* a full sweep still has before it every document that was due when it began.
AtHand(e) ==
    /\ e.pc = "idle" => e = Resting
    /\ Held(e) \subseteq SchedNamed \ e.todo
    /\ e.pc = "parsed" => e.got \in DOMAIN Issues
    /\ ~e.scoped => e.due \subseteq e.todo

\* A filing's specification cites one of its own documents; rows are stored with or after one.
Anchored ==
    /\ \A f \in Extracted : Home(spec[f].doc) = f
    /\ \A d \in Doc : DOMAIN rows[d].planes \cup DOMAIN rows[d].bands # {} => Home(d) \in Extracted

\* The documents an extraction will still write about are not those that specifications cite, and
\* what it has parsed is what it has hashed.
Private(e) ==
    /\ \A d \in e.todo \cup Held(e) : Home(d) \in Extracted => spec[Home(d)].doc # d
    /\ e.pc = "parsed" => blob[e.doc] = [status |-> "ok", sha |-> e.got]

OneAtATime ==
    /\ \A r, o \in Runs : r # o => extract[r] = Resting \/ extract[o] = Resting
    /\ \A r \in Runs : Private(extract[r])

FilingInv ==
    /\ FilingTypeOK
    /\ \A r \in Runs : AtHand(extract[r])
    /\ Anchored
    /\ ClosedGateMeansFullSweep
    /\ OneReceipt
    /\ ~overlapped => OneAtATime

\* A document belongs to one of the filings.
LEMMA HomeIsFiling ==
    ASSUME NEW d \in Doc
    PROVE  Home(d) \in Filing
  BY DEF Filing

\* An extraction at rest holds nothing.
LEMMA RestingIsEmpty ==
    AtHand(Resting) /\ Private(Resting) /\ Resting \in Extractions
  BY DEF AtHand, Private, Resting, Held, Extractions

\* What is neither stored nor extracted changes: the gateway, the inventory, the gate.
LEMMA OutsideKeeps ==
    ASSUME FilingInv, UNCHANGED <<blob, spec, rows, extract, overlapped>>,
           FilingTypeOK', ClosedGateMeansFullSweep'
    PROVE  FilingInv'
  <1>1. (\A r \in Runs : AtHand(extract[r]))'
    BY DEF FilingInv, AtHand, Held
  <1>2. Anchored'
    BY DEF FilingInv, Anchored, Extracted
  <1>3. OneReceipt'
    BY DEF FilingInv, OneReceipt, Extracted
  <1>4. ~overlapped' => OneAtATime'
    BY DEF FilingInv, OneAtATime, Private, Held, Extracted
  <1> QED BY <1>1, <1>2, <1>3, <1>4 DEF FilingInv

\* An extraction begins: nothing on its list has a specification yet.
LEMMA StartKeeps ==
    ASSUME FilingInv, NEW r \in Runs, NEW todo \in SUBSET Todo, NEW scoped \in BOOLEAN,
           scoped \/ todo = Todo, Start(r, todo, scoped)
    PROVE  FilingInv'
  <1> DEFINE begun == extract'[r]
  <1>0. /\ extract[r] = Resting
        /\ extract' = [extract EXCEPT ![r] =
              [Resting EXCEPT !.pc = "next", !.scoped = scoped, !.todo = todo, !.due = Todo]]
        /\ overlapped' = (overlapped \/ \E o \in Runs : extract[o] # Resting)
        /\ UNCHANGED <<served, inventory, blob, spec, rows, fresh, reissues, missed>>
    BY DEF Start
  <1>1. Todo \subseteq SchedNamed /\ \A d \in Todo : Home(d) \notin Extracted
    BY DEF Todo, Extracted
  <1>2. /\ extract \in [Runs -> Extractions]
        /\ DOMAIN extract' = Runs /\ \A o \in Runs \ {r} : extract'[o] = extract[o]
        /\ begun = [Resting EXCEPT !.pc = "next", !.scoped = scoped, !.todo = todo, !.due = Todo]
    BY <1>0 DEF FilingInv, FilingTypeOK
  <1>3. /\ begun \in Extractions
        /\ begun.pc = "next" /\ begun.scoped = scoped /\ begun.todo = todo /\ begun.due = Todo
    <2>1. Todo \in SUBSET SchedNamed /\ todo \in SUBSET SchedNamed
      BY <1>1
    <2> QED BY <1>2, <2>1, RestingIsEmpty DEF Extractions, Resting
  <1> HIDE DEF begun
  <1>5. FilingTypeOK'
    <2>1. extract' \in [Runs -> Extractions]
      BY <1>2, <1>3, <1>0 DEF begun
    <2>2. overlapped' \in BOOLEAN
      BY <1>0 DEF FilingInv, FilingTypeOK
    <2> QED BY <1>0, <2>1, <2>2 DEF FilingInv, FilingTypeOK
  <1>6. ASSUME NEW o \in Runs PROVE AtHand(extract'[o])
    <2>1. AtHand(begun)
      BY <1>3 DEF AtHand, Held
    <2> QED BY <1>2, <2>1 DEF FilingInv, begun
  <1>7. Anchored' /\ ClosedGateMeansFullSweep'
    BY <1>0 DEF FilingInv, Anchored, Extracted, ClosedGateMeansFullSweep
  <1>8. OneReceipt'
    BY <1>0 DEF FilingInv, OneReceipt, Extracted
  <1>9. ASSUME ~overlapped' PROVE OneAtATime'
    <2>1. ~overlapped /\ \A o \in Runs : extract[o] = Resting
      BY <1>0, <1>9 DEF FilingInv, FilingTypeOK
    <2>2. \A o \in Runs \ {r} : extract'[o] = Resting
      BY <1>2, <2>1
    <2>3. Held(begun) = {} /\ begun.todo \subseteq Todo /\ begun.pc # "parsed"
      BY <1>3 DEF Held
    <2>4. Extracted' = Extracted
      BY <1>0 DEF Extracted
    <2>5. ASSUME NEW o \in Runs PROVE Private(extract[o])'
      <3>1. CASE o = r
        BY <3>1, <1>1, <2>3, <2>4 DEF Private, begun
      <3>2. CASE o # r
        BY <3>2, <2>2 DEF Private, Held, Resting
      <3> QED BY <3>1, <3>2
    <2> QED BY <2>2, <2>5 DEF OneAtATime
  <1> QED BY <1>5, <1>6, <1>7, <1>8, <1>9 DEF FilingInv

\* The document in hand was on the list of the same run.
LEMMA FetchKeeps ==
    ASSUME FilingInv, NEW r \in Runs, Fetch(r)
    PROVE  FilingInv'
  <1> DEFINE e == extract[r]
             q == extract'[r]
  <1>1. PICK d \in e.todo : extract' = [extract EXCEPT ![r] =
              [e EXCEPT !.pc = "fetched", !.doc = d, !.todo = @ \ {d}, !.due = @ \ {d},
                        !.got = served[d]]]
    BY DEF Fetch
  <1>2. e.pc = "next" /\ UNCHANGED <<served, inventory, blob, spec, rows, fresh, overlapped, missed>>
    BY DEF Fetch
  <1>3. /\ extract \in [Runs -> Extractions] /\ e \in Extractions /\ served \in [Doc -> Contents]
        /\ \A o \in Runs : AtHand(extract[o])
    BY DEF FilingInv, FilingTypeOK
  <1>4. d \in SchedNamed /\ d \in Doc /\ served[d] \in Contents
    BY <1>1, <1>3, FilingAssumption DEF Extractions
  <1>5. /\ DOMAIN extract' = Runs /\ \A o \in Runs \ {r} : extract'[o] = extract[o]
        /\ q = [e EXCEPT !.pc = "fetched", !.doc = d, !.todo = e.todo \ {d}, !.due = e.due \ {d},
                         !.got = served[d]]
    BY <1>1, <1>3
  <1> HIDE DEF e
  <1>6. /\ q \in Extractions
        /\ q.pc = "fetched" /\ q.doc = d /\ q.todo = e.todo \ {d} /\ q.due = e.due \ {d}
        /\ q.scoped = e.scoped
    BY <1>5, <1>4, <1>3 DEF Extractions
  <1>7. FilingTypeOK'
    <2>1. extract' \in [Runs -> Extractions]
      BY <1>1, <1>3, <1>6
    <2> QED BY <1>2, <2>1 DEF FilingInv, FilingTypeOK
  <1>8. ASSUME NEW o \in Runs PROVE AtHand(extract'[o])
    <2>1. AtHand(e)
      BY <1>3 DEF e
    <2>2. AtHand(q)
      BY <2>1, <1>6, <1>4 DEF AtHand, Held
    <2> QED BY <1>5, <1>3, <2>2
  <1>9. Anchored' /\ ClosedGateMeansFullSweep'
    BY <1>2 DEF FilingInv, Anchored, Extracted, ClosedGateMeansFullSweep
  <1>10. OneReceipt'
    BY <1>2 DEF FilingInv, OneReceipt, Extracted
  <1>11. ASSUME ~overlapped' PROVE OneAtATime'
    <2>1. OneAtATime
      BY <1>2, <1>11 DEF FilingInv
    <2>2. e # Resting
      BY <1>2 DEF Resting
    <2>3. \A o \in Runs \ {r} : extract'[o] = Resting
      BY <2>1, <2>2, <1>5 DEF OneAtATime, e
    <2>4. Extracted' = Extracted
      BY <1>2 DEF Extracted
    <2>5. Held(q) = {d} /\ q.todo \subseteq e.todo /\ q.pc # "parsed" /\ d \in e.todo
      BY <1>6, <1>1 DEF Held, e
    <2>6. Private(e)
      BY <2>1 DEF OneAtATime, e
    <2>7. ASSUME NEW o \in Runs PROVE Private(extract[o])'
      <3>1. CASE o = r
        BY <3>1, <2>4, <2>5, <2>6, <1>2 DEF Private
      <3>2. CASE o # r
        BY <3>2, <2>3 DEF Private, Held, Resting
      <3> QED BY <3>1, <3>2
    <2> QED BY <2>3, <2>7 DEF OneAtATime
  <1> QED BY <1>7, <1>8, <1>9, <1>10, <1>11 DEF FilingInv

\* A blob row is written only of the document in hand, which no specification cites.
LEMMA RecordBlobKeeps ==
    ASSUME FilingInv, NEW r \in Runs, RecordBlob(r)
    PROVE  FilingInv'
  <1> DEFINE e == extract[r]
             q == extract'[r]
             whole == e.got \in DOMAIN Issues
             next == [e EXCEPT !.pc = "next", !.doc = <<>>, !.got = "none"]
  <1>1. /\ e.pc = "fetched"
        /\ extract' = [extract EXCEPT ![r] =
              IF whole /\ Parsed[e.got].report THEN [e EXCEPT !.pc = "parsed"] ELSE next]
        /\ UNCHANGED <<served, inventory, spec, rows, fresh, overlapped, missed>>
    BY DEF RecordBlob
  <1>2. PICK status, sha :
           /\ blob' = [blob EXCEPT ![e.doc] = [status |-> status, sha |-> sha]]
           /\ whole => status = "ok" /\ sha = e.got
           /\ status \in {"ok", "http_error", "truncated", "parse_error"}
           /\ sha \in {blob[e.doc].sha} \cup (Partial \cap {e.got}) \cup (DOMAIN Issues \cap {e.got})
    BY DEF RecordBlob
  <1>3. /\ extract \in [Runs -> Extractions] /\ e \in Extractions
        /\ \A o \in Runs : AtHand(extract[o])
        /\ blob \in [Doc -> [status : {"none", "ok", "http_error", "truncated", "parse_error"},
                             sha : {"none"} \cup Partial \cup DOMAIN Issues]]
    BY DEF FilingInv, FilingTypeOK
  <1>4. e.doc \in SchedNamed /\ e.doc \in Doc /\ e.doc \notin e.todo
    BY <1>1, <1>3, FilingAssumption DEF AtHand, Held
  <1>5. /\ DOMAIN extract' = Runs /\ \A o \in Runs \ {r} : extract'[o] = extract[o]
        /\ q = IF whole /\ Parsed[e.got].report THEN [e EXCEPT !.pc = "parsed"] ELSE next
    BY <1>1, <1>3
  <1> HIDE DEF e
  <1>6. /\ q \in Extractions /\ q.todo = e.todo /\ q.due = e.due /\ q.scoped = e.scoped
        /\ \/ whole /\ q.pc = "parsed" /\ q.doc = e.doc /\ q.got = e.got
           \/ q.pc = "next"
    <2>1. CASE whole /\ Parsed[e.got].report
      <3>1. q = [e EXCEPT !.pc = "parsed"]
        BY <2>1, <1>5
      <3> QED BY <3>1, <2>1, <1>3 DEF Extractions
    <2>2. CASE ~(whole /\ Parsed[e.got].report)
      <3>1. q = next
        BY <2>2, <1>5
      <3> QED BY <3>1, <1>3 DEF Extractions
    <2> QED BY <2>1, <2>2
  <1>7. FilingTypeOK'
    <2>1. extract' \in [Runs -> Extractions]
      BY <1>1, <1>3, <1>6
    <2>2. blob' \in [Doc -> [status : {"none", "ok", "http_error", "truncated", "parse_error"},
                             sha : {"none"} \cup Partial \cup DOMAIN Issues]]
      <3>1. blob[e.doc].sha \in {"none"} \cup Partial \cup DOMAIN Issues
        BY <1>3, <1>4
      <3> QED BY <1>2, <1>3, <1>4, <3>1
    <2> QED BY <1>1, <2>1, <2>2 DEF FilingInv, FilingTypeOK
  <1>8. ASSUME NEW o \in Runs PROVE AtHand(extract'[o])
    <2>1. AtHand(e)
      BY <1>3 DEF e
    <2>2. AtHand(q)
      BY <2>1, <1>6, <1>4 DEF AtHand, Held
    <2> QED BY <1>5, <1>3, <2>2
  <1>9. Anchored' /\ ClosedGateMeansFullSweep'
    BY <1>1 DEF FilingInv, Anchored, Extracted, ClosedGateMeansFullSweep
  <1>10. ASSUME ~overlapped' PROVE OneAtATime' /\ OneReceipt'
    <2>1. OneAtATime
      BY <1>1, <1>10 DEF FilingInv
    <2>2. e # Resting
      BY <1>1 DEF Resting, e
    <2>3. \A o \in Runs \ {r} : extract'[o] = Resting
      BY <2>1, <2>2, <1>5 DEF OneAtATime, e
    <2>4. Extracted' = Extracted
      BY <1>1 DEF Extracted
    <2>5. Private(e) /\ Held(e) = {e.doc}
      BY <2>1, <1>1 DEF OneAtATime, Held, e
    <2>6. q.todo \cup Held(q) \subseteq e.todo \cup Held(e)
      BY <1>6, <2>5 DEF Held
    <2>7. ASSUME NEW o \in Runs PROVE Private(extract[o])'
      <3>1. CASE o = r
        <4>1. ASSUME q.pc = "parsed" PROVE blob'[q.doc] = [status |-> "ok", sha |-> q.got]
          BY <4>1, <1>6, <1>2, <1>3, <1>4
        <4>2. \A d \in q.todo \cup Held(q) : Home(d) \in Extracted => spec[Home(d)].doc # d
          BY <2>5, <2>6 DEF Private
        <4> QED BY <3>1, <4>1, <4>2, <2>4, <1>1 DEF Private
      <3>2. CASE o # r
        BY <3>2, <2>3 DEF Private, Held, Resting
      <3> QED BY <3>1, <3>2
    <2>8. ASSUME NEW f \in Extracted PROVE spec[f].doc # e.doc
      BY <2>5, <2>8 DEF Private, FilingInv, Anchored
    <2>9. OneReceipt'
      <3>1. OneReceipt /\ ~overlapped
        BY <1>10, <1>1 DEF FilingInv
      <3>2. \A f \in Extracted : blob'[spec[f].doc] = blob[spec[f].doc]
        BY <2>8, <1>2, <1>3
      <3> QED BY <3>1, <3>2, <2>4, <1>1 DEF OneReceipt
    <2> QED BY <2>3, <2>7, <2>9 DEF OneAtATime
  <1>11. OneReceipt'
    BY <1>10 DEF OneReceipt
  <1> QED BY <1>7, <1>8, <1>9, <1>10, <1>11 DEF FilingInv

\* The rows that are added cite the issue given; those stored before stay.
LEMMA InsertedRows ==
    ASSUME NEW old, NEW parsed, NEW sha
    PROVE  \A i \in DOMAIN Inserted(old, parsed, sha) :
              Inserted(old, parsed, sha)[i] = IF i \in DOMAIN old THEN old[i] ELSE sha
  BY DEF Inserted

\* A filing without a specification has no rows, so all it gets are of the issue it cites; rows of
\* another document are not among those served.
LEMMA SaveSpecsKeeps ==
    ASSUME FilingInv, NEW r \in Runs, SaveSpecs(r)
    PROVE  FilingInv'
  <1> DEFINE e == extract[r]
             q == extract'[r]
             f == Home(e.doc)
             planes == Inserted(rows[e.doc].planes, Parsed[e.got].planes, e.got)
             bands == Inserted(rows[e.doc].bands, Parsed[e.got].bands, e.got)
  <1>1. /\ e.pc = "parsed"
        /\ extract' = [extract EXCEPT ![r] = [e EXCEPT !.pc = "next", !.doc = <<>>, !.got = "none"]]
        /\ spec' = [spec EXCEPT ![f] = IF @ = None THEN [doc |-> e.doc, sha |-> e.got] ELSE @]
        /\ UNCHANGED <<served, inventory, blob, fresh, overlapped, missed>>
    BY DEF SaveSpecs
  <1>2. rows' = [rows EXCEPT
              ![e.doc].planes = Inserted(@, Parsed[e.got].planes, e.got),
              ![e.doc].bands = Inserted(@, Parsed[e.got].bands, e.got)]
    BY DEF SaveSpecs
  <1>3. /\ extract \in [Runs -> Extractions] /\ e \in Extractions
        /\ \A o \in Runs : AtHand(extract[o])
        /\ spec \in [Filing -> {None} \cup [doc : SchedNamed, sha : DOMAIN Issues]]
        /\ rows = [d \in Doc |-> [planes |-> rows[d].planes, bands |-> rows[d].bands]]
    BY DEF FilingInv, FilingTypeOK
  <1>4. /\ e.doc \in SchedNamed /\ e.doc \in Doc /\ e.doc \notin e.todo /\ e.got \in DOMAIN Issues
        /\ f \in Filing
    BY <1>1, <1>3, FilingAssumption, HomeIsFiling DEF AtHand, Held
  <1>5. /\ DOMAIN extract' = Runs /\ \A o \in Runs \ {r} : extract'[o] = extract[o]
        /\ q = [e EXCEPT !.pc = "next", !.doc = <<>>, !.got = "none"]
    BY <1>1, <1>3
  <1>6. rows' = [d \in Doc |-> IF d = e.doc THEN [planes |-> planes, bands |-> bands]
                              ELSE [planes |-> rows[d].planes, bands |-> rows[d].bands]]
    <2> HIDE DEF e
    <2>1. rows[e.doc] = [planes |-> rows[e.doc].planes, bands |-> rows[e.doc].bands]
      BY <1>3, <1>4
    <2> QED BY <1>2, <1>3, <1>4, <2>1
  <1> HIDE DEF e, planes, bands
  <1>7. /\ q \in Extractions /\ q.todo = e.todo /\ q.due = e.due /\ q.scoped = e.scoped
        /\ q.pc = "next"
    BY <1>5, <1>3 DEF Extractions
  <1>8. /\ \A g \in Filing \ {f} : spec'[g] = spec[g]
        /\ spec'[f] = IF spec[f] = None THEN [doc |-> e.doc, sha |-> e.got] ELSE spec[f]
        /\ spec' \in [Filing -> {None} \cup [doc : SchedNamed, sha : DOMAIN Issues]]
    BY <1>1, <1>3, <1>4
  <1>9. <<>> \notin SchedNamed
    BY FilingAssumption
  <1>10. [doc |-> e.doc, sha |-> e.got] # None
    BY <1>4, <1>9 DEF None
  <1>11. Extracted' = Extracted \cup {f}
    BY <1>8, <1>10, <1>4 DEF Extracted
  <1>12. FilingTypeOK'
    <2>1. extract' \in [Runs -> Extractions]
      BY <1>1, <1>3, <1>7
    <2>2. rows' = [d \in Doc |-> [planes |-> rows'[d].planes, bands |-> rows'[d].bands]]
      BY <1>6
    <2> QED BY <1>1, <1>8, <2>1, <2>2 DEF FilingInv, FilingTypeOK
  <1>13. ASSUME NEW o \in Runs PROVE AtHand(extract'[o])
    <2>1. AtHand(e)
      BY <1>3 DEF e
    <2>2. AtHand(q)
      BY <2>1, <1>7, <1>4 DEF AtHand, Held
    <2> QED BY <1>5, <1>3, <2>2
  <1>14. Anchored'
    <2>1. ASSUME NEW g \in Extracted' PROVE Home(spec'[g].doc) = g
      BY <1>11, <1>8, <1>4 DEF FilingInv, Anchored, Extracted
    <2>2. ASSUME NEW d \in Doc, DOMAIN rows'[d].planes \cup DOMAIN rows'[d].bands # {}
          PROVE  Home(d) \in Extracted'
      <3>1. CASE d = e.doc
        BY <3>1, <1>11
      <3>2. CASE d # e.doc
        <4>1. rows'[d].planes = rows[d].planes /\ rows'[d].bands = rows[d].bands
          BY <3>2, <1>6
        <4> QED BY <4>1, <2>2, <1>11 DEF FilingInv, Anchored
      <3> QED BY <3>1, <3>2
    <2> QED BY <2>1, <2>2 DEF Anchored
  <1>15. ClosedGateMeansFullSweep'
    BY <1>1 DEF FilingInv, ClosedGateMeansFullSweep
  <1>16. ASSUME ~overlapped' PROVE OneAtATime' /\ OneReceipt'
    <2>1. OneAtATime /\ OneReceipt /\ ~overlapped
      BY <1>1, <1>16 DEF FilingInv
    <2>2. e # Resting
      BY <1>1 DEF Resting, e
    <2>3. \A o \in Runs \ {r} : extract'[o] = Resting
      BY <2>1, <2>2, <1>5 DEF OneAtATime, e
    <2>5. Private(e) /\ Held(e) = {e.doc} /\ Held(q) = {}
      BY <2>1, <1>1, <1>7 DEF OneAtATime, Held, e
    <2>6. ASSUME NEW d \in e.todo, Home(d) \in Extracted' PROVE spec'[Home(d)].doc # d
      <3>1. d # e.doc
        BY <1>4
      <3>2. CASE Home(d) = f /\ spec[f] = None
        BY <3>1, <3>2, <1>8
      <3>3. CASE ~(Home(d) = f /\ spec[f] = None)
        <4>1. Home(d) \in Extracted
          BY <3>3, <1>11, <1>4, <2>6 DEF Extracted
        <4>2. spec'[Home(d)] = spec[Home(d)]
          BY <3>3, <1>8, <4>1 DEF Extracted
        <4> QED BY <4>1, <4>2, <2>5 DEF Private
      <3> QED BY <3>2, <3>3
    <2>7. ASSUME NEW o \in Runs PROVE Private(extract[o])'
      <3>1. CASE o = r
        BY <3>1, <2>5, <2>6, <1>7 DEF Private
      <3>2. CASE o # r
        BY <3>2, <2>3 DEF Private, Held, Resting
      <3> QED BY <3>1, <3>2
    <2>8. ASSUME NEW g \in Extracted'
          PROVE  /\ blob[spec'[g].doc] = [status |-> "ok", sha |-> spec'[g].sha]
                 /\ \A i \in DOMAIN rows'[spec'[g].doc].planes :
                       rows'[spec'[g].doc].planes[i] = spec'[g].sha
                 /\ \A i \in DOMAIN rows'[spec'[g].doc].bands :
                       rows'[spec'[g].doc].bands[i] = spec'[g].sha
      <3>1. CASE g = f /\ spec[f] = None
        <4>1. spec'[g].doc = e.doc /\ spec'[g].sha = e.got
          BY <3>1, <1>8
        <4>2. blob[e.doc] = [status |-> "ok", sha |-> e.got]
          BY <2>5, <1>1 DEF Private, e
        <4>3. DOMAIN rows[e.doc].planes \cup DOMAIN rows[e.doc].bands = {}
          BY <3>1, <1>4 DEF FilingInv, Anchored, Extracted
        <4>4. rows'[e.doc].planes = planes /\ rows'[e.doc].bands = bands
          BY <1>6, <1>4
        <4>5. /\ \A i \in DOMAIN planes : planes[i] = e.got
              /\ \A i \in DOMAIN bands : bands[i] = e.got
          BY <4>3, InsertedRows DEF planes, bands
        <4> QED BY <4>1, <4>2, <4>4, <4>5
      <3>2. CASE ~(g = f /\ spec[f] = None)
        <4>1. g \in Extracted /\ spec'[g] = spec[g]
          BY <3>2, <1>8, <1>11, <1>4 DEF Extracted
        <4>2. spec[g].doc # e.doc /\ spec[g].doc \in Doc
          <5>1. Home(spec[g].doc) = g
            BY <4>1 DEF FilingInv, Anchored
          <5>2. spec[g].doc \in SchedNamed
            BY <4>1, <1>3 DEF Extracted
          <5> QED BY <5>1, <5>2, <4>1, <2>5, FilingAssumption DEF Private
        <4>3. /\ rows'[spec[g].doc].planes = rows[spec[g].doc].planes
              /\ rows'[spec[g].doc].bands = rows[spec[g].doc].bands
          BY <4>2, <1>6
        <4> QED BY <4>1, <4>3, <2>1 DEF OneReceipt
      <3> QED BY <3>1, <3>2
    <2>9. OneReceipt'
      BY <2>8, <1>1 DEF OneReceipt
    <2> QED BY <2>3, <2>7, <2>9 DEF OneAtATime
  <1>17. OneReceipt'
    BY <1>16 DEF OneReceipt
  <1> QED BY <1>12, <1>13, <1>14, <1>15, <1>16, <1>17 DEF FilingInv

\* A run ends: only a full sweep that has been through its list closes the gate.
LEMMA EndKeeps ==
    ASSUME FilingInv, NEW r \in Runs, Finish(r) \/ Stop(r) \/ Raise(r)
    PROVE  FilingInv'
  <1>1. /\ extract' = [extract EXCEPT ![r] = Resting]
        /\ UNCHANGED <<served, inventory, blob, spec, rows, overlapped>>
    BY DEF Finish, Stop, Raise
  <1>2. /\ extract \in [Runs -> Extractions] /\ \A o \in Runs : AtHand(extract[o])
        /\ fresh \in [{"icfs_documents", "schedule_s_specs"} -> BOOLEAN]
    BY DEF FilingInv, FilingTypeOK
  <1>3. /\ extract' \in [Runs -> Extractions] /\ extract'[r] = Resting
        /\ \A o \in Runs \ {r} : extract'[o] = extract[o]
    BY <1>1, <1>2, RestingIsEmpty
  <1>4. /\ fresh' \in [{"icfs_documents", "schedule_s_specs"} -> BOOLEAN]
        /\ ClosedGateMeansFullSweep'
    <2>1. CASE Stop(r) \/ Raise(r)
      BY <2>1, <1>2 DEF Stop, Raise, FilingInv, ClosedGateMeansFullSweep
    <2>2. CASE Finish(r)
      <3>1. /\ extract[r].todo = {}
            /\ fresh' = [fresh EXCEPT !["schedule_s_specs"] = @ \/ ~extract[r].scoped]
            /\ missed' = IF extract[r].scoped THEN missed ELSE extract[r].due
        BY <2>2 DEF Finish
      <3>2. extract[r].scoped \in BOOLEAN
        BY <1>2 DEF Extractions
      <3>3. CASE extract[r].scoped
        BY <3>1, <3>2, <3>3, <1>2 DEF FilingInv, ClosedGateMeansFullSweep
      <3>4. CASE ~extract[r].scoped
        <4>1. missed' = {}
          BY <3>1, <3>4, <1>2 DEF AtHand
        <4>2. fresh' \in [{"icfs_documents", "schedule_s_specs"} -> BOOLEAN]
          BY <3>1, <3>2, <1>2
        <4> QED BY <4>1, <4>2 DEF ClosedGateMeansFullSweep
      <3> QED BY <3>3, <3>4
    <2> QED BY <2>1, <2>2
  <1>5. FilingTypeOK'
    BY <1>1, <1>3, <1>4 DEF FilingInv, FilingTypeOK
  <1>6. ASSUME NEW o \in Runs PROVE AtHand(extract'[o])
    BY <1>2, <1>3, RestingIsEmpty
  <1>7. Anchored' /\ OneReceipt'
    BY <1>1 DEF FilingInv, Anchored, Extracted, OneReceipt
  <1>8. ASSUME ~overlapped' PROVE OneAtATime'
    <2>1. OneAtATime
      BY <1>1, <1>8 DEF FilingInv
    <2>2. \A o, p \in Runs : o # p => extract'[o] = Resting \/ extract'[p] = Resting
      BY <2>1, <1>3 DEF OneAtATime
    <2>3. ASSUME NEW o \in Runs PROVE Private(extract[o])'
      <3>1. CASE o = r
        BY <3>1, <1>3 DEF Private, Held, Resting
      <3>2. CASE o # r
        <4>1. extract'[o] = extract[o] /\ Private(extract[o])
          BY <3>2, <2>1, <1>3 DEF OneAtATime
        <4> QED BY <4>1, <1>1 DEF Private, Extracted
      <3> QED BY <3>1, <3>2
    <2> QED BY <2>2, <2>3 DEF OneAtATime
  <1> QED BY <1>4, <1>5, <1>6, <1>7, <1>8 DEF FilingInv

\* The gateway, the passing of time and the harvest do not touch what is extracted.
LEMMA WorldKeeps ==
    ASSUME FilingInv,
           \/ \E d \in Doc, c \in Later : Change(d, c)
           \/ \E e \in DOMAIN fresh : WeekPasses(e)
           \/ \E A \in SUBSET Linked : HarvestNightly(A)
           \/ \E Q, A \in SUBSET Filing : HarvestByHand(Q, A)
    PROVE  FilingInv'
  <1>1. CASE \E d \in Doc, c \in Later : Change(d, c)
    <2>1. PICK d \in Doc, c \in Later : Change(d, c)
      BY <1>1
    <2>2. FilingTypeOK' /\ ClosedGateMeansFullSweep'
      BY <2>1, FilingAssumption
         DEF Change, FilingInv, FilingTypeOK, ClosedGateMeansFullSweep
    <2> QED BY <2>1, <2>2, OutsideKeeps DEF Change
  <1>2. CASE \E e \in DOMAIN fresh : WeekPasses(e)
    <2>1. PICK e \in DOMAIN fresh : WeekPasses(e)
      BY <1>2
    <2>2. FilingTypeOK' /\ ClosedGateMeansFullSweep'
      BY <2>1 DEF WeekPasses, FilingInv, FilingTypeOK, ClosedGateMeansFullSweep
    <2> QED BY <2>1, <2>2, OutsideKeeps DEF WeekPasses
  <1>3. ASSUME NEW A, Harvest(A) PROVE FilingInv'
    <2>1. FilingTypeOK' /\ ClosedGateMeansFullSweep'
      BY <1>3 DEF Harvest, FilingInv, FilingTypeOK, ClosedGateMeansFullSweep
    <2> QED BY <1>3, <2>1, OutsideKeeps DEF Harvest
  <1> QED BY <1>1, <1>2, <1>3 DEF HarvestNightly, HarvestByHand

\* FilingInv is inductive, whatever runs overlap, die or are cut short.
THEOREM FilingInductive == FilingSpec => []FilingInv
  <1>1. FilingInit => FilingInv
    <2> SUFFICES ASSUME FilingInit PROVE FilingInv
      OBVIOUS
    <2>1. FilingTypeOK
      <3>1. extract \in [Runs -> Extractions]
        BY RestingIsEmpty DEF FilingInit
      <3>2. rows = [d \in Doc |-> [planes |-> rows[d].planes, bands |-> rows[d].bands]]
        BY DEF FilingInit
      <3> QED BY <3>1, <3>2, FilingAssumption DEF FilingInit, FilingTypeOK
    <2>2. Extracted = {}
      BY DEF FilingInit, Extracted
    <2>3. \A d \in Doc : DOMAIN rows[d].planes \cup DOMAIN rows[d].bands = {}
      BY DEF FilingInit
    <2>4. \A r \in Runs : AtHand(extract[r]) /\ Private(extract[r])
      BY RestingIsEmpty DEF FilingInit
    <2>5. \A r \in Runs : extract[r] = Resting
      BY DEF FilingInit
    <2>6. ClosedGateMeansFullSweep
      BY DEF FilingInit, ClosedGateMeansFullSweep
    <2> QED BY <2>1, <2>2, <2>3, <2>4, <2>5, <2>6 DEF FilingInv, Anchored, OneReceipt, OneAtATime
  <1>2. FilingInv /\ [FilingNext]_filingVars => FilingInv'
    <2> SUFFICES ASSUME FilingInv, [FilingNext]_filingVars
                 PROVE  FilingInv'
      OBVIOUS
    <2>1. ASSUME NEW r \in Runs, ExtractByHand(r) PROVE FilingInv'
      <3>1. CASE Start(r, Todo, FALSE)
        BY <3>1, StartKeeps
      <3>2. ASSUME NEW T \in Cuts(Todo), Start(r, T, TRUE) PROVE FilingInv'
        <4>1. T \in SUBSET Todo
          BY <3>2 DEF Cuts
        <4> QED BY <4>1, <3>2, StartKeeps
      <3> QED BY <2>1, <3>1, <3>2 DEF ExtractByHand
    <2>2. CASE ExtractNightly
      BY <2>2, StartKeeps, FilingAssumption DEF ExtractNightly
    <2>3. ASSUME NEW r \in Runs,
                 \/ Fetch(r) \/ RecordBlob(r) \/ SaveSpecs(r)
                 \/ Finish(r) \/ Stop(r) \/ Raise(r)
          PROVE  FilingInv'
      BY <2>3, FetchKeeps, RecordBlobKeeps, SaveSpecsKeeps, EndKeeps
    <2>4. CASE UNCHANGED filingVars
      <3>1. UNCHANGED <<blob, spec, rows, extract, overlapped>>
        BY <2>4 DEF filingVars
      <3>2. FilingTypeOK' /\ ClosedGateMeansFullSweep'
        BY <2>4 DEF filingVars, FilingInv, FilingTypeOK, ClosedGateMeansFullSweep
      <3> QED BY <3>1, <3>2, OutsideKeeps
    <2> QED BY <2>1, <2>2, <2>3, <2>4, WorldKeeps DEF FilingNext
  <1> QED BY <1>1, <1>2, PTL DEF FilingSpec

\* The harvest's and the extraction's tables and each run's state stay well formed.
THEOREM FilingTypeCorrect == FilingSpec => []FilingTypeOK
  <1>1. FilingInv => FilingTypeOK
    BY DEF FilingInv
  <1> QED BY <1>1, FilingInductive, PTL

\* Unless two extractions have run at once, what is stored for a filing comes from one issue, the
\* one whose hash its blob row shows.
THEOREM OneReceiptHolds == FilingSpec => []OneReceipt
  <1>1. FilingInv => OneReceipt
    BY DEF FilingInv
  <1> QED BY <1>1, FilingInductive, PTL

\* The weekly gate is closed only by a run that went through its whole list.
THEOREM ClosedGateMeansFullSweepHolds == FilingSpec => []ClosedGateMeansFullSweep
  <1>1. FilingInv => ClosedGateMeansFullSweep
    BY DEF FilingInv
  <1> QED BY <1>1, FilingInductive, PTL

-----------------------------------------------------------------------------
(* What is served. *)

\* Of a document the rows of one issue are stored, one for each that was parsed.
AllCite(stored, parsed, issue) == stored = [i \in DOMAIN parsed |-> issue]

\* So it is of every document a filing cites: none of its planes or bands is missing.
Complete ==
    ~overlapped =>
        \A f \in Extracted :
            /\ AllCite(rows[spec[f].doc].planes, Parsed[spec[f].sha].planes, spec[f].sha)
            /\ AllCite(rows[spec[f].doc].bands, Parsed[spec[f].sha].bands, spec[f].sha)

\* What is parsed or cited has passed for a report.
ReportsOnly ==
    /\ \A r \in Runs : extract[r].pc = "parsed" => IsScheduleS(Pages[extract[r].got])
    /\ \A f \in Extracted : IsScheduleS(Pages[spec[f].sha])

\* Only a document that has is kept in hand, and only one in hand is cited.
LEMMA ReportsOnlyKept ==
    ASSUME FilingInv, ReportsOnly, [FilingNext]_filingVars
    PROVE  ReportsOnly'
  <1>1. /\ extract \in [Runs -> Extractions]
        /\ spec \in [Filing -> {None} \cup [doc : SchedNamed, sha : DOMAIN Issues]]
        /\ \A r \in Runs : AtHand(extract[r])
    BY DEF FilingInv, FilingTypeOK
  <1>2. ASSUME NEW r \in Runs, spec' = spec, \A o \in Runs \ {r} : extract'[o] = extract[o],
               extract'[r].pc # "parsed"
        PROVE  ReportsOnly'
    BY <1>2 DEF ReportsOnly, Extracted
  <1>3. ASSUME NEW r \in Runs, NEW e, extract' = [extract EXCEPT ![r] = e], e.pc # "parsed",
               spec' = spec
        PROVE  ReportsOnly'
    BY <1>1, <1>2, <1>3
  <1>4. Resting.pc # "parsed"
    BY DEF Resting
  <1>5. ASSUME NEW r \in Runs, NEW todo, NEW scoped, Start(r, todo, scoped) PROVE ReportsOnly'
    <2>1. PICK e : e = [Resting EXCEPT !.pc = "next", !.scoped = scoped, !.todo = todo, !.due = Todo]
      OBVIOUS
    <2>2. e.pc # "parsed"
      BY <2>1 DEF Resting
    <2> QED BY <1>3, <1>5, <2>1, <2>2 DEF Start
  <1>6. CASE ExtractNightly \/ \E r \in Runs : ExtractByHand(r)
    BY <1>5, <1>6, FilingAssumption DEF ExtractNightly, ExtractByHand
  <1>7. ASSUME NEW r \in Runs, Fetch(r) PROVE ReportsOnly'
    <2>1. extract[r] \in Extractions
      BY <1>1
    <2>2. PICK d \in extract[r].todo :
             extract' = [extract EXCEPT ![r] = [extract[r] EXCEPT !.pc = "fetched", !.doc = d,
                            !.todo = @ \ {d}, !.due = @ \ {d}, !.got = served[d]]]
      BY <1>7 DEF Fetch
    <2>3. PICK e : e = [extract[r] EXCEPT !.pc = "fetched", !.doc = d,
                            !.todo = @ \ {d}, !.due = @ \ {d}, !.got = served[d]]
      OBVIOUS
    <2>4. e.pc # "parsed"
      BY <2>1, <2>3 DEF Extractions
    <2> QED BY <1>3, <1>7, <2>2, <2>3, <2>4 DEF Fetch
  <1>8. ASSUME NEW r \in Runs, RecordBlob(r) PROVE ReportsOnly'
    <2>1. extract[r] \in Extractions /\ spec' = spec
      BY <1>1, <1>8 DEF RecordBlob
    <2>2. PICK e : e = IF extract[r].got \in DOMAIN Issues /\ Parsed[extract[r].got].report
                       THEN [extract[r] EXCEPT !.pc = "parsed"]
                       ELSE [extract[r] EXCEPT !.pc = "next", !.doc = <<>>, !.got = "none"]
      OBVIOUS
    <2>3. extract' = [extract EXCEPT ![r] = e]
      BY <1>8, <2>2 DEF RecordBlob
    <2>4. CASE extract[r].got \in DOMAIN Issues /\ Parsed[extract[r].got].report
      <3>1. IsScheduleS(Pages[extract[r].got])
        BY <2>4 DEF Parsed
      <3>2. e.got = extract[r].got
        BY <2>1, <2>2, <2>4 DEF Extractions
      <3>3. extract'[r] = e /\ \A o \in Runs \ {r} : extract'[o] = extract[o]
        BY <1>1, <2>3
      <3> QED BY <2>1, <3>1, <3>2, <3>3 DEF ReportsOnly, Extracted
    <2>5. CASE ~(extract[r].got \in DOMAIN Issues /\ Parsed[extract[r].got].report)
      <3>1. e.pc # "parsed"
        BY <2>1, <2>2, <2>5 DEF Extractions
      <3> QED BY <1>3, <2>1, <2>3, <3>1
    <2> QED BY <2>4, <2>5
  <1>9. ASSUME NEW r \in Runs, SaveSpecs(r) PROVE ReportsOnly'
    <2> DEFINE f == Home(extract[r].doc)
    <2>1. extract[r] \in Extractions /\ IsScheduleS(Pages[extract[r].got])
      BY <1>1, <1>9 DEF ReportsOnly, SaveSpecs
    <2>2. \A g \in Extracted' : \/ g \in Extracted /\ spec'[g] = spec[g]
                               \/ spec'[g].sha = extract[r].got
      BY <1>1, <1>9 DEF SaveSpecs, Extracted
    <2>3. PICK e : e = [extract[r] EXCEPT !.pc = "next", !.doc = <<>>, !.got = "none"]
      OBVIOUS
    <2>4. extract' = [extract EXCEPT ![r] = e] /\ e.pc # "parsed"
      BY <1>9, <2>1, <2>3 DEF SaveSpecs, Extractions
    <2>5. \A o \in Runs : extract'[o].pc = "parsed" => extract'[o] = extract[o]
      BY <1>1, <2>4
    <2> QED BY <2>1, <2>2, <2>5 DEF ReportsOnly
  <1>10. ASSUME NEW r \in Runs, Finish(r) \/ Stop(r) \/ Raise(r) PROVE ReportsOnly'
    BY <1>3, <1>4, <1>10 DEF Finish, Stop, Raise
  <1>11. CASE \/ \E d \in Doc, c \in Later : Change(d, c)
              \/ \E e \in DOMAIN fresh : WeekPasses(e)
              \/ \E A \in SUBSET Linked : HarvestNightly(A)
              \/ \E Q, A \in SUBSET Filing : HarvestByHand(Q, A)
    <2>1. UNCHANGED <<spec, extract>>
      BY <1>11 DEF Change, WeekPasses, HarvestNightly, HarvestByHand, Harvest
    <2> QED BY <2>1 DEF ReportsOnly, Extracted
  <1>12. CASE UNCHANGED filingVars
    BY <1>12 DEF filingVars, ReportsOnly, Extracted
  <1> QED BY <1>6, <1>7, <1>8, <1>9, <1>10, <1>11, <1>12 DEF FilingNext

\* Rows inserted where there were none are those of the issue.
LEMMA InsertedInNone ==
    ASSUME NEW old, DOMAIN old = {}, NEW parsed, NEW sha
    PROVE  AllCite(Inserted(old, parsed, sha), parsed, sha)
  BY DEF Inserted, AllCite

\* A filing's first save stores all that was parsed; no later save touches the document it cites.
LEMMA SaveSpecsCompletes ==
    ASSUME FilingInv, Complete, NEW r \in Runs, SaveSpecs(r)
    PROVE  Complete'
  <1> DEFINE e == extract[r]
             f == Home(e.doc)
             planes == Inserted(rows[e.doc].planes, Parsed[e.got].planes, e.got)
             bands == Inserted(rows[e.doc].bands, Parsed[e.got].bands, e.got)
  <1> SUFFICES ASSUME ~overlapped', NEW g \in Extracted'
               PROVE  /\ AllCite(rows'[spec'[g].doc].planes, Parsed[spec'[g].sha].planes, spec'[g].sha)
                      /\ AllCite(rows'[spec'[g].doc].bands, Parsed[spec'[g].sha].bands, spec'[g].sha)
    BY DEF Complete
  <1>1. /\ e.pc = "parsed" /\ overlapped' = overlapped
        /\ spec' = [spec EXCEPT ![f] = IF @ = None THEN [doc |-> e.doc, sha |-> e.got] ELSE @]
        /\ rows' = [rows EXCEPT
              ![e.doc].planes = Inserted(@, Parsed[e.got].planes, e.got),
              ![e.doc].bands = Inserted(@, Parsed[e.got].bands, e.got)]
    BY DEF SaveSpecs
  <1>2. /\ e \in Extractions /\ AtHand(e)
        /\ spec \in [Filing -> {None} \cup [doc : SchedNamed, sha : DOMAIN Issues]]
        /\ rows = [d \in Doc |-> [planes |-> rows[d].planes, bands |-> rows[d].bands]]
    BY DEF FilingInv, FilingTypeOK
  <1>3. /\ e.doc \in SchedNamed /\ e.doc \in Doc /\ f \in Filing
        /\ Held(e) = {e.doc}
    BY <1>1, <1>2, FilingAssumption, HomeIsFiling DEF AtHand, Held
  <1>4. Private(e)
    BY <1>1 DEF FilingInv, OneAtATime
  <1>5. /\ rows'[e.doc].planes = planes /\ rows'[e.doc].bands = bands
        /\ \A d \in Doc \ {e.doc} :
              rows'[d].planes = rows[d].planes /\ rows'[d].bands = rows[d].bands
    <2> HIDE DEF e
    <2>1. rows[e.doc] = [planes |-> rows[e.doc].planes, bands |-> rows[e.doc].bands]
      BY <1>2, <1>3
    <2> QED BY <1>1, <1>2, <1>3, <2>1
  <1> HIDE DEF e, planes, bands
  <1>6. /\ \A h \in Filing \ {f} : spec'[h] = spec[h]
        /\ spec'[f] = IF spec[f] = None THEN [doc |-> e.doc, sha |-> e.got] ELSE spec[f]
        /\ DOMAIN spec' = Filing
    BY <1>1, <1>2, <1>3
  <1>7. CASE g = f /\ spec[f] = None
    <2>1. DOMAIN rows[e.doc].planes = {} /\ DOMAIN rows[e.doc].bands = {}
      BY <1>3, <1>7 DEF FilingInv, Anchored, Extracted
    <2>2. AllCite(planes, Parsed[e.got].planes, e.got) /\ AllCite(bands, Parsed[e.got].bands, e.got)
      BY <2>1, InsertedInNone DEF planes, bands
    <2>3. spec'[g].doc = e.doc /\ spec'[g].sha = e.got
      BY <1>6, <1>7
    <2> QED BY <1>5, <2>2, <2>3
  <1>8. CASE ~(g = f /\ spec[f] = None)
    <2>1. g \in Extracted /\ spec'[g] = spec[g]
      BY <1>3, <1>6, <1>8 DEF Extracted
    <2>2. spec[g].doc # e.doc /\ spec[g].doc \in Doc
      <3>1. Home(spec[g].doc) = g /\ spec[g].doc \in SchedNamed
        BY <1>2, <2>1 DEF FilingInv, Anchored, Extracted
      <3> QED BY <1>3, <1>4, <2>1, <3>1, FilingAssumption DEF Private
    <2> QED BY <1>1, <1>5, <2>1, <2>2 DEF Complete
  <1> QED BY <1>7, <1>8

\* No other step stores anything.
LEMMA CompleteKept ==
    ASSUME FilingInv, Complete, [FilingNext]_filingVars
    PROVE  Complete'
  <1>1. ASSUME UNCHANGED <<spec, rows>>, ~overlapped' => ~overlapped PROVE Complete'
    BY <1>1 DEF Complete, Extracted
  <1>2. ASSUME NEW r \in Runs, NEW todo, NEW scoped, Start(r, todo, scoped) PROVE Complete'
    <2>1. ~overlapped' => ~overlapped
      BY <1>2 DEF Start, FilingInv, FilingTypeOK
    <2> QED BY <1>1, <1>2, <2>1 DEF Start
  <1>3. CASE \E r \in Runs : ExtractByHand(r)
    BY <1>2, <1>3 DEF ExtractByHand
  <1>4. CASE ExtractNightly
    BY <1>2, <1>4, FilingAssumption DEF ExtractNightly
  <1>5. ASSUME NEW r \in Runs,
               Fetch(r) \/ RecordBlob(r) \/ Finish(r) \/ Stop(r) \/ Raise(r)
        PROVE  Complete'
    BY <1>1, <1>5 DEF Fetch, RecordBlob, Finish, Stop, Raise
  <1>6. ASSUME NEW r \in Runs, SaveSpecs(r) PROVE Complete'
    BY <1>6, SaveSpecsCompletes
  <1>7. CASE \/ \E d \in Doc, c \in Later : Change(d, c)
             \/ \E e \in DOMAIN fresh : WeekPasses(e)
             \/ \E A \in SUBSET Linked : HarvestNightly(A)
             \/ \E Q, A \in SUBSET Filing : HarvestByHand(Q, A)
    BY <1>1, <1>7 DEF Change, WeekPasses, HarvestNightly, HarvestByHand, Harvest
  <1>8. CASE UNCHANGED filingVars
    BY <1>1, <1>8 DEF filingVars
  <1> QED BY <1>3, <1>4, <1>5, <1>6, <1>7, <1>8 DEF FilingNext

\* A filing whose document is a report stored complete is answered with what was filed.
LEMMA CompleteIsServed ==
    ASSUME FilingInv, Complete, ReportsOnly
    PROVE  ServedAsFiled
  <1> DEFINE Answered(f, filed) ==
                LET planes == ServedPlanes(f)
                    bands == ServedBands(f)
                    unbroken == Kept([k \in DOMAIN filed.bands |-> k], Unbroken(filed))
                    Values(p) == <<p.inclination_deg.value, p.arg_perigee_deg.value,
                                   p.apogee_km.value, p.perigee_km.value>>
                IN  /\ filed.report
                    /\ ServedScalars(f).total_satellites.value = filed.satellites
                    /\ [i \in DOMAIN planes |-> Values(planes[i])] = filed.planes
                    /\ DOMAIN bands = DOMAIN unbroken
                    /\ \A i \in DOMAIN bands : BandAsFiled(bands[i], filed, unbroken[i])
  <1> SUFFICES ASSUME ~overlapped, NEW f \in Extracted PROVE Answered(f, Issues[spec[f].sha])
    BY DEF ServedAsFiled
  <1>1. PICK issue : issue = spec[f].sha
    OBVIOUS
  <1>2. issue \in DOMAIN Issues
    BY <1>1 DEF FilingInv, FilingTypeOK, Extracted
  <1>3. PICK filed : filed = Issues[issue]
    OBVIOUS
  <1>4. PICK stored : stored = rows[spec[f].doc]
    OBVIOUS
  <1>5. /\ stored.planes = [i \in DOMAIN Parsed[issue].planes |-> issue]
        /\ stored.bands = [i \in DOMAIN Parsed[issue].bands |-> issue]
    BY <1>1, <1>4 DEF Complete, AllCite
  <1>6. PICK planes : planes = Parsed[issue].planes
    OBVIOUS
  <1>7. PICK bands : bands = Parsed[issue].bands
    OBVIOUS
  <1>8. PICK unbroken : unbroken = Kept([k \in DOMAIN filed.bands |-> k], Unbroken(filed))
    OBVIOUS
  <1>9. PlanesAsFiled(issue, planes)
    BY <1>2, <1>6, PlanesOfIssue
  <1>10. BandsAsFiled(issue, bands, unbroken)
    <2>1. PICK D : D = DOMAIN filed.bands
      OBVIOUS
    <2>2. PICK t : t = [k \in D |-> k]
      OBVIOUS
    <2>3. unbroken = Kept(t, Unbroken(filed))
      BY <1>8, <2>1, <2>2
    <2> QED BY ONLY <1>2, <1>3, <1>7, <2>1, <2>2, <2>3, BandsOfIssue
  <1>11. ScalarsValid(issue) /\ Parsed[issue].scalars.total_satellites.value = filed.satellites
    BY <1>2, <1>3, ScalarsOfIssue
  <1>12. ServedPlanes(f) = planes
    <2> DEFINE row == [i \in DOMAIN stored.planes |-> Parsed[stored.planes[i]].planes[i]]
               I == {i \in DOMAIN stored.planes : PlaneValid(stored.planes[i], i)}
    <2>1. ServedPlanes(f) = Kept(row, I)
      BY <1>1, <1>4, <1>11 DEF ServedPlanes
    <2>2. PICK n \in Nat : planes = [i \in 1..n |-> planes[i]]
      BY <1>9 DEF PlanesAsFiled, Listed
    <2>3. DOMAIN stored.planes = 1..n
      BY <1>5, <1>6, <2>2
    <2>4. row = planes
      BY <1>5, <1>6, <2>2
    <2>5. I = 1..n
      <3>1. \A i \in 1..n : PlaneValid(issue, i)
        BY <1>6, <1>9, <2>2 DEF PlanesAsFiled, PlaneValid
      <3> QED BY <1>5, <2>3, <3>1
    <2> HIDE DEF row, I
    <2>6. row = [i \in 1..n |-> row[i]]
      BY <2>2, <2>4
    <2>7. Kept(row, I) = row
      BY ONLY <2>5, <2>6, n \in Nat, AllKept
    <2> QED BY <2>1, <2>4, <2>7
  <1>13. ServedBands(f) = bands
    <2> DEFINE row == [i \in DOMAIN stored.bands |-> Parsed[stored.bands[i]].bands[i]]
               I == {i \in DOMAIN stored.bands : BandValid(stored.bands[i], i)}
    <2>1. ServedBands(f) = Kept(row, I)
      BY <1>1, <1>4, <1>11 DEF ServedBands
    <2>2. PICK n \in Nat : bands = [i \in 1..n |-> bands[i]]
      BY <1>10 DEF BandsAsFiled, Listed
    <2>3. DOMAIN stored.bands = 1..n
      BY <1>5, <1>7, <2>2
    <2>4. row = bands
      BY <1>5, <1>7, <2>2
    <2>5. I = 1..n
      <3>1. \A i \in 1..n : BandValid(issue, i)
        BY <1>7, <1>10, <2>2 DEF BandsAsFiled, BandValid
      <3> QED BY <1>5, <2>3, <3>1
    <2> HIDE DEF row, I
    <2>6. row = [i \in 1..n |-> row[i]]
      BY <2>2, <2>4
    <2>7. Kept(row, I) = row
      BY ONLY <2>5, <2>6, n \in Nat, AllKept
    <2> QED BY <2>1, <2>4, <2>7
  <1>14. ServedScalars(f) = Parsed[issue].scalars
    BY <1>1, <1>11 DEF ServedScalars
  <1>15. filed.report
    BY <1>1, <1>2, <1>3, OnlyReportsPass DEF ReportsOnly
  <1>16. [i \in DOMAIN planes |->
             <<planes[i].inclination_deg.value, planes[i].arg_perigee_deg.value,
               planes[i].apogee_km.value, planes[i].perigee_km.value>>] = filed.planes
    BY <1>3, <1>9 DEF PlanesAsFiled
  <1>17. /\ DOMAIN bands = DOMAIN unbroken
         /\ \A i \in DOMAIN bands : BandAsFiled(bands[i], filed, unbroken[i])
    BY <1>3, <1>10 DEF BandsAsFiled
  <1>18. Answered(f, filed)
    BY <1>8, <1>11, <1>12, <1>13, <1>14, <1>15, <1>16, <1>17
  <1> QED BY <1>1, <1>3, <1>18

\* Unless two extractions have run at once, what is served for a filing is what was filed in the
\* issue it cites, its bands but for those a page break splits, for every form, page length and
\* history of failures, reissues, refused rows and dead runs.
THEOREM ServedAsFiledHolds == FilingSpec => []ServedAsFiled
  <1>1. FilingInit => Complete /\ ReportsOnly
    BY DEF FilingInit, Complete, Extracted, ReportsOnly, Resting
  <1>2. FilingInv /\ Complete /\ [FilingNext]_filingVars => Complete'
    BY CompleteKept
  <1>3. FilingInv /\ ReportsOnly /\ [FilingNext]_filingVars => ReportsOnly'
    BY ReportsOnlyKept
  <1>4. FilingInv /\ Complete /\ ReportsOnly => ServedAsFiled
    BY CompleteIsServed
  <1> QED BY <1>1, <1>2, <1>3, <1>4, FilingInductive, PTL DEF FilingSpec

=============================================================================
