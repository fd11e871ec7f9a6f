-------------------------- MODULE ReconBatchProofs --------------------------
(***************************************************************************)
(* Proofs about a recon with several agents, for any number of them, of    *)
(* workers, of retries and of faults: the greedy choice of hunts spreads   *)
(* them over the areas; the map keeps what the agents wrote; the hunts are *)
(* planned once; and with one worker at a time they do follow.             *)
(*                                                                         *)
(* What a recursive function computes is proved by a least counterexample: *)
(* a set of numbers that is not empty has a least one.                     *)
(***************************************************************************)
EXTENDS ReconBatch, FiniteSetTheorems, SequenceTheorems, TLAPS

-----------------------------------------------------------------------------
LEMMA Least ==
  ASSUME NEW T, T \subseteq Nat, T # {}
  PROVE  \E m \in T : \A k \in T : m <= k
<1> DEFINE Below == {0..m : m \in T}
<1>1. Below \subseteq FiniteSubsetsOf(Nat) /\ Below # {}
  <2>1. \A m \in T : 0..m \subseteq Nat /\ IsFiniteSet(0..m)
    BY FS_Interval
  <2> QED
    BY <2>1 DEF FiniteSubsetsOf
<1>2. PICK U \in Below : \A V \in Below : ~(<<V, U>> \in StrictSubsetOrdering(Nat))
  <2> HIDE DEF Below
  <2> QED
    BY <1>1, WFMin, FS_StrictSubsetOrderingWellFounded
<1>3. PICK m \in T : U = 0..m
  OBVIOUS
<1>4. ASSUME NEW k \in T, k < m
      PROVE  FALSE
  <2>1. 0..k \in Below /\ 0..k \subseteq Nat /\ 0..m \subseteq Nat
    OBVIOUS
  <2>2. 0..k \subseteq 0..m /\ 0..k # 0..m
    <3>1. m \in 0..m /\ m \notin 0..k
      BY <1>4
    <3>2. 0..k \subseteq 0..m
      BY <1>4
    <3> QED
      BY <3>1, <3>2
  <2>3. <<0..k, U>> \in StrictSubsetOrdering(Nat)
    BY <1>3, <2>1, <2>2 DEF StrictSubsetOrdering
  <2> QED
    BY <1>2, <2>1, <2>3
<1> QED
  BY <1>4

-----------------------------------------------------------------------------
(* Flattened sequences.                                                    *)
Flattens(f, s, n) == f = [i \in 1..n |-> IF i = 1 THEN s[i] ELSE f[i - 1] \o s[i]]

LEMMA FlatteningExists ==
  ASSUME NEW s, NEW n \in Nat
  PROVE  \E f : Flattens(f, s, n)
<1> DEFINE Bad == {k \in Nat : ~\E f : Flattens(f, s, k)}
<1>1. SUFFICES ASSUME Bad # {}
               PROVE  FALSE
  OBVIOUS
<1>2. PICK m \in Bad : \A k \in Bad : m <= k
  <2> HIDE DEF Bad
  <2>1. Bad \subseteq Nat
    BY DEF Bad
  <2> QED
    BY <1>1, <2>1, Least
<1>3. m # 0
  <2>1. Flattens([i \in 1..0 |-> i], s, 0)
    BY DEF Flattens
  <2> QED
    BY <2>1
<1>4. m - 1 \in Nat /\ m - 1 \notin Bad
  BY <1>2, <1>3
<1>5. PICK f : Flattens(f, s, m - 1)
  BY <1>4
<1> DEFINE g == [i \in 1..m |-> IF i = 1 THEN s[i] ELSE f[i - 1] \o s[i]]
<1>6. \A i \in 1..(m - 1) : f[i] = g[i]
  <2>1. \A i \in 1..(m - 1) : f[i] = IF i = 1 THEN s[i] ELSE f[i - 1] \o s[i]
    BY <1>5 DEF Flattens
  <2>2. \A i \in 1..(m - 1) : i \in 1..m
    BY <1>4
  <2> QED
    BY <2>1, <2>2
<1>7. \A i \in 1..m : i # 1 => f[i - 1] = g[i - 1]
  <2>1. \A i \in 1..m : i # 1 => i - 1 \in 1..(m - 1)
    BY <1>4
  <2> HIDE DEF g
  <2> QED
    BY <1>6, <2>1
<1>8. \A i \in 1..m : (IF i = 1 THEN s[i] ELSE f[i - 1] \o s[i])
                      = (IF i = 1 THEN s[i] ELSE g[i - 1] \o s[i])
  <2> HIDE DEF g
  <2> QED
    BY <1>7
<1>9. g = [i \in 1..m |-> IF i = 1 THEN s[i] ELSE g[i - 1] \o s[i]]
  BY <1>8
<1>10. Flattens(g, s, m)
  <2> HIDE DEF g
  <2> QED
    BY <1>9 DEF Flattens
<1> QED
  BY <1>10

(* The flattened sequence is one of the same elements; it is empty only if *)
(* the first part is.                                                      *)
LEMMA Flattened ==
  ASSUME NEW S, NEW s \in Seq(Seq(S))
  PROVE  /\ FlattenSeq(s) \in Seq(S)
         /\ s # <<>> /\ FlattenSeq(s) = <<>> => s[1] = <<>>
<1>1. CASE Len(s) = 0
  <2>1. s = <<>>
    BY <1>1, EmptySeq
  <2> QED
    BY <2>1 DEF FlattenSeq
<1>2. CASE Len(s) # 0
  <2> DEFINE n == Len(s)
             fl == CHOOSE f : Flattens(f, s, n)
             Good(i) == fl[i] \in Seq(S) /\ (fl[i] = <<>> => s[1] = <<>>)
             Bad == {i \in 1..n : ~Good(i)}
  <2>1. n \in Nat \ {0} /\ \A i \in 1..n : s[i] \in Seq(S)
    BY <1>2
  <2>2. FlattenSeq(s) = fl[n]
    BY <1>2 DEF FlattenSeq, Flattens
  <2>3. Flattens(fl, s, n)
    BY <2>1, FlatteningExists
  <2>4. Bad = {}
    <3> SUFFICES ASSUME Bad # {}
                 PROVE  FALSE
      OBVIOUS
    <3>1. PICK m \in Bad : \A k \in Bad : m <= k
      <4>1. Bad \subseteq Nat
        BY <2>1
      <4> HIDE DEF Bad
      <4> QED
        BY <4>1, Least
    <3>2. fl[m] = IF m = 1 THEN s[m] ELSE fl[m - 1] \o s[m]
      <4> HIDE DEF fl
      <4> QED
        BY <2>3 DEF Flattens
    <3>3. m # 1
      <4>1. CASE m = 1
        <5>1. fl[1] = s[1]
          BY <3>2, <4>1
        <5> HIDE DEF fl
        <5> QED
          BY <2>1, <3>1, <4>1, <5>1
      <4> QED
        BY <4>1
    <3>4. m - 1 \in 1..n /\ m - 1 \notin Bad
      <4> HIDE DEF Good
      <4> QED
        BY <2>1, <3>1, <3>3
    <3>5. Good(m - 1)
      <4> HIDE DEF Good
      <4> QED
        BY <3>4
    <3>6. fl[m] = fl[m - 1] \o s[m] /\ s[m] \in Seq(S)
      <4> HIDE DEF fl, Good
      <4> QED
        BY <2>1, <3>1, <3>2, <3>3
    <3>7. fl[m] \in Seq(S) /\ (fl[m] = <<>> => fl[m - 1] = <<>>)
      <4> HIDE DEF fl
      <4>1. fl[m - 1] \in Seq(S)
        BY <3>5
      <4> QED
        BY <3>6, <4>1, ConcatProperties, ConcatEqualIffEmpty
    <3>8. Good(m)
      <4> HIDE DEF fl
      <4> QED
        BY <3>5, <3>7
    <3> QED
      <4> HIDE DEF Good
      <4> QED
        BY <3>1, <3>8
  <2>5. Good(n)
    <3> HIDE DEF Good
    <3> QED
      BY <2>1, <2>4
  <2> QED
    BY <2>2, <2>5
<1> QED
  BY <1>1, <1>2

-----------------------------------------------------------------------------
(* The hunts offered.                                                      *)
LEMMA ProductTyped ==
  ASSUME NEW A, NEW C, NEW areas \in Seq(A), NEW classes \in Seq(C)
  PROVE  /\ BalancedProduct(areas, classes) \in Seq([area : A, class : C])
         /\ areas # <<>> /\ classes # <<>> => BalancedProduct(areas, classes) # <<>>
<1> DEFINE n == Len(areas)
           m == Len(classes)
           waves == (IF n > m THEN n ELSE m) + n * m
           Cell(i, j) == Hunt(areas[(i % n) + 1], classes[(j % m) + 1])
           Wave(k) == IF k <= waves - n * m THEN Cell(k - 1, k - 1)
                      ELSE LET r == k - 1 - (waves - n * m) IN Cell(r % n, r \div n)
           Once(k) == IF \E j \in 1..(k - 1) : Wave(j) = Wave(k) THEN <<>> ELSE <<Wave(k)>>
           all == [k \in 1..waves |-> Once(k)]
           S == [area : A, class : C]
<1>1. n \in Nat /\ m \in Nat /\ (areas # <<>> => n # 0) /\ (classes # <<>> => m # 0)
  BY EmptySeq
<1>2. CASE n * m = 0
  <2>1. BalancedProduct(areas, classes) = <<>>
    BY <1>2 DEF BalancedProduct
  <2>2. n = 0 \/ m = 0
    BY <1>1, <1>2
  <2> QED
    BY <2>1, <2>2, EmptySeq
<1>3. CASE n * m # 0
  <2>1. n \in Nat \ {0} /\ m \in Nat \ {0} /\ n * m \in Nat \ {0}
    BY <1>1, <1>3
  <2>2. BalancedProduct(areas, classes) = FlattenSeq(all)
    BY <1>3 DEF BalancedProduct
  <2>3. ASSUME NEW i \in Nat, NEW j \in Nat
        PROVE  Cell(i, j) \in S
    <3>1. (i % n) + 1 \in 1..n /\ (j % m) + 1 \in 1..m
      <4> HIDE DEF n, m
      <4> QED
        BY <2>1
    <3>2. areas[(i % n) + 1] \in A /\ classes[(j % m) + 1] \in C
      BY <3>1, ElementOfSeq
    <3> QED
      BY <3>2 DEF Hunt
  <2>4. waves \in Nat \ {0} /\ waves - n * m \in Nat
    <3> HIDE DEF n, m
    <3> QED
      BY <2>1
  <2>5. ASSUME NEW k \in 1..waves
        PROVE  Wave(k) \in S
    <3>1. k - 1 \in Nat
      <4> HIDE DEF waves
      <4> QED
        BY <2>4
    <3>2. CASE k <= waves - n * m
      <4> HIDE DEF Cell, n, m, waves
      <4> QED
        BY <2>3, <3>1, <3>2
    <3>3. CASE ~(k <= waves - n * m)
      <4> DEFINE r == k - 1 - (waves - n * m)
      <4>1. r \in Nat
        <5> HIDE DEF n, m, waves
        <5> DEFINE d == waves - n * m
        <5>1. d \in Nat /\ ~(k <= d)
          BY <2>4, <3>3
        <5> HIDE DEF d
        <5>2. k - 1 - d \in Nat
          BY <3>1, <5>1
        <5> QED
          BY <5>2 DEF d
      <4> HIDE DEF r
      <4>2. r % n \in Nat /\ r \div n \in Nat
        <5> HIDE DEF n, m
        <5> QED
          BY <2>1, <4>1
      <4>3. Cell(r % n, r \div n) \in S
        <5> HIDE DEF Cell, n, m
        <5> QED
          BY <2>3, <4>2
      <4>4. Wave(k) = Cell(r % n, r \div n)
        <5> HIDE DEF Cell, n, m, waves
        <5> QED
          BY <3>3 DEF r
      <4> QED
        BY <4>3, <4>4
    <3> QED
      BY <3>2, <3>3
  <2>6. ASSUME NEW k \in 1..waves
        PROVE  Once(k) \in Seq(S)
    <3>1. Wave(k) \in S
      BY <2>5
    <3> DEFINE x == Wave(k)
               old == \E j \in 1..(k - 1) : Wave(j) = Wave(k)
    <3>2. Once(k) = IF old THEN <<>> ELSE <<x>>
      OBVIOUS
    <3>3. x \in S
      BY <3>1
    <3> HIDE DEF x, old, Once, S
    <3>4. <<>> \in Seq(S) /\ <<x>> \in Seq(S)
      BY <3>3
    <3> QED
      BY <3>2, <3>4
  <2>7. all \in Seq(Seq(S)) /\ Len(all) = waves
    <3> HIDE DEF Once, waves, S
    <3>1. all \in [1..waves -> Seq(S)]
      BY <2>6
    <3> HIDE DEF all
    <3> QED
      BY <2>4, <3>1
  <2>8. all # <<>> /\ all[1] # <<>>
    <3>1. 1 \in 1..waves
      <4> HIDE DEF waves
      <4> QED
        BY <2>4
    <3>2. Once(1) = <<Wave(1)>>
      <4> HIDE DEF Wave
      <4> QED
        OBVIOUS
    <3>3. all[1] = Once(1)
      <4> HIDE DEF Once, waves
      <4> QED
        BY <3>1
    <3>4. <<Wave(1)>> # <<>>
      <4> HIDE DEF Wave
      <4> QED
        OBVIOUS
    <3> HIDE DEF all, Once, Wave
    <3> QED
      <4>1. Len(all) # 0
        <5> HIDE DEF waves
        <5> QED
          BY <2>4, <2>7
      <4> QED
        BY <3>2, <3>3, <3>4, <4>1, EmptySeq
  <2>9. FlattenSeq(all) \in Seq(S) /\ FlattenSeq(all) # <<>>
    <3> HIDE DEF all, S
    <3> QED
      BY <2>7, <2>8, Flattened
  <2> HIDE DEF all
  <2> QED
    BY <2>2, <2>9
<1> QED
  BY <1>2, <1>3

(* The parts of s are the first occurrences of the values of w; f names    *)
(* each value of w, nothing else and none of them twice.                   *)
Firsts(s, w, n) ==
  \A k \in 1..n : s[k] = IF \E j \in 1..(k - 1) : w[j] = w[k] THEN <<>> ELSE <<w[k]>>
EachOnce(f, w, n) ==
  /\ \A k \in 1..n : \E x \in 1..Len(f) : f[x] = w[k]
  /\ \A x \in 1..Len(f) : \E k \in 1..n : f[x] = w[k]
  /\ \A x, y \in 1..Len(f) : f[x] = f[y] => x = y

(* Keeping only first occurrences keeps every value, once.                 *)
LEMMA FirstsFlattened ==
  ASSUME NEW S, NEW n \in Nat \ {0}, NEW w \in [1..n -> S],
         NEW s \in Seq(Seq(S)), Len(s) = n, Firsts(s, w, n)
  PROVE  EachOnce(FlattenSeq(s), w, n)
<1> DEFINE fl == CHOOSE f : Flattens(f, s, n)
           Upto(i) == /\ fl[i] \in Seq(S)
                      /\ \A k \in 1..i : \E x \in 1..Len(fl[i]) : fl[i][x] = w[k]
                      /\ \A x \in 1..Len(fl[i]) : \E k \in 1..i : fl[i][x] = w[k]
                      /\ \A x, y \in 1..Len(fl[i]) : fl[i][x] = fl[i][y] => x = y
           Bad == {i \in 1..n : ~Upto(i)}
<1>0. \A k \in 1..n : s[k] = IF \E j \in 1..(k - 1) : w[j] = w[k] THEN <<>> ELSE <<w[k]>>
  BY DEF Firsts
<1>1. FlattenSeq(s) = fl[n]
  BY DEF FlattenSeq, Flattens
<1>2. Flattens(fl, s, n)
  BY FlatteningExists
<1> HIDE DEF fl
<1>3. Bad = {}
  <2> SUFFICES ASSUME Bad # {}
               PROVE  FALSE
    OBVIOUS
  <2>1. PICK m \in Bad : \A k \in Bad : m <= k
    <3>1. Bad \subseteq Nat
      OBVIOUS
    <3> HIDE DEF Bad
    <3> QED
      BY <3>1, Least
  <2>2. m \in 1..n /\ ~Upto(m)
    OBVIOUS
  <2>3. fl[m] = IF m = 1 THEN s[m] ELSE fl[m - 1] \o s[m]
    BY <1>2, <2>2 DEF Flattens
  <2>4. w[m] \in S /\ \A k \in 1..m : w[k] \in S
    BY <2>2
  <2>5. CASE m = 1
    <3>1. ~\E j \in 1..(m - 1) : w[j] = w[m]
      BY <2>5
    <3>2. s[m] = <<w[m]>>
      BY <1>0, <2>2, <3>1
    <3>3. fl[m] = <<w[m]>>
      BY <2>3, <2>5, <3>2
    <3>4. PICK v \in S : v = w[m]
      BY <2>4
    <3>5. fl[m] \in Seq(S) /\ Len(fl[m]) = 1 /\ fl[m][1] = w[m]
      BY <3>3, <3>4
    <3>6. Upto(m)
      BY <2>5, <3>5
    <3> QED
      BY <2>2, <3>6
  <2>6. CASE m # 1
    <3>1. m - 1 \in 1..n /\ m - 1 \notin Bad
      <4> HIDE DEF Upto
      <4> QED
        BY <2>1, <2>2, <2>6
    <3>2. Upto(m - 1)
      <4> HIDE DEF Upto
      <4> QED
        BY <3>1
    <3> DEFINE old == fl[m - 1]
    <3>3. /\ old \in Seq(S)
          /\ \A k \in 1..(m - 1) : \E x \in 1..Len(old) : old[x] = w[k]
          /\ \A x \in 1..Len(old) : \E k \in 1..(m - 1) : old[x] = w[k]
          /\ \A x, y \in 1..Len(old) : old[x] = old[y] => x = y
      BY <3>2
    <3>4. fl[m] = old \o s[m]
      BY <2>3, <2>6
    <3> HIDE DEF old
    <3>5. CASE \E j \in 1..(m - 1) : w[j] = w[m]
      <4>1. s[m] = <<>>
        BY <1>0, <2>2, <3>5
      <4>2. fl[m] = old
        BY <3>3, <3>4, <4>1, ConcatEmptySeq
      <4>3. \A k \in 1..m : \E x \in 1..Len(old) : old[x] = w[k]
        <5> SUFFICES ASSUME NEW k \in 1..m
                     PROVE  \E x \in 1..Len(old) : old[x] = w[k]
          OBVIOUS
        <5>1. CASE k = m
          <6>1. PICK j \in 1..(m - 1) : w[j] = w[m]
            BY <3>5
          <6>2. PICK x \in 1..Len(old) : old[x] = w[j]
            BY <3>3
          <6> QED
            BY <5>1, <6>1, <6>2
        <5>2. CASE k # m
          <6>1. k \in 1..(m - 1)
            BY <2>2, <5>2
          <6> QED
            BY <3>3, <6>1
        <5> QED
          BY <5>1, <5>2
      <4>4. \A k \in 1..(m - 1) : k \in 1..m
        BY <2>2
      <4>5. Upto(m)
        BY <3>3, <4>2, <4>3, <4>4
      <4> QED
        BY <2>2, <4>5
    <3>6. CASE ~\E j \in 1..(m - 1) : w[j] = w[m]
      <4>1. s[m] = <<w[m]>>
        BY <1>0, <2>2, <3>6
      <4>2. PICK v \in S : v = w[m]
        BY <2>4
      <4>3. /\ fl[m] \in Seq(S) /\ Len(fl[m]) = Len(old) + 1
            /\ fl[m][Len(old) + 1] = w[m]
            /\ \A x \in 1..Len(old) : fl[m][x] = old[x]
        <5>1. fl[m] = Append(old, v)
          BY <3>3, <3>4, <4>1, <4>2, AppendIsConcat
        <5> QED
          BY <3>3, <4>2, <5>1, AppendProperties
      <4>4. Len(old) \in Nat /\ \A x \in 1..(Len(old) + 1) : x = Len(old) + 1 \/ x \in 1..Len(old)
        BY <3>3
      <4>5. \A x \in 1..Len(old) : old[x] # w[m]
        BY <3>3, <3>6
      <4>6. \A k \in 1..m : \E x \in 1..Len(fl[m]) : fl[m][x] = w[k]
        <5> SUFFICES ASSUME NEW k \in 1..m
                     PROVE  \E x \in 1..Len(fl[m]) : fl[m][x] = w[k]
          OBVIOUS
        <5>1. CASE k = m
          <6>1. Len(old) + 1 \in 1..Len(fl[m])
            BY <4>3, <4>4
          <6> QED
            BY <4>3, <5>1, <6>1
        <5>2. CASE k # m
          <6>1. k \in 1..(m - 1)
            BY <2>2, <5>2
          <6>2. PICK x \in 1..Len(old) : old[x] = w[k]
            BY <3>3, <6>1
          <6>3. x \in 1..Len(fl[m])
            BY <4>3, <4>4
          <6> QED
            BY <4>3, <6>2, <6>3
        <5> QED
          BY <5>1, <5>2
      <4>7. \A x \in 1..Len(fl[m]) : \E k \in 1..m : fl[m][x] = w[k]
        <5> SUFFICES ASSUME NEW x \in 1..Len(fl[m])
                     PROVE  \E k \in 1..m : fl[m][x] = w[k]
          OBVIOUS
        <5>1. m \in 1..m /\ \A k \in 1..(m - 1) : k \in 1..m
          BY <2>2
        <5>2. x = Len(old) + 1 \/ x \in 1..Len(old)
          BY <4>3, <4>4
        <5>3. CASE x = Len(old) + 1
          BY <4>3, <5>1, <5>3
        <5>4. CASE x \in 1..Len(old)
          <6>1. PICK k \in 1..(m - 1) : old[x] = w[k]
            BY <3>3, <5>4
          <6> QED
            BY <4>3, <5>1, <5>4, <6>1
        <5> QED
          BY <5>2, <5>3, <5>4
      <4>8. \A x, y \in 1..Len(fl[m]) : fl[m][x] = fl[m][y] => x = y
        <5> SUFFICES ASSUME NEW x \in 1..Len(fl[m]), NEW y \in 1..Len(fl[m]),
                            fl[m][x] = fl[m][y]
                     PROVE  x = y
          OBVIOUS
        <5>1. /\ x = Len(old) + 1 \/ x \in 1..Len(old)
              /\ y = Len(old) + 1 \/ y \in 1..Len(old)
          BY <4>3, <4>4
        <5>2. CASE x \in 1..Len(old) /\ y \in 1..Len(old)
          <6>1. old[x] = old[y]
            BY <4>3, <5>2
          <6> QED
            BY <3>3, <5>2, <6>1
        <5>3. CASE x \in 1..Len(old) /\ y = Len(old) + 1
          BY <4>3, <4>5, <5>3
        <5>4. CASE x = Len(old) + 1 /\ y \in 1..Len(old)
          BY <4>3, <4>5, <5>4
        <5> QED
          BY <5>1, <5>2, <5>3, <5>4
      <4>9. Upto(m)
        BY <4>3, <4>6, <4>7, <4>8
      <4> QED
        BY <2>2, <4>9
    <3> QED
      BY <3>5, <3>6
  <2> QED
    BY <2>5, <2>6
<1>4. Upto(n)
  <2> HIDE DEF Upto
  <2> QED
    BY <1>3
<1> QED
  BY <1>1, <1>4 DEF EachOnce

(* balanced_product_tasks asks for every pair of an area and a class, for   *)
(* nothing else and for no pair twice, whatever its diagonal wave already   *)
(* named.                                                                   *)
THEOREM EveryPairOnce ==
  ASSUME NEW A, NEW C, NEW areas \in Seq(A), NEW classes \in Seq(C),
         NEW hunts, hunts = BalancedProduct(areas, classes)
  PROVE  /\ \A a \in 1..Len(areas), c \in 1..Len(classes) :
              \E x \in 1..Len(hunts) : hunts[x] = Hunt(areas[a], classes[c])
         /\ \A x \in 1..Len(hunts) : \E a \in 1..Len(areas), c \in 1..Len(classes) :
              hunts[x] = Hunt(areas[a], classes[c])
         /\ \A x, y \in 1..Len(hunts) : hunts[x] = hunts[y] => x = y
<1> DEFINE n == Len(areas)
           m == Len(classes)
           waves == (IF n > m THEN n ELSE m) + n * m
           Cell(i, j) == Hunt(areas[(i % n) + 1], classes[(j % m) + 1])
           Wave(k) == IF k <= waves - n * m THEN Cell(k - 1, k - 1)
                      ELSE LET r == k - 1 - (waves - n * m) IN Cell(r % n, r \div n)
           Once(k) == IF \E j \in 1..(k - 1) : Wave(j) = Wave(k) THEN <<>> ELSE <<Wave(k)>>
           all == [k \in 1..waves |-> Once(k)]
           w == [k \in 1..waves |-> Wave(k)]
           S == [area : A, class : C]
           Cells == {Hunt(areas[a], classes[c]) : a \in 1..n, c \in 1..m}
<1>1. n \in Nat /\ m \in Nat
  OBVIOUS
<1>2. CASE n * m = 0
  <2>1. hunts = <<>>
    BY <1>2 DEF BalancedProduct
  <2>2. n = 0 \/ m = 0
    <3> HIDE DEF n, m
    <3> QED
      BY <1>1, <1>2
  <2>3. 1..n = {} \/ 1..m = {}
    <3> HIDE DEF n, m
    <3> QED
      BY <2>2
  <2>4. 1..Len(hunts) = {}
    BY <2>1
  <2> QED
    BY <2>3, <2>4
<1>3. CASE n * m # 0
  <2>1. n \in Nat \ {0} /\ m \in Nat \ {0} /\ n * m \in Nat \ {0}
    <3> HIDE DEF n, m
    <3> QED
      BY <1>1, <1>3
  <2>2. hunts = FlattenSeq(all)
    BY <1>3 DEF BalancedProduct
  <2>3. PICK d \in Nat \ {0} : d = IF n > m THEN n ELSE m
    <3> HIDE DEF n, m
    <3> QED
      BY <2>1
  <2>4. waves = d + n * m /\ waves \in Nat \ {0} /\ waves - n * m = d
    <3> HIDE DEF n, m
    <3> QED
      BY <2>1, <2>3
  <2>5. ASSUME NEW i \in Nat, NEW j \in Nat
        PROVE  Cell(i, j) \in Cells
    <3>1. (i % n) + 1 \in 1..n /\ (j % m) + 1 \in 1..m
      <4> HIDE DEF n, m
      <4> QED
        BY <2>1
    <3>2. PICK a \in 1..n, c \in 1..m : a = (i % n) + 1 /\ c = (j % m) + 1
      <4> HIDE DEF n, m
      <4> QED
        BY <3>1
    <3>3. Cell(i, j) = Hunt(areas[a], classes[c])
      <4> HIDE DEF n, m
      <4> QED
        BY <3>2
    <3>4. Hunt(areas[a], classes[c]) \in Cells
      OBVIOUS
    <3> QED
      BY <3>3, <3>4
  <2>6. ASSUME NEW k \in 1..waves
        PROVE  Wave(k) \in Cells
    <3>1. k - 1 \in Nat
      <4> HIDE DEF waves
      <4> QED
        BY <2>4
    <3>2. CASE k <= waves - n * m
      <4> HIDE DEF Cell, n, m, waves, Cells
      <4> QED
        BY <2>5, <3>1, <3>2
    <3>3. CASE ~(k <= waves - n * m)
      <4>1. PICK r \in Nat : r = k - 1 - (waves - n * m)
        <5> HIDE DEF waves, n, m
        <5> QED
          BY <2>4, <3>1, <3>3
      <4>2. r % n \in Nat /\ r \div n \in Nat
        <5> HIDE DEF n, m
        <5> QED
          BY <2>1
      <4>3. Wave(k) = Cell(r % n, r \div n)
        <5> HIDE DEF Cell, n, m, waves
        <5> QED
          BY <3>3, <4>1
      <4> HIDE DEF Cell, Cells, Wave, n, m
      <4> QED
        BY <2>5, <4>2, <4>3
    <3> QED
      BY <3>2, <3>3
  <2>7. Cells \subseteq S
    <3> SUFFICES ASSUME NEW a \in 1..n, NEW c \in 1..m
                 PROVE  Hunt(areas[a], classes[c]) \in S
      OBVIOUS
    <3>1. areas[a] \in A /\ classes[c] \in C
      BY ElementOfSeq
    <3> QED
      BY <3>1 DEF Hunt
  <2>8. w \in [1..waves -> S] /\ \A k \in 1..waves : w[k] = Wave(k)
    <3> HIDE DEF Wave, waves, Cells, S
    <3> QED
      BY <2>6, <2>7
  <2>9. ASSUME NEW k \in 1..waves
        PROVE  /\ Once(k) \in Seq(S)
               /\ Once(k) = IF \E j \in 1..(k - 1) : w[j] = w[k] THEN <<>> ELSE <<w[k]>>
    <3>1. w[k] = Wave(k) /\ w[k] \in S
      <4> HIDE DEF w, Wave, waves, S
      <4> QED
        BY <2>8
    <3>2. \A j \in 1..(k - 1) : w[j] = Wave(j)
      <4>1. \A j \in 1..(k - 1) : j \in 1..waves
        <5> HIDE DEF waves
        <5> QED
          BY <2>4
      <4> HIDE DEF w, Wave, waves
      <4> QED
        BY <2>8, <4>1
    <3> DEFINE before == \E j \in 1..(k - 1) : w[j] = w[k]
    <3>3. Once(k) = IF before THEN <<>> ELSE <<w[k]>>
      <4> HIDE DEF w, Wave, waves
      <4> QED
        BY <3>1, <3>2
    <3>4. PICK v \in S : v = w[k]
      <4> HIDE DEF w, S
      <4> QED
        BY <3>1
    <3>5. <<>> \in Seq(S) /\ <<v>> \in Seq(S)
      <4> HIDE DEF S
      <4> QED
        OBVIOUS
    <3>6. Once(k) \in Seq(S)
      <4> HIDE DEF Once, before, w, S
      <4> QED
        BY <3>3, <3>4, <3>5
    <3> QED
      BY <3>3, <3>6
  <2>10. /\ all \in Seq(Seq(S)) /\ Len(all) = waves
         /\ \A k \in 1..waves :
              all[k] = IF \E j \in 1..(k - 1) : w[j] = w[k] THEN <<>> ELSE <<w[k]>>
    <3> HIDE DEF Once, waves, S, w
    <3>1. all \in [1..waves -> Seq(S)] /\ \A k \in 1..waves : all[k] = Once(k)
      BY <2>9
    <3> HIDE DEF all
    <3>2. waves \in Nat /\ all \in [1..waves -> Seq(S)]
      BY <2>4, <3>1
    <3>3. all \in Seq(Seq(S)) /\ Len(all) = waves
      BY <3>2
    <3> QED
      BY <2>9, <3>1, <3>3
  <2>11. /\ \A k \in 1..waves : \E x \in 1..Len(hunts) : hunts[x] = Wave(k)
         /\ \A x \in 1..Len(hunts) : hunts[x] \in Cells
         /\ \A x, y \in 1..Len(hunts) : hunts[x] = hunts[y] => x = y
    <3> HIDE DEF all, w, waves, S, Wave, Cells
    <3>1. /\ \A k \in 1..waves : \E x \in 1..Len(hunts) : hunts[x] = w[k]
          /\ \A x \in 1..Len(hunts) : \E k \in 1..waves : hunts[x] = w[k]
          /\ \A x, y \in 1..Len(hunts) : hunts[x] = hunts[y] => x = y
      <4>1. waves \in Nat \ {0}
        BY <2>4
      <4>2. w \in [1..waves -> S]
        BY <2>8
      <4>3. all \in Seq(Seq(S))
        BY <2>10
      <4>4. Len(all) = waves
        BY <2>10
      <4>5. Firsts(all, w, waves)
        BY <2>10 DEF Firsts
      <4> HIDE DEF n, m
      <4>6. EachOnce(FlattenSeq(all), w, waves)
        BY <4>1, <4>2, <4>3, <4>4, <4>5, FirstsFlattened
      <4> QED
        BY <2>2, <4>6 DEF EachOnce
    <3>2. \A k \in 1..waves : \E x \in 1..Len(hunts) : hunts[x] = Wave(k)
      BY <2>8, <3>1
    <3>3. \A x \in 1..Len(hunts) : hunts[x] \in Cells
      <4> SUFFICES ASSUME NEW x \in 1..Len(hunts)
                   PROVE  hunts[x] \in Cells
        OBVIOUS
      <4>1. PICK k \in 1..waves : hunts[x] = w[k]
        BY <3>1
      <4> QED
        BY <2>6, <2>8, <4>1
    <3> QED
      BY <3>1, <3>2, <3>3
  <2>12. ASSUME NEW a \in 1..n, NEW c \in 1..m
         PROVE  \E k \in 1..waves : Wave(k) = Hunt(areas[a], classes[c])
    <3> DEFINE i == a - 1
               j == c - 1
               r == j * n + i
               k == d + 1 + r
    <3>1. i \in 0..(n - 1) /\ j \in 0..(m - 1) /\ i + 1 = a /\ j + 1 = c
      <4> HIDE DEF n, m
      <4> QED
        BY <2>1
    <3> HIDE DEF i, j
    <3>2. r \in Nat /\ r < n * m
      <4> HIDE DEF n, m
      <4>1. j * n \in Nat /\ j * n <= (m - 1) * n /\ (m - 1) * n = n * m - n
        BY <2>1, <3>1
      <4> QED
        BY <2>1, <3>1, <4>1
    <3>3. r \div n = j /\ r % n = i
      <4> HIDE DEF n, m
      <4> QED
        BY <2>1, <3>1
    <3>4. i % n = i /\ j % m = j
      <4> HIDE DEF n, m
      <4> QED
        BY <2>1, <3>1
    <3> HIDE DEF r
    <3>5. k \in 1..waves /\ ~(k <= waves - n * m) /\ k - 1 - (waves - n * m) = r
      <4> HIDE DEF waves, n, m
      <4> QED
        BY <2>1, <2>4, <3>2
    <3>6. Wave(k) = Cell(r % n, r \div n)
      <4> HIDE DEF k, Cell, waves, n, m
      <4> QED
        BY <3>5
    <3>7. Cell(r % n, r \div n) = Hunt(areas[a], classes[c])
      <4> HIDE DEF n, m
      <4> QED
        BY <3>1, <3>3, <3>4
    <3> QED
      BY <3>5, <3>6, <3>7
  <2>13. \A a \in 1..n, c \in 1..m : \E x \in 1..Len(hunts) :
            hunts[x] = Hunt(areas[a], classes[c])
    <3> HIDE DEF Wave, waves, n, m
    <3> QED
      BY <2>11, <2>12
  <2>14. \A x \in 1..Len(hunts) : \E a \in 1..n, c \in 1..m :
            hunts[x] = Hunt(areas[a], classes[c])
    BY <2>11
  <2> QED
    BY <2>11, <2>13, <2>14
<1> QED
  BY <1>2, <1>3

LEMMA OfferTyped ==
  ASSUME NEW A, NEW C, NEW areas \in Seq(A), NEW focus \in Seq([area : A, class : C]),
         NEW accepted, NEW allowed \in Seq(C), NEW max \in Nat \ {0}
  PROVE  /\ Offered(areas, focus, accepted, allowed, max) \in Seq([area : A, class : C])
         /\ areas # <<>> /\ allowed # <<>> =>
              Offered(areas, focus, accepted, allowed, max) # <<>>
<1> DEFINE S == [area : A, class : C]
           parts == [k \in DOMAIN focus |->
                       IF focus[k].class \in accepted THEN <<focus[k]>> ELSE <<>>]
           few == SubSeq(areas, 1, IF Len(areas) < max THEN Len(areas) ELSE max)
<1>1. parts \in Seq(Seq(S))
  <2>1. DOMAIN focus = 1..Len(focus) /\ Len(focus) \in Nat
    OBVIOUS
  <2>2. \A k \in 1..Len(focus) : focus[k] \in S
    BY ElementOfSeq
  <2>3. \A k \in 1..Len(focus) :
          (IF focus[k].class \in accepted THEN <<focus[k]>> ELSE <<>>) \in Seq(S)
    <3> HIDE DEF S
    <3> QED
      BY <2>2
  <2> HIDE DEF S
  <2> QED
    BY <2>1, <2>3
<1>2. FlattenSeq(parts) \in Seq(S)
  <2> HIDE DEF parts, S
  <2> QED
    BY <1>1, Flattened
<1>3. few \in Seq(A) /\ (areas # <<>> => few # <<>>)
  <2> DEFINE l == IF Len(areas) < max THEN Len(areas) ELSE max
  <2>1. l \in Nat /\ l <= Len(areas) /\ (areas # <<>> => l # 0)
    BY EmptySeq
  <2>2. \A i \in 1..l : areas[i] \in A
    BY <2>1, ElementOfSeq
  <2> HIDE DEF l
  <2>3. SubSeq(areas, 1, l) \in Seq(A) /\ Len(SubSeq(areas, 1, l)) = IF 1 <= l THEN l ELSE 0
    BY <2>1, <2>2, SubSeqProperties
  <2>4. SubSeq(areas, 1, l) = <<>> => l = 0
    BY <2>1, <2>3, EmptySeq
  <2> QED
    BY <2>1, <2>3, <2>4 DEF l
<1>4. Offered(areas, focus, accepted, allowed, max)
        = IF FlattenSeq(parts) # <<>> THEN FlattenSeq(parts) ELSE BalancedProduct(few, allowed)
  BY DEF Offered
<1> HIDE DEF parts, few
<1>5. /\ BalancedProduct(few, allowed) \in Seq(S)
      /\ few # <<>> /\ allowed # <<>> => BalancedProduct(few, allowed) # <<>>
  BY <1>3, ProductTyped
<1> HIDE DEF S
<1>6. Offered(areas, focus, accepted, allowed, max) \in Seq(S)
  BY <1>2, <1>4, <1>5
<1>7. areas # <<>> /\ allowed # <<>> => Offered(areas, focus, accepted, allowed, max) # <<>>
  BY <1>3, <1>4, <1>5
<1> QED
  BY <1>6, <1>7 DEF S

-----------------------------------------------------------------------------
(* The greedy choice.  Of the positions that are left there is a best one. *)
LEMMA NamedNat ==
  ASSUME NEW plan, NEW chosen, IsFiniteSet(chosen), NEW h, NEW f
  PROVE  Named(plan, chosen, h, f) \in Nat
<1>1. IsFiniteSet({k \in chosen : plan[k][f] = h[f]})
  BY FS_Subset
<1> QED
  BY <1>1, FS_CardinalityType DEF Named

LEMMA BestFound ==
  ASSUME NEW plan, NEW chosen, IsFiniteSet(chosen),
         DOMAIN plan \subseteq Nat, DOMAIN plan \ chosen # {}
  PROVE  /\ Best(plan, chosen) \in DOMAIN plan \ chosen
         /\ \A j \in DOMAIN plan \ chosen : Precedes(plan, chosen, Best(plan, chosen), j)
<1> DEFINE left == DOMAIN plan \ chosen
           area(k) == Named(plan, chosen, plan[k], "area")
           class(k) == Named(plan, chosen, plan[k], "class")
<1>1. \A k \in left : area(k) \in Nat /\ class(k) \in Nat
  BY NamedNat
<1>2. PICK a \in {area(k) : k \in left} : \A b \in {area(k) : k \in left} : a <= b
  <2>1. {area(k) : k \in left} \subseteq Nat /\ {area(k) : k \in left} # {}
    BY <1>1
  <2> HIDE DEF area, left
  <2> QED
    BY <2>1, Least
<1> DEFINE rare == {k \in left : area(k) = a}
<1>3. PICK c \in {class(k) : k \in rare} : \A d \in {class(k) : k \in rare} : c <= d
  <2>1. {class(k) : k \in rare} \subseteq Nat /\ {class(k) : k \in rare} # {}
    BY <1>1, <1>2
  <2> HIDE DEF class, rare
  <2> QED
    BY <2>1, Least
<1> DEFINE rarest == {k \in rare : class(k) = c}
<1>4. PICK i \in rarest : \A j \in rarest : i <= j
  <2>1. rarest \subseteq Nat /\ rarest # {}
    BY <1>3
  <2> HIDE DEF rarest
  <2> QED
    BY <2>1, Least
<1>5. ASSUME NEW j \in left
      PROVE  Precedes(plan, chosen, i, j)
  <2> HIDE DEF area, class
  <2>1. i \in left /\ area(i) = a /\ class(i) = c
    BY <1>4
  <2>2. a <= area(j) /\ a \in Nat /\ area(j) \in Nat
    BY <1>1, <1>2
  <2>3. area(j) = a => c <= class(j) /\ c \in Nat /\ class(j) \in Nat
    BY <1>1, <1>3
  <2>4. area(j) = a /\ class(j) = c => i <= j
    BY <1>4
  <2>5. \/ area(i) < area(j)
        \/ area(i) = area(j) /\ class(i) < class(j)
        \/ area(i) = area(j) /\ class(i) = class(j) /\ i <= j
    <3>1. CASE area(j) = a
      BY <2>1, <2>2, <2>3, <2>4, <3>1
    <3>2. CASE area(j) # a
      BY <2>1, <2>2, <3>2
    <3> QED
      BY <3>1, <3>2
  <2> QED
    BY <2>5 DEF Precedes, area, class
<1>6. i \in left
  BY <1>4
<1> HIDE DEF left
<1>7. Best(plan, chosen) = CHOOSE k \in left : \A j \in left : Precedes(plan, chosen, k, j)
  BY DEF Best, left
<1>8. Best(plan, chosen) \in left /\ \A j \in left : Precedes(plan, chosen, Best(plan, chosen), j)
  BY <1>5, <1>6, <1>7
<1> QED
  BY <1>8 DEF left

(* What was picked before the k-th.                                        *)
Earlier(f, k) == {f[j] : j \in 1..(k - 1)}
Picks(f, plan, n) == f = [k \in 1..n |-> Best(plan, Earlier(f, k))]

LEMMA PicksExist ==
  ASSUME NEW plan, NEW n \in Nat
  PROVE  \E f : Picks(f, plan, n)
<1> DEFINE Bad == {k \in Nat : ~\E f : Picks(f, plan, k)}
<1>1. SUFFICES ASSUME Bad # {}
               PROVE  FALSE
  OBVIOUS
<1>2. PICK m \in Bad : \A k \in Bad : m <= k
  <2>1. Bad \subseteq Nat
    OBVIOUS
  <2> HIDE DEF Bad
  <2> QED
    BY <1>1, <2>1, Least
<1>3. m # 0
  <2>1. Picks([k \in 1..0 |-> k], plan, 0)
    BY DEF Picks
  <2> QED
    BY <2>1
<1>4. m - 1 \in Nat /\ m - 1 \notin Bad
  BY <1>2, <1>3
<1>5. PICK f : Picks(f, plan, m - 1)
  BY <1>4
<1> DEFINE g == [k \in 1..m |-> Best(plan, Earlier(f, k))]
<1>6. \A k \in 1..(m - 1) : f[k] = g[k]
  <2>1. \A k \in 1..(m - 1) : f[k] = Best(plan, Earlier(f, k))
    BY <1>5 DEF Picks
  <2>2. \A k \in 1..(m - 1) : k \in 1..m
    BY <1>4
  <2> QED
    BY <2>1, <2>2
<1>7. ASSUME NEW k \in 1..m
      PROVE  Earlier(f, k) = Earlier(g, k)
  <2>1. \A j \in 1..(k - 1) : j \in 1..(m - 1)
    BY <1>4
  <2> HIDE DEF g
  <2> QED
    BY <1>6, <2>1 DEF Earlier
<1>8. \A k \in 1..m : Best(plan, Earlier(f, k)) = Best(plan, Earlier(g, k))
  <2> HIDE DEF g
  <2> QED
    BY <1>7
<1>9. g = [k \in 1..m |-> Best(plan, Earlier(g, k))]
  BY <1>8
<1>10. Picks(g, plan, m)
  <2> HIDE DEF g
  <2> QED
    BY <1>9 DEF Picks
<1> QED
  BY <1>10

(* Every pick is the best of what the earlier ones have left.              *)
LEMMA ClipPicks ==
  ASSUME NEW S, NEW plan \in Seq(S), NEW max \in Nat, Len(plan) > max
  PROVE  \E f : /\ DiversifyClip(plan, max) = [k \in 1..max |-> plan[f[k]]]
                /\ \A k \in 1..max :
                     /\ IsFiniteSet(Earlier(f, k))
                     /\ f[k] \in DOMAIN plan \ Earlier(f, k)
                     /\ \A j \in DOMAIN plan \ Earlier(f, k) :
                          Precedes(plan, Earlier(f, k), f[k], j)
<1> DEFINE pick == CHOOSE f : Picks(f, plan, max)
<1>1. DiversifyClip(plan, max) = [k \in 1..max |-> plan[pick[k]]]
  BY DEF DiversifyClip, Picks, Earlier
<1>2. Picks(pick, plan, max)
  BY PicksExist
<1> HIDE DEF pick
<1>3. ASSUME NEW k \in 1..max
      PROVE  /\ IsFiniteSet(Earlier(pick, k))
             /\ pick[k] \in DOMAIN plan \ Earlier(pick, k)
             /\ \A j \in DOMAIN plan \ Earlier(pick, k) :
                  Precedes(plan, Earlier(pick, k), pick[k], j)
  <2> DEFINE before == 1..(k - 1)
             g == [j \in before |-> pick[j]]
             chosen == Earlier(pick, k)
  <2>1. IsFiniteSet(before) /\ Cardinality(before) <= k - 1
    <3>1. k - 1 \in Int /\ 1 \in Int /\ (IF 1 > k - 1 THEN 0 ELSE (k - 1) - 1 + 1) <= k - 1
      OBVIOUS
    <3> QED
      BY <3>1, FS_Interval
  <2>2. IsFiniteSet(chosen) /\ Cardinality(chosen) <= Cardinality(before)
    <3>1. g \in Surjection(before, chosen)
      BY DEF Surjection, Earlier
    <3> HIDE DEF g, before, chosen
    <3> QED
      BY <2>1, <3>1, FS_Surjection
  <2>3. DOMAIN plan = 1..Len(plan) /\ Len(plan) \in Nat
    OBVIOUS
  <2>4. IsFiniteSet(DOMAIN plan) /\ Cardinality(DOMAIN plan) = Len(plan)
    <3> DEFINE l == Len(plan)
    <3>1. l \in Nat /\ 1 \in Int /\ l \in Int /\ (IF 1 > l THEN 0 ELSE l - 1 + 1) = l
      BY <2>3
    <3>2. DOMAIN plan = 1..l
      BY <2>3
    <3> HIDE DEF l
    <3>3. IsFiniteSet(1..l) /\ Cardinality(1..l) = l
      BY <3>1, FS_Interval
    <3> QED
      BY <3>2, <3>3 DEF l
  <2>5. DOMAIN plan \ chosen # {}
    <3> SUFFICES ASSUME DOMAIN plan \subseteq chosen
                 PROVE  FALSE
      OBVIOUS
    <3> HIDE DEF chosen, before
    <3>1. Cardinality(DOMAIN plan) <= Cardinality(chosen)
      BY <2>2, FS_Subset
    <3>2. Cardinality(chosen) \in Nat /\ Cardinality(before) \in Nat
      BY <2>1, <2>2, FS_CardinalityType
    <3> QED
      BY <2>1, <2>2, <2>3, <2>4, <3>1, <3>2
  <2>6. pick[k] = Best(plan, chosen)
    BY <1>2 DEF Picks
  <2> HIDE DEF chosen
  <2>7. DOMAIN plan \subseteq Nat
    BY <2>3
  <2>8. IsFiniteSet(chosen) /\ pick[k] \in DOMAIN plan \ chosen
        /\ \A j \in DOMAIN plan \ chosen : Precedes(plan, chosen, pick[k], j)
    BY <2>2, <2>5, <2>6, <2>7, BestFound
  <2> QED
    BY <2>8 DEF chosen
<1> QED
  BY <1>1, <1>3

LEMMA ClipTyped ==
  ASSUME NEW S, NEW plan \in Seq(S), NEW max \in Nat \ {0}
  PROVE  /\ DiversifyClip(plan, max) \in Seq(S)
         /\ Len(DiversifyClip(plan, max)) <= max
         /\ plan # <<>> => DiversifyClip(plan, max) # <<>>
<1>1. CASE Len(plan) <= max
  BY <1>1 DEF DiversifyClip
<1>2. CASE ~(Len(plan) <= max)
  <2>1. max \in Nat /\ Len(plan) > max
    BY <1>2
  <2>2. PICK f : /\ DiversifyClip(plan, max) = [k \in 1..max |-> plan[f[k]]]
                 /\ \A k \in 1..max : f[k] \in DOMAIN plan
    BY <2>1, ClipPicks
  <2> DEFINE clip == [k \in 1..max |-> plan[f[k]]]
  <2>3. \A k \in 1..max : plan[f[k]] \in S
    BY <2>2
  <2>4. clip \in [1..max -> S]
    BY <2>3
  <2> HIDE DEF clip
  <2>5. clip \in Seq(S) /\ Len(clip) = max
    BY <2>1, <2>4
  <2>6. clip # <<>>
    BY <2>5, EmptySeq
  <2> QED
    BY <2>2, <2>5, <2>6 DEF clip
<1> QED
  BY <1>1, <1>2

LEMMA SameSize ==
  ASSUME NEW X, IsFiniteSet(X), NEW Y, NEW g \in [X -> Y],
         \A y \in Y : \E x \in X : g[x] = y,
         \A x, z \in X : g[x] = g[z] => x = z
  PROVE  Cardinality(Y) = Cardinality(X)
<1>1. g \in Surjection(X, Y)
  BY DEF Surjection
<1>2. g \in Injection(X, Y)
  BY DEF Injection, IsInjective
<1> QED
  BY <1>1, <1>2, FS_Surjection

OfArea(s, a) == Cardinality({k \in DOMAIN s : s[k].area = a})

(* An area gets two hunts more than another one only if the other one has  *)
(* got all of its hunts: before the last of them was picked, the other     *)
(* area would have been the rarer one.                                     *)
LEMMA ClipSpreads ==
  ASSUME NEW S, NEW plan \in Seq(S), NEW max \in Nat \ {0}, NEW a, NEW b,
         OfArea(DiversifyClip(plan, max), a) > OfArea(DiversifyClip(plan, max), b) + 1
  PROVE  OfArea(DiversifyClip(plan, max), b) = OfArea(plan, b)
<1>1. CASE Len(plan) <= max
  BY <1>1 DEF DiversifyClip
<1>2. CASE ~(Len(plan) <= max)
  <2>1. max \in Nat /\ Len(plan) > max /\ DOMAIN plan \subseteq Nat
    BY <1>2
  <2>2. PICK f : /\ DiversifyClip(plan, max) = [k \in 1..max |-> plan[f[k]]]
                 /\ \A k \in 1..max :
                      /\ IsFiniteSet(Earlier(f, k))
                      /\ f[k] \in DOMAIN plan \ Earlier(f, k)
                      /\ \A j \in DOMAIN plan \ Earlier(f, k) :
                           Precedes(plan, Earlier(f, k), f[k], j)
    BY <2>1, ClipPicks
  <2> DEFINE Picked(c) == {k \in 1..max : plan[f[k]].area = c}
             clip == [k \in 1..max |-> plan[f[k]]]
  <2>3. \A k, l \in 1..max : f[k] = f[l] => k = l
    <3>1. ASSUME NEW k \in 1..max, NEW l \in 1..max, f[k] = f[l], k < l
          PROVE  FALSE
      <4>1. k \in 1..(l - 1)
        BY <3>1
      <4>2. f[k] \in Earlier(f, l)
        BY <4>1 DEF Earlier
      <4> QED
        BY <2>2, <3>1, <4>2
    <3>2. \A k, l \in 1..max : k < l \/ l < k \/ k = l
      OBVIOUS
    <3> QED
      BY <3>1, <3>2
  <2>4. \A c : OfArea(clip, c) = Cardinality(Picked(c))
    <3>1. \A k \in 1..max : clip[k] = plan[f[k]]
      OBVIOUS
    <3>2. DOMAIN clip = 1..max
      OBVIOUS
    <3>3. \A c : {k \in DOMAIN clip : clip[k].area = c} = Picked(c)
      <4> HIDE DEF clip
      <4> QED
        BY <3>1, <3>2
    <3> HIDE DEF clip, Picked
    <3> QED
      BY <3>3 DEF OfArea
  <2>5. \A c : IsFiniteSet(Picked(c)) /\ Cardinality(Picked(c)) \in Nat
    <3>1. IsFiniteSet(1..max)
      BY <2>1, FS_Interval
    <3>2. \A c : Picked(c) \in SUBSET (1..max)
      OBVIOUS
    <3> HIDE DEF Picked
    <3>3. \A c : IsFiniteSet(Picked(c))
      BY <3>1, <3>2, FS_Subset
    <3> QED
      BY <3>3, FS_CardinalityType
  <2>6. Cardinality(Picked(a)) > Cardinality(Picked(b)) + 1
    <3> HIDE DEF clip, Picked
    <3> QED
      BY <2>2, <2>4 DEF clip
  <2>7. ASSUME NEW i \in DOMAIN plan, plan[i].area = b, \A k \in 1..max : f[k] # i
        PROVE  FALSE
    <3>1. Picked(a) # {}
      <4> HIDE DEF Picked
      <4> QED
        BY <2>5, <2>6, FS_EmptySet
    <3>2. PICK k \in Picked(a) : \A j \in Picked(a) : j <= k
      <4> DEFINE Back == {max - j : j \in Picked(a)}
      <4>1. Back \subseteq Nat /\ Back # {}
        BY <2>1, <3>1
      <4>2. PICK m \in Back : \A n \in Back : m <= n
        <5> HIDE DEF Back
        <5> QED
          BY <4>1, Least
      <4>3. PICK k \in Picked(a) : m = max - k
        OBVIOUS
      <4>4. ASSUME NEW j \in Picked(a)
            PROVE  j <= k
        <5>1. max - j \in Back
          OBVIOUS
        <5>2. max - k <= max - j
          <6> HIDE DEF Back, Picked
          <6> QED
            BY <4>2, <4>3, <5>1
        <5>3. j \in Int /\ k \in Int /\ max \in Int
          OBVIOUS
        <5> QED
          BY <5>2, <5>3
      <4> QED
        BY <4>4
    <3> DEFINE E == Earlier(f, k)
               Of(c) == {x \in E : plan[x].area = c}
               before == Picked(a) \ {k}
    <3>3. k \in 1..max /\ plan[f[k]].area = a
      OBVIOUS
    <3>4. IsFiniteSet(E) /\ i \in DOMAIN plan \ E /\ Precedes(plan, E, f[k], i)
      <4>1. i \notin E
        <5>1. \A j \in 1..(k - 1) : j \in 1..max
          BY <3>3
        <5> QED
          BY <2>7, <5>1 DEF Earlier
      <4> HIDE DEF E, Picked
      <4> QED
        BY <2>2, <2>7, <3>3, <4>1 DEF E
    <3>5. Cardinality(Of(a)) <= Cardinality(Of(b))
      <4>1. /\ Named(plan, E, plan[f[k]], "area") = Cardinality(Of(a))
            /\ Named(plan, E, plan[i], "area") = Cardinality(Of(b))
        BY <2>7, <3>3 DEF Named
      <4>2. Cardinality(Of(a)) \in Nat /\ Cardinality(Of(b)) \in Nat
        <5>1. IsFiniteSet(Of(a)) /\ IsFiniteSet(Of(b))
          BY <3>4, FS_Subset
        <5> QED
          BY <5>1, FS_CardinalityType
      <4> HIDE DEF E, Of
      <4> QED
        BY <3>4, <4>1, <4>2 DEF Precedes
    <3>6. Cardinality(Of(a)) = Cardinality(Picked(a)) - 1
      <4> DEFINE g == [j \in before |-> f[j]]
      <4>1. \A j \in before : j \in 1..(k - 1) /\ j \in 1..max /\ plan[f[j]].area = a
        BY <3>2, <3>3
      <4>2. \A j \in before : g[j] \in Of(a)
        BY <4>1 DEF Earlier
      <4>3. ASSUME NEW x \in Of(a)
            PROVE  \E j \in before : g[j] = x
        <5>1. PICK j \in 1..(k - 1) : x = f[j]
          BY DEF Earlier
        <5>2. j \in 1..max /\ j # k /\ plan[f[j]].area = a
          BY <3>3, <5>1
        <5> QED
          BY <5>1, <5>2
      <4>4. \A j, l \in before : g[j] = g[l] => j = l
        BY <2>3, <4>1
      <4>5. g \in [before -> Of(a)]
        <5> HIDE DEF before, Of
        <5> QED
          BY <4>2
      <4> HIDE DEF Of, g, Picked
      <4>6. IsFiniteSet(before) /\ Cardinality(before) = Cardinality(Picked(a)) - 1
        BY <2>5, FS_RemoveElement
      <4> HIDE DEF before
      <4>7. Cardinality(Of(a)) = Cardinality(before)
        BY <4>3, <4>4, <4>5, <4>6, SameSize
      <4> QED
        BY <4>6, <4>7
    <3>7. Cardinality(Of(b)) <= Cardinality(Picked(b))
      <4> DEFINE early == Picked(b) \cap 1..(k - 1)
                 g == [j \in early |-> f[j]]
      <4>1. \A j \in early : g[j] \in Of(b)
        BY DEF Earlier
      <4>2. ASSUME NEW x \in Of(b)
            PROVE  \E j \in early : g[j] = x
        <5>1. PICK j \in 1..(k - 1) : x = f[j]
          BY DEF Earlier
        <5>2. j \in 1..max /\ plan[f[j]].area = b
          BY <3>3, <5>1
        <5> QED
          BY <5>1, <5>2
      <4>3. g \in Surjection(early, Of(b))
        <5> HIDE DEF early, Of
        <5>1. g \in [early -> Of(b)]
          BY <4>1
        <5> HIDE DEF g
        <5> QED
          BY <4>2, <5>1 DEF Surjection
      <4>4. early \in SUBSET Picked(b)
        OBVIOUS
      <4> HIDE DEF early, Of, g, Picked
      <4>5. IsFiniteSet(early) /\ Cardinality(early) <= Cardinality(Picked(b))
        BY <2>5, <4>4, FS_Subset
      <4>6. IsFiniteSet(Of(b)) /\ Cardinality(Of(b)) <= Cardinality(early)
        BY <4>3, <4>5, FS_Surjection
      <4>7. Cardinality(Of(b)) \in Nat /\ Cardinality(early) \in Nat
        BY <4>5, <4>6, FS_CardinalityType
      <4> QED
        BY <2>5, <4>5, <4>6, <4>7
    <3>8. Cardinality(Of(b)) \in Nat
      <4>1. IsFiniteSet(Of(b))
        BY <3>4, FS_Subset
      <4> QED
        BY <4>1, FS_CardinalityType
    <3> HIDE DEF Of, Picked
    <3> QED
      BY <2>5, <2>6, <3>5, <3>6, <3>7, <3>8
  <2>8. OfArea(plan, b) = Cardinality(Picked(b))
    <3> DEFINE all == {x \in DOMAIN plan : plan[x].area = b}
               g == [k \in Picked(b) |-> f[k]]
    <3>1. \A k \in Picked(b) : g[k] \in all
      BY <2>2
    <3>2. \A x \in all : \E k \in Picked(b) : g[k] = x
      BY <2>7
    <3>3. \A k, l \in Picked(b) : g[k] = g[l] => k = l
      BY <2>3
    <3>4. g \in [Picked(b) -> all]
      <4> HIDE DEF all, Picked
      <4> QED
        BY <3>1
    <3> HIDE DEF g, all, Picked
    <3>5. Cardinality(all) = Cardinality(Picked(b))
      BY <2>5, <3>2, <3>3, <3>4, SameSize
    <3> QED
      BY <3>5 DEF OfArea, all
  <2> HIDE DEF clip, Picked
  <2> QED
    BY <2>2, <2>4, <2>8 DEF clip
<1> QED
  BY <1>1, <1>2

-----------------------------------------------------------------------------
(* The invariant.  Typed: every part of the state has its type, and who    *)
(* enqueues hunts has some left.                                           *)
Typed == TypeOK /\ \A w \in Workers : at[w].step = "hunts" => at[w].left # 0

(* PartsKept: a map that was written once is never empty again, nor is a   *)
(* revision of it.                                                         *)
PartsKept ==
  /\ \A m \in revisions : m.parts # <<>>
  /\ \A w \in Workers :
       /\ at[w].step \in {"look", "claim", "mark", "plan"} => map.parts # <<>>
       /\ at[w].step = "mark" => at[w].read.parts # <<>>

(* ClaimedOnce: of the workers of a batch, one finds the map unmarked.     *)
Planning(w) == at[w].step = "plan"
ClaimedOnce ==
  /\ \A w \in Workers :
       /\ at[w].step = "mark" => "this" \notin at[w].read.marks
       /\ Planning(w) => plans.begun = 0 /\ "this" \in map.marks
       /\ \A v \in Workers : Planning(v) /\ Planning(w) => v = w
  /\ plans.begun # 0 => plans.begun = 1 /\ "this" \in map.marks

(* OneRecon: a recon of its own waits to be enqueued, or in the queue, or  *)
(* a worker has it, or its hunts have been planned.                        *)
Waiting(i) == tasks[i].owner = NoWorker
Ahead(w)   == at[w].step \in {"agent", "merge", "look", "plan"}
Unshared    == \A w \in Workers : at[w].step \notin {"expand", "fan", "claim", "mark"}
Narrow     == \A w \in Workers : ~at[w].job.many
OneRecon ==
  /\ Unshared /\ Narrow /\ \A i \in DOMAIN tasks : ~tasks[i].job.many
  /\ plans.begun \in {0, 1} /\ (todo # <<>> => Len(todo) = 1 /\ plans.begun = 0)
  /\ \A i \in DOMAIN tasks : Waiting(i) =>
       /\ todo = <<>> /\ plans.begun = 0
       /\ \A j \in DOMAIN tasks : Waiting(j) => j = i
  /\ \A w \in Workers : Ahead(w) =>
       /\ todo = <<>> /\ plans.begun = 0
       /\ \A i \in DOMAIN tasks : ~Waiting(i)
       /\ \A v \in Workers : Ahead(v) => v = w

(* Followed: with one worker at a time, what was claimed is planned and    *)
(* enqueued before that worker does anything else.                         *)
Busy(w) == at[w].step # "idle"
Planned == plans.whole > 0 \/ \E w \in Workers : at[w].step \in {"plan", "hunts"}
Marked  == \/ \E m \in {map, page} \union revisions : "this" \in m.marks
           \/ \E w \in Workers : "this" \in at[w].read.marks
Followed ==
  /\ \A v, w \in Workers : Busy(v) /\ Busy(w) => v = w
  /\ Marked => Planned
  /\ \A w \in Workers : at[w].step = "ended" =>
       plans.whole > 0 \/ \E i \in DOMAIN tasks : i # at[w].id
  /\ past.ok /\ (\A w \in Workers : ~Busy(w)) => plans.whole > 0 \/ DOMAIN tasks # {}

(* Clipped: who enqueues hunts has the plan that follows from the map.     *)
Clipped == \A w \in Workers : at[w].step = "hunts" =>
             at[w].plan = DiversifyClip(OfferOf(at[w].read), MaxTasks)

Inv ==
  /\ Typed /\ MapKeeps /\ PartsKept /\ Clipped
  /\ Batch /\ ~past.lost => ClaimedOnce
  /\ ~Batch /\ ~past.crash /\ ~past.twin => OneRecon
  /\ (cfg.workers = 1 /\ cfg.allowed # <<>> /\ ~past.crash /\ ~past.twin /\ ~past.cut) => Followed
-----------------------------------------------------------------------------
(* What the operators on the state do.                                     *)
Tasks == [job : Jobs, owner : Workers \union {NoWorker}]
Same == /\ Jobs' = Jobs /\ Seats' = Seats /\ Batch' = Batch /\ cfg'.agents = cfg.agents
        /\ cfg'.allowed = cfg.allowed /\ cfg'.accepted = cfg.accepted
        /\ cfg'.workers = cfg.workers

LEMMA ConfigKept ==
  ASSUME TypeOK, [Next]_vars
  PROVE  IsConfig(cfg)' /\ Same
<1>1. \/ cfg' = cfg
      \/ cfg.edits > 0 /\ cfg' = [cfg EXCEPT !.edits = @ - 1]
      \/ cfg.faults > 0 /\ cfg' = [cfg EXCEPT !.faults = @ - 1]
  <2>1. CASE Next
    BY <2>1 DEF Next, EnqueueSibling, Leasing, Lease, Work, Expand, FanOut, Continued, Fails,
                Submits, StoreMerged, Look, Claim, Mark, PlanHunts, EnqueueHunt, End,
                OpenEditor, SaveEditor, RestoreRevision, Cancel, Infra, Crash, Expire, Faulty
  <2>2. CASE UNCHANGED vars
    BY <2>2 DEF vars
  <2> QED
    BY <2>1, <2>2
<1>2. IsConfig(cfg)
  BY DEF TypeOK
<1>3. /\ IsConfig(cfg') /\ cfg'.agents = cfg.agents /\ cfg'.allowed = cfg.allowed
      /\ cfg'.accepted = cfg.accepted /\ cfg'.workers = cfg.workers /\ cfg'.retries = cfg.retries
      /\ cfg'.continues = cfg.continues
  <2>1. CASE cfg' = cfg
    BY <1>2, <2>1
  <2>2. CASE cfg.edits > 0 /\ cfg' = [cfg EXCEPT !.edits = @ - 1]
    <3>1. DOMAIN cfg' = DOMAIN cfg /\ cfg'.edits = cfg.edits - 1
      BY <1>2, <2>2 DEF IsConfig
    <3>2. \A f \in DOMAIN cfg : f # "edits" => cfg'[f] = cfg[f]
      BY <2>2
    <3> QED
      BY <1>2, <2>2, <3>1, <3>2 DEF IsConfig
  <2>3. CASE cfg.faults > 0 /\ cfg' = [cfg EXCEPT !.faults = @ - 1]
    <3>1. DOMAIN cfg' = DOMAIN cfg /\ cfg'.faults = cfg.faults - 1
      BY <1>2, <2>3 DEF IsConfig
    <3>2. \A f \in DOMAIN cfg : f # "faults" => cfg'[f] = cfg[f]
      BY <2>3
    <3> QED
      BY <1>2, <2>3, <3>1, <3>2 DEF IsConfig
  <2> QED
    BY <1>1, <2>1, <2>2, <2>3
<1>4. Jobs' = Jobs
  BY <1>3 DEF Jobs
<1> QED
  BY <1>3, <1>4 DEF Same, Seats, Batch, IsConfig

LEMMA IdFree ==
  ASSUME TypeOK
  PROVE  /\ NewId \in Ids /\ NewId \notin DOMAIN tasks
         /\ \A w \in Workers : at[w].id # NewId
<1> DEFINE n == 3 * (Cardinality(DOMAIN tasks) + Cardinality(Workers)) + 1
           held == {at[w].id : w \in Workers}
           from == {tasks[j].job.from : j \in DOMAIN tasks}
           taken == (DOMAIN tasks \union held) \union from
<1>1. /\ IsFiniteSet(DOMAIN tasks) /\ Cardinality(DOMAIN tasks) \in Nat
      /\ IsFiniteSet(Workers) /\ Cardinality(Workers) \in Nat
  BY NamesAssumption, FS_CardinalityType DEF TypeOK
<1>2. IsFiniteSet(held) /\ Cardinality(held) <= Cardinality(Workers)
  <2> DEFINE g == [w \in Workers |-> at[w].id]
  <2>1. g \in Surjection(Workers, held)
    BY DEF Surjection
  <2> HIDE DEF g, held
  <2> QED
    BY <1>1, <2>1, FS_Surjection
<1>3. IsFiniteSet(from) /\ Cardinality(from) <= Cardinality(DOMAIN tasks)
  <2> DEFINE g == [j \in DOMAIN tasks |-> tasks[j].job.from]
  <2>1. g \in Surjection(DOMAIN tasks, from)
    BY DEF Surjection
  <2> HIDE DEF g, from
  <2> QED
    BY <1>1, <2>1, FS_Surjection
<1>4. IsFiniteSet(taken) /\ Cardinality(taken) < n
  <2> DEFINE both == DOMAIN tasks \union held
  <2> HIDE DEF held, from
  <2>1. /\ IsFiniteSet(both)
        /\ Cardinality(both) = Cardinality(DOMAIN tasks) + Cardinality(held)
                                 - Cardinality(DOMAIN tasks \cap held)
    BY <1>1, <1>2, FS_Union
  <2>2. /\ Cardinality(held) \in Nat /\ Cardinality(from) \in Nat
        /\ Cardinality(DOMAIN tasks \cap held) \in Nat
    BY <1>1, <1>2, <1>3, FS_Intersection, FS_CardinalityType
  <2> HIDE DEF both
  <2>3. /\ IsFiniteSet(both \union from)
        /\ Cardinality(both \union from) = Cardinality(both) + Cardinality(from)
                                            - Cardinality(both \cap from)
    BY <1>3, <2>1, FS_Union
  <2>4. Cardinality(both) \in Nat /\ Cardinality(both \cap from) \in Nat
    BY <2>1, FS_Intersection, FS_CardinalityType
  <2>5. taken = both \union from
    BY DEF both
  <2> HIDE DEF taken
  <2> QED
    BY <1>1, <1>2, <1>3, <2>1, <2>2, <2>3, <2>4, <2>5
<1>5. PICK i \in 1..n : i \notin taken
  <2>1. n \in Nat /\ (IF 1 > n THEN 0 ELSE n - 1 + 1) = n
    BY <1>1
  <2> HIDE DEF n, taken
  <2>2. IsFiniteSet(1..n) /\ Cardinality(1..n) = n
    BY <2>1, FS_Interval
  <2>3. ~(1..n \subseteq taken)
    <3> SUFFICES ASSUME 1..n \subseteq taken
                 PROVE  FALSE
      OBVIOUS
    <3>1. Cardinality(1..n) <= Cardinality(taken) /\ Cardinality(taken) \in Nat
      BY <1>4, FS_Subset, FS_CardinalityType
    <3> QED
      BY <1>4, <2>1, <2>2, <3>1
  <2> QED
    BY <2>3
<1>6. /\ i \notin DOMAIN tasks \union {at[w].id : w \in Workers}
      /\ \A j \in DOMAIN tasks : tasks[j].job.from # i
  BY <1>5
<1>7. /\ NewId \in 1..n
      /\ NewId \notin DOMAIN tasks \union {at[w].id : w \in Workers}
  <2> HIDE DEF n
  <2>1. i \in 1..n
    BY <1>5
  <2> QED
    BY <1>6, <2>1 DEF NewId, n
<1> QED
  BY <1>1, <1>7 DEF Ids

TasksOK(t) == /\ IsFiniteSet(DOMAIN t) /\ DOMAIN t \subseteq Ids
              /\ \A i \in DOMAIN t : t[i] \in Tasks

LEMMA Enqueued ==
  ASSUME TypeOK, NEW job \in Jobs, Enqueue(job)
  PROVE  /\ TasksOK(tasks') /\ DOMAIN tasks' = DOMAIN tasks \union {NewId}
         /\ tasks'[NewId] = [job |-> job, owner |-> NoWorker]
         /\ \A i \in DOMAIN tasks : tasks'[i] = tasks[i]
<1>1. /\ NewId \in Ids /\ NewId \notin DOMAIN tasks
  BY IdFree
<1>2. /\ DOMAIN tasks' = DOMAIN tasks \union {NewId}
      /\ tasks'[NewId] = [job |-> job, owner |-> NoWorker]
      /\ \A i \in DOMAIN tasks : tasks'[i] = tasks[i]
  BY <1>1 DEF Enqueue
<1>3. IsFiniteSet(DOMAIN tasks \union {NewId})
  BY FS_AddElement DEF TypeOK
<1>4. [job |-> job, owner |-> NoWorker] \in Tasks
  BY DEF Tasks
<1> QED
  BY <1>1, <1>2, <1>3, <1>4 DEF TasksOK, Tasks, TypeOK

LEMMA Dropped ==
  ASSUME TypeOK, NEW i, tasks' = Without(i)
  PROVE  /\ TasksOK(tasks') /\ DOMAIN tasks' = DOMAIN tasks \ {i}
         /\ \A j \in DOMAIN tasks' : /\ tasks'[j].owner = tasks[j].owner
                                     /\ tasks'[j].job.many = tasks[j].job.many
<1>1. DOMAIN tasks' = DOMAIN tasks \ {i}
  BY DEF Without
<1>2. ASSUME NEW j \in DOMAIN tasks'
      PROVE  /\ tasks'[j] \in Tasks /\ tasks'[j].owner = tasks[j].owner
             /\ tasks'[j].job.many = tasks[j].job.many
  <2>1. j \in DOMAIN tasks \ {i} /\ tasks[j] \in Tasks
    BY <1>1 DEF TypeOK, Tasks
  <2>2. tasks'[j] = tasks[j] \/ tasks'[j] = [tasks[j] EXCEPT !.job.from = 0]
    BY <2>1 DEF Without
  <2>3. [tasks[j] EXCEPT !.job.from = 0] \in Tasks
    BY <2>1 DEF Tasks, Jobs
  <2> QED
    BY <2>1, <2>2, <2>3 DEF Tasks, Jobs
<1>3. IsFiniteSet(DOMAIN tasks')
  BY <1>1, FS_RemoveElement DEF TypeOK
<1> QED
  BY <1>1, <1>2, <1>3 DEF TasksOK, TypeOK

LEMMA Owned ==
  ASSUME TypeOK, NEW i \in DOMAIN tasks, NEW o \in Workers \union {NoWorker},
         tasks' = [tasks EXCEPT ![i].owner = o]
  PROVE  /\ TasksOK(tasks') /\ DOMAIN tasks' = DOMAIN tasks
         /\ tasks'[i].owner = o /\ tasks'[i].job = tasks[i].job
         /\ \A j \in DOMAIN tasks \ {i} : tasks'[j] = tasks[j]
<1>1. tasks[i] \in Tasks
  BY DEF TypeOK, Tasks
<1>2. [tasks[i] EXCEPT !.owner = o] \in Tasks
  BY <1>1 DEF Tasks
<1>3. /\ DOMAIN tasks' = DOMAIN tasks /\ tasks'[i] = [tasks[i] EXCEPT !.owner = o]
      /\ \A j \in DOMAIN tasks \ {i} : tasks'[j] = tasks[j]
  OBVIOUS
<1>4. \A j \in DOMAIN tasks : tasks'[j] \in Tasks
  BY <1>2, <1>3 DEF TypeOK, Tasks
<1> QED
  BY <1>1, <1>3, <1>4 DEF TasksOK, TypeOK, Tasks

LEMMA Became ==
  ASSUME TypeOK, NEW w \in Workers, NEW s \in Seats, Become(w, s)
  PROVE  /\ at' \in [Workers -> Seats] /\ at'[w] = s
         /\ \A v \in Workers : v # w => at'[v] = at[v]
BY DEF TypeOK, Become

LEMMA FreeSeat ==
  ASSUME TypeOK
  PROVE  /\ Free \in Seats /\ Free.step = "idle" /\ Free.read = NoMap
         /\ NoMap \in Maps /\ NoMap.marks = {}
<1>1. cfg.agents[1] \in Agents /\ cfg.retries \in Nat /\ cfg.continues \in Nat
  <2>1. cfg.agents \in Seq(Agents) /\ cfg.agents # <<>>
    BY DEF TypeOK, IsConfig
  <2> QED
    BY <2>1, EmptySeq DEF TypeOK, IsConfig
<1>2. Job(cfg.agents[1], FALSE) \in Jobs
  <2>1. 1 \in 1..(1 + cfg.retries) /\ 0 \in 0..cfg.continues
    BY <1>1
  <2> QED
    BY <1>1, <2>1 DEF Job, Jobs
<1>3. NoMap \in Maps
  BY DEF NoMap, Maps
<1>4. 0 \in 0..MaxTasks
  BY CapsAssumption
<1>5. "idle" \in Steps /\ <<>> \in Seq(Agents) /\ <<>> \in Seq(Hunts)
  BY DEF Steps
<1>6. Free \in Seats
  BY <1>2, <1>3, <1>4, <1>5 DEF Free, Seats
<1> QED
  BY <1>3, <1>6 DEF Free, NoMap

LEMMA ExtendedTyped ==
  ASSUME NEW S, NEW parts \in Seq(S), NEW c \in S
  PROVE  /\ Extended(parts, c) \in Seq(S) /\ Extended(parts, c) # <<>>
         /\ ToSet(Extended(parts, c)) = ToSet(parts) \union {c}
<1>1. CASE Contains(parts, c)
  <2>1. Extended(parts, c) = parts
    BY <1>1 DEF Extended
  <2>2. PICK i \in 1..Len(parts) : parts[i] = c
    BY <1>1 DEF Contains
  <2>3. c \in ToSet(parts) /\ parts # <<>>
    BY <2>2 DEF ToSet
  <2> QED
    BY <2>1, <2>3
<1>2. CASE ~Contains(parts, c)
  <2>1. Extended(parts, c) = Append(parts, c)
    BY <1>2 DEF Extended
  <2> DEFINE t == Append(parts, c)
             n == Len(parts)
  <2>2. /\ t \in Seq(S) /\ DOMAIN t = 1..(n + 1) /\ n \in Nat /\ t[n + 1] = c
        /\ \A i \in 1..n : t[i] = parts[i]
        /\ DOMAIN parts = 1..n
    OBVIOUS
  <2>3. ToSet(t) = ToSet(parts) \union {c}
    <3> HIDE DEF t, n
    <3>1. \A i \in 1..(n + 1) : i \in 1..n \/ i = n + 1
      BY <2>2
    <3>2. n + 1 \in 1..(n + 1) /\ \A i \in 1..n : i \in 1..(n + 1)
      BY <2>2
    <3> QED
      BY <2>2, <3>1, <3>2 DEF ToSet
  <2>4. t # <<>>
    OBVIOUS
  <2> QED
    BY <2>1, <2>2, <2>3, <2>4
<1> QED
  BY <1>1, <1>2

LEMMA OfferOK ==
  ASSUME TypeOK, NEW m \in Maps
  PROVE  /\ OfferOf(m) \in Seq(Hunts)
         /\ m.parts # <<>> /\ cfg.allowed # <<>> => OfferOf(m) # <<>>
<1>1. /\ m.parts \in Seq(Contributors) /\ cfg.allowed \in Seq(Classes)
      /\ MaxAreas \in Nat \ {0}
  BY CapsAssumption DEF Maps, TypeOK, IsConfig
<1>2. FocusOf(m.parts) \in Seq(Hunts)
  <2> DEFINE n == Len(m.parts)
             each == [k \in DOMAIN m.parts |-> Focus[m.parts[k]]]
  <2>1. n \in Nat /\ DOMAIN m.parts = 1..n /\ \A k \in 1..n : m.parts[k] \in Contributors
    BY <1>1
  <2>2. each \in [1..n -> Seq(Hunts)]
    BY <2>1, FocusAssumption
  <2>3. each \in Seq(Seq(Hunts))
    <3> HIDE DEF each, n
    <3> QED
      BY <2>1, <2>2
  <2> HIDE DEF each
  <2>4. FlattenSeq(each) \in Seq(Hunts)
    BY <2>3, Flattened
  <2> QED
    BY <2>4 DEF FocusOf, each
<1> QED
  BY <1>1, <1>2, OfferTyped DEF OfferOf, Hunts

-----------------------------------------------------------------------------
(* Every step keeps the types.                                             *)
Pasts == [stored : SUBSET Contributors, omitted : SUBSET Contributors, lost : BOOLEAN,
          twin : BOOLEAN, crash : BOOLEAN, cut : BOOLEAN, ok : BOOLEAN]
LeftOK(w) == at[w].step = "hunts" => at[w].left # 0

LEMMA TypedIf ==
  ASSUME TypeOK, IsConfig(cfg)', Same, TasksOK(tasks'), todo' \in Seq(Agents),
         at' \in [Workers -> Seats], {map', page'} \union revisions' \subseteq Maps,
         plans' \in [begun : Nat, whole : Nat], past' \in Pasts
  PROVE  TypeOK'
BY DEF TypeOK, TasksOK, Tasks, Same, Pasts

LEMMA TasksKept ==
  ASSUME TypeOK, tasks' = tasks
  PROVE  TasksOK(tasks')
BY DEF TypeOK, TasksOK, Tasks

LEMMA HeadTail ==
  ASSUME NEW S, NEW s \in Seq(S), s # <<>>
  PROVE  Head(s) \in S /\ Tail(s) \in Seq(S)
BY HeadTailProperties

LEMMA JobTyped ==
  ASSUME TypeOK, NEW a \in Agents, NEW many \in BOOLEAN
  PROVE  Job(a, many) \in Jobs
<1>1. 1 \in 1..(1 + cfg.retries) /\ 0 \in 0..cfg.continues
  BY DEF TypeOK, IsConfig
<1> QED
  BY <1>1 DEF Job, Jobs

LEMMA RetryTyped ==
  ASSUME TypeOK, NEW w \in Workers, MaybeAutoRetry(w)
  PROVE  /\ TasksOK(tasks')
         /\ tasks' = tasks \/ \E job \in Jobs : Enqueue(job) /\ job.many = at[w].job.many
<1>1. at[w].job \in Jobs /\ cfg.retries \in Nat /\ cfg.continues \in Nat
  BY DEF TypeOK, Seats, IsConfig
<1>2. CASE at[w].job.gen >= 1 + cfg.retries
  BY <1>2, TasksKept DEF MaybeAutoRetry
<1>3. CASE ~(at[w].job.gen >= 1 + cfg.retries)
  <2> DEFINE job == [at[w].job EXCEPT !.gen = @ + 1, !.cont = 0, !.from = 0]
  <2>1. Enqueue(job)
    BY <1>3 DEF MaybeAutoRetry
  <2>2. at[w].job.gen + 1 \in 1..(1 + cfg.retries) /\ 0 \in 0..cfg.continues
    BY <1>1, <1>3 DEF Jobs
  <2>3. job \in Jobs /\ job.many = at[w].job.many
    BY <1>1, <2>2 DEF Jobs
  <2> HIDE DEF job
  <2> QED
    BY <2>1, <2>3, Enqueued
<1> QED
  BY <1>2, <1>3

LEMMA ContinueTyped ==
  ASSUME TypeOK, NEW w \in Workers, MayContinue(w), EnqueueContinuation(w)
  PROVE  /\ TasksOK(tasks')
         /\ tasks' = tasks \/ \E job \in Jobs : Enqueue(job) /\ job.many = at[w].job.many
<1>1. at[w].job \in Jobs /\ cfg.continues \in Nat /\ at[w].id \in Nat
  BY DEF TypeOK, Seats, IsConfig
<1>2. CASE tasks' = tasks
  BY <1>2, TasksKept
<1>3. CASE Enqueue(Continuation(w))
  <2>1. at[w].job.cont + 1 \in 0..cfg.continues
    BY <1>1 DEF Jobs, MayContinue
  <2>2. Continuation(w) \in Jobs /\ Continuation(w).many = at[w].job.many
    BY <1>1, <2>1 DEF Jobs, Continuation
  <2> QED
    BY <1>3, <2>2, Enqueued
<1> QED
  BY <1>2, <1>3 DEF EnqueueContinuation

LEMMA SeatFields ==
  ASSUME TypeOK, NEW w \in Workers
  PROVE  /\ at[w] \in Seats /\ at[w].job \in Jobs /\ at[w].read \in Maps /\ at[w].id \in Nat
         /\ at[w].fan \in Seq(Agents) /\ at[w].job.agent \in Agents
         /\ at[w].step \in Steps
         /\ \A s \in Steps : [at[w] EXCEPT !.step = s] \in Seats
<1>1. at[w] \in Seats
  BY DEF TypeOK
<1>2. /\ at[w].job \in Jobs /\ at[w].read \in Maps /\ at[w].id \in Nat
      /\ at[w].fan \in Seq(Agents) /\ at[w].step \in Steps
  BY <1>1 DEF Seats
<1>3. at[w].job.agent \in Agents
  BY <1>2 DEF Jobs
<1>4. \A s \in Steps : [at[w] EXCEPT !.step = s] \in Seats
  BY <1>1 DEF Seats
<1> QED
  BY <1>1, <1>2, <1>3, <1>4

LEMMA PastTyped == TypeOK => past \in Pasts /\ plans \in [begun : Nat, whole : Nat]
BY DEF TypeOK, Pasts

LEMMA MapsTyped ==
  ASSUME TypeOK
  PROVE  map \in Maps /\ page \in Maps /\ revisions \subseteq Maps /\ Recorded \subseteq Maps
BY DEF TypeOK, Recorded

LEMMA Moves ==
  ASSUME Typed, IsConfig(cfg)', Same, NEW w \in Workers, NEW s \in Seats, Become(w, s),
         s.step = "hunts" => s.left # 0,
         TasksOK(tasks'), map' \in Maps, revisions' \subseteq Maps, page' = page, todo' = todo,
         plans' \in [begun : Nat, whole : Nat], past' \in Pasts
  PROVE  Typed'
<1>1. /\ at' \in [Workers -> Seats] /\ at'[w] = s
      /\ \A v \in Workers : v # w => at'[v] = at[v]
  BY Became DEF Typed
<1>2. TypeOK'
  <2>1. todo' \in Seq(Agents) /\ {map', page'} \union revisions' \subseteq Maps
    BY MapsTyped DEF Typed, TypeOK
  <2> QED
    BY <1>1, <2>1, TypedIf DEF Typed
<1>3. \A v \in Workers : at'[v].step = "hunts" => at'[v].left # 0
  BY <1>1 DEF Typed
<1> QED
  BY <1>2, <1>3 DEF Typed

LEMMA Stays ==
  ASSUME Typed, IsConfig(cfg)', Same, at' = at,
         TasksOK(tasks'), {map', page'} \union revisions' \subseteq Maps,
         todo' \in Seq(Agents), plans' = plans, past' \in Pasts
  PROVE  Typed'
<1>1. TypeOK'
  <2>1. at' \in [Workers -> Seats] /\ plans' \in [begun : Nat, whole : Nat]
    BY DEF Typed, TypeOK
  <2> QED
    BY <2>1, TypedIf DEF Typed
<1> QED
  BY <1>1 DEF Typed

LEMMA TypedMaking ==
  ASSUME Typed, IsConfig(cfg)', Same,
         \/ EnqueueSibling \/ Leasing \/ \E w \in Workers : Expand(w) \/ FanOut(w)
  PROVE  Typed'
<1> USE DEF Typed
<1>1. /\ map \in Maps /\ page \in Maps /\ revisions \subseteq Maps /\ past \in Pasts
      /\ plans \in [begun : Nat, whole : Nat]
  BY MapsTyped, PastTyped
<1>2. CASE EnqueueSibling
  <2>1. todo \in Seq(Agents) /\ todo # <<>> /\ todo' = Tail(todo)
        /\ Enqueue(Job(Head(todo), FALSE))
    BY <1>2 DEF EnqueueSibling, TypeOK
  <2>2. Job(Head(todo), FALSE) \in Jobs /\ todo' \in Seq(Agents)
    BY <2>1, HeadTail, JobTyped
  <2>3. TasksOK(tasks')
    BY <2>1, <2>2, Enqueued
  <2> QED
    BY <1>1, <1>2, <2>2, <2>3, Stays DEF EnqueueSibling
<1>3. ASSUME NEW w \in Workers, NEW i \in DOMAIN tasks, Lease(w, i)
      PROVE  Typed'
  <2> DEFINE s == [Free EXCEPT !.step = IF tasks[i].job.many THEN "expand" ELSE "agent",
                               !.id = i, !.job = [tasks[i].job EXCEPT !.from = 0]]
  <2>1. Become(w, s) /\ tasks' = [tasks EXCEPT ![i].owner = w]
    BY <1>3 DEF Lease
  <2>2. tasks[i].job \in Jobs /\ i \in Nat
    BY DEF TypeOK, Ids
  <2>3. [tasks[i].job EXCEPT !.from = 0] \in Jobs
    BY <2>2 DEF Jobs
  <2>4. s \in Seats /\ s.step # "hunts"
    <3>1. "expand" \in Steps /\ "agent" \in Steps
      BY DEF Steps
    <3> QED
      BY <2>2, <2>3, <3>1, FreeSeat DEF Seats
  <2>5. TasksOK(tasks')
    BY <2>1, Owned
  <2> HIDE DEF s
  <2> QED
    BY <1>1, <1>3, <2>1, <2>4, <2>5, Moves DEF Lease
<1>4. ASSUME NEW w \in Workers, Expand(w)
      PROVE  Typed'
  <2> DEFINE job == [at[w].job EXCEPT !.many = FALSE]
             s == [at[w] EXCEPT !.step = "fan", !.job = job, !.fan = Tail(cfg.agents)]
  <2>1. /\ Become(w, s)
        /\ tasks' = [i \in DOMAIN tasks |->
                       IF i = at[w].id THEN [tasks[i] EXCEPT !.job = job] ELSE tasks[i]]
    BY <1>4 DEF Expand
  <2>2. job \in Jobs
    BY SeatFields DEF Jobs
  <2>3. Tail(cfg.agents) \in Seq(Agents)
    BY HeadTail DEF TypeOK, IsConfig
  <2>4. s \in Seats /\ s.step = "fan"
    <3>1. "fan" \in Steps
      BY DEF Steps
    <3> HIDE DEF job
    <3> QED
      BY <2>2, <2>3, <3>1, SeatFields DEF Seats
  <2>5. TasksOK(tasks')
    <3> HIDE DEF job
    <3>1. \A i \in DOMAIN tasks : tasks[i] \in Tasks /\ [tasks[i] EXCEPT !.job = job] \in Tasks
      BY <2>2 DEF TypeOK, Tasks
    <3> QED
      BY <2>1, <3>1 DEF TypeOK, TasksOK
  <2> HIDE DEF s
  <2> QED
    BY <1>1, <1>4, <2>1, <2>4, <2>5, Moves DEF Expand
<1>5. ASSUME NEW w \in Workers, FanOut(w)
      PROVE  Typed'
  <2> DEFINE s == [at[w] EXCEPT !.fan = Tail(@),
                                !.step = IF Len(at[w].fan) = 1 THEN "agent" ELSE "fan"]
  <2>1. Become(w, s) /\ at[w].fan # <<>> /\ Enqueue(Job(Head(at[w].fan), FALSE))
    BY <1>5 DEF FanOut
  <2>2. Head(at[w].fan) \in Agents /\ Tail(at[w].fan) \in Seq(Agents)
    BY <2>1, SeatFields, HeadTail
  <2>3. s \in Seats /\ s.step # "hunts"
    <3>1. "fan" \in Steps /\ "agent" \in Steps
      BY DEF Steps
    <3> QED
      BY <2>2, <3>1, SeatFields DEF Seats
  <2>4. TasksOK(tasks')
    BY <2>1, <2>2, JobTyped, Enqueued
  <2> HIDE DEF s
  <2> QED
    BY <1>1, <1>5, <2>1, <2>3, <2>4, Moves DEF FanOut
<1> QED
  BY <1>2, <1>3, <1>4, <1>5 DEF Leasing

LEMMA GoesTo ==
  ASSUME TypeOK, NEW w \in Workers, NEW step \in Steps, step # "hunts", Goto(w, step)
  PROVE  \E s \in Seats : Become(w, s) /\ s.step = step
<1>1. [at[w] EXCEPT !.step = step] \in Seats /\ at[w] \in Seats
  BY SeatFields
<1>2. [at[w] EXCEPT !.step = step].step = step
  BY <1>1 DEF Seats
<1> QED
  BY <1>1, <1>2 DEF Goto

LEMMA MergeTyped ==
  ASSUME TypeOK, NEW w \in Workers
  PROVE  Merged(w) \in Maps /\ Merged(w).marks = at[w].read.marks /\ Merged(w).parts # <<>>
         /\ ToSet(Merged(w).parts) = ToSet(at[w].read.parts) \union {at[w].job.agent}
<1> DEFINE parts == Extended(at[w].read.parts, at[w].job.agent)
<1>1. /\ at[w].read.parts \in Seq(Contributors) /\ at[w].job.agent \in Contributors
      /\ at[w].read.marks \subseteq {"earlier", "this"}
  BY SeatFields DEF Maps, Contributors
<1>2. /\ parts \in Seq(Contributors) /\ parts # <<>>
      /\ ToSet(parts) = ToSet(at[w].read.parts) \union {at[w].job.agent}
  <2> DEFINE old == at[w].read.parts
             agent == at[w].job.agent
  <2>1. old \in Seq(Contributors) /\ agent \in Contributors
    BY <1>1
  <2> HIDE DEF old, agent
  <2>2. /\ Extended(old, agent) \in Seq(Contributors) /\ Extended(old, agent) # <<>>
        /\ ToSet(Extended(old, agent)) = ToSet(old) \union {agent}
    BY <2>1, ExtendedTyped
  <2> QED
    BY <2>2 DEF old, agent
<1>3. Merged(w) = [parts |-> parts, marks |-> at[w].read.marks]
  BY DEF Merged
<1> HIDE DEF parts
<1> QED
  BY <1>1, <1>2, <1>3 DEF Maps

(* What is stored keeps the marks and all parts but those that are noted   *)
(* as omitted.                                                             *)
LEMMA StoreTyped ==
  ASSUME Typed, NEW w \in Workers, StoreMerged(w)
  PROVE  /\ map' \in Maps /\ map'.marks = at[w].read.marks /\ map'.parts # <<>>
         /\ past'.lost = (past.lost \/ map # at[w].read)
         /\ past'.stored = past.stored \union {at[w].job.agent}
         /\ past.omitted \subseteq past'.omitted
         /\ Given(w) \subseteq ToSet(map'.parts) \union past'.omitted
         /\ past' \in Pasts /\ \A f \in {"twin", "crash", "cut", "ok"} : past'[f] = past[f]
<1>1. /\ past \in Pasts /\ at[w].job.agent \in Contributors
      /\ (map # at[w].read) \in BOOLEAN /\ at[w].read.parts \in Seq(Contributors)
  BY PastTyped, SeatFields DEF Typed, Maps, Contributors
<1>2. /\ Merged(w) \in Maps /\ Merged(w).marks = at[w].read.marks /\ Merged(w).parts # <<>>
      /\ ToSet(Merged(w).parts) = Given(w)
  BY MergeTyped DEF Typed, Given
<1>3. Given(w) \subseteq Contributors
  <2>1. ToSet(at[w].read.parts) \subseteq Contributors
    BY <1>1 DEF ToSet
  <2> QED
    BY <1>1, <2>1 DEF Given
<1>4. ASSUME NEW m, NEW omitted, omitted \subseteq Contributors, Store(w, m, omitted)
      PROVE  /\ map' = m /\ past' \in Pasts
             /\ past'.lost = (past.lost \/ map # at[w].read)
             /\ past'.stored = past.stored \union {at[w].job.agent}
             /\ past'.omitted = past.omitted \union omitted
             /\ \A f \in {"twin", "crash", "cut", "ok"} : past'[f] = past[f]
  BY <1>1, <1>4 DEF Store, Pasts
<1>5. ASSUME NEW parts \in Answers(w),
             Store(w, [Merged(w) EXCEPT !.parts = parts], Given(w) \ ToSet(parts))
      PROVE  /\ map' \in Maps /\ map'.marks = at[w].read.marks /\ map'.parts # <<>>
             /\ map'.parts = parts
  <2>1. PICK n \in 1..(Len(at[w].read.parts) + 1) : parts \in [1..n -> Given(w)]
    BY <1>5 DEF Answers, Injection
  <2>2. n \in Nat \ {0}
    BY <1>1, <2>1
  <2>3. parts \in Seq(Contributors) /\ parts # <<>>
    <3>1. parts \in [1..n -> Contributors]
      BY <1>3, <2>1
    <3>2. parts \in Seq(Contributors) /\ Len(parts) = n
      BY <2>2, <3>1
    <3> QED
      BY <2>2, <3>2, EmptySeq
  <2>4. map' = [Merged(w) EXCEPT !.parts = parts]
    BY <1>5 DEF Store
  <2> QED
    BY <1>2, <2>3, <2>4 DEF Maps
<1>6. Store(w, Merged(w), {}) \/
      \E parts \in Answers(w) :
        Store(w, [Merged(w) EXCEPT !.parts = parts], Given(w) \ ToSet(parts))
  BY DEF StoreMerged
<1> QED
  <2>1. ASSUME NEW parts \in Answers(w),
               Store(w, [Merged(w) EXCEPT !.parts = parts], Given(w) \ ToSet(parts))
        PROVE  /\ past' \in Pasts
               /\ past'.lost = (past.lost \/ map # at[w].read)
               /\ past'.stored = past.stored \union {at[w].job.agent}
               /\ past'.omitted = past.omitted \union (Given(w) \ ToSet(parts))
               /\ \A f \in {"twin", "crash", "cut", "ok"} : past'[f] = past[f]
    BY <1>3, <1>4, <2>1
  <2>2. CASE Store(w, Merged(w), {})
    <3>1. map' = Merged(w) /\ past'.omitted = past.omitted
      BY <1>4, <2>2
    <3> QED
      BY <1>2, <1>4, <2>2, <3>1
  <2>3. ASSUME NEW parts \in Answers(w),
               Store(w, [Merged(w) EXCEPT !.parts = parts], Given(w) \ ToSet(parts))
        PROVE  /\ past.omitted \subseteq past'.omitted
               /\ Given(w) \subseteq ToSet(map'.parts) \union past'.omitted
    BY <1>5, <2>1, <2>3
  <2> QED
    BY <1>5, <1>6, <2>1, <2>2, <2>3

LEMMA TypedLoop ==
  ASSUME Typed, IsConfig(cfg)', Same, NEW w \in Workers,
         Continued(w) \/ Fails(w) \/ Submits(w) \/ StoreMerged(w)
  PROVE  Typed'
<1> USE DEF Typed
<1>1. /\ map \in Maps /\ page \in Maps /\ revisions \subseteq Maps /\ past \in Pasts
      /\ plans \in [begun : Nat, whole : Nat]
  BY MapsTyped, PastTyped
<1>2. CASE Continued(w) \/ Fails(w)
  <2>1. TasksOK(tasks')
    BY <1>2, RetryTyped, ContinueTyped, TasksKept DEF Continued, Fails
  <2>2. "failed" \in Steps
    BY DEF Steps
  <2>3. PICK s \in Seats : Become(w, s) /\ s.step = "failed"
    BY <1>2, <2>2, GoesTo DEF Continued, Fails
  <2> QED
    BY <1>1, <1>2, <2>1, <2>3, Moves DEF Continued, Fails
<1>3. CASE Submits(w)
  <2> DEFINE s == [at[w] EXCEPT !.step = "merge", !.read = map]
  <2>1. Become(w, s)
    BY <1>3 DEF Submits
  <2>2. s \in Seats /\ s.step = "merge"
    <3>1. "merge" \in Steps
      BY DEF Steps
    <3> QED
      BY <1>1, <3>1, SeatFields DEF Seats
  <2> HIDE DEF s
  <2> QED
    BY <1>1, <1>3, <2>1, <2>2, TasksKept, Moves DEF Submits
<1>4. CASE StoreMerged(w)
  <2> DEFINE s == [at[w] EXCEPT !.step = "look", !.read = NoMap]
  <2>1. Become(w, s)
    BY <1>4 DEF StoreMerged
  <2>2. s \in Seats /\ s.step = "look"
    <3>1. "look" \in Steps
      BY DEF Steps
    <3> QED
      BY <3>1, SeatFields, FreeSeat DEF Seats
  <2>3. map' \in Maps /\ revisions' \subseteq Maps /\ past' \in Pasts
    BY <1>4, StoreTyped, MapsTyped DEF StoreMerged
  <2> HIDE DEF s
  <2> QED
    BY <1>1, <1>4, <2>1, <2>2, <2>3, TasksKept, Moves DEF StoreMerged
<1> QED
  BY <1>2, <1>3, <1>4

LEMMA PlanTyped ==
  ASSUME TypeOK, NEW m \in Maps
  PROVE  /\ DiversifyClip(OfferOf(m), MaxTasks) \in Seq(Hunts)
         /\ Len(DiversifyClip(OfferOf(m), MaxTasks)) \in 0..MaxTasks
         /\ DiversifyClip(OfferOf(m), MaxTasks) # <<>> =>
              Len(DiversifyClip(OfferOf(m), MaxTasks)) # 0
         /\ m.parts # <<>> /\ cfg.allowed # <<>> =>
              DiversifyClip(OfferOf(m), MaxTasks) # <<>>
<1> DEFINE plan == DiversifyClip(OfferOf(m), MaxTasks)
<1>1. MaxTasks \in Nat \ {0}
  BY CapsAssumption
<1>2. plan \in Seq(Hunts) /\ Len(plan) <= MaxTasks /\ (OfferOf(m) # <<>> => plan # <<>>)
  BY <1>1, OfferOK, ClipTyped
<1> HIDE DEF plan
<1>3. Len(plan) \in 0..MaxTasks /\ (plan # <<>> => Len(plan) # 0)
  BY <1>1, <1>2, EmptySeq
<1> QED
  BY <1>2, <1>3, OfferOK DEF plan

LEMMA TypedPlanning ==
  ASSUME Typed, IsConfig(cfg)', Same, NEW w \in Workers,
         \/ Look(w) \/ Claim(w) \/ Mark(w) \/ PlanHunts(w) \/ EnqueueHunt(w) \/ End(w)
  PROVE  Typed'
<1> USE DEF Typed
<1>1. /\ map \in Maps /\ page \in Maps /\ revisions \subseteq Maps /\ past \in Pasts
      /\ plans \in [begun : Nat, whole : Nat]
  BY MapsTyped, PastTyped
<1>2. {"claim", "mark", "plan", "hunts", "ended", "failed"} \subseteq Steps
  BY DEF Steps
<1>3. CASE Look(w)
  <2>1. PICK s \in Seats : Become(w, s) /\ s.step # "hunts"
    BY <1>2, <1>3, GoesTo DEF Look
  <2> QED
    BY <1>1, <1>3, <2>1, TasksKept, Moves DEF Look
<1>4. CASE Claim(w)
  <2> DEFINE s == IF "this" \in map.marks THEN [at[w] EXCEPT !.step = "ended"]
                  ELSE [at[w] EXCEPT !.step = "mark", !.read = map]
  <2>1. Become(w, s)
    BY <1>4 DEF Claim
  <2>2. s \in Seats /\ s.step # "hunts"
    BY <1>1, <1>2, SeatFields DEF Seats
  <2> HIDE DEF s
  <2> QED
    BY <1>1, <1>4, <2>1, <2>2, TasksKept, Moves DEF Claim
<1>5. CASE Mark(w)
  <2> DEFINE s == [at[w] EXCEPT !.step = "plan", !.read = NoMap]
             m == [at[w].read EXCEPT !.marks = @ \union {"this"}]
  <2>1. Become(w, s) /\ map' = m
        /\ past' = [past EXCEPT !.lost = @ \/ map # at[w].read, !.stored = @ \union {}]
    BY <1>5 DEF Mark, Write
  <2>2. s \in Seats /\ s.step = "plan"
    BY <1>2, SeatFields, FreeSeat DEF Seats
  <2>3. m \in Maps
    BY SeatFields DEF Maps
  <2>4. past' \in Pasts
    BY <1>1, <2>1 DEF Pasts
  <2> HIDE DEF s, m
  <2> QED
    BY <1>1, <1>5, <2>1, <2>2, <2>3, <2>4, TasksKept, Moves DEF Mark
<1>6. CASE PlanHunts(w)
  <2> DEFINE plan == DiversifyClip(OfferOf(map), MaxTasks)
  <2>1. CASE plan # <<>>
    <3> DEFINE s == [at[w] EXCEPT !.step = "hunts", !.read = map, !.plan = plan,
                                  !.left = Len(plan)]
    <3>1. Become(w, s) /\ plans' = [plans EXCEPT !.begun = @ + 1] /\ tasks' = tasks
      BY <1>6, <2>1 DEF PlanHunts
    <3>2. plan \in Seq(Hunts) /\ Len(plan) \in 0..MaxTasks /\ Len(plan) # 0
      BY <1>1, <2>1, PlanTyped
    <3> HIDE DEF plan
    <3>3. s \in Seats /\ s.left # 0
      BY <1>1, <1>2, <3>2, SeatFields DEF Seats
    <3>4. plans' \in [begun : Nat, whole : Nat]
      BY <1>1, <3>1
    <3> HIDE DEF s
    <3> QED
      BY <1>1, <1>6, <3>1, <3>3, <3>4, TasksKept, Moves DEF PlanHunts
  <2>2. CASE plan = <<>>
    <3>1. /\ IF Batch THEN tasks' = tasks ELSE MaybeAutoRetry(w)
          /\ Goto(w, IF Batch THEN "ended" ELSE "failed") /\ plans' = plans
      BY <1>6, <2>2 DEF PlanHunts
    <3>2. TasksOK(tasks')
      BY <3>1, RetryTyped, TasksKept
    <3>3. PICK s \in Seats : Become(w, s) /\ s.step # "hunts"
      BY <1>2, <3>1, GoesTo
    <3> QED
      BY <1>1, <1>6, <3>1, <3>2, <3>3, Moves DEF PlanHunts
  <2> QED
    BY <2>1, <2>2
<1>7. CASE EnqueueHunt(w)
  <2> DEFINE s == IF at[w].left = 1 THEN [Free EXCEPT !.step = "ended", !.id = at[w].id]
                  ELSE [at[w] EXCEPT !.left = @ - 1]
  <2>1. /\ Become(w, s)
        /\ plans' = [plans EXCEPT !.whole = IF at[w].left = 1 THEN @ + 1 ELSE @]
    BY <1>7 DEF EnqueueHunt
  <2>2. at[w].left \in 0..MaxTasks /\ at[w].left # 0 /\ MaxTasks \in Nat
    BY <1>7, SeatFields, CapsAssumption DEF Seats, EnqueueHunt
  <2>3. CASE at[w].left = 1
    <3>1. s \in Seats /\ s.step = "ended"
      BY <1>2, <2>3, SeatFields, FreeSeat DEF Seats
    <3>2. plans' \in [begun : Nat, whole : Nat]
      BY <1>1, <2>1
    <3> HIDE DEF s
    <3> QED
      BY <1>1, <1>7, <2>1, <3>1, <3>2, TasksKept, Moves DEF EnqueueHunt
  <2>4. CASE at[w].left # 1
    <3>1. at[w].left - 1 \in 0..MaxTasks /\ at[w].left - 1 # 0
      BY <2>2, <2>4
    <3>2. s \in Seats /\ s.left # 0
      BY <2>4, <3>1, SeatFields DEF Seats
    <3>3. plans' \in [begun : Nat, whole : Nat]
      BY <1>1, <2>1
    <3> HIDE DEF s
    <3> QED
      BY <1>1, <1>7, <2>1, <3>2, <3>3, TasksKept, Moves DEF EnqueueHunt
  <2> QED
    BY <2>3, <2>4
<1>8. CASE End(w)
  <2>1. TasksOK(tasks')
    BY <1>8, TasksKept, Dropped DEF End
  <2>2. past' \in Pasts
    <3>1. past' = [past EXCEPT !.ok = at[w].step = "ended"]
      BY <1>8 DEF End
    <3> QED
      BY <1>1, <3>1 DEF Pasts
  <2>3. Become(w, Free)
    BY <1>8 DEF End
  <2> QED
    BY <1>1, <1>8, <2>1, <2>2, <2>3, FreeSeat, Moves DEF End
<1> QED
  BY <1>3, <1>4, <1>5, <1>6, <1>7, <1>8

LEMMA EditTyped ==
  ASSUME TypeOK
  PROVE  /\ Edited \in Maps /\ Edited.parts # <<>>
         /\ ToSet(Edited.parts) = ToSet(page.parts) \union {Operator}
         /\ Edited.marks = IF page.marks = {} THEN map.marks ELSE page.marks
<1> DEFINE old == page.parts
           parts == Extended(old, Operator)
           marks == IF page.marks = {} THEN map.marks ELSE page.marks
<1>1. old \in Seq(Contributors) /\ Operator \in Contributors
  BY MapsTyped DEF Maps, Contributors
<1>2. marks \subseteq {"earlier", "this"}
  BY MapsTyped DEF Maps
<1> HIDE DEF old
<1>3. parts \in Seq(Contributors) /\ parts # <<>> /\ ToSet(parts) = ToSet(old) \union {Operator}
  BY <1>1, ExtendedTyped
<1>4. Edited = [parts |-> parts, marks |-> marks]
  BY DEF Edited, old
<1> HIDE DEF parts, marks
<1>5. Edited \in Maps /\ Edited.parts = parts /\ Edited.marks = marks
  BY <1>2, <1>3, <1>4 DEF Maps
<1> QED
  BY <1>3, <1>5 DEF old, marks

LEMMA TypedOperator ==
  ASSUME Typed, IsConfig(cfg)', Same,
         \/ OpenEditor \/ SaveEditor \/ \E m \in revisions : RestoreRevision(m)
         \/ \E i \in DOMAIN tasks : Cancel(i)
         \/ \E w \in Workers : Infra(w) \/ Crash(w) \/ Expire(w)
  PROVE  Typed'
<1> USE DEF Typed
<1>1. /\ map \in Maps /\ page \in Maps /\ revisions \subseteq Maps /\ past \in Pasts
      /\ plans \in [begun : Nat, whole : Nat] /\ todo \in Seq(Agents)
      /\ Recorded \subseteq Maps
  BY MapsTyped, PastTyped DEF TypeOK
<1>2. /\ \A m : [past EXCEPT !.lost = @ \/ map # m, !.stored = @ \union {Operator}] \in Pasts
      /\ [past EXCEPT !.lost = TRUE] \in Pasts
  BY <1>1 DEF Pasts, Contributors
<1>3. /\ [past EXCEPT !.cut = TRUE] \in Pasts
      /\ [past EXCEPT !.crash = TRUE] \in Pasts
      /\ [past EXCEPT !.twin = TRUE] \in Pasts
  BY <1>1 DEF Pasts
<1>4. CASE OpenEditor
  BY <1>1, <1>4, TasksKept, Stays DEF OpenEditor
<1>5. CASE SaveEditor
  <2>1. Edited \in Maps
    BY EditTyped
  <2>2. map' = Edited
        /\ past' = [past EXCEPT !.lost = @ \/ map # page, !.stored = @ \union {Operator}]
    BY <1>5 DEF SaveEditor, Write
  <2> QED
    BY <1>1, <1>2, <1>5, <2>1, <2>2, TasksKept, Stays DEF SaveEditor
<1>6. ASSUME NEW m \in revisions, RestoreRevision(m)
      PROVE  Typed'
  <2>1. map' = m /\ past' = [past EXCEPT !.lost = TRUE]
    BY <1>6 DEF RestoreRevision
  <2> QED
    BY <1>1, <1>2, <1>6, <2>1, TasksKept, Stays DEF RestoreRevision
<1>7. ASSUME NEW i \in DOMAIN tasks, Cancel(i)
      PROVE  Typed'
  <2>1. TasksOK(tasks')
    BY <1>7, Dropped DEF Cancel
  <2> QED
    BY <1>1, <1>3, <1>7, <2>1, Stays DEF Cancel
<1>8. ASSUME NEW w \in Workers, Infra(w) \/ Crash(w) \/ Expire(w)
      PROVE  Typed'
  <2>1. TasksOK(tasks')
    <3>1. \/ tasks' = tasks
          \/ at[w].id \in DOMAIN tasks /\ tasks' = [tasks EXCEPT ![at[w].id].owner = NoWorker]
      BY <1>8 DEF Infra, Crash, Expire, Requeued
    <3> QED
      BY <3>1, TasksKept, Owned
  <2>2. CASE Infra(w) \/ Crash(w)
    <3>1. Become(w, Free)
      BY <2>2 DEF Infra, Crash
    <3> QED
      BY <1>1, <1>3, <2>1, <2>2, <3>1, FreeSeat, Moves DEF Infra, Crash
  <2>3. CASE Expire(w)
    BY <1>1, <1>3, <2>1, <2>3, Stays DEF Expire
  <2> QED
    BY <1>8, <2>2, <2>3
<1> QED
  BY <1>4, <1>5, <1>6, <1>7, <1>8

LEMMA TypedStep == Typed /\ [Next]_vars => Typed' /\ Same
<1> SUFFICES ASSUME Typed, [Next]_vars
             PROVE  Typed' /\ Same
  OBVIOUS
<1>1. IsConfig(cfg)' /\ Same
  BY ConfigKept DEF Typed
<1>2. CASE UNCHANGED vars
  <2>1. TasksOK(tasks') /\ past' \in Pasts
    BY <1>2, TasksKept, PastTyped DEF vars, Typed
  <2> QED
    BY <1>1, <1>2, <2>1, Stays, MapsTyped DEF vars, Typed, TypeOK
<1>3. CASE Next
  BY <1>1, <1>3, TypedMaking, TypedLoop, TypedPlanning, TypedOperator DEF Next, Work
<1> QED
  BY <1>1, <1>2, <1>3

-----------------------------------------------------------------------------
(* The map is written by four actions only.                                *)
Writes == \/ \E w \in Workers : StoreMerged(w) \/ Mark(w)
          \/ SaveEditor \/ \E m \in revisions : RestoreRevision(m)

LEMMA MapStill ==
  ASSUME Typed, [Next]_vars, ~Writes
  PROVE  /\ map' = map /\ revisions' = revisions
         /\ past'.lost = past.lost /\ past'.stored = past.stored
         /\ past'.omitted = past.omitted
<1>1. past \in Pasts
  BY PastTyped DEF Typed
<1>2. CASE UNCHANGED vars
  BY <1>2 DEF vars
<1>3. CASE Next
  <2>1. map' = map /\ revisions' = revisions
    BY <1>3 DEF Writes, Next, EnqueueSibling, Leasing, Lease, Work, Expand, FanOut, Continued,
                Fails, Submits, Look, Claim, PlanHunts, EnqueueHunt, End, OpenEditor, Cancel,
                Infra, Crash, Expire
  <2>2. \/ past' = past
        \/ \E x \in BOOLEAN : past' = [past EXCEPT !.ok = x]
        \/ past' = [past EXCEPT !.cut = TRUE]
        \/ past' = [past EXCEPT !.crash = TRUE]
        \/ past' = [past EXCEPT !.twin = TRUE]
    <3>1. ASSUME NEW w \in Workers, End(w)
          PROVE  \E x \in BOOLEAN : past' = [past EXCEPT !.ok = x]
      <4>1. past' = [past EXCEPT !.ok = at[w].step = "ended"]
            /\ (at[w].step = "ended") \in BOOLEAN
        BY <3>1 DEF End
      <4> QED
        BY <4>1
    <3> QED
      BY <1>3, <3>1
        DEF Writes, Next, EnqueueSibling, Leasing, Lease, Work, Expand, FanOut, Continued, Fails,
            Submits, Look, Claim, PlanHunts, EnqueueHunt, OpenEditor, Cancel, Infra, Crash, Expire
  <2> QED
    BY <1>1, <2>1, <2>2 DEF Pasts
<1> QED
  BY <1>2, <1>3

LEMMA StoreWrites ==
  ASSUME Typed, NEW w \in Workers, StoreMerged(w)
  PROVE  revisions' = Recorded /\ page' = page
BY DEF StoreMerged

LEMMA MarkWrites ==
  ASSUME Typed, NEW w \in Workers, Mark(w)
  PROVE  /\ map'.parts = at[w].read.parts /\ map'.marks = at[w].read.marks \union {"this"}
         /\ revisions' = revisions /\ page' = page
         /\ past'.lost = (past.lost \/ map # at[w].read) /\ past'.stored = past.stored
         /\ past'.omitted = past.omitted
<1>1. at[w].read \in Maps
  BY SeatFields DEF Typed
<1>2. map' = [at[w].read EXCEPT !.marks = @ \union {"this"}]
  BY DEF Mark, Write
<1>3. map'.parts = at[w].read.parts /\ map'.marks = at[w].read.marks \union {"this"}
  BY <1>1, <1>2 DEF Maps
<1> QED
  BY <1>3, PastTyped DEF Typed, Mark, Write, Pasts

LEMMA SaveWrites ==
  ASSUME Typed, SaveEditor
  PROVE  /\ map' = Edited /\ revisions' = Recorded /\ page' = page /\ at' = at
         /\ past'.lost = (past.lost \/ map # page)
         /\ past'.stored = past.stored \union {Operator} /\ past'.omitted = past.omitted
BY PastTyped DEF Typed, SaveEditor, Write, Pasts

LEMMA RestoreWrites ==
  ASSUME Typed, NEW m \in revisions, RestoreRevision(m)
  PROVE  /\ map' = m /\ revisions' = Recorded /\ page' = page /\ at' = at
         /\ past'.lost = TRUE
BY PastTyped DEF Typed, RestoreRevision, Pasts

LEMMA KeptStep == Typed /\ MapKeeps /\ [Next]_vars => MapKeeps'
<1> SUFFICES ASSUME Typed, MapKeeps, [Next]_vars, ~past'.lost
             PROVE  past'.stored \ past'.omitted \subseteq ToSet(map'.parts)
  BY DEF MapKeeps
<1>1. CASE ~Writes
  BY <1>1, MapStill DEF MapKeeps
<1>2. ASSUME NEW w \in Workers, StoreMerged(w)
      PROVE  past'.stored \ past'.omitted \subseteq ToSet(map'.parts)
  <2>1. /\ past.stored \ past.omitted \subseteq ToSet(at[w].read.parts)
        /\ past'.stored = past.stored \union {at[w].job.agent}
        /\ past.omitted \subseteq past'.omitted
        /\ Given(w) \subseteq ToSet(map'.parts) \union past'.omitted
    BY <1>2, StoreTyped DEF MapKeeps
  <2>2. Given(w) = ToSet(at[w].read.parts) \union {at[w].job.agent}
    BY DEF Given
  <2> QED
    BY <2>1, <2>2
<1>3. ASSUME NEW w \in Workers, Mark(w)
      PROVE  past'.stored \ past'.omitted \subseteq ToSet(map'.parts)
  BY <1>3, MarkWrites DEF MapKeeps
<1>4. CASE SaveEditor
  <2>1. /\ past.stored \ past.omitted \subseteq ToSet(page.parts) /\ map' = Edited
        /\ past'.stored = past.stored \union {Operator} /\ past'.omitted = past.omitted
    BY <1>4, SaveWrites DEF MapKeeps
  <2> QED
    BY <2>1, EditTyped DEF Typed
<1>5. ASSUME NEW m \in revisions, RestoreRevision(m)
      PROVE  past'.stored \ past'.omitted \subseteq ToSet(map'.parts)
  BY <1>5, RestoreWrites
<1> QED
  BY <1>1, <1>2, <1>3, <1>4, <1>5 DEF Writes

-----------------------------------------------------------------------------
(* A worker's steps.  Only its own actions change its seat.                *)
Acts(w) == \/ Work(w) \/ Infra(w) \/ Crash(w) \/ \E i \in DOMAIN tasks : Lease(w, i)
Others  == EnqueueSibling \/ OpenEditor \/ SaveEditor \/ (\E m \in revisions : RestoreRevision(m))
           \/ (\E i \in DOMAIN tasks : Cancel(i)) \/ \E w \in Workers : Expire(w)

LEMMA WhoActs ==
  ASSUME [Next]_vars
  PROVE  (\E w \in Workers : Acts(w)) \/ Others \/ UNCHANGED vars
BY DEF Next, Acts, Others, Leasing

LEMMA NobodyMoves == Others => at' = at /\ plans' = plans
BY DEF Others, EnqueueSibling, OpenEditor, SaveEditor, RestoreRevision, Cancel, Expire

LEMMA OthersStay ==
  ASSUME Typed, NEW w \in Workers, Acts(w)
  PROVE  \A v \in Workers : v # w => at'[v] = at[v]
BY DEF Acts, Work, Expand, FanOut, Continued, Fails, Submits, StoreMerged, Look, Claim, Mark,
       PlanHunts, EnqueueHunt, End, Infra, Crash, Lease, Become, Goto, Typed, TypeOK

(* Where each action takes the worker, and what it has read by then.       *)
LEMMA Begins ==
  ASSUME Typed, NEW w \in Workers
  PROVE  /\ \A i \in DOMAIN tasks : Lease(w, i) =>
              /\ at'[w].step = IF tasks[i].job.many THEN "expand" ELSE "agent"
              /\ at'[w].id = i /\ at'[w].read = NoMap
         /\ Expand(w) => at'[w].step = "fan" /\ at'[w].id = at[w].id /\ at'[w].read = at[w].read
         /\ FanOut(w) => /\ at'[w].step \in {"agent", "fan"}
                         /\ at'[w].id = at[w].id /\ at'[w].read = at[w].read
         /\ Infra(w) \/ Crash(w) \/ End(w) => at'[w] = Free
<1>1. at[w] \in Seats /\ Free \in Seats /\ Free.read = NoMap
  BY SeatFields, FreeSeat DEF Typed
<1>2. \A s : Become(w, s) => at'[w] = s
  BY DEF Become, Typed, TypeOK
<1>3. ASSUME NEW i \in DOMAIN tasks, Lease(w, i)
      PROVE  /\ at'[w].step = IF tasks[i].job.many THEN "expand" ELSE "agent"
             /\ at'[w].id = i /\ at'[w].read = NoMap
  <2>1. at'[w] = [Free EXCEPT !.step = IF tasks[i].job.many THEN "expand" ELSE "agent",
                              !.id = i, !.job = [tasks[i].job EXCEPT !.from = 0]]
    BY <1>2, <1>3 DEF Lease
  <2> QED
    BY <1>1, <2>1 DEF Seats
<1>4. ASSUME Expand(w)
      PROVE  at'[w].step = "fan" /\ at'[w].id = at[w].id /\ at'[w].read = at[w].read
  <2>1. at'[w] = [at[w] EXCEPT !.step = "fan", !.job = [at[w].job EXCEPT !.many = FALSE],
                               !.fan = Tail(cfg.agents)]
    BY <1>2, <1>4 DEF Expand
  <2> QED
    BY <1>1, <2>1 DEF Seats
<1>5. ASSUME FanOut(w)
      PROVE  /\ at'[w].step \in {"agent", "fan"}
             /\ at'[w].id = at[w].id /\ at'[w].read = at[w].read
  <2>1. at'[w] = [at[w] EXCEPT !.fan = Tail(@),
                               !.step = IF Len(at[w].fan) = 1 THEN "agent" ELSE "fan"]
    BY <1>2, <1>5 DEF FanOut
  <2> QED
    BY <1>1, <2>1 DEF Seats
<1>6. Infra(w) \/ Crash(w) \/ End(w) => at'[w] = Free
  BY <1>2 DEF Infra, Crash, End
<1> QED
  BY <1>3, <1>4, <1>5, <1>6

LEMMA Reads ==
  ASSUME Typed, NEW w \in Workers
  PROVE  /\ Continued(w) \/ Fails(w) =>
              at'[w].step = "failed" /\ at'[w].id = at[w].id /\ at'[w].read = at[w].read
         /\ Submits(w) => at'[w].step = "merge" /\ at'[w].id = at[w].id /\ at'[w].read = map
         /\ StoreMerged(w) =>
              at'[w].step = "look" /\ at'[w].id = at[w].id /\ at'[w].read = NoMap
         /\ Look(w) =>
              /\ at'[w].step \in IF Batch THEN {"claim", "ended"} ELSE {"plan"}
              /\ at'[w].step = "ended" => ~Ready(w)
              /\ at'[w].id = at[w].id /\ at'[w].read = at[w].read
<1>1. at[w] \in Seats
  BY SeatFields DEF Typed
<1>2. \A s : Become(w, s) => at'[w] = s
  BY DEF Become, Typed, TypeOK
<1>3. \A step : Goto(w, step) => /\ at'[w].step = step /\ at'[w].id = at[w].id
                                 /\ at'[w].read = at[w].read
  BY <1>1, <1>2 DEF Goto, Seats
<1>4. Submits(w) => at'[w].step = "merge" /\ at'[w].id = at[w].id /\ at'[w].read = map
  BY <1>1, <1>2 DEF Submits, Seats
<1>5. StoreMerged(w) => at'[w].step = "look" /\ at'[w].id = at[w].id /\ at'[w].read = NoMap
  BY <1>1, <1>2 DEF StoreMerged, Seats
<1> QED
  BY <1>3, <1>4, <1>5 DEF Continued, Fails, Look

LEMMA Plans ==
  ASSUME Typed, NEW w \in Workers
  PROVE  /\ Claim(w) /\ "this" \in map.marks =>
              at'[w].step = "ended" /\ at'[w].id = at[w].id /\ at'[w].read = at[w].read
         /\ Claim(w) /\ "this" \notin map.marks =>
              at'[w].step = "mark" /\ at'[w].id = at[w].id /\ at'[w].read = map
         /\ Mark(w) => at'[w].step = "plan" /\ at'[w].id = at[w].id /\ at'[w].read = NoMap
         /\ EnqueueHunt(w) /\ at[w].left = 1 =>
              at'[w].step = "ended" /\ at'[w].id = at[w].id /\ at'[w].read = NoMap
         /\ EnqueueHunt(w) /\ at[w].left # 1 =>
              /\ at'[w].step = "hunts" /\ at'[w].id = at[w].id /\ at'[w].read = at[w].read
              /\ at'[w].plan = at[w].plan
<1>1. at[w] \in Seats /\ Free \in Seats /\ Free.read = NoMap
  BY SeatFields, FreeSeat DEF Typed
<1>2. \A s : Become(w, s) => at'[w] = s
  BY DEF Become, Typed, TypeOK
<1>3. Claim(w) /\ "this" \in map.marks =>
        at'[w].step = "ended" /\ at'[w].id = at[w].id /\ at'[w].read = at[w].read
  BY <1>1, <1>2 DEF Claim, Seats
<1>4. Claim(w) /\ "this" \notin map.marks =>
        at'[w].step = "mark" /\ at'[w].id = at[w].id /\ at'[w].read = map
  BY <1>1, <1>2 DEF Claim, Seats
<1>5. Mark(w) => at'[w].step = "plan" /\ at'[w].id = at[w].id /\ at'[w].read = NoMap
  BY <1>1, <1>2 DEF Mark, Seats
<1>6. EnqueueHunt(w) /\ at[w].left = 1 =>
        at'[w].step = "ended" /\ at'[w].id = at[w].id /\ at'[w].read = NoMap
  <2> SUFFICES ASSUME EnqueueHunt(w), at[w].left = 1
               PROVE  at'[w].step = "ended" /\ at'[w].id = at[w].id /\ at'[w].read = NoMap
    OBVIOUS
  <2>1. at'[w] = [Free EXCEPT !.step = "ended", !.id = at[w].id]
    BY <1>2 DEF EnqueueHunt
  <2> QED
    BY <1>1, <2>1 DEF Seats
<1>7. EnqueueHunt(w) /\ at[w].left # 1 =>
        /\ at'[w].step = "hunts" /\ at'[w].id = at[w].id /\ at'[w].read = at[w].read
        /\ at'[w].plan = at[w].plan
  <2> SUFFICES ASSUME EnqueueHunt(w), at[w].left # 1
               PROVE  /\ at'[w].step = "hunts" /\ at'[w].id = at[w].id
                      /\ at'[w].read = at[w].read /\ at'[w].plan = at[w].plan
    OBVIOUS
  <2>1. at'[w] = [at[w] EXCEPT !.left = @ - 1] /\ at[w].step = "hunts"
    BY <1>2 DEF EnqueueHunt
  <2> QED
    BY <1>1, <2>1 DEF Seats
<1> QED
  BY <1>3, <1>4, <1>5, <1>6, <1>7

LEMMA PlanBegins ==
  ASSUME Typed, NEW w \in Workers, PlanHunts(w)
  PROVE  LET plan == DiversifyClip(OfferOf(map), MaxTasks)
         IN  /\ plan # <<>> =>
                  /\ at'[w].step = "hunts" /\ at'[w].id = at[w].id /\ at'[w].read = map
                  /\ at'[w].plan = plan /\ tasks' = tasks /\ plans'.whole = plans.whole
                  /\ plans'.begun = plans.begun + 1
             /\ plan = <<>> =>
                  /\ at'[w].step = IF Batch THEN "ended" ELSE "failed"
                  /\ at'[w].id = at[w].id /\ at'[w].read = at[w].read /\ plans' = plans
                  /\ IF Batch THEN tasks' = tasks ELSE MaybeAutoRetry(w)
<1> DEFINE plan == DiversifyClip(OfferOf(map), MaxTasks)
<1>1. at[w] \in Seats /\ plans \in [begun : Nat, whole : Nat]
  BY SeatFields, PastTyped DEF Typed
<1>2. \A s : Become(w, s) => at'[w] = s
  BY DEF Become, Typed, TypeOK
<1>3. ASSUME plan # <<>>
      PROVE  /\ at'[w].step = "hunts" /\ at'[w].id = at[w].id /\ at'[w].read = map
             /\ at'[w].plan = plan /\ tasks' = tasks /\ plans'.whole = plans.whole
             /\ plans'.begun = plans.begun + 1
  <2>1. /\ at'[w] = [at[w] EXCEPT !.step = "hunts", !.read = map, !.plan = plan,
                                  !.left = Len(plan)]
        /\ plans' = [plans EXCEPT !.begun = @ + 1] /\ tasks' = tasks
    BY <1>2, <1>3 DEF PlanHunts
  <2> HIDE DEF plan
  <2> QED
    BY <1>1, <2>1 DEF Seats
<1>4. ASSUME plan = <<>>
      PROVE  /\ at'[w].step = IF Batch THEN "ended" ELSE "failed"
             /\ at'[w].id = at[w].id /\ at'[w].read = at[w].read /\ plans' = plans
             /\ IF Batch THEN tasks' = tasks ELSE MaybeAutoRetry(w)
  <2>1. /\ Goto(w, IF Batch THEN "ended" ELSE "failed") /\ plans' = plans
        /\ IF Batch THEN tasks' = tasks ELSE MaybeAutoRetry(w)
    BY <1>4 DEF PlanHunts
  <2> QED
    BY <1>1, <1>2, <2>1 DEF Goto, Seats
<1> QED
  BY <1>3, <1>4

-----------------------------------------------------------------------------
(* The parts of the map, and the plan.                                     *)
LEMMA SeatKept ==
  ASSUME Typed, [Next]_vars, NEW w \in Workers, ~Acts(w)
  PROVE  at'[w] = at[w]
<1>1. ASSUME NEW v \in Workers, Acts(v)
      PROVE  at'[w] = at[w]
  <2>1. v # w
    BY <1>1
  <2> QED
    BY <1>1, <2>1, OthersStay
<1>2. Others \/ UNCHANGED vars => at' = at
  BY NobodyMoves DEF vars
<1> QED
  BY <1>1, <1>2, WhoActs

LEMMA PartsGrow ==
  ASSUME Typed, PartsKept, [Next]_vars
  PROVE  /\ map.parts # <<>> \/ (\E w \in Workers : StoreMerged(w)) => map'.parts # <<>>
         /\ \A m \in revisions' : m.parts # <<>>
<1>1. \A m \in Recorded : m.parts # <<>>
  BY DEF Recorded, PartsKept
<1>2. ASSUME NEW w \in Workers, StoreMerged(w)
      PROVE  map'.parts # <<>> /\ \A m \in revisions' : m.parts # <<>>
  BY <1>1, <1>2, StoreWrites, StoreTyped
<1>3. ASSUME NEW w \in Workers, Mark(w)
      PROVE  map'.parts # <<>> /\ \A m \in revisions' : m.parts # <<>>
  <2>1. at[w].read.parts # <<>> /\ map'.parts = at[w].read.parts /\ revisions' = revisions
    BY <1>3, MarkWrites DEF PartsKept, Mark
  <2> QED
    BY <2>1 DEF PartsKept
<1>4. CASE SaveEditor
  BY <1>1, <1>4, SaveWrites, EditTyped DEF Typed
<1>5. ASSUME NEW m \in revisions, RestoreRevision(m)
      PROVE  map'.parts # <<>> /\ \A n \in revisions' : n.parts # <<>>
  BY <1>1, <1>5, RestoreWrites DEF PartsKept
<1>6. CASE ~Writes
  BY <1>6, MapStill DEF PartsKept, Writes
<1> QED
  BY <1>2, <1>3, <1>4, <1>5, <1>6 DEF Writes

LEMMA PartsStep == Typed /\ PartsKept /\ [Next]_vars => PartsKept'
<1> SUFFICES ASSUME Typed, PartsKept, [Next]_vars
             PROVE  PartsKept'
  OBVIOUS
<1> DEFINE Good(w) == /\ at[w].step \in {"look", "claim", "mark", "plan"} => map.parts # <<>>
                      /\ at[w].step = "mark" => at[w].read.parts # <<>>
<1>1. ASSUME NEW w \in Workers
      PROVE  Good(w)'
  <2>1. Good(w)
    BY DEF PartsKept
  <2>2. map.parts # <<>> => map'.parts # <<>>
    BY PartsGrow
  <2>3. CASE ~Acts(w)
    BY <2>1, <2>2, <2>3, SeatKept
  <2>4. CASE StoreMerged(w)
    BY <2>4, PartsGrow, Reads
  <2>5. CASE Look(w) \/ Claim(w) \/ Mark(w)
    <3>1. at[w].step \in {"look", "claim", "mark"}
      BY <2>5 DEF Look, Claim, Mark
    <3>2. map.parts # <<>> /\ map'.parts # <<>>
      BY <2>1, <2>2, <3>1
    <3>3. at'[w].step = "mark" => at'[w].read.parts # <<>>
      BY <2>5, <3>2, Reads, Plans
    <3> QED
      BY <3>2, <3>3
  <2>6. CASE PlanHunts(w)
    <3>1. at'[w].step \in {"hunts", "ended", "failed"}
      BY <2>6, PlanBegins
    <3> QED
      BY <3>1
  <2>7. ASSUME \/ \E i \in DOMAIN tasks : Lease(w, i)
               \/ Expand(w) \/ FanOut(w) \/ Continued(w) \/ Fails(w) \/ Submits(w)
               \/ EnqueueHunt(w) \/ End(w) \/ Infra(w) \/ Crash(w)
        PROVE  Good(w)'
    <3>1. at'[w].step \in {"expand", "agent", "fan", "failed", "merge", "hunts", "ended", "idle"}
      BY <2>7, Begins, Reads, Plans, FreeSeat DEF Typed
    <3> QED
      BY <3>1
  <2> QED
    BY <2>3, <2>4, <2>5, <2>6, <2>7 DEF Acts, Work
<1> QED
  BY <1>1, PartsGrow DEF PartsKept

LEMMA ClippedStep == Typed /\ Clipped /\ [Next]_vars => Clipped'
<1> SUFFICES ASSUME Typed, Clipped, [Next]_vars, NEW w \in Workers, at'[w].step = "hunts"
             PROVE  at'[w].plan = DiversifyClip(OfferOf(at[w].read), MaxTasks)'
  BY DEF Clipped
<1>1. ASSUME NEW r, at'[w].read = r
      PROVE  OfferOf(at[w].read)' = OfferOf(r)
  <2>1. cfg'.allowed = cfg.allowed /\ cfg'.accepted = cfg.accepted
    BY TypedStep DEF Same
  <2> QED
    BY <1>1, <2>1 DEF OfferOf, FocusOf
<1>2. CASE ~Acts(w)
  <2>1. at'[w] = at[w]
    BY <1>2, SeatKept
  <2> QED
    BY <1>1, <2>1 DEF Clipped
<1>3. CASE PlanHunts(w)
  <2>1. at'[w].read = map /\ at'[w].plan = DiversifyClip(OfferOf(map), MaxTasks)
    BY <1>3, PlanBegins
  <2> QED
    BY <1>1, <2>1
<1>4. CASE EnqueueHunt(w)
  <2>1. at[w].step = "hunts" /\ at'[w].read = at[w].read /\ at'[w].plan = at[w].plan
    BY <1>4, Plans DEF EnqueueHunt
  <2> QED
    BY <1>1, <2>1 DEF Clipped
<1>5. CASE Acts(w) /\ ~PlanHunts(w) /\ ~EnqueueHunt(w)
  <2>1. at'[w].step # "hunts"
    BY <1>5, Begins, Reads, Plans, FreeSeat DEF Acts, Work, Typed
  <2> QED
    BY <2>1
<1> QED
  BY <1>2, <1>3, <1>4, <1>5

-----------------------------------------------------------------------------
(* A batch is claimed once.                                                *)
MarkKept == "this" \in map.marks => "this" \in map'.marks

LEMMA MarkStays ==
  ASSUME Typed, [Next]_vars, ~past'.lost
  PROVE  MarkKept
<1>1. CASE ~Writes
  BY <1>1, MapStill DEF MarkKept
<1>2. ASSUME NEW w \in Workers, StoreMerged(w)
      PROVE  MarkKept
  <2>1. map = at[w].read /\ map'.marks = at[w].read.marks
    BY <1>2, StoreTyped
  <2> QED
    BY <2>1 DEF MarkKept
<1>3. ASSUME NEW w \in Workers, Mark(w)
      PROVE  MarkKept
  BY <1>3, MarkWrites DEF MarkKept
<1>4. CASE SaveEditor
  <2>1. map = page /\ map' = Edited
    BY <1>4, SaveWrites
  <2>2. Edited.marks = IF page.marks = {} THEN map.marks ELSE page.marks
    BY EditTyped DEF Typed
  <2> QED
    BY <2>1, <2>2 DEF MarkKept
<1>5. ASSUME NEW m \in revisions, RestoreRevision(m)
      PROVE  MarkKept
  BY <1>5, RestoreWrites
<1> QED
  BY <1>1, <1>2, <1>3, <1>4, <1>5 DEF Writes

LEMMA LostStays == Typed /\ [Next]_vars /\ past.lost => past'.lost
<1> SUFFICES ASSUME Typed, [Next]_vars, past.lost
             PROVE  past'.lost
  OBVIOUS
<1> QED
  BY MapStill, StoreTyped, MarkWrites, SaveWrites, RestoreWrites DEF Writes

(* Who plans hunts was planning before, or has just marked the map.        *)
LEMMA PlanFrom ==
  ASSUME Typed, [Next]_vars, NEW w \in Workers, at'[w].step = "plan", Batch
  PROVE  Mark(w) \/ (at[w].step = "plan" /\ at'[w] = at[w])
<1>1. CASE ~Acts(w)
  BY <1>1, SeatKept
<1>2. CASE Acts(w) /\ ~Mark(w)
  <2>1. at'[w].step # "plan"
    BY <1>2, Begins, Reads, Plans, PlanBegins, FreeSeat DEF Acts, Work, Typed
  <2> QED
    BY <2>1
<1> QED
  BY <1>1, <1>2

LEMMA MarkFrom ==
  ASSUME Typed, [Next]_vars, NEW w \in Workers, at'[w].step = "mark"
  PROVE  \/ at[w].step = "mark" /\ at'[w] = at[w]
         \/ Claim(w) /\ "this" \notin map.marks /\ at'[w].read = map
<1>1. CASE ~Acts(w)
  BY <1>1, SeatKept
<1>2. CASE Claim(w)
  BY <1>2, Plans
<1>3. CASE Acts(w) /\ ~Claim(w)
  <2>1. at'[w].step # "mark"
    BY <1>3, Begins, Reads, Plans, PlanBegins, FreeSeat DEF Acts, Work, Typed
  <2> QED
    BY <2>1
<1> QED
  BY <1>1, <1>2, <1>3

LEMMA BegunFrom ==
  ASSUME Typed, [Next]_vars
  PROVE  \/ plans'.begun = plans.begun
         \/ \E w \in Workers : /\ PlanHunts(w) /\ at'[w].step = "hunts"
                               /\ plans'.begun = plans.begun + 1
<1>1. ASSUME NEW w \in Workers, PlanHunts(w)
      PROVE  \/ plans'.begun = plans.begun
             \/ PlanHunts(w) /\ at'[w].step = "hunts" /\ plans'.begun = plans.begun + 1
  BY <1>1, PlanBegins
<1>2. ASSUME NEW w \in Workers, EnqueueHunt(w)
      PROVE  plans'.begun = plans.begun
  <2>1. plans' = [plans EXCEPT !.whole = IF at[w].left = 1 THEN @ + 1 ELSE @]
        /\ plans \in [begun : Nat, whole : Nat]
    BY <1>2, PastTyped DEF EnqueueHunt, Typed
  <2> QED
    BY <2>1
<1>3. CASE \A w \in Workers : ~PlanHunts(w) /\ ~EnqueueHunt(w)
  <2>1. plans' = plans
    BY <1>3 DEF Next, vars, Leasing, EnqueueSibling, Lease, Work, Expand, FanOut, Continued,
                Fails, Submits, StoreMerged, Look, Claim, Mark, End, OpenEditor, SaveEditor,
                RestoreRevision, Cancel, Infra, Crash, Expire
  <2> QED
    BY <2>1
<1> QED
  BY <1>1, <1>2, <1>3

LEMMA ClaimStep ==
  ASSUME Typed, Batch, ~past.lost => ClaimedOnce, [Next]_vars, ~past'.lost
  PROVE  ClaimedOnce'
<1>1. ClaimedOnce
  BY LostStays
<1>2. MarkKept
  BY MarkStays
<1>3. ASSUME NEW w \in Workers, at'[w].step = "mark"
      PROVE  "this" \notin at'[w].read.marks
  BY <1>1, <1>3, MarkFrom DEF ClaimedOnce
<1>4. ASSUME NEW w \in Workers, Mark(w)
      PROVE  /\ \A v \in Workers : ~Planning(v)
             /\ plans.begun = 0 /\ plans'.begun = 0 /\ "this" \in map'.marks
             /\ \A v \in Workers : Planning(v)' => v = w
  <2>1. "this" \notin map.marks /\ "this" \in map'.marks
    <3>1. at[w].step = "mark" /\ map = at[w].read /\ map'.marks = at[w].read.marks \union {"this"}
      BY <1>4, MarkWrites DEF Mark
    <3> QED
      BY <1>1, <3>1 DEF ClaimedOnce
  <2>2. (\A v \in Workers : ~Planning(v)) /\ plans.begun = 0
    BY <1>1, <2>1 DEF ClaimedOnce
  <2>3. plans'.begun = 0
    BY <1>4, <2>2 DEF Mark
  <2>4. ASSUME NEW v \in Workers, Planning(v)', v # w
        PROVE  FALSE
    <3>1. at'[v] = at[v]
      BY <1>4, <2>4, OthersStay DEF Acts, Work
    <3> QED
      BY <2>2, <2>4, <3>1 DEF Planning
  <2> QED
    BY <2>1, <2>2, <2>3, <2>4
<1>5. ASSUME \A w \in Workers : ~Mark(w)
      PROVE  /\ \A w \in Workers : Planning(w)' => Planning(w) /\ at'[w] = at[w]
             /\ \A w \in Workers : Planning(w)' => plans'.begun = 0
             /\ plans'.begun # 0 => plans'.begun = 1 /\ "this" \in map'.marks
  <2>1. \A w \in Workers : Planning(w)' => Planning(w) /\ at'[w] = at[w]
    BY <1>5, PlanFrom DEF Planning
  <2>2. CASE plans'.begun = plans.begun
    BY <1>1, <1>2, <2>1, <2>2 DEF ClaimedOnce, MarkKept
  <2>3. ASSUME NEW w \in Workers, PlanHunts(w), at'[w].step = "hunts",
               plans'.begun = plans.begun + 1
        PROVE  /\ \A v \in Workers : ~Planning(v)'
               /\ plans'.begun = 1 /\ "this" \in map'.marks
    <3>1. Planning(w)
      BY <2>3 DEF Planning, PlanHunts
    <3>2. plans.begun = 0 /\ "this" \in map.marks /\ \A v \in Workers : Planning(v) => v = w
      BY <1>1, <3>1 DEF ClaimedOnce
    <3> QED
      BY <1>2, <2>1, <2>3, <3>2 DEF MarkKept, Planning
  <2> QED
    BY <2>1, <2>2, <2>3, BegunFrom
<1> QED
  <2>1. CASE \E w \in Workers : Mark(w)
    BY <1>3, <1>4, <2>1 DEF ClaimedOnce, Planning
  <2>2. CASE \A w \in Workers : ~Mark(w)
    BY <1>1, <1>2, <1>3, <1>5, <2>2 DEF ClaimedOnce, MarkKept, Planning
  <2> QED
    BY <2>1, <2>2

-----------------------------------------------------------------------------
(* A recon of its own is one at a time.                                    *)
LEMMA PastGrows ==
  ASSUME Typed, [Next]_vars
  PROVE  /\ past.crash => past'.crash
         /\ past.twin => past'.twin
         /\ past.cut => past'.cut
         /\ (\E w \in Workers : Crash(w)) => past'.crash
         /\ (\E w \in Workers : Expire(w)) => past'.twin
         /\ (\E i \in DOMAIN tasks : Cancel(i)) => past'.cut
<1>1. past \in Pasts
  BY PastTyped DEF Typed
<1> DEFINE Grows == /\ past.crash => past'.crash
                    /\ past.twin => past'.twin
                    /\ past.cut => past'.cut
<1>2. ASSUME NEW w \in Workers, End(w) \/ StoreMerged(w) \/ Mark(w)
      PROVE  Grows
  <2>1. CASE End(w)
    BY <1>1, <2>1 DEF End, Pasts
  <2>2. CASE StoreMerged(w)
    BY <2>2, StoreTyped
  <2>3. CASE Mark(w)
    BY <1>1, <2>3 DEF Mark, Write, Pasts
  <2> QED
    BY <1>2, <2>1, <2>2, <2>3
<1>3. ASSUME \/ SaveEditor \/ (\E m \in revisions : RestoreRevision(m))
             \/ (\E i \in DOMAIN tasks : Cancel(i))
             \/ \E w \in Workers : Crash(w) \/ Expire(w)
      PROVE  Grows
  <2>1. CASE SaveEditor
    BY <1>1, <2>1 DEF SaveEditor, Write, Pasts
  <2>2. ASSUME NEW m \in revisions, RestoreRevision(m)
        PROVE  Grows
    BY <1>1, <2>2 DEF RestoreRevision, Pasts
  <2>3. ASSUME NEW i \in DOMAIN tasks, Cancel(i)
        PROVE  Grows
    BY <1>1, <2>3 DEF Cancel, Pasts
  <2>4. ASSUME NEW w \in Workers, Crash(w) \/ Expire(w)
        PROVE  Grows
    BY <1>1, <2>4 DEF Crash, Expire, Pasts
  <2> QED
    BY <1>3, <2>1, <2>2, <2>3, <2>4
<1>4. ASSUME \/ \E w \in Workers : \/ Expand(w) \/ FanOut(w) \/ Continued(w) \/ Fails(w)
                                     \/ Submits(w) \/ Look(w) \/ Claim(w) \/ PlanHunts(w)
                                     \/ EnqueueHunt(w) \/ Infra(w)
             \/ EnqueueSibling \/ Leasing \/ OpenEditor \/ UNCHANGED vars
      PROVE  past' = past
  BY <1>4 DEF vars, Leasing, EnqueueSibling, Lease, Expand, FanOut, Continued, Fails, Submits,
              Look, Claim, PlanHunts, EnqueueHunt, OpenEditor, Infra
<1>5. /\ (\E w \in Workers : Crash(w)) => past'.crash
      /\ (\E w \in Workers : Expire(w)) => past'.twin
      /\ (\E i \in DOMAIN tasks : Cancel(i)) => past'.cut
  BY <1>1 DEF Crash, Expire, Cancel, Pasts
<1>6. Grows
  BY <1>2, <1>3, <1>4 DEF Next, Work
<1> QED
  BY <1>5, <1>6

(* One task more, or none, of the same kind.                               *)
LEMMA MoreTasks ==
  ASSUME Typed, NEW w \in Workers,
         \/ Continued(w) \/ Fails(w) \/ MaybeAutoRetry(w)
         \/ MayContinue(w) /\ EnqueueContinuation(w)
  PROVE  \/ tasks' = tasks
         \/ \E n : /\ DOMAIN tasks' = DOMAIN tasks \union {n} /\ n \notin DOMAIN tasks
                   /\ tasks'[n].owner = NoWorker /\ tasks'[n].job.many = at[w].job.many
                   /\ \A i \in DOMAIN tasks : tasks'[i] = tasks[i]
<1>1. tasks' = tasks \/ \E job \in Jobs : Enqueue(job) /\ job.many = at[w].job.many
  BY RetryTyped, ContinueTyped DEF Typed, Continued, Fails
<1>2. ASSUME NEW job \in Jobs, Enqueue(job), job.many = at[w].job.many
      PROVE  \E n : /\ DOMAIN tasks' = DOMAIN tasks \union {n} /\ n \notin DOMAIN tasks
                    /\ tasks'[n].owner = NoWorker /\ tasks'[n].job.many = at[w].job.many
                    /\ \A i \in DOMAIN tasks : tasks'[i] = tasks[i]
  <2>1. /\ DOMAIN tasks' = DOMAIN tasks \union {NewId} /\ NewId \notin DOMAIN tasks
        /\ tasks'[NewId] = [job |-> job, owner |-> NoWorker]
        /\ \A i \in DOMAIN tasks : tasks'[i] = tasks[i]
    BY <1>2, Enqueued, IdFree DEF Typed
  <2>2. tasks'[NewId].owner = NoWorker /\ tasks'[NewId].job.many = at[w].job.many
    BY <1>2, <2>1
  <2> QED
    BY <2>1, <2>2
<1> QED
  BY <1>1, <1>2

(* Nothing is queued before and no worker is ahead after: at most one task *)
(* is queued.                                                              *)
LEMMA HandsOn ==
  ASSUME Typed, OneRecon, Narrow', NEW w \in Workers, Ahead(w), ~Ahead(w)',
         at'[w].step \notin {"expand", "fan", "claim", "mark"},
         \A v \in Workers : v # w => at'[v] = at[v],
         todo' = todo, plans'.begun = plans.begun,
         \/ tasks' = tasks
         \/ \E n : /\ DOMAIN tasks' = DOMAIN tasks \union {n}
                   /\ ~tasks'[n].job.many
                   /\ \A i \in DOMAIN tasks \ {n} : tasks'[i] = tasks[i]
  PROVE  OneRecon'
<1>1. /\ todo = <<>> /\ plans.begun = 0 /\ \A i \in DOMAIN tasks : ~Waiting(i)
      /\ \A v \in Workers : Ahead(v) => v = w
  BY DEF OneRecon
<1>2. \A v \in Workers : ~Ahead(v)'
  BY <1>1 DEF Ahead
<1>3. Unshared'
  BY DEF OneRecon, Unshared
<1>4. /\ \A i \in DOMAIN tasks' : ~tasks'[i].job.many
      /\ \A i, j \in DOMAIN tasks' : tasks'[i].owner = NoWorker /\ tasks'[j].owner = NoWorker => i = j
  <2>1. \A i \in DOMAIN tasks : ~tasks[i].job.many /\ tasks[i].owner # NoWorker
    BY <1>1 DEF OneRecon, Waiting
  <2>2. CASE tasks' = tasks
    BY <2>1, <2>2
  <2>3. ASSUME NEW n, DOMAIN tasks' = DOMAIN tasks \union {n}, ~tasks'[n].job.many,
               \A i \in DOMAIN tasks \ {n} : tasks'[i] = tasks[i]
        PROVE  /\ \A i \in DOMAIN tasks' : ~tasks'[i].job.many
               /\ \A i, j \in DOMAIN tasks' :
                    tasks'[i].owner = NoWorker /\ tasks'[j].owner = NoWorker => i = j
    <3>1. \A i \in DOMAIN tasks' : i = n \/ (i \in DOMAIN tasks \ {n} /\ tasks'[i] = tasks[i])
      BY <2>3
    <3> QED
      BY <2>1, <2>3, <3>1
  <2> QED
    BY <2>2, <2>3
<1> QED
  BY <1>1, <1>2, <1>3, <1>4 DEF OneRecon, Waiting

(* No task is queued, no worker gets ahead.                                *)
LEMMA StaysOne ==
  ASSUME Typed, OneRecon, Unshared', Narrow', todo' = todo, plans'.begun = plans.begun,
         \A v \in Workers : Ahead(v)' => Ahead(v),
         DOMAIN tasks' \subseteq DOMAIN tasks,
         \A i \in DOMAIN tasks' : /\ tasks'[i].owner = tasks[i].owner
                                  /\ tasks'[i].job.many = tasks[i].job.many
  PROVE  OneRecon'
<1>1. \A i \in DOMAIN tasks' : Waiting(i)' => i \in DOMAIN tasks /\ Waiting(i)
  BY DEF Waiting
<1>2. \A i \in DOMAIN tasks' : ~tasks'[i].job.many
  BY DEF OneRecon
<1>3. \A i \in DOMAIN tasks' : Waiting(i)' =>
        /\ todo = <<>> /\ plans.begun = 0
        /\ \A j \in DOMAIN tasks' : Waiting(j)' => j = i
  BY <1>1 DEF OneRecon
<1>4. \A w \in Workers : Ahead(w)' =>
       /\ todo = <<>> /\ plans.begun = 0
       /\ \A i \in DOMAIN tasks' : ~Waiting(i)'
       /\ \A v \in Workers : Ahead(v)' => v = w
  BY <1>1 DEF OneRecon
<1> QED
  BY <1>2, <1>3, <1>4 DEF OneRecon

LEMMA OneMade ==
  ASSUME Typed, OneRecon, Narrow', EnqueueSibling
  PROVE  OneRecon'
<1>1. /\ Len(todo) = 1 /\ plans.begun = 0 /\ todo \in Seq(Agents) /\ todo # <<>>
      /\ todo' = Tail(todo) /\ Enqueue(Job(Head(todo), FALSE)) /\ at' = at /\ plans' = plans
  BY DEF EnqueueSibling, OneRecon, Typed, TypeOK
<1>2. todo' = <<>>
  <2>1. Tail(todo) \in Seq(Agents) /\ Len(Tail(todo)) = 0
    BY <1>1, HeadTailProperties
  <2> QED
    BY <1>1, <2>1, EmptySeq
<1>3. PICK n : /\ n \notin DOMAIN tasks /\ DOMAIN tasks' = DOMAIN tasks \union {n}
               /\ ~tasks'[n].job.many /\ tasks'[n].owner = NoWorker
               /\ \A i \in DOMAIN tasks : tasks'[i] = tasks[i]
  <2> DEFINE job == Job(Head(todo), FALSE)
  <2>1. job \in Jobs /\ ~job.many
    BY <1>1, JobTyped, HeadTail DEF Typed, Job
  <2> HIDE DEF job
  <2>2. Enqueue(job)
    BY <1>1 DEF job
  <2>3. /\ NewId \notin DOMAIN tasks /\ DOMAIN tasks' = DOMAIN tasks \union {NewId}
        /\ tasks'[NewId] = [job |-> job, owner |-> NoWorker]
        /\ \A i \in DOMAIN tasks : tasks'[i] = tasks[i]
    BY <2>1, <2>2, Enqueued, IdFree DEF Typed
  <2>4. ~tasks'[NewId].job.many /\ tasks'[NewId].owner = NoWorker
    BY <2>1, <2>3
  <2> QED
    BY <2>3, <2>4
<1>4. (\A i \in DOMAIN tasks : tasks[i].owner # NoWorker) /\ \A w \in Workers : ~Ahead(w)
  BY <1>1 DEF OneRecon, Waiting
<1>5. \A w \in Workers : ~Ahead(w)'
  BY <1>1, <1>4 DEF Ahead
<1>6. \A i \in DOMAIN tasks' : ~tasks'[i].job.many /\ (tasks'[i].owner = NoWorker => i = n)
  BY <1>3, <1>4 DEF OneRecon
<1> QED
  BY <1>1, <1>2, <1>5, <1>6 DEF OneRecon, Unshared, Waiting

LEMMA OneLeased ==
  ASSUME Typed, OneRecon, Narrow', NEW w \in Workers, NEW i \in DOMAIN tasks, Lease(w, i)
  PROVE  OneRecon'
<1>1. /\ tasks[i].owner = NoWorker /\ todo = <<>> /\ plans.begun = 0
      /\ \A j \in DOMAIN tasks : tasks[j].owner = NoWorker => j = i
      /\ \A v \in Workers : ~Ahead(v)
  BY DEF Lease, Owner, OneRecon, Waiting
<1>2. /\ at'[w].step = "agent" /\ \A v \in Workers : v # w => at'[v] = at[v]
  BY Begins, OthersStay DEF OneRecon, Acts
<1>3. /\ DOMAIN tasks' = DOMAIN tasks /\ tasks'[i].owner = w /\ tasks'[i].job = tasks[i].job
      /\ \A j \in DOMAIN tasks \ {i} : tasks'[j] = tasks[j]
  BY Owned DEF Lease, Typed
<1>4. w # NoWorker
  BY NamesAssumption
<1>5. \A j \in DOMAIN tasks' : tasks'[j].owner # NoWorker /\ ~tasks'[j].job.many
  BY <1>1, <1>3, <1>4 DEF OneRecon
<1>6. \A v \in Workers : Ahead(v)' => v = w
  BY <1>1, <1>2 DEF Ahead
<1>7. Unshared'
  BY <1>2 DEF OneRecon, Unshared
<1>8. todo' = todo /\ plans' = plans
  BY DEF Lease
<1> QED
  BY <1>1, <1>5, <1>6, <1>7, <1>8 DEF OneRecon, Waiting

LEMMA OneMore ==
  ASSUME Typed, OneRecon, NEW w \in Workers, Continued(w) \/ Fails(w) \/ MaybeAutoRetry(w)
  PROVE  \/ tasks' = tasks
         \/ \E n : /\ DOMAIN tasks' = DOMAIN tasks \union {n}
                   /\ ~tasks'[n].job.many
                   /\ \A i \in DOMAIN tasks \ {n} : tasks'[i] = tasks[i]
<1>1. ~at[w].job.many
  BY DEF OneRecon, Narrow
<1>2. ASSUME NEW n, DOMAIN tasks' = DOMAIN tasks \union {n}, tasks'[n].job.many = at[w].job.many,
             \A i \in DOMAIN tasks : tasks'[i] = tasks[i]
      PROVE  \E m : /\ DOMAIN tasks' = DOMAIN tasks \union {m}
                    /\ ~tasks'[m].job.many
                    /\ \A i \in DOMAIN tasks \ {m} : tasks'[i] = tasks[i]
  <2>1. ~tasks'[n].job.many
    BY <1>1, <1>2
  <2>2. \A i \in DOMAIN tasks \ {n} : tasks'[i] = tasks[i]
    BY <1>2
  <2> QED
    BY <1>2, <2>1, <2>2
<1> QED
  BY <1>2, MoreTasks

(* Only a task for several agents makes a worker hold one.                 *)
LEMMA NarrowStep ==
  ASSUME Typed, OneRecon, [Next]_vars
  PROVE  Narrow'
<1> SUFFICES ASSUME NEW w \in Workers
             PROVE  ~at'[w].job.many
  BY DEF Narrow
<1>1. at[w] \in Seats /\ Free \in Seats /\ ~Free.job.many /\ ~at[w].job.many
  <2>1. ~Free.job.many
    BY DEF Free, Job
  <2> QED
    BY <2>1, SeatFields, FreeSeat DEF Typed, OneRecon, Narrow
<1>2. \A s : Become(w, s) => at'[w] = s
  BY DEF Become, Typed, TypeOK
<1>3. CASE ~Acts(w)
  BY <1>1, <1>3, SeatKept
<1>4. ASSUME NEW i \in DOMAIN tasks, Lease(w, i)
      PROVE  ~at'[w].job.many
  <2>1. tasks[i].job \in Jobs /\ ~tasks[i].job.many
    BY DEF Typed, TypeOK, OneRecon
  <2>2. at'[w] = [Free EXCEPT !.step = IF tasks[i].job.many THEN "expand" ELSE "agent",
                              !.id = i, !.job = [tasks[i].job EXCEPT !.from = 0]]
    BY <1>2, <1>4 DEF Lease
  <2>3. at'[w].job = [tasks[i].job EXCEPT !.from = 0]
    BY <1>1, <2>2 DEF Seats
  <2> QED
    BY <2>1, <2>3 DEF Jobs
<1>5. CASE Infra(w) \/ Crash(w) \/ End(w)
  BY <1>1, <1>5, Begins
<1>6. CASE Expand(w) \/ FanOut(w)
  BY <1>6 DEF Expand, FanOut, OneRecon, Unshared
<1>7. CASE Continued(w) \/ Fails(w) \/ Submits(w) \/ StoreMerged(w) \/ Look(w)
  <2>1. at'[w].job = at[w].job
    BY <1>1, <1>2, <1>7 DEF Continued, Fails, Submits, StoreMerged, Look, Goto, Seats
  <2> QED
    BY <1>1, <2>1
<1>8. CASE Claim(w) \/ Mark(w)
  BY <1>8 DEF Claim, Mark, OneRecon, Unshared
<1>9. CASE PlanHunts(w) \/ EnqueueHunt(w)
  <2>1. at'[w].job = at[w].job \/ at'[w].job = Free.job
    <3>1. CASE PlanHunts(w)
      <4>1. \/ \E plan, n : at'[w] = [at[w] EXCEPT !.step = "hunts", !.read = map, !.plan = plan,
                                                   !.left = n]
            \/ \E step : at'[w] = [at[w] EXCEPT !.step = step]
        BY <1>2, <3>1 DEF PlanHunts, Goto
      <4> QED
        BY <1>1, <4>1 DEF Seats
    <3>2. CASE EnqueueHunt(w)
      <4>1. \/ at'[w] = [Free EXCEPT !.step = "ended", !.id = at[w].id]
            \/ at'[w] = [at[w] EXCEPT !.left = @ - 1]
        BY <1>2, <3>2 DEF EnqueueHunt
      <4> QED
        BY <1>1, <4>1 DEF Seats
    <3> QED
      BY <1>9, <3>1, <3>2
  <2> QED
    BY <1>1, <2>1
<1> QED
  BY <1>3, <1>4, <1>5, <1>6, <1>7, <1>8, <1>9 DEF Acts, Work

LEMMA OneStep ==
  ASSUME Typed, ~Batch, ~past.crash /\ ~past.twin => OneRecon, [Next]_vars,
         ~past'.crash, ~past'.twin
  PROVE  OneRecon'
<1>1. OneRecon /\ Narrow'
  BY PastGrows, NarrowStep
<1>2. \A w \in Workers : ~Crash(w) /\ ~Expire(w)
  BY PastGrows
<1>3. ASSUME todo' = todo, tasks' = tasks, at' = at, plans' = plans
      PROVE  OneRecon'
  BY <1>1, <1>3 DEF OneRecon, Unshared, Waiting, Ahead
<1>4. ASSUME NEW i \in DOMAIN tasks, Cancel(i)
      PROVE  OneRecon'
  <2>1. /\ DOMAIN tasks' \subseteq DOMAIN tasks
        /\ \A j \in DOMAIN tasks' : /\ tasks'[j].owner = tasks[j].owner
                                    /\ tasks'[j].job.many = tasks[j].job.many
    BY <1>4, Dropped DEF Cancel, Typed
  <2> QED
    BY <1>1, <1>4, <2>1, StaysOne DEF Cancel, OneRecon, Unshared, Ahead
<1>5. ASSUME NEW w \in Workers, Acts(w)
      PROVE  OneRecon'
  <2>1. /\ \A v \in Workers : v # w => at'[v] = at[v]
        /\ at[w].step \notin {"expand", "fan", "claim", "mark"}
    BY <1>1, <1>5, OthersStay DEF OneRecon, Unshared
  <2>2. ~Expand(w) /\ ~FanOut(w) /\ ~Claim(w) /\ ~Mark(w) /\ ~Crash(w)
    BY <1>2, <2>1 DEF Expand, FanOut, Claim, Mark
  <2>3. ASSUME NEW i \in DOMAIN tasks, Lease(w, i)
        PROVE  OneRecon'
    BY <1>1, <2>3, OneLeased
  <2>4. CASE Continued(w) \/ Fails(w)
    <3>1. /\ at[w].step = "agent" /\ todo' = todo /\ plans' = plans
          /\ at'[w].step = "failed"
      BY <2>4, Reads DEF Continued, Fails
    <3>2. Ahead(w) /\ ~Ahead(w)'
      BY <3>1 DEF Ahead
    <3>3. \/ tasks' = tasks
          \/ \E n : /\ DOMAIN tasks' = DOMAIN tasks \union {n}
                    /\ ~tasks'[n].job.many
                    /\ \A i \in DOMAIN tasks \ {n} : tasks'[i] = tasks[i]
      BY <1>1, <2>4, OneMore
    <3> QED
      BY <1>1, <2>1, <3>1, <3>2, <3>3, HandsOn
  <2>5. CASE Submits(w) \/ StoreMerged(w) \/ Look(w)
    <3>1. /\ Ahead(w) /\ todo' = todo /\ plans' = plans /\ tasks' = tasks
          /\ at'[w].step \in {"merge", "look", "plan"}
      BY <2>5, Reads DEF Submits, StoreMerged, Look, Ahead
    <3>2. \A v \in Workers : Ahead(v)' => Ahead(v)
      BY <2>1, <3>1 DEF Ahead
    <3>3. Unshared'
      BY <1>1, <2>1, <3>1 DEF OneRecon, Unshared
    <3> QED
      BY <1>1, <3>1, <3>2, <3>3, StaysOne
  <2>6. CASE PlanHunts(w)
    <3>1. Ahead(w) /\ plans.begun = 0
      BY <1>1, <2>6 DEF PlanHunts, Ahead, OneRecon
    <3>2. CASE plans'.begun = plans.begun + 1
      <4>1. at'[w].step = "hunts" /\ tasks' = tasks /\ todo' = todo
        <5>1. plans' # plans
          BY <3>1, <3>2
        <5>2. at'[w].step = "hunts" /\ tasks' = tasks
          BY <2>6, <5>1, PlanBegins
        <5>3. todo' = todo
          BY <2>6 DEF PlanHunts
        <5> QED
          BY <5>2, <5>3
      <4>2. \A v \in Workers : ~Ahead(v)'
        BY <1>1, <2>1, <3>1, <4>1 DEF OneRecon, Ahead
      <4>3. Unshared'
        BY <1>1, <2>1, <4>1 DEF OneRecon, Unshared
      <4> QED
        BY <1>1, <3>1, <3>2, <4>1, <4>2, <4>3 DEF OneRecon, Waiting
    <3>3. CASE plans'.begun # plans.begun + 1
      <4>1. /\ at'[w].step = "failed" /\ plans' = plans /\ MaybeAutoRetry(w) /\ todo' = todo
        BY <2>6, <3>3, PlanBegins DEF PlanHunts
      <4>2. ~Ahead(w)'
        BY <4>1 DEF Ahead
      <4>3. \/ tasks' = tasks
            \/ \E n : /\ DOMAIN tasks' = DOMAIN tasks \union {n}
                      /\ ~tasks'[n].job.many
                      /\ \A i \in DOMAIN tasks \ {n} : tasks'[i] = tasks[i]
        BY <1>1, <4>1, OneMore
      <4> QED
        BY <1>1, <2>1, <3>1, <4>1, <4>2, <4>3, HandsOn
    <3> QED
      BY <3>2, <3>3
  <2>7. CASE EnqueueHunt(w) \/ End(w)
    <3>1. /\ todo' = todo /\ plans'.begun = plans.begun
          /\ at'[w].step \in {"hunts", "ended", "idle"}
      <4>1. CASE EnqueueHunt(w)
        <5>1. at'[w].step \in {"hunts", "ended"}
          BY <4>1, Plans
        <5>2. plans' = [plans EXCEPT !.whole = IF at[w].left = 1 THEN @ + 1 ELSE @]
          BY <4>1 DEF EnqueueHunt
        <5> QED
          BY <4>1, <5>1, <5>2, PastTyped DEF EnqueueHunt, Typed
      <4>2. CASE End(w)
        BY <4>2, Begins, FreeSeat DEF End, Typed
      <4> QED
        BY <2>7, <4>1, <4>2
    <3>2. /\ DOMAIN tasks' \subseteq DOMAIN tasks
          /\ \A j \in DOMAIN tasks' : /\ tasks'[j].owner = tasks[j].owner
                                      /\ tasks'[j].job.many = tasks[j].job.many
      <4>1. tasks' = tasks \/ \E i \in DOMAIN tasks : tasks' = Without(i)
        BY <2>7 DEF EnqueueHunt, End
      <4> QED
        BY <4>1, Dropped DEF Typed
    <3>3. \A v \in Workers : Ahead(v)' => Ahead(v)
      BY <2>1, <3>1 DEF Ahead
    <3>4. Unshared'
      BY <1>1, <2>1, <3>1 DEF OneRecon, Unshared
    <3> QED
      BY <1>1, <3>1, <3>2, <3>3, <3>4, StaysOne
  <2>8. CASE Infra(w)
    <3>1. /\ at[w].step = "agent" /\ at'[w].step = "idle" /\ todo' = todo /\ plans' = plans
          /\ at[w].id \in DOMAIN tasks /\ tasks' = [tasks EXCEPT ![at[w].id].owner = NoWorker]
      BY <2>8, Begins, FreeSeat DEF Infra, Typed, Requeued
    <3>2. /\ DOMAIN tasks' = DOMAIN tasks /\ tasks'[at[w].id].job = tasks[at[w].id].job
          /\ \A j \in DOMAIN tasks \ {at[w].id} : tasks'[j] = tasks[j]
      BY <3>1, Owned DEF Typed
    <3>3. Ahead(w) /\ ~Ahead(w)' /\ ~tasks'[at[w].id].job.many
      BY <1>1, <3>1, <3>2 DEF Ahead, OneRecon
    <3>4. DOMAIN tasks' = DOMAIN tasks \union {at[w].id}
      BY <3>1, <3>2
    <3> QED
      BY <1>1, <2>1, <3>1, <3>2, <3>3, <3>4, HandsOn
  <2> QED
    BY <1>5, <2>2, <2>3, <2>4, <2>5, <2>6, <2>7, <2>8 DEF Acts, Work
<1>6. CASE OpenEditor \/ SaveEditor \/ (\E m \in revisions : RestoreRevision(m)) \/ UNCHANGED vars
  BY <1>3, <1>6 DEF OpenEditor, SaveEditor, RestoreRevision, vars
<1>7. CASE EnqueueSibling
  BY <1>1, <1>7, OneMade
<1> QED
  BY <1>2, <1>4, <1>5, <1>6, <1>7, WhoActs DEF Others

-----------------------------------------------------------------------------
(* With one worker at a time the hunts follow.                             *)
LEMMA WholeGrows ==
  ASSUME Typed, [Next]_vars
  PROVE  /\ plans.whole > 0 => plans'.whole > 0
         /\ \A w \in Workers : EnqueueHunt(w) /\ at[w].left = 1 => plans'.whole > 0
<1>1. plans \in [begun : Nat, whole : Nat]
  BY PastTyped DEF Typed
<1>2. ASSUME NEW w \in Workers, EnqueueHunt(w)
      PROVE  (plans.whole > 0 \/ at[w].left = 1) => plans'.whole > 0
  <2>1. plans' = [plans EXCEPT !.whole = IF at[w].left = 1 THEN @ + 1 ELSE @]
    BY <1>2 DEF EnqueueHunt
  <2> QED
    BY <1>1, <2>1
<1>3. ASSUME NEW w \in Workers, PlanHunts(w)
      PROVE  plans'.whole = plans.whole
  BY <1>3, PlanBegins
<1>4. CASE \A w \in Workers : ~PlanHunts(w) /\ ~EnqueueHunt(w)
  <2>1. plans' = plans
    BY <1>4 DEF Next, vars, Leasing, EnqueueSibling, Lease, Work, Expand, FanOut, Continued,
                Fails, Submits, StoreMerged, Look, Claim, Mark, End, OpenEditor, SaveEditor,
                RestoreRevision, Cancel, Infra, Crash, Expire
  <2> QED
    BY <1>4, <2>1
<1> QED
  BY <1>2, <1>3, <1>4

LEMMA TasksGrow ==
  ASSUME Typed, [Next]_vars, \A w \in Workers : ~End(w), \A i \in DOMAIN tasks : ~Cancel(i)
  PROVE  DOMAIN tasks \subseteq DOMAIN tasks' /\ past'.ok = past.ok
<1>1. DOMAIN tasks \subseteq DOMAIN tasks'
  <2>1. \A job : Enqueue(job) => DOMAIN tasks \subseteq DOMAIN tasks'
    BY DEF Enqueue
  <2>2. \A w \in Workers : MaybeAutoRetry(w) \/ EnqueueContinuation(w) =>
          DOMAIN tasks \subseteq DOMAIN tasks'
    BY <2>1 DEF MaybeAutoRetry, EnqueueContinuation
  <2>3. \A w \in Workers : Expand(w) \/ FanOut(w) \/ Continued(w) \/ Fails(w) =>
          DOMAIN tasks \subseteq DOMAIN tasks'
    BY <2>1, <2>2 DEF Expand, FanOut, Continued, Fails
  <2>4. ASSUME NEW w \in Workers,
               \/ Submits(w) \/ StoreMerged(w) \/ Look(w) \/ Claim(w) \/ Mark(w)
               \/ EnqueueHunt(w) \/ Infra(w) \/ Crash(w) \/ Expire(w)
        PROVE  DOMAIN tasks \subseteq DOMAIN tasks'
    BY <2>4 DEF Submits, StoreMerged, Look, Claim, Mark, EnqueueHunt, Infra, Crash, Expire,
                Requeued
  <2>5. \A w \in Workers : PlanHunts(w) => DOMAIN tasks \subseteq DOMAIN tasks'
    BY <2>2, PlanBegins
  <2>6. \A w \in Workers, i \in DOMAIN tasks : Lease(w, i) => DOMAIN tasks \subseteq DOMAIN tasks'
    BY DEF Lease
  <2>7. EnqueueSibling => DOMAIN tasks \subseteq DOMAIN tasks'
    BY <2>1 DEF EnqueueSibling
  <2>8. OpenEditor \/ SaveEditor \/ (\E m \in revisions : RestoreRevision(m)) \/ UNCHANGED vars =>
          DOMAIN tasks \subseteq DOMAIN tasks'
    BY DEF OpenEditor, SaveEditor, RestoreRevision, vars
  <2> QED
    BY <2>3, <2>4, <2>5, <2>6, <2>7, <2>8 DEF Next, Leasing, Work
<1>2. past \in Pasts
  BY PastTyped DEF Typed
<1>3. ASSUME NEW w \in Workers, StoreMerged(w) \/ Mark(w) \/ Crash(w) \/ Expire(w)
      PROVE  past'.ok = past.ok
  BY <1>2, <1>3, StoreTyped DEF Mark, Write, Crash, Expire, Pasts
<1>4. ASSUME SaveEditor \/ \E m \in revisions : RestoreRevision(m)
      PROVE  past'.ok = past.ok
  BY <1>2, <1>4 DEF SaveEditor, RestoreRevision, Write, Pasts
<1>5. ASSUME \/ \E w \in Workers : \/ Expand(w) \/ FanOut(w) \/ Continued(w) \/ Fails(w)
                                   \/ Submits(w) \/ Look(w) \/ Claim(w) \/ PlanHunts(w)
                                   \/ EnqueueHunt(w) \/ Infra(w)
             \/ EnqueueSibling \/ Leasing \/ OpenEditor \/ UNCHANGED vars
      PROVE  past'.ok = past.ok
  BY <1>5 DEF vars, Leasing, EnqueueSibling, Lease, Expand, FanOut, Continued, Fails, Submits,
              Look, Claim, PlanHunts, EnqueueHunt, OpenEditor, Infra
<1> QED
  BY <1>1, <1>3, <1>4, <1>5 DEF Next, Work

(* Nobody starts unless everybody is idle.                                 *)
LEMMA LeaseAlone ==
  ASSUME Typed, cfg.workers = 1, NEW w \in Workers, NEW i \in DOMAIN tasks, Lease(w, i)
  PROVE  \A v \in Workers : ~Busy(v)
<1> DEFINE busy == {v \in Workers : at[v].step # "idle"}
<1>1. IsFiniteSet(busy)
  BY NamesAssumption, FS_Subset
<1>2. Cardinality(busy) < 1
  BY DEF Lease
<1> HIDE DEF busy
<1>3. busy = {}
  BY <1>1, <1>2, FS_CardinalityType, FS_EmptySet
<1> QED
  BY <1>3 DEF busy, Busy

LEMMA BusyActs ==
  ASSUME Typed, NEW w \in Workers, Acts(w)
  PROVE  Busy(w) \/ \E i \in DOMAIN tasks : Lease(w, i)
BY DEF Acts, Work, Busy, Expand, FanOut, Continued, Fails, Submits, StoreMerged, Look, Claim,
       Mark, PlanHunts, EnqueueHunt, End, Infra, Crash

LEMMA OneBusy ==
  ASSUME Typed, Followed, cfg.workers = 1, [Next]_vars
  PROVE  \A v, w \in Workers : Busy(v)' /\ Busy(w)' => v = w
<1>1. ASSUME NEW w \in Workers, Busy(w)', ~Busy(w)
      PROVE  \E i \in DOMAIN tasks : Lease(w, i)
  <2>1. Acts(w)
    BY <1>1, SeatKept DEF Busy
  <2> QED
    BY <1>1, <2>1, BusyActs
<1>2. ASSUME NEW w \in Workers, NEW i \in DOMAIN tasks, Lease(w, i)
      PROVE  \A v \in Workers : Busy(v)' => v = w
  <2>1. \A v \in Workers : ~Busy(v)
    BY <1>2, LeaseAlone
  <2>2. \A v \in Workers : v # w => at'[v] = at[v]
    BY <1>2, OthersStay DEF Acts
  <2> QED
    BY <2>1, <2>2 DEF Busy
<1>3. CASE \E w \in Workers, i \in DOMAIN tasks : Lease(w, i)
  BY <1>2, <1>3
<1>4. CASE \A w \in Workers, i \in DOMAIN tasks : ~Lease(w, i)
  <2>1. \A w \in Workers : Busy(w)' => Busy(w)
    BY <1>1, <1>4
  <2> QED
    BY <2>1 DEF Followed
<1> QED
  BY <1>3, <1>4

LEMMA PlannedStays ==
  ASSUME Typed, PartsKept, Planned, cfg.allowed # <<>>, ~past'.crash, [Next]_vars
  PROVE  Planned'
<1>1. CASE plans.whole > 0
  BY <1>1, WholeGrows DEF Planned
<1>2. ASSUME NEW w \in Workers, at[w].step \in {"plan", "hunts"}
      PROVE  Planned'
  <2>1. CASE ~Acts(w)
    BY <1>2, <2>1, SeatKept DEF Planned
  <2>2. CASE PlanHunts(w)
    <3>1. map.parts # <<>> /\ map \in Maps
      BY <2>2, MapsTyped DEF PlanHunts, PartsKept, Typed
    <3>2. DiversifyClip(OfferOf(map), MaxTasks) # <<>>
      BY <3>1, PlanTyped DEF Typed
    <3>3. at'[w].step = "hunts"
      BY <2>2, <3>2, PlanBegins
    <3> QED
      BY <3>3 DEF Planned
  <2>3. CASE EnqueueHunt(w)
    <3>1. CASE at[w].left = 1
      BY <2>3, <3>1, WholeGrows DEF Planned
    <3>2. CASE at[w].left # 1
      <4>1. at'[w].step = "hunts"
        BY <2>3, <3>2, Plans
      <4> QED
        BY <4>1 DEF Planned
    <3> QED
      BY <3>1, <3>2
  <2>4. ~Crash(w)
    BY PastGrows
  <2>5. Acts(w) => PlanHunts(w) \/ EnqueueHunt(w)
    BY <1>2, <2>4 DEF Acts, Work, Expand, FanOut, Continued, Fails, Submits, StoreMerged, Look,
                      Claim, Mark, End, Infra, Lease
  <2> QED
    BY <2>1, <2>2, <2>3, <2>5
<1> QED
  BY <1>1, <1>2 DEF Planned

LEMMA MarkedFrom ==
  ASSUME Typed, [Next]_vars, Marked', \A w \in Workers : ~Mark(w)
  PROVE  Marked
<1> DEFINE This(m) == "this" \in m.marks
<1>1. This(map) \/ This(page) \/ (\E m \in revisions : This(m)) => Marked
  BY DEF Marked
<1>2. (\E w \in Workers : This(at[w].read)) => Marked
  BY DEF Marked
<1>3. This(map') => Marked
  <2>1. CASE ~Writes
    BY <1>1, <2>1, MapStill
  <2>2. ASSUME NEW w \in Workers, StoreMerged(w)
        PROVE  This(map') => Marked
    <3>1. map'.marks = at[w].read.marks
      BY <2>2, StoreTyped
    <3> QED
      BY <1>2, <3>1
  <2>3. CASE SaveEditor
    <3>1. map'.marks = IF page.marks = {} THEN map.marks ELSE page.marks
      BY <2>3, SaveWrites, EditTyped DEF Typed
    <3> QED
      BY <1>1, <3>1
  <2>4. ASSUME NEW m \in revisions, RestoreRevision(m)
        PROVE  This(map') => Marked
    <3>1. map' = m
      BY <2>4, RestoreWrites
    <3> QED
      BY <1>1, <3>1
  <2> QED
    BY <2>1, <2>2, <2>3, <2>4 DEF Writes
<1>4. (\E m \in revisions' : This(m)) => Marked
  <2>1. revisions' = revisions \/ revisions' = Recorded
    BY MapStill, StoreWrites, SaveWrites, RestoreWrites DEF Writes
  <2> QED
    BY <1>1, <2>1 DEF Recorded
<1>5. This(page') => Marked
  <2>1. page' = page \/ page' = map
    BY DEF Next, vars, Leasing, EnqueueSibling, Lease, Work, Expand, FanOut, Continued,
           Fails, Submits, StoreMerged, Look, Claim, Mark, PlanHunts, EnqueueHunt, End,
           OpenEditor, SaveEditor, RestoreRevision, Cancel, Infra, Crash, Expire
  <2> QED
    BY <1>1, <2>1
<1>6. ASSUME NEW w \in Workers, This(at'[w].read)
      PROVE  Marked
  <2>1. at'[w].read = at[w].read \/ at'[w].read = map \/ at'[w].read = NoMap
    <3>1. CASE ~Acts(w)
      BY <3>1, SeatKept
    <3>2. CASE PlanHunts(w)
      BY <3>2, PlanBegins
    <3>3. CASE Acts(w) /\ ~PlanHunts(w)
      BY <3>3, Begins, Reads, Plans, FreeSeat DEF Acts, Work, Typed
    <3> QED
      BY <3>1, <3>2, <3>3
  <2>2. NoMap.marks = {}
    BY DEF NoMap
  <2> QED
    BY <1>1, <1>2, <1>6, <2>1, <2>2
<1>7. (\E m \in {map', page'} \union revisions' : This(m)) \/ \E w \in Workers : This(at'[w].read)
  BY DEF Marked
<1> HIDE DEF This
<1> QED
  BY <1>3, <1>4, <1>5, <1>6, <1>7

(* A worker that ends well leaves the hunts, or another task.              *)
Left(w) == at[w].step = "ended" => plans.whole > 0 \/ \E i \in DOMAIN tasks : i # at[w].id

LEMMA LeftStep ==
  ASSUME Typed, PartsKept, Followed, cfg.workers = 1, cfg.allowed # <<>>,
         [Next]_vars, ~past'.crash, ~past'.cut, NEW w \in Workers
  PROVE  Left(w)'
<1> SUFFICES ASSUME at'[w].step = "ended"
             PROVE  plans'.whole > 0 \/ \E i \in DOMAIN tasks' : i # at'[w].id
  BY DEF Left
<1>1. CASE ~Acts(w)
  <2>1. at'[w] = at[w] /\ Busy(w)
    BY <1>1, SeatKept DEF Busy
  <2>2. plans.whole > 0 \/ \E i \in DOMAIN tasks : i # at[w].id
    BY <2>1 DEF Followed
  <2>3. \A v \in Workers : ~End(v)
    <3> SUFFICES ASSUME NEW v \in Workers, End(v)
                 PROVE  FALSE
      OBVIOUS
    <3>1. v # w /\ Busy(v)
      BY <1>1 DEF Acts, Work, End, Busy
    <3> QED
      BY <2>1, <3>1 DEF Followed
  <2>4. DOMAIN tasks \subseteq DOMAIN tasks'
    BY <2>3, PastGrows, TasksGrow
  <2> QED
    BY <2>1, <2>2, <2>4, WholeGrows
<1>2. CASE Look(w)
  <2>1. ~(DOMAIN tasks \subseteq {at[w].id}) /\ tasks' = tasks /\ at'[w].id = at[w].id
    BY <1>2, Reads DEF Look, Ready
  <2> QED
    BY <2>1
<1>3. CASE Claim(w)
  <2>1. "this" \in map.marks /\ at[w].step = "claim" /\ Busy(w)
    BY <1>3, Plans DEF Claim, Busy
  <2>2. Planned
    BY <2>1 DEF Followed, Marked
  <2>3. \A v \in Workers : at[v].step \notin {"plan", "hunts"}
    BY <2>1 DEF Followed, Busy
  <2>4. plans.whole > 0
    BY <2>2, <2>3 DEF Planned
  <2> QED
    BY <2>4, WholeGrows
<1>4. CASE PlanHunts(w)
  <2>1. map.parts # <<>> /\ map \in Maps
    BY <1>4, MapsTyped DEF PlanHunts, PartsKept, Typed
  <2>2. at'[w].step = "hunts"
    BY <1>4, <2>1, PlanTyped, PlanBegins DEF Typed
  <2> QED
    BY <2>2
<1>5. CASE EnqueueHunt(w)
  <2>1. at[w].left = 1
    BY <1>5, Plans
  <2> QED
    BY <1>5, <2>1, WholeGrows
<1>6. CASE Acts(w) /\ ~Look(w) /\ ~Claim(w) /\ ~PlanHunts(w) /\ ~EnqueueHunt(w)
  <2>1. at'[w].step # "ended"
    BY <1>6, Begins, Reads, Plans, FreeSeat DEF Acts, Work, Typed
  <2> QED
    BY <2>1
<1> QED
  BY <1>1, <1>2, <1>3, <1>4, <1>5, <1>6

LEMMA IdleStep ==
  ASSUME Typed, Followed, cfg.workers = 1, [Next]_vars, ~past'.crash, ~past'.cut,
         past'.ok, \A w \in Workers : ~Busy(w)'
  PROVE  plans'.whole > 0 \/ DOMAIN tasks' # {}
<1>1. CASE \A w \in Workers : ~Busy(w)
  <2>1. \A w \in Workers : ~End(w)
    BY <1>1 DEF End, Busy
  <2>2. past.ok /\ DOMAIN tasks \subseteq DOMAIN tasks'
    BY <2>1, PastGrows, TasksGrow
  <2> QED
    BY <1>1, <2>2, WholeGrows DEF Followed
<1>2. ASSUME NEW w \in Workers, Busy(w)
      PROVE  plans'.whole > 0 \/ DOMAIN tasks' # {}
  <2>1. Acts(w) /\ at'[w].step = "idle"
    BY <1>2, SeatKept DEF Busy
  <2>2. CASE End(w)
    <3>1. at[w].step = "ended"
      <4>1. past' = [past EXCEPT !.ok = at[w].step = "ended"] /\ past \in Pasts
        BY <2>2, PastTyped DEF End, Typed
      <4> QED
        BY <4>1 DEF Pasts
    <3>2. CASE plans.whole > 0
      BY <3>2, WholeGrows
    <3>3. ASSUME NEW i \in DOMAIN tasks, i # at[w].id
          PROVE  i \in DOMAIN tasks'
      BY <2>2, <3>3 DEF End, Without
    <3> QED
      BY <3>1, <3>2, <3>3 DEF Followed
  <2>3. CASE Infra(w)
    BY <2>3 DEF Infra, Requeued
  <2>4. ~Crash(w)
    BY PastGrows
  <2>5. ASSUME Acts(w), ~End(w), ~Infra(w)
        PROVE  FALSE
    <3>1. at'[w].step # "idle"
      <4>1. CASE PlanHunts(w)
        BY <4>1, PlanBegins
      <4>2. CASE ~PlanHunts(w)
        BY <2>4, <2>5, <4>2, Begins, Reads, Plans DEF Acts, Work
      <4> QED
        BY <4>1, <4>2
    <3> QED
      BY <2>1, <3>1
  <2> QED
    BY <2>1, <2>2, <2>3, <2>5
<1> QED
  BY <1>1, <1>2

LEMMA FollowStep ==
  ASSUME Typed, PartsKept, Followed, cfg.workers = 1, cfg.allowed # <<>>,
         [Next]_vars, ~past'.crash, ~past'.cut
  PROVE  Followed'
<1>1. Marked' => Planned'
  <2>1. ASSUME NEW w \in Workers, Mark(w)
        PROVE  Planned'
    <3>1. at'[w].step = "plan"
      BY <2>1, Plans
    <3> QED
      BY <3>1 DEF Planned
  <2>2. CASE \A w \in Workers : ~Mark(w)
    BY <2>2, MarkedFrom, PlannedStays DEF Followed
  <2> QED
    BY <2>1, <2>2
<1>2. \A v, w \in Workers : Busy(v)' /\ Busy(w)' => v = w
  BY OneBusy
<1>3. \A w \in Workers : Left(w)'
  BY LeftStep
<1>4. past'.ok /\ (\A w \in Workers : ~Busy(w)') => plans'.whole > 0 \/ DOMAIN tasks' # {}
  BY IdleStep
<1> QED
  BY <1>1, <1>2, <1>3, <1>4 DEF Followed, Left

-----------------------------------------------------------------------------
(* The theorems.                                                           *)
LEMMA NextInv == Inv /\ [Next]_vars => Inv'
<1> SUFFICES ASSUME Inv, [Next]_vars
             PROVE  Inv'
  OBVIOUS
<1> USE DEF Inv
<1>1. Typed' /\ Same
  BY TypedStep
<1>2. MapKeeps' /\ PartsKept' /\ Clipped'
  BY KeptStep, PartsStep, ClippedStep
<1>3. Batch' /\ ~past'.lost => ClaimedOnce'
  BY <1>1, ClaimStep DEF Same
<1>4. ~Batch' /\ ~past'.crash /\ ~past'.twin => OneRecon'
  BY <1>1, OneStep DEF Same
<1>5. (/\ cfg'.workers = 1 /\ cfg'.allowed # <<>>
       /\ ~past'.crash /\ ~past'.twin /\ ~past'.cut) => Followed'
  BY <1>1, PastGrows, FollowStep DEF Same
<1> QED
  BY <1>1, <1>2, <1>3, <1>4, <1>5

LEMMA InitInv == Init => Inv
<1> SUFFICES ASSUME Init
             PROVE  Inv
  OBVIOUS
<1>1. IsConfig(cfg)
  BY ConfigsAssumption DEF Init
<1>2. cfg.agents[1] \in Agents /\ cfg.retries \in Nat /\ cfg.continues \in Nat
  <2>1. cfg.agents \in Seq(Agents) /\ cfg.agents # <<>>
    BY <1>1 DEF IsConfig
  <2> QED
    BY <1>1, <2>1, EmptySeq DEF IsConfig
<1>3. \A many \in BOOLEAN : Job(cfg.agents[1], many) \in Jobs
  <2>1. 1 \in 1..(1 + cfg.retries) /\ 0 \in 0..cfg.continues
    BY <1>2
  <2> QED
    BY <1>2, <2>1 DEF Job, Jobs
<1>4. NoMap \in Maps /\ NoMap.marks = {} /\ NoMap.parts = <<>>
  BY DEF NoMap, Maps
<1>5. Free \in Seats /\ Free.step = "idle" /\ Free.read = NoMap
  <2>1. "idle" \in Steps /\ <<>> \in Seq(Agents) /\ <<>> \in Seq(Hunts) /\ 0 \in 0..MaxTasks
    BY CapsAssumption DEF Steps
  <2>2. Free \in Seats
    BY <1>3, <1>4, <2>1 DEF Free, Seats
  <2> QED
    BY <2>2 DEF Free
<1>6. ~Free.job.many
  BY DEF Free, Job
<1>7. /\ map \in Maps /\ "this" \notin map.marks /\ revisions = {} /\ page = NoMap
  <2>1. [parts |-> <<Operator>>, marks |-> {"earlier"}] \in Maps
    BY DEF Maps, Contributors
  <2> QED
    BY <1>4, <2>1 DEF Init
<1>8. \A w \in Workers : at[w] = Free
  BY DEF Init
<1>9. /\ plans = [begun |-> 0, whole |-> 0]
      /\ past \in Pasts /\ past.stored = {} /\ ~past.ok
  BY DEF Init, Nothing, Pasts
<1>10. IsFiniteSet(DOMAIN tasks) /\ DOMAIN tasks \subseteq Ids
       /\ \A i \in DOMAIN tasks : tasks[i] \in [job : Jobs, owner : Workers \union {NoWorker}]
  <2>1. CASE cfg.fanout
    <3>1. tasks = [i \in {1} |-> [job |-> Job(cfg.agents[1], TRUE), owner |-> NoWorker]]
      BY <2>1 DEF Init
    <3>2. IsFiniteSet({1})
      BY FS_Singleton
    <3>3. DOMAIN tasks = {1} /\ tasks[1] = [job |-> Job(cfg.agents[1], TRUE), owner |-> NoWorker]
      BY <3>1
    <3>4. Job(cfg.agents[1], TRUE) \in Jobs
      BY <1>3
    <3>5. [job |-> Job(cfg.agents[1], TRUE), owner |-> NoWorker]
            \in [job : Jobs, owner : Workers \union {NoWorker}]
      BY <3>4
    <3>6. tasks[1] \in [job : Jobs, owner : Workers \union {NoWorker}]
      BY <3>3, <3>5
    <3>7. DOMAIN tasks \subseteq Ids
      BY <3>3 DEF Ids
    <3> QED
      BY <3>2, <3>3, <3>6, <3>7
  <2>2. CASE ~cfg.fanout
    <3>1. DOMAIN tasks = {}
      BY <2>2 DEF Init
    <3> QED
      BY <3>1, FS_EmptySet
  <2> QED
    BY <2>1, <2>2
<1>11. todo \in Seq(Agents)
  <2>1. cfg.agents \in Seq(Agents) /\ <<>> \in Seq(Agents)
    BY <1>1 DEF IsConfig
  <2>2. todo = <<>> \/ todo = cfg.agents
    BY DEF Init
  <2> QED
    BY <2>1, <2>2
<1>12. Typed
  <2>1. at \in [Workers -> Seats]
    BY <1>5 DEF Init
  <2>2. {map, page} \union revisions \subseteq Maps
    BY <1>4, <1>7
  <2>3. plans \in [begun : Nat, whole : Nat]
    BY <1>9
  <2>4. TypeOK
    BY <1>1, <1>9, <1>10, <1>11, <2>1, <2>2, <2>3 DEF TypeOK, Pasts
  <2> QED
    BY <1>5, <1>8, <2>4 DEF Typed
<1>13. MapKeeps /\ PartsKept /\ Clipped
  BY <1>5, <1>7, <1>8, <1>9 DEF MapKeeps, PartsKept, Clipped
<1>14. ClaimedOnce
  BY <1>5, <1>8, <1>9 DEF ClaimedOnce, Planning
<1>15. ~Batch => OneRecon
  <2> SUFFICES ASSUME ~Batch
               PROVE  OneRecon
    OBVIOUS
  <2> DEFINE names == cfg.agents
  <2>a. names \in Seq(Agents) /\ names # <<>> /\ ~(Len(names) > 1)
    BY <1>1 DEF Batch, IsConfig
  <2>1. Len(cfg.agents) \in Nat /\ ~(Len(cfg.agents) > 1) /\ cfg.agents # <<>>
    BY <2>a
  <2>2. Len(cfg.agents) = 1
    <3> HIDE DEF names
    <3>1. Len(names) # 0
      BY <2>a, EmptySeq
    <3>2. Len(names) \in Nat
      BY <2>a
    <3>3. Len(names) = 1
      <4> DEFINE n == Len(names)
      <4>1. n \in Nat /\ n # 0 /\ ~(n > 1)
        BY <2>a, <3>1, <3>2
      <4> HIDE DEF n
      <4>2. n = 1
        BY <4>1
      <4> QED
        BY <4>2 DEF n
    <3> QED
      BY <3>3 DEF names
  <2>3. ~cfg.fanout
    BY <1>1, <2>1 DEF IsConfig
  <2>4. todo = cfg.agents /\ DOMAIN tasks = {}
    BY <2>3 DEF Init
  <2> QED
    BY <1>5, <1>6, <1>8, <1>9, <2>2, <2>4 DEF OneRecon, Unshared, Narrow, Ahead
<1>16. Followed
  BY <1>4, <1>5, <1>7, <1>8, <1>9 DEF Followed, Marked, Busy
<1> QED
  BY <1>12, <1>13, <1>14, <1>15, <1>16 DEF Inv

THEOREM InvAlways == Spec => []Inv
BY InitInv, NextInv, PTL DEF Spec

(* Retries and continuations stay below run.max_recon_auto_retries and     *)
(* run.max_continue_depth, and a plan below run.max_tasks.                 *)
THEOREM TypeCorrect == Spec => []TypeOK
<1>1. Inv => TypeOK
  BY DEF Inv, Typed
<1> QED
  BY <1>1, InvAlways, PTL

(* The map keeps every part written (store_merged_architecture), but for   *)
(* what a model's answer left out, unless a write puts an older map back.  *)
THEOREM PartsMerged == Spec => []MapKeeps
<1>1. Inv => MapKeeps
  BY DEF Inv
<1> QED
  BY <1>1, InvAlways, PTL

(* The hunts of a recon are planned once (_claim_batch_finalize).          *)
THEOREM PlannedOnce == Spec => []HuntsPlannedOnce
<1>1. ASSUME Inv
      PROVE  HuntsPlannedOnce
  <2>1. ClaimedOnce => ~(plans.begun > 1)
    BY DEF ClaimedOnce
  <2>2. OneRecon => ~(plans.begun > 1)
    BY DEF OneRecon
  <2> QED
    BY <1>1, <2>1, <2>2 DEF Inv, HuntsPlannedOnce
<1> QED
  BY <1>1, InvAlways, PTL

(* With one worker at a time, the last agent of a batch that ends well     *)
(* leaves every hunt enqueued (_batch_ready_to_finalize).                  *)
THEOREM LoneWorkerFinishes == Spec => []HuntsFollow
<1>1. ASSUME Inv
      PROVE  HuntsFollow
  <2> SUFFICES ASSUME Quiet, cfg.workers = 1, cfg.allowed # <<>>, past.ok,
                      ~past.crash, ~past.twin, ~past.cut
               PROVE  plans.whole > 0
    BY DEF HuntsFollow
  <2>1. Followed
    BY <1>1 DEF Inv
  <2>2. DOMAIN tasks = {} /\ \A w \in Workers : ~Busy(w)
    BY DEF Quiet, Busy
  <2> QED
    BY <2>1, <2>2 DEF Followed
<1> QED
  BY <1>1, InvAlways, PTL

(* The hunts are spread over the areas (diversify_clip_tasks).             *)
THEOREM HuntsSpread == Spec => []PlanSpreads
<1>1. ASSUME Inv
      PROVE  PlanSpreads
  <2> SUFFICES ASSUME NEW w \in Workers, at[w].step = "hunts",
                      NEW g, NEW h,
                      OfArea(at[w].plan, g.area) > OfArea(at[w].plan, h.area) + 1
               PROVE  OfArea(at[w].plan, h.area) = OfArea(OfferOf(at[w].read), h.area)
    BY DEF PlanSpreads, OfArea
  <2> DEFINE offer == OfferOf(at[w].read)
  <2>1. at[w].plan = DiversifyClip(offer, MaxTasks)
    BY <1>1 DEF Inv, Clipped
  <2>2. offer \in Seq(Hunts) /\ MaxTasks \in Nat \ {0}
    BY <1>1, SeatFields, OfferOK, CapsAssumption DEF Inv, Typed
  <2> HIDE DEF offer
  <2> QED
    BY <2>1, <2>2, ClipSpreads DEF offer
<1> QED
  BY <1>1, InvAlways, PTL
=============================================================================
