------------------------------ MODULE DrawProof ------------------------------
(***************************************************************************)
(* The bracket that buildBracket lays out, for every number of teams, and  *)
(* who has the byes in it: what run draw checks for small fields, and what *)
(* module Playoffs assumes.                                                *)
(***************************************************************************)
EXTENDS MCDraw, TLAPS, FiniteSetTheorems, WellFoundedInduction

-----------------------------------------------------------------------------
(***************************************************************************)
(* Induction and recursion over the naturals, with sets in place of        *)
(* operators                                                               *)
(***************************************************************************)

\* A set of numbers has a least one.
LEMMA FirstOf ==
  ASSUME NEW T, T \subseteq Nat, T # {}
  PROVE  \E x \in T : \A y \in T : x <= y
<1>1. \E x \in T : \A y \in T : <<y, x>> \notin OpToRel(<, Nat)
  BY WFMin, NatLessThanWellFounded, Zenon
<1>2. \A x, y \in Nat : <<y, x>> \notin OpToRel(<, Nat) => ~(y < x)
  BY Zenon DEF OpToRel
<1>3. \E x \in T : \A y \in T : ~(y < x)
  BY <1>1, <1>2, Zenon
<1> QED
  BY ONLY <1>3, T \subseteq Nat

LEMMA Induction ==
  ASSUME NEW T, 0 \in T, \A n \in Nat : n \in T => n + 1 \in T
  PROVE  \A n \in Nat : n \in T
<1> SUFFICES ASSUME Nat \ T # {} PROVE FALSE
  OBVIOUS
<1>1. PICK x \in Nat \ T : \A y \in Nat \ T : x <= y
  BY FirstOf
<1>2. x - 1 \in Nat
  BY <1>1
<1>3. x - 1 \in T
  BY <1>1, <1>2
<1> QED
  BY <1>1, <1>2, <1>3

\* The values of a function that is applied over and over again.
LEMMA Iterates ==
  ASSUME NEW S, NEW s0 \in S, NEW step \in [S -> S]
  PROVE  \E f \in [Nat -> S] : f[0] = s0 /\ \A n \in Nat : f[n + 1] = step[f[n]]
<1> DEFINE Start(n, g) == g \in [0..n -> S] /\ g[0] = s0 /\ \A i \in 0..n : i > 0 => g[i] = step[g[i - 1]]
           T == {n \in Nat : \E g \in [0..n -> S] : Start(n, g)}
<1>1. \A n \in Nat : n \in T
  <2>1. 0 \in T
    <3>1. Start(0, [i \in 0..0 |-> s0])
      OBVIOUS
    <3> QED
      BY <3>1
  <2>2. ASSUME NEW n \in Nat, n \in T PROVE n + 1 \in T
    <3>1. PICK g \in [0..n -> S] : Start(n, g)
      BY <2>2
    <3> DEFINE h == [i \in 0..(n + 1) |-> IF i = n + 1 THEN step[g[n]] ELSE g[i]]
    <3>2. h \in [0..(n + 1) -> S] /\ h[0] = s0
      BY <3>1
    <3>3. ASSUME NEW i \in 0..(n + 1), i > 0 PROVE h[i] = step[h[i - 1]]
      BY <3>1, <3>3
    <3>4. Start(n + 1, h)
      BY <3>2, <3>3
    <3> QED
      BY <3>2, <3>4
  <2> HIDE DEF T
  <2> QED
    BY <2>1, <2>2, Induction
<1>2. ASSUME NEW n \in Nat, NEW g, NEW m \in Nat, NEW h, Start(n, g), Start(m, h), n <= m
      PROVE  \A i \in Nat : i <= n => g[i] = h[i]
  <2> DEFINE Same == {i \in Nat : i <= n => g[i] = h[i]}
  <2>1. 0 \in Same
    BY <1>2
  <2>2. ASSUME NEW i \in Nat, i \in Same PROVE i + 1 \in Same
    <3> SUFFICES ASSUME i + 1 <= n PROVE g[i + 1] = h[i + 1]
      OBVIOUS
    <3>1. g[i] = h[i] /\ i + 1 \in 0..n /\ i + 1 \in 0..m /\ i + 1 > 0 /\ (i + 1) - 1 = i
      BY <1>2, <2>2
    <3> QED
      BY <1>2, <3>1
  <2>3. \A i \in Nat : i \in Same
    <3> HIDE DEF Same
    <3> QED
      BY <2>1, <2>2, Induction
  <2> QED
    BY <2>3
<1> DEFINE upto(n) == CHOOSE g \in [0..n -> S] : Start(n, g)
           f == [n \in Nat |-> upto(n)[n]]
<1>3. \A n \in Nat : Start(n, upto(n))
  BY <1>1
<1> HIDE DEF upto
<1>4. f \in [Nat -> S] /\ f[0] = s0
  BY <1>3
<1>5. ASSUME NEW n \in Nat PROVE f[n + 1] = step[f[n]]
  <2>1. Start(n, upto(n)) /\ Start(n + 1, upto(n + 1)) /\ n + 1 \in Nat
    BY <1>3
  <2>2. upto(n)[n] = upto(n + 1)[n]
    BY <1>2, <2>1
  <2>3. upto(n + 1)[n + 1] = step[upto(n + 1)[n]]
    BY <2>1
  <2> QED
    BY <2>2, <2>3
<1> QED
  BY <1>4, <1>5

-----------------------------------------------------------------------------
(***************************************************************************)
(* Powers of two                                                           *)
(***************************************************************************)

LEMMA PowerIsCardinality ==
  ASSUME NEW k \in Nat
  PROVE  /\ IsFiniteSet(SUBSET (1..k))
         /\ Cardinality(SUBSET (1..k)) = 2^k
<1>1. IsFiniteSet(1..k) /\ Cardinality(1..k) = k
  BY FS_Interval
<1> QED
  BY <1>1, FS_SUBSET

LEMMA PowerZero == 2^0 = 1
OBVIOUS

LEMMA PowerNext ==
  ASSUME NEW k \in Nat
  PROVE  2^k \in Nat /\ 2^(k + 1) = 2 * 2^k
<1> DEFINE A == SUBSET (1..k)
           B == {s \cup {k + 1} : s \in A}
           add == [s \in A |-> s \cup {k + 1}]
<1>1. IsFiniteSet(A) /\ Cardinality(A) = 2^k /\ 2^k \in Nat
  BY PowerIsCardinality, FS_CardinalityType
<1>2. Cardinality(SUBSET (1..(k + 1))) = 2^(k + 1)
  <2>1. k + 1 \in Nat
    OBVIOUS
  <2> QED
    BY <2>1, PowerIsCardinality
<1>3. add \in Bijection(A, B)
  <2>1. add \in [A -> B] /\ \A t \in B : \E s \in A : add[s] = t
    OBVIOUS
  <2>2. ASSUME NEW s \in A, NEW t \in A, add[s] = add[t] PROVE s = t
    <3>1. k + 1 \notin s /\ k + 1 \notin t
      OBVIOUS
    <3>2. s = (s \cup {k + 1}) \ {k + 1} /\ t = (t \cup {k + 1}) \ {k + 1}
      BY ONLY <3>1
    <3> QED
      BY <2>2, <3>2
  <2> QED
    BY <2>1, <2>2 DEF Bijection, Injection, Surjection, IsInjective
<1>4. IsFiniteSet(B) /\ Cardinality(B) = Cardinality(A)
  <2>1. ExistsBijection(A, B)
    BY <1>3 DEF ExistsBijection
  <2> HIDE DEF A, B
  <2> QED
    BY <1>1, <2>1, FS_Bijection
<1>5. A \cap B = {}
  OBVIOUS
<1>6. SUBSET (1..(k + 1)) = A \cup B
  <2>1. ASSUME NEW s \in SUBSET (1..(k + 1)), s \notin A PROVE s \in B
    <3>1. s = (s \ {k + 1}) \cup {k + 1} /\ s \ {k + 1} \in A
      BY <2>1
    <3> QED
      BY <3>1
  <2>2. 1..k \subseteq 1..(k + 1) /\ k + 1 \in 1..(k + 1)
    OBVIOUS
  <2>3. A \subseteq SUBSET (1..(k + 1)) /\ B \subseteq SUBSET (1..(k + 1))
    BY <2>2
  <2> QED
    BY <2>1, <2>3
<1>7. Cardinality(A \cup B) = Cardinality(A) + Cardinality(B)
  <2>1. Cardinality(A \cap B) = 0
    BY <1>5, FS_EmptySet
  <2> HIDE DEF A, B
  <2>2. Cardinality(A \cup B) = Cardinality(A) + Cardinality(B) - Cardinality(A \cap B)
    BY <1>1, <1>4, FS_Union
  <2> QED
    BY <1>1, <1>4, <2>1, <2>2
<1>8. Cardinality(SUBSET (1..(k + 1))) = Cardinality(A) + Cardinality(A)
  BY <1>4, <1>6, <1>7
<1> HIDE DEF A
<1> QED
  BY <1>1, <1>2, <1>8

\* Between the powers of two.
LEMMA RoundsAre ==
  ASSUME NEW q \in Nat, q >= 2
  PROVE  /\ Rounds(q) \in Nat \ {0}
         /\ 2^Rounds(q) \in Nat /\ 2^(Rounds(q) - 1) \in Nat
         /\ 2^Rounds(q) = 2 * 2^(Rounds(q) - 1)
         /\ 2^(Rounds(q) - 1) < q /\ q <= 2^Rounds(q)
<1> DEFINE Big == {n \in Nat : 2^n > n}
           Holds == {r \in Nat : 2^r >= q}
<1>1. \A n \in Nat : n \in Big
  <2>1. 0 \in Big
    BY PowerZero
  <2>2. ASSUME NEW n \in Nat, n \in Big PROVE n + 1 \in Big
    BY <2>2, PowerNext
  <2> HIDE DEF Big
  <2> QED
    BY <2>1, <2>2, Induction
<1>2. q \in Holds /\ Holds \subseteq Nat
  <2>1. 2^q > q /\ 2^q \in Nat
    BY <1>1, PowerNext
  <2> QED
    BY <2>1
<1>3. PICK r \in Holds : \A s \in Holds : r <= s
  <2> HIDE DEF Holds
  <2> QED
    BY <1>2, FirstOf
<1>4. r \in Nat /\ r <= q /\ 2^r >= q
  BY <1>2, <1>3
<1>5. ASSUME NEW s \in 0..(r - 1) PROVE 2^s < q
  <2>1. s \in Nat /\ s \notin Holds /\ 2^s \in Nat
    BY <1>3, <1>4, PowerNext
  <2> QED
    BY <2>1
<1>6. \E x \in 0..q : 2^x >= q /\ \A s \in 0..(x - 1) : 2^s < q
  BY <1>4, <1>5
<1> DEFINE R == Rounds(q)
<1>7. R \in 0..q /\ 2^R >= q /\ \A s \in 0..(R - 1) : 2^s < q
  BY <1>6 DEF Rounds
<1> HIDE DEF R
<1>8. R # 0
  <2>1. R = 0 => 2^R = 2^0
    OBVIOUS
  <2> QED
    BY <1>7, <2>1, PowerZero
<1>9. R - 1 \in Nat /\ R = (R - 1) + 1 /\ R - 1 \in 0..(R - 1)
  BY <1>7, <1>8
<1>10. 2^(R - 1) \in Nat /\ 2^R = 2 * 2^(R - 1)
  BY <1>9, PowerNext
<1>11. R \in Nat \ {0} /\ 2^R \in Nat /\ 2^(R - 1) < q /\ q <= 2^R
  BY <1>7, <1>8, <1>9, <1>10
<1> QED
  BY <1>10, <1>11 DEF R

-----------------------------------------------------------------------------
(***************************************************************************)
(* The seed positions                                                      *)
(***************************************************************************)

\* The seeds of a bracket, each with the seed it meets.
Paired(half) ==
  [i \in 1..(2 * Len(half)) |-> IF i % 2 = 1 THEN half[(i + 1) \div 2]
                                             ELSE Mirror(2 * Len(half), half[i \div 2])]

LEMMA PairedType == ASSUME NEW half \in Seq(Int) PROVE Paired(half) \in Seq(Int)
<1>1. Len(half) \in Nat /\ \A j \in 1..Len(half) : half[j] \in Int
  OBVIOUS
<1>2. ASSUME NEW i \in 1..(2 * Len(half)) PROVE Paired(half)[i] \in Int
  <2>1. i % 2 = 1 => (i + 1) \div 2 \in 1..Len(half)
    BY <1>1
  <2>2. i % 2 # 1 => i \div 2 \in 1..Len(half)
    BY <1>1
  <2> QED
    BY <1>1, <2>1, <2>2 DEF Paired, Mirror
<1>3. Paired(half) \in [1..(2 * Len(half)) -> Int]
  BY <1>2 DEF Paired
<1> QED
  BY <1>1, <1>3

LEMMA SeedPositionsRecursion ==
  /\ seedPositions[0] = <<1>>
  /\ \A k \in Nat : seedPositions[k + 1] = Paired(seedPositions[k])
<1> DEFINE step == [s \in Seq(Int) |-> Paired(s)]
           body(f) == [k \in Nat |-> IF k = 0 THEN <<1>> ELSE Paired(f[k - 1])]
           Lists == Seq(Int)
           one == <<1>>
<1>1. one \in Lists /\ step \in [Lists -> Lists]
  BY PairedType
<1>2. PICK f \in [Nat -> Lists] : f[0] = one /\ \A n \in Nat : f[n + 1] = step[f[n]]
  <2> HIDE DEF step, Lists, one
  <2> QED
    BY <1>1, Iterates
<1>3. f = body(f)
  <2>1. ASSUME NEW k \in Nat PROVE f[k] = IF k = 0 THEN <<1>> ELSE Paired(f[k - 1])
    <3>1. CASE k = 0
      BY <1>2, <3>1
    <3>2. CASE k # 0
      <4>1. k - 1 \in Nat /\ k = (k - 1) + 1
        BY <3>2
      <4>2. f[k] = step[f[k - 1]] /\ f[k - 1] \in Seq(Int)
        BY <1>2, <4>1
      <4> QED
        BY <3>2, <4>2
    <3> QED
      BY <3>1, <3>2
  <2> QED
    BY <2>1
<1>4. seedPositions = CHOOSE g : g = body(g)
  BY DEF seedPositions, Paired
<1>5. seedPositions = body(seedPositions)
  <2> HIDE DEF body
  <2> QED
    BY <1>3, <1>4
<1>6. \A k \in Nat : k + 1 \in Nat /\ k + 1 # 0 /\ (k + 1) - 1 = k
  OBVIOUS
<1> QED
  BY <1>5, <1>6

\* Each of the seeds 1 to n stands in one place.
IsOrder(s, n) ==
  /\ s \in [1..n -> 1..n]
  /\ \A i, j \in 1..n : s[i] = s[j] => i = j
  /\ \A t \in 1..n : \E i \in 1..n : s[i] = t

LEMMA PairedIs ==
  ASSUME NEW n \in Nat, NEW half \in [1..n -> 1..n]
  PROVE  /\ Paired(half) \in [1..(2 * n) -> 1..(2 * n)]
         /\ \A i \in 1..n : /\ Paired(half)[2 * i - 1] = half[i]
                            /\ Paired(half)[2 * i] = 2 * n + 1 - half[i]
<1>1. half \in Seq(1..n) /\ Len(half) = n
  OBVIOUS
<1>2. Paired(half) = [i \in 1..(2 * n) |-> IF i % 2 = 1 THEN half[(i + 1) \div 2]
                                                        ELSE 2 * n + 1 - half[i \div 2]]
  BY <1>1 DEF Paired, Mirror
<1>3. ASSUME NEW i \in 1..(2 * n) PROVE Paired(half)[i] \in 1..(2 * n)
  <2>1. i % 2 = 1 => (i + 1) \div 2 \in 1..n
    OBVIOUS
  <2>2. i % 2 # 1 => i \div 2 \in 1..n
    OBVIOUS
  <2>3. CASE i % 2 = 1
    BY <1>2, <2>1, <2>3
  <2>4. CASE i % 2 # 1
    <3>1. half[i \div 2] \in 1..n
      BY <2>2, <2>4
    <3>2. Paired(half)[i] = 2 * n + 1 - half[i \div 2]
      BY <1>2, <2>4
    <3>3. \A v \in 1..n : 2 * n + 1 - v \in 1..(2 * n)
      OBVIOUS
    <3> QED
      BY <3>1, <3>2, <3>3
  <2> QED
    BY <2>3, <2>4
<1>4. ASSUME NEW i \in 1..n
      PROVE  Paired(half)[2 * i - 1] = half[i] /\ Paired(half)[2 * i] = 2 * n + 1 - half[i]
  <2>1. 2 * i - 1 \in 1..(2 * n) /\ (2 * i - 1) % 2 = 1 /\ ((2 * i - 1) + 1) \div 2 = i
    OBVIOUS
  <2>2. 2 * i \in 1..(2 * n) /\ (2 * i) % 2 # 1 /\ (2 * i) \div 2 = i
    OBVIOUS
  <2> QED
    BY <1>2, <2>1, <2>2
<1> QED
  BY <1>2, <1>3, <1>4

LEMMA PairedOrder ==
  ASSUME NEW n \in Nat, NEW half, IsOrder(half, n)
  PROVE  IsOrder(Paired(half), 2 * n)
<1> DEFINE s == Paired(half)
<1>1. half \in [1..n -> 1..n] /\ \A i \in 1..n : half[i] \in 1..n
  BY DEF IsOrder
<1>2. /\ s \in [1..(2 * n) -> 1..(2 * n)]
      /\ \A i \in 1..n : s[2 * i - 1] = half[i] /\ s[2 * i] = 2 * n + 1 - half[i]
  BY <1>1, PairedIs
<1> HIDE DEF s
<1>3. \A x \in 1..(2 * n) : \E i \in 1..n : x = 2 * i - 1 \/ x = 2 * i
  <2> SUFFICES ASSUME NEW x \in 1..(2 * n) PROVE \E i \in 1..n : x = 2 * i - 1 \/ x = 2 * i
    OBVIOUS
  <2>1. (x + 1) \div 2 \in 1..n /\ (x = 2 * ((x + 1) \div 2) - 1 \/ x = 2 * ((x + 1) \div 2))
    OBVIOUS
  <2> QED
    BY <2>1
<1>4. ASSUME NEW x \in 1..(2 * n), NEW y \in 1..(2 * n), s[x] = s[y] PROVE x = y
  <2>1. PICK i \in 1..n : x = 2 * i - 1 \/ x = 2 * i
    BY <1>3
  <2>2. PICK j \in 1..n : y = 2 * j - 1 \/ y = 2 * j
    BY <1>3
  <2>3. half[i] \in 1..n /\ half[j] \in 1..n
    BY <1>1
  <2>4. /\ (x = 2 * i - 1 /\ s[x] = half[i]) \/ (x = 2 * i /\ s[x] = 2 * n + 1 - half[i])
        /\ (y = 2 * j - 1 /\ s[y] = half[j]) \/ (y = 2 * j /\ s[y] = 2 * n + 1 - half[j])
    BY <1>2, <2>1, <2>2
  <2>5. half[i] = half[j] /\ (x = 2 * i <=> y = 2 * j)
    BY <1>4, <2>3, <2>4
  <2>6. i = j
    BY <2>5 DEF IsOrder
  <2> QED
    BY <2>1, <2>2, <2>5, <2>6
<1>5. ASSUME NEW t \in 1..(2 * n) PROVE \E x \in 1..(2 * n) : s[x] = t
  <2>1. CASE t <= n
    <3>1. PICK i \in 1..n : half[i] = t
      BY <2>1 DEF IsOrder
    <3>2. 2 * i - 1 \in 1..(2 * n) /\ s[2 * i - 1] = t
      BY <1>2, <3>1
    <3> QED
      BY <3>2
  <2>2. CASE t > n
    <3>1. PICK i \in 1..n : half[i] = 2 * n + 1 - t
      BY <2>2 DEF IsOrder
    <3>2. s[2 * i] = 2 * n + 1 - half[i]
      BY <1>2
    <3>3. 2 * i \in 1..(2 * n) /\ s[2 * i] = t
      BY <3>1, <3>2
    <3> QED
      BY <3>3
  <2> QED
    BY <2>1, <2>2
<1>6. IsOrder(s, 2 * n)
  BY <1>2, <1>4, <1>5 DEF IsOrder
<1> QED
  BY <1>6 DEF s

\* Every seed has one place in the first round, of brackets of any size.
LEMMA SeedsInOrder == \A k \in Nat : IsOrder(seedPositions[k], 2^k)
<1> DEFINE Good == {k \in Nat : IsOrder(seedPositions[k], 2^k)}
<1>1. 0 \in Good
  <2>1. IsOrder(<<1>>, 1)
    BY DEF IsOrder
  <2> QED
    BY <2>1, SeedPositionsRecursion, PowerZero
<1>2. ASSUME NEW k \in Nat, k \in Good PROVE k + 1 \in Good
  <2>1. 2^k \in Nat /\ 2^(k + 1) = 2 * 2^k
    BY PowerNext
  <2>2. IsOrder(Paired(seedPositions[k]), 2 * 2^k)
    BY <1>2, <2>1, PairedOrder
  <2> QED
    BY <2>1, <2>2, SeedPositionsRecursion
<1> HIDE DEF Good
<1>3. \A k \in Nat : k \in Good
  BY <1>1, <1>2, Induction
<1> QED
  BY <1>3 DEF Good

-----------------------------------------------------------------------------
(***************************************************************************)
(* The first round                                                         *)
(***************************************************************************)

\* Qualifiers by seed: two or more different teams.
IsSeeding(qs) ==
  /\ Len(qs) \in Nat /\ Len(qs) >= 2
  /\ \A s \in 1..Len(qs) : qs[s] # NoTeam
  /\ \A s, t \in 1..Len(qs) : qs[s] = qs[t] => s = t

\* The number of first-round matches, and the better seed of each.
Half(q) == 2^(Rounds(q) - 1)
Better(q, m) == seedPositions[Rounds(q) - 1][m + 1]
Worse(q, m) == 2 * Half(q) + 1 - Better(q, m)

LEMMA BetterSeeds ==
  ASSUME NEW q \in Nat, q >= 2
  PROVE  /\ Half(q) \in Nat /\ Half(q) < q /\ q <= 2 * Half(q)
         /\ \A m \in 0..(Half(q) - 1) : Better(q, m) \in 1..Half(q)
         /\ \A m, n \in 0..(Half(q) - 1) : Better(q, m) = Better(q, n) => m = n
         /\ \A s \in 1..Half(q) : \E m \in 0..(Half(q) - 1) : Better(q, m) = s
<1> DEFINE k == Rounds(q) - 1
           N == Half(q)
           order == seedPositions[k]
<1>1. k \in Nat /\ N = 2^k /\ N \in Nat /\ N < q /\ q <= 2 * N
  BY RoundsAre DEF Half
<1>2. IsOrder(order, N)
  BY <1>1, SeedsInOrder
<1>3. \A m : Better(q, m) = order[m + 1]
  BY DEF Better
<1> HIDE DEF N, order, k
<1>4. ASSUME NEW m \in 0..(N - 1) PROVE Better(q, m) \in 1..N
  <2>1. m + 1 \in 1..N
    BY <1>1
  <2>2. order[m + 1] \in 1..N
    BY <1>2, <2>1 DEF IsOrder
  <2> QED
    BY <1>3, <2>2
<1>5. \A m, n \in 0..(N - 1) : Better(q, m) = Better(q, n) => m = n
  <2> SUFFICES ASSUME NEW m \in 0..(N - 1), NEW n \in 0..(N - 1), Better(q, m) = Better(q, n)
               PROVE  m = n
    OBVIOUS
  <2>1. m + 1 \in 1..N /\ n + 1 \in 1..N /\ order[m + 1] = order[n + 1]
    BY <1>1, <1>3
  <2>2. m + 1 = n + 1
    BY <1>2, <2>1 DEF IsOrder
  <2> QED
    BY <2>2
<1>6. ASSUME NEW s \in 1..N PROVE \E m \in 0..(N - 1) : Better(q, m) = s
  <2>1. PICK i \in 1..N : order[i] = s
    BY <1>2 DEF IsOrder
  <2>2. i - 1 \in 0..(N - 1) /\ (i - 1) + 1 = i
    BY <1>1
  <2>3. Better(q, i - 1) = s
    BY <1>3, <2>1, <2>2
  <2> QED
    BY <2>2, <2>3
<1> QED
  BY <1>1, <1>4, <1>5, <1>6 DEF N

\* The better seed of a match is there; the worse one is, unless it is a bye.
LEMMA FirstRoundIs ==
  ASSUME NEW qs, IsSeeding(qs), NEW m \in 0..(Half(Len(qs)) - 1)
  PROVE  LET q == Len(qs)
             first == FirstRoundTeams(qs, m)
         IN  /\ Better(q, m) \in 1..q
             /\ first.a = qs[Better(q, m)] /\ first.a # NoTeam
             /\ Worse(q, m) \in 1..(2 * Half(q)) /\ Better(q, m) < Worse(q, m)
             /\ Worse(q, m) <= q => first.b = qs[Worse(q, m)] /\ first.b # NoTeam
             /\ Worse(q, m) > q => first.b = NoTeam
             /\ ByeWinner(qs, m) = IF Worse(q, m) <= q THEN NoTeam ELSE first.a
<1> DEFINE q == Len(qs)
           k == Rounds(q) - 1
           N == Half(q)
           half == seedPositions[k]
           seeds == seedPositions[Rounds(q)]
           first == FirstRoundTeams(qs, m)
<1>1. q \in Nat /\ q >= 2
  BY DEF IsSeeding
<1>2. k \in Nat /\ k + 1 = Rounds(q) /\ N = 2^k
  <2>1. Rounds(q) \in Nat \ {0}
    BY <1>1, RoundsAre
  <2> QED
    BY <2>1 DEF Half
<1>3. /\ N \in Nat /\ N < q /\ q <= 2 * N
      /\ Better(q, m) \in 1..N
  BY <1>1, BetterSeeds
<1>4. seeds = Paired(half) /\ half \in [1..N -> 1..N]
  BY <1>2, SeedPositionsRecursion, SeedsInOrder DEF IsOrder
<1>5. Better(q, m) = half[m + 1] /\ Worse(q, m) = 2 * N + 1 - half[m + 1]
  BY DEF Better, Worse
<1>6. first = [a |-> IF seeds[2 * m + 1] > q THEN NoTeam ELSE qs[seeds[2 * m + 1]],
               b |-> IF seeds[2 * m + 2] > q THEN NoTeam ELSE qs[seeds[2 * m + 2]]]
  BY DEF FirstRoundTeams
<1>7. ByeWinner(qs, m) = CASE first.b = NoTeam -> first.a
                                   [] first.a = NoTeam -> first.b
                                   [] OTHER            -> NoTeam
  BY DEF ByeWinner
<1> HIDE DEF N, half, seeds, first, k
<1>8. seeds[2 * m + 1] = Better(q, m) /\ seeds[2 * m + 2] = Worse(q, m)
  <2>1. m + 1 \in 1..N /\ 2 * (m + 1) - 1 = 2 * m + 1 /\ 2 * (m + 1) = 2 * m + 2
    BY <1>3 DEF N
  <2>2. seeds[2 * (m + 1) - 1] = half[m + 1] /\ seeds[2 * (m + 1)] = 2 * N + 1 - half[m + 1]
    BY <1>3, <1>4, <2>1, PairedIs
  <2> QED
    BY <1>5, <2>1, <2>2
<1>9. Worse(q, m) \in 1..(2 * N) /\ Better(q, m) < Worse(q, m) /\ Better(q, m) \in 1..q
  BY <1>1, <1>3, <1>5
<1>10. first.a = qs[Better(q, m)] /\ first.a # NoTeam
  BY <1>1, <1>6, <1>8, <1>9 DEF IsSeeding
<1>11. Worse(q, m) <= q => first.b = qs[Worse(q, m)] /\ first.b # NoTeam
  BY <1>1, <1>6, <1>8, <1>9 DEF IsSeeding
<1>12. Worse(q, m) > q => first.b = NoTeam
  BY <1>6, <1>8
<1>13. ByeWinner(qs, m) = IF Worse(q, m) <= q THEN NoTeam ELSE first.a
  BY <1>1, <1>7, <1>9, <1>10, <1>11, <1>12
<1> QED
  BY <1>9, <1>10, <1>11, <1>12, <1>13 DEF first, N

\* The seed that stands in each slot of the first round, and that the byes are
\* those of the first 2^rounds - q seeds.
LEMMA SeedsEnterOnce ==
  ASSUME NEW qs, IsSeeding(qs), NEW s \in 1..Len(qs)
  PROVE  \E m \in 0..(Half(Len(qs)) - 1), slot \in {"a", "b"} :
           /\ FirstRoundTeams(qs, m)[slot] = qs[s]
           /\ \A n \in 0..(Half(Len(qs)) - 1), other \in {"a", "b"} :
                FirstRoundTeams(qs, n)[other] = qs[s] => n = m /\ other = slot
<1> DEFINE q == Len(qs)
           N == Half(q)
           M == 0..(N - 1)
           first(m) == FirstRoundTeams(qs, m)
<1>1. q \in Nat /\ q >= 2 /\ N \in Nat /\ N < q /\ q <= 2 * N
  BY BetterSeeds DEF IsSeeding
<1>2. \A m \in M : Better(q, m) \in 1..N /\ Worse(q, m) = 2 * N + 1 - Better(q, m)
  BY <1>1, BetterSeeds DEF Worse
<1>3. \A m, n \in M : Better(q, m) = Better(q, n) => m = n
  BY <1>1, BetterSeeds
<1>4. \A t \in 1..N : \E m \in M : Better(q, m) = t
  BY <1>1, BetterSeeds
<1>5. \A m \in M : /\ first(m).a = qs[Better(q, m)] /\ Better(q, m) \in 1..q
                   /\ Worse(q, m) <= q => first(m).b = qs[Worse(q, m)]
                   /\ Worse(q, m) > q => first(m).b = NoTeam
  BY FirstRoundIs
<1>6. \A t \in 1..q : qs[t] # NoTeam /\ (qs[t] = qs[s] => t = s)
  BY DEF IsSeeding
<1> HIDE DEF N, q, first
<1>7. CASE s <= N
  <2>1. PICK m \in M : Better(q, m) = s
    BY <1>1, <1>4, <1>7 DEF q
  <2>2. ASSUME NEW n \in M, first(n).a = qs[s] PROVE n = m
    BY <1>3, <1>5, <1>6, <2>1, <2>2
  <2>3. ASSUME NEW n \in M PROVE first(n).b # qs[s]
    <3>1. Better(q, n) \in 1..N /\ Worse(q, n) = 2 * N + 1 - Better(q, n)
      BY <1>2
    <3>2. Worse(q, n) \in Nat /\ Worse(q, n) > N
      BY <1>1, <3>1
    <3>3. CASE Worse(q, n) <= q
      BY <1>1, <1>5, <1>6, <1>7, <3>2, <3>3
    <3>4. CASE Worse(q, n) > q
      BY <1>5, <1>6, <3>4 DEF q
    <3> QED
      BY <1>1, <3>2, <3>3, <3>4
  <2>4. first(m).a = qs[s]
    BY <1>5, <2>1
  <2> QED
    BY <2>2, <2>3, <2>4 DEF first, N, q
<1>8. CASE s > N
  <2> DEFINE t == 2 * N + 1 - s
  <2>1. t \in 1..N
    BY <1>1, <1>8 DEF q
  <2>2. PICK m \in M : Better(q, m) = t
    BY <1>4, <2>1
  <2>3. Worse(q, m) = s
    BY <1>1, <1>2, <2>2 DEF q
  <2>4. first(m).b = qs[s]
    BY <1>1, <1>5, <2>3 DEF q
  <2>5. ASSUME NEW n \in M PROVE first(n).a # qs[s]
    <3>1. Better(q, n) \in 1..N /\ first(n).a = qs[Better(q, n)] /\ Better(q, n) \in 1..q
      BY <1>2, <1>5
    <3> QED
      BY <1>1, <1>6, <1>8, <3>1
  <2>6. ASSUME NEW n \in M, first(n).b = qs[s] PROVE n = m
    <3>1. Better(q, n) \in 1..N /\ Worse(q, n) = 2 * N + 1 - Better(q, n)
      BY <1>2
    <3>2. Worse(q, n) \in 1..q
      <4>1. ~(Worse(q, n) > q)
        BY <1>5, <1>6, <2>6 DEF q
      <4> QED
        BY <1>1, <3>1, <4>1
    <3>3. Worse(q, n) = s
      BY <1>1, <1>5, <1>6, <2>6, <3>2
    <3>4. Better(q, n) = Better(q, m)
      BY <1>1, <2>2, <3>1, <3>3 DEF q
    <3> QED
      BY <1>3, <3>4
  <2> QED
    BY <2>4, <2>5, <2>6 DEF first, N, q
<1> QED
  BY <1>1, <1>7, <1>8 DEF q

-----------------------------------------------------------------------------
(***************************************************************************)
(* The matches of the bracket                                              *)
(***************************************************************************)

InRoundOf(q, r) == 0..(2^(Rounds(q) - r) - 1)

LEMMA IdsAre ==
  ASSUME NEW q \in Nat, q >= 2
  PROVE  /\ \A id \in MatchIds(q) : /\ id = <<id[1], id[2]>>
                                    /\ id[1] \in 1..Rounds(q) /\ id[2] \in InRoundOf(q, id[1])
         /\ \A r \in 1..Rounds(q) : \A m \in InRoundOf(q, r) : <<r, m>> \in MatchIds(q)
BY DEF MatchIds, InRoundOf

\* A match and the two that feed it.
LEMMA RoundSizes ==
  ASSUME NEW q \in Nat, q >= 2, NEW r \in 1..Rounds(q)
  PROVE  /\ 2^(Rounds(q) - r) \in Nat
         /\ r = 1 => 2^(Rounds(q) - r) = Half(q)
         /\ r = Rounds(q) => 2^(Rounds(q) - r) = 1
         /\ r > 1 => r - 1 \in 1..Rounds(q) /\ 2^(Rounds(q) - (r - 1)) = 2 * 2^(Rounds(q) - r)
         /\ r # Rounds(q) => r + 1 \in 1..Rounds(q) /\ 2^(Rounds(q) - r) = 2 * 2^(Rounds(q) - (r + 1))
<1> DEFINE R == Rounds(q)
<1>1. R \in Nat \ {0} /\ R - r \in Nat
  BY RoundsAre
<1>2. 2^(R - r) \in Nat /\ (r = 1 => 2^(R - r) = Half(q))
  BY <1>1, PowerNext DEF Half
<1>3. r = R => 2^(R - r) = 1
  <2>1. r = R => R - r = 0
    BY <1>1
  <2> QED
    BY <2>1, PowerZero
<1>4. r > 1 => r - 1 \in 1..R /\ 2^(R - (r - 1)) = 2 * 2^(R - r)
  <2>1. R - (r - 1) = (R - r) + 1
    BY <1>1
  <2> QED
    BY <1>1, <2>1, PowerNext
<1>5. r # R => r + 1 \in 1..R /\ 2^(R - r) = 2 * 2^(R - (r + 1))
  <2> SUFFICES ASSUME r # R PROVE r + 1 \in 1..R /\ 2^(R - r) = 2 * 2^(R - (r + 1))
    OBVIOUS
  <2>1. R - (r + 1) \in Nat /\ R - r = (R - (r + 1)) + 1 /\ r + 1 \in 1..R
    BY <1>1
  <2> QED
    BY <2>1, PowerNext
<1> QED
  BY <1>2, <1>3, <1>4, <1>5

\* What buildBracket says of a match.
LEMMA BuiltIs ==
  ASSUME NEW qs, IsSeeding(qs), NEW id \in MatchIds(Len(qs))
  PROVE  LET q == Len(qs)
             built == buildBracket(qs)[id]
         IN  /\ built.round = id[1]
             /\ id[1] = Rounds(q) => built.next = NoMatch
             /\ id[1] # Rounds(q) => /\ built.next = <<id[1] + 1, id[2] \div 2>>
                                     /\ built.slot = IF id[2] % 2 = 0 THEN "a" ELSE "b"
             /\ built.done <=> built.winner # NoTeam
             /\ id[1] = 1 => /\ built.a = FirstRoundTeams(qs, id[2]).a
                             /\ built.b = FirstRoundTeams(qs, id[2]).b
                             /\ built.winner = ByeWinner(qs, id[2])
             /\ id[1] = 2 => /\ built.a = ByeWinner(qs, 2 * id[2])
                             /\ built.b = ByeWinner(qs, 2 * id[2] + 1)
             /\ id[1] \notin {1, 2} => built.a = NoTeam /\ built.b = NoTeam
             /\ id[1] # 1 => built.winner = NoTeam
<1> DEFINE q == Len(qs)
           built == buildBracket(qs)[id]
           slots == SlotsAtCreation(qs, id)
<1>1. built = [round  |-> id[1],
               next   |-> NextOf(id, q),
               slot   |-> SlotOf(id, q),
               a      |-> slots.a,
               b      |-> slots.b,
               winner |-> IF id[1] = 1 THEN ByeWinner(qs, id[2]) ELSE NoTeam,
               done   |-> (IF id[1] = 1 THEN ByeWinner(qs, id[2]) ELSE NoTeam) # NoTeam]
  BY DEF buildBracket
<1>2. id[1] = Rounds(q) => NextOf(id, q) = NoMatch
  BY DEF NextOf
<1>3. id[1] # Rounds(q) => /\ NextOf(id, q) = <<id[1] + 1, id[2] \div 2>>
                           /\ SlotOf(id, q) = IF id[2] % 2 = 0 THEN "a" ELSE "b"
  BY DEF NextOf, SlotOf
<1>4. /\ id[1] = 1 => slots = FirstRoundTeams(qs, id[2])
      /\ id[1] = 2 => slots.a = ByeWinner(qs, 2 * id[2]) /\ slots.b = ByeWinner(qs, 2 * id[2] + 1)
      /\ id[1] \notin {1, 2} => slots.a = NoTeam /\ slots.b = NoTeam
  BY DEF SlotsAtCreation
<1> HIDE DEF built, slots
<1>5. /\ built.round = id[1] /\ built.next = NextOf(id, q) /\ built.slot = SlotOf(id, q)
      /\ built.a = slots.a /\ built.b = slots.b
      /\ id[1] = 1 => built.winner = ByeWinner(qs, id[2])
      /\ id[1] # 1 => built.winner = NoTeam
      /\ built.done <=> built.winner # NoTeam
  BY <1>1
<1> QED
  BY <1>2, <1>3, <1>4, <1>5 DEF built

\* The match that feeds a slot, as the layout of the ids has it.
Feeder(id, slot) == <<id[1] - 1, 2 * id[2] + (IF slot = "b" THEN 1 ELSE 0)>>

LEMMA FeedersAre ==
  ASSUME NEW qs, IsSeeding(qs), NoMatch \notin Nat \X Nat,
         NEW id \in MatchIds(Len(qs)), NEW slot \in {"a", "b"}, id[1] > 1
  PROVE  LET built == buildBracket(qs)
             f == Feeder(id, slot)
         IN  /\ f \in MatchIds(Len(qs)) /\ f[1] = id[1] - 1
             /\ \A x \in MatchIds(Len(qs)) : built[x].next = id /\ built[x].slot = slot <=> x = f
             /\ built[id][slot] = built[f].winner
<1> DEFINE q == Len(qs)
           R == Rounds(q)
           built == buildBracket(qs)
           bit == IF slot = "b" THEN 1 ELSE 0
           f == Feeder(id, slot)
<1>1. q \in Nat /\ q >= 2 /\ R \in Nat
  BY RoundsAre DEF IsSeeding
<1>2. /\ id = <<id[1], id[2]>> /\ id[1] \in 1..R /\ id[2] \in InRoundOf(q, id[1])
      /\ id[1] \in Nat /\ id[2] \in Nat
  <2>1. id = <<id[1], id[2]>> /\ id[1] \in 1..R /\ id[2] \in InRoundOf(q, id[1])
    BY <1>1, IdsAre
  <2> QED
    BY <1>1, <2>1 DEF InRoundOf
<1>3. f[1] = id[1] - 1 /\ f[2] = 2 * id[2] + bit /\ bit \in {0, 1} /\ f = <<f[1], f[2]>>
  BY DEF Feeder
<1>4. f[1] \in 1..R /\ f[1] # R /\ f[2] \in InRoundOf(q, f[1])
  <2>1. 2^(R - id[1]) \in Nat /\ id[1] - 1 \in 1..R /\ 2^(R - (id[1] - 1)) = 2 * 2^(R - id[1])
    BY <1>1, <1>2, RoundSizes
  <2>2. id[2] \in 0..(2^(R - id[1]) - 1)
    BY <1>2 DEF InRoundOf
  <2>3. 2 * id[2] + bit \in 0..(2 * 2^(R - id[1]) - 1)
    <3>1. \A n \in Nat : \A m \in 0..(n - 1) : 2 * m + bit \in 0..(2 * n - 1)
      BY <1>3
    <3> QED
      BY <2>1, <2>2, <3>1
  <2>4. f[1] \in 1..R /\ f[1] # R
    BY <1>2, <1>3, <2>1
  <2> QED
    BY <1>3, <2>1, <2>3, <2>4 DEF InRoundOf
<1>5. f \in MatchIds(q)
  BY <1>1, <1>3, <1>4, IdsAre
<1>6. ASSUME NEW x \in MatchIds(q)
      PROVE  built[x].next = id /\ built[x].slot = slot <=> x = f
  <2>1. x = <<x[1], x[2]>> /\ x[1] \in 1..R /\ x[2] \in InRoundOf(q, x[1])
    BY <1>1, IdsAre
  <2>2. x[1] \in Nat /\ x[2] \in Nat
    BY <1>1, <2>1 DEF InRoundOf
  <2>3. CASE x[1] = R
    <3>1. built[x].next = NoMatch
      BY <2>3, BuiltIs
    <3>2. id \in Nat \X Nat
      BY <1>2
    <3> QED
      BY <1>4, <2>3, <3>1, <3>2
  <2>4. CASE x[1] # R
    <3>1. /\ built[x].next = <<x[1] + 1, x[2] \div 2>>
          /\ built[x].slot = IF x[2] % 2 = 0 THEN "a" ELSE "b"
      BY <2>4, BuiltIs
    <3>2. built[x].next = id <=> x[1] + 1 = id[1] /\ x[2] \div 2 = id[2]
      BY <1>2, <3>1
    <3>3. built[x].slot = slot <=> x[2] % 2 = bit
      BY <2>2, <3>1
    <3>4. x[2] \div 2 = id[2] /\ x[2] % 2 = bit <=> x[2] = f[2]
      BY <1>2, <1>3, <2>2
    <3>5. x = f <=> x[1] = f[1] /\ x[2] = f[2]
      BY <1>3, <2>1
    <3>6. x[1] + 1 = id[1] <=> x[1] = f[1]
      BY <1>2, <1>3, <2>2
    <3> QED
      BY <3>2, <3>3, <3>4, <3>5, <3>6
  <2> QED
    BY <2>3, <2>4
<1>7. built[id][slot] = built[f].winner
  <2>1. CASE id[1] = 2
    <3>1. f[1] = 1 /\ built[f].winner = ByeWinner(qs, f[2])
      BY <1>3, <1>5, <2>1, BuiltIs
    <3>2. /\ built[id].a = ByeWinner(qs, 2 * id[2])
          /\ built[id].b = ByeWinner(qs, 2 * id[2] + 1)
      BY <2>1, BuiltIs
    <3>3. slot = "a" => f[2] = 2 * id[2]
      BY <1>2, <1>3
    <3>4. slot = "b" => f[2] = 2 * id[2] + 1
      BY <1>3
    <3> QED
      BY <3>1, <3>2, <3>3, <3>4
  <2>2. CASE id[1] # 2
    <3>1. f[1] # 1
      BY <1>2, <1>3, <2>2
    <3>2. built[f].winner = NoTeam /\ built[id].a = NoTeam /\ built[id].b = NoTeam
      BY <1>5, <2>2, <3>1, BuiltIs
    <3> QED
      BY <3>2
  <2> QED
    BY <2>1, <2>2
<1> QED
  BY <1>3, <1>5, <1>6, <1>7

\* A match that is completed from the start is a bye of the first round, and
\* not the final.
LEMMA ByesAre ==
  ASSUME NEW qs, IsSeeding(qs), NEW id \in MatchIds(Len(qs)), buildBracket(qs)[id].done
  PROVE  id[1] = 1 /\ Rounds(Len(qs)) # 1 /\ Worse(Len(qs), id[2]) > Len(qs)
<1> DEFINE q == Len(qs)
<1>1. q \in Nat /\ q >= 2
  BY DEF IsSeeding
<1>2. id[1] = 1 /\ ByeWinner(qs, id[2]) # NoTeam
  BY BuiltIs
<1>3. id[2] \in 0..(Half(q) - 1)
  BY <1>1, <1>2, IdsAre DEF InRoundOf, Half
<1>4. /\ Worse(q, id[2]) > q /\ Worse(q, id[2]) \in 1..(2 * Half(q))
  <2>1. /\ ByeWinner(qs, id[2]) = IF Worse(q, id[2]) <= q THEN NoTeam ELSE FirstRoundTeams(qs, id[2]).a
        /\ Worse(q, id[2]) \in 1..(2 * Half(q))
    BY <1>3, FirstRoundIs
  <2>2. Worse(q, id[2]) \in Nat
    BY <1>1, <2>1, BetterSeeds
  <2> QED
    BY <1>1, <1>2, <2>1, <2>2
<1>5. Rounds(q) # 1
  <2> SUFFICES ASSUME Rounds(q) = 1 PROVE FALSE
    OBVIOUS
  <2>1. Half(q) = 1
    BY PowerZero DEF Half
  <2> QED
    BY <1>1, <1>4, <2>1
<1> QED
  BY <1>2, <1>4, <1>5

\* There is one final.
LEMMA FinalIs ==
  ASSUME NEW qs, IsSeeding(qs), NoMatch \notin Nat \X Nat
  PROVE  /\ <<Rounds(Len(qs)), 0>> \in MatchIds(Len(qs))
         /\ \A id \in MatchIds(Len(qs)) :
              buildBracket(qs)[id].next = NoMatch <=> id = <<Rounds(Len(qs)), 0>>
<1> DEFINE q == Len(qs)
           R == Rounds(q)
<1>1. q \in Nat /\ q >= 2 /\ R \in Nat \ {0}
  BY RoundsAre DEF IsSeeding
<1>2. R \in 1..R /\ InRoundOf(q, R) = {0}
  <2>1. 2^(R - R) = 1
    BY <1>1, RoundSizes
  <2> QED
    BY <1>1, <2>1 DEF InRoundOf
<1>3. <<R, 0>> \in MatchIds(q)
  BY <1>1, <1>2, IdsAre
<1>4. ASSUME NEW id \in MatchIds(q) PROVE buildBracket(qs)[id].next = NoMatch <=> id = <<R, 0>>
  <2>1. id = <<id[1], id[2]>> /\ id[1] \in 1..R /\ id[2] \in InRoundOf(q, id[1])
    BY <1>1, IdsAre
  <2>2. CASE id[1] = R
    <3>1. id = <<R, 0>>
      BY <1>2, <2>1, <2>2
    <3> QED
      BY <2>2, <3>1, BuiltIs
  <2>3. CASE id[1] # R
    <3>1. id[1] + 1 \in Nat /\ id[2] \in Nat /\ id[2] \div 2 \in Nat
      BY <1>1, <2>1 DEF InRoundOf
    <3>2. buildBracket(qs)[id].next = <<id[1] + 1, id[2] \div 2>>
      BY <2>3, BuiltIs
    <3>3. buildBracket(qs)[id].next \in Nat \X Nat
      BY <3>1, <3>2
    <3> QED
      BY <2>3, <3>3
  <2> QED
    BY <2>2, <2>3
<1> QED
  BY <1>3, <1>4

-----------------------------------------------------------------------------
(***************************************************************************)
(* The teams that may reach a slot                                         *)
(***************************************************************************)

\* A first-round slot from which a slot can be reached.
Entry(id, slot) == 2 * id[2] + (IF slot = "b" THEN 1 ELSE 0)

Under(m, s, id, slot) ==
  IF id[1] = 1 THEN m = id[2] /\ s = slot ELSE m \div 2^(id[1] - 2) = Entry(id, slot)

LEMMA TeamsBelowAre ==
  ASSUME NEW qs, IsSeeding(qs), NEW id \in MatchIds(Len(qs)), NEW slot \in {"a", "b"}
  PROVE  \A t : t \in TeamsBelow(qs, id, slot) <=>
           /\ t # NoTeam
           /\ \E m \in 0..(Half(Len(qs)) - 1), s \in {"a", "b"} :
                t = FirstRoundTeams(qs, m)[s] /\ Under(m, s, id, slot)
<1> DEFINE q == Len(qs)
           M == 0..(Half(q) - 1)
           first(m) == FirstRoundTeams(qs, m)
<1>1. q \in Nat /\ q >= 2 /\ Rounds(q) \in Nat
  BY RoundsAre DEF IsSeeding
<1>2. id[1] \in Nat /\ id[1] \in 1..Rounds(q) /\ id[2] \in InRoundOf(q, id[1])
  <2>1. id[1] \in 1..Rounds(q) /\ id[2] \in InRoundOf(q, id[1])
    BY <1>1, IdsAre
  <2> QED
    BY <1>1, <2>1
<1>3. CASE id[1] = 1
  <2>1. id[2] \in M
    BY <1>2, <1>3 DEF InRoundOf, Half
  <2>2. TeamsBelow(qs, id, slot) = {first(id[2])[slot]} \ {NoTeam}
    BY <1>3 DEF TeamsBelow
  <2>3. \A m, s : Under(m, s, id, slot) <=> m = id[2] /\ s = slot
    BY <1>3 DEF Under
  <2> HIDE DEF first, M
  <2> QED
    BY <2>1, <2>2, <2>3 DEF first, M
<1>4. CASE id[1] # 1
  <2>1. FirstRoundBelow(id, slot, q) = {m \in M : m \div 2^(id[1] - 2) = Entry(id, slot)}
    BY <1>2, <1>4 DEF FirstRoundBelow, Half, Entry
  <2>2. TeamsBelow(qs, id, slot) = (UNION {{first(m).a, first(m).b} : m \in FirstRoundBelow(id, slot, q)}) \ {NoTeam}
    BY <1>4 DEF TeamsBelow
  <2>3. \A m, s : Under(m, s, id, slot) <=> m \div 2^(id[1] - 2) = Entry(id, slot)
    BY <1>4 DEF Under
  <2> HIDE DEF first, M
  <2>4. \A t : t \in TeamsBelow(qs, id, slot) <=>
          t # NoTeam /\ \E m \in M, s \in {"a", "b"} : t = first(m)[s] /\ Under(m, s, id, slot)
    BY <2>1, <2>2, <2>3
  <2> QED
    BY <2>4 DEF first, M
<1> QED
  BY <1>3, <1>4

LEMMA DivTwice ==
  ASSUME NEW m \in Nat, NEW d \in Nat \ {0}
  PROVE  m \div (2 * d) = (m \div d) \div 2
OBVIOUS

LEMMA PowerPositive == \A k \in Nat : 2^k \in Nat \ {0}
<1> DEFINE Positive == {k \in Nat : 2^k > 0}
<1>1. 0 \in Positive
  BY PowerZero
<1>2. ASSUME NEW k \in Nat, k \in Positive PROVE k + 1 \in Positive
  BY <1>2, PowerNext
<1> HIDE DEF Positive
<1>3. \A k \in Nat : k \in Positive
  BY <1>1, <1>2, Induction
<1> QED
  BY <1>3, PowerNext DEF Positive

\* The teams below a match are those below the slot its winner takes ...
LEMMA SidesNest ==
  ASSUME NEW qs, IsSeeding(qs), NoMatch \notin Nat \X Nat,
         NEW x \in MatchIds(Len(qs)), NEW u \in {"a", "b"},
         NEW y \in MatchIds(Len(qs)), NEW v \in {"a", "b"},
         buildBracket(qs)[x].next = y, buildBracket(qs)[x].slot = v
  PROVE  TeamsBelow(qs, x, u) \subseteq TeamsBelow(qs, y, v)
<1> DEFINE q == Len(qs)
           R == Rounds(q)
<1>1. q \in Nat /\ q >= 2 /\ R \in Nat
  BY RoundsAre DEF IsSeeding
<1>2. x[1] \in 1..R /\ x[2] \in InRoundOf(q, x[1]) /\ x[1] \in Nat \ {0} /\ x[2] \in Nat
  <2>1. x[1] \in 1..R /\ x[2] \in InRoundOf(q, x[1])
    BY <1>1, IdsAre
  <2> QED
    BY <1>1, <2>1 DEF InRoundOf
<1>3. y \in Nat \X Nat
  <2>1. y = <<y[1], y[2]>> /\ y[1] \in 1..R /\ y[2] \in InRoundOf(q, y[1])
    BY <1>1, IdsAre
  <2> QED
    BY <1>1, <2>1 DEF InRoundOf
<1>4. x[1] # R
  BY <1>3, BuiltIs
<1>5. y[1] = x[1] + 1 /\ y[2] = x[2] \div 2 /\ (v = IF x[2] % 2 = 0 THEN "a" ELSE "b")
  BY <1>4, BuiltIs
<1>6. Entry(y, v) = x[2]
  BY <1>2, <1>5 DEF Entry
<1>7. ASSUME NEW m \in 0..(Half(q) - 1), NEW s \in {"a", "b"}, Under(m, s, x, u)
      PROVE  Under(m, s, y, v)
  <2>1. Under(m, s, y, v) <=> m \div 2^(x[1] - 1) = x[2]
    BY <1>2, <1>5, <1>6 DEF Under
  <2>2. CASE x[1] = 1
    <3>1. m = x[2] /\ 2^(x[1] - 1) = 1
      BY <1>7, <2>2, PowerZero DEF Under
    <3> QED
      BY <1>2, <2>1, <3>1
  <2>3. CASE x[1] # 1
    <3>1. m \div 2^(x[1] - 2) = Entry(x, u)
      BY <1>7, <2>3 DEF Under
    <3>2. Entry(x, u) \div 2 = x[2]
      BY <1>2 DEF Entry
    <3>3. x[1] - 2 \in Nat /\ x[1] - 1 = (x[1] - 2) + 1
      BY <1>2, <2>3
    <3>4. 2^(x[1] - 1) = 2 * 2^(x[1] - 2) /\ 2^(x[1] - 2) \in Nat \ {0}
      BY <3>3, PowerNext, PowerPositive
    <3>5. m \div (2 * 2^(x[1] - 2)) = (m \div 2^(x[1] - 2)) \div 2
      BY <3>4, DivTwice
    <3> QED
      BY <2>1, <3>1, <3>2, <3>4, <3>5
  <2> QED
    BY <2>2, <2>3
<1> QED
  BY <1>7, TeamsBelowAre

\* ... and those below the slots of one round are disjoint.
LEMMA SidesDisjoint ==
  ASSUME NEW qs, IsSeeding(qs),
         NEW x \in MatchIds(Len(qs)), NEW u \in {"a", "b"},
         NEW y \in MatchIds(Len(qs)), NEW v \in {"a", "b"},
         x[1] = y[1], NEW t \in TeamsBelow(qs, x, u), t \in TeamsBelow(qs, y, v)
  PROVE  x = y /\ u = v
<1> DEFINE q == Len(qs)
           M == 0..(Half(q) - 1)
           first(m) == FirstRoundTeams(qs, m)
<1>1. q \in Nat /\ q >= 2 /\ Rounds(q) \in Nat
  BY RoundsAre DEF IsSeeding
<1>2. /\ x = <<x[1], x[2]>> /\ y = <<y[1], y[2]>>
      /\ x[2] \in Nat /\ y[2] \in Nat /\ x[1] \in Nat
  <2>1. \A id \in MatchIds(q) : id = <<id[1], id[2]>> /\ id[1] \in 1..Rounds(q) /\ id[2] \in InRoundOf(q, id[1])
    BY <1>1, IdsAre
  <2> QED
    BY <1>1, <2>1 DEF InRoundOf
<1>3. PICK m \in M, s \in {"a", "b"} : t = first(m)[s] /\ Under(m, s, x, u)
  BY TeamsBelowAre
<1>4. PICK n \in M, o \in {"a", "b"} : t = first(n)[o] /\ Under(n, o, y, v)
  BY TeamsBelowAre
<1>5. t # NoTeam
  BY TeamsBelowAre
<1>6. PICK i \in 1..q : t = qs[i]
  <2>1. /\ first(m).a = qs[Better(q, m)] /\ Better(q, m) \in 1..q
        /\ Worse(q, m) \in 1..(2 * Half(q))
        /\ Worse(q, m) <= q => first(m).b = qs[Worse(q, m)]
        /\ Worse(q, m) > q => first(m).b = NoTeam
    BY FirstRoundIs
  <2>2. CASE s = "a"
    BY <1>3, <2>1, <2>2
  <2>3. CASE s = "b"
    <3>1. Half(q) \in Nat
      BY <1>1, BetterSeeds
    <3>2. ~(Worse(q, m) > q)
      BY <1>3, <1>5, <2>1, <2>3
    <3>3. Worse(q, m) \in 1..q
      BY <1>1, <2>1, <3>1, <3>2
    <3> QED
      BY <1>3, <2>1, <2>3, <3>3
  <2> QED
    BY <2>2, <2>3
<1>7. m = n /\ s = o
  <2>1. PICK k \in M, w \in {"a", "b"} :
          \A l \in M, z \in {"a", "b"} : first(l)[z] = qs[i] => l = k /\ z = w
    <3>1. PICK k \in 0..(Half(Len(qs)) - 1), w \in {"a", "b"} :
            /\ FirstRoundTeams(qs, k)[w] = qs[i]
            /\ \A l \in 0..(Half(Len(qs)) - 1), z \in {"a", "b"} :
                 FirstRoundTeams(qs, l)[z] = qs[i] => l = k /\ z = w
      <4>1. i \in 1..Len(qs)
        OBVIOUS
      <4> HIDE DEF q, M, first
      <4> QED
        BY <4>1, SeedsEnterOnce
    <3> QED
      BY <3>1
  <2> HIDE DEF M, first
  <2>2. m = k /\ s = w /\ n = k /\ o = w
    BY <1>3, <1>4, <1>6, <2>1
  <2> QED
    BY <2>2
<1>8. CASE x[1] = 1
  BY <1>2, <1>3, <1>4, <1>7, <1>8 DEF Under
<1>9. CASE x[1] # 1
  <2>1. Entry(x, u) = Entry(y, v)
    BY <1>3, <1>4, <1>7, <1>9 DEF Under
  <2>2. x[2] = y[2] /\ u = v
    BY <1>2, <2>1 DEF Entry
  <2> QED
    BY <1>2, <2>2
<1> QED
  BY <1>8, <1>9

-----------------------------------------------------------------------------
(***************************************************************************)
(* The properties of run draw, for every number of teams                   *)
(***************************************************************************)

\* The teams never change once they are dealt.
Dealt == teams \in {[i \in 1..n |-> i] : n \in Fields}

LEMMA AlwaysDealt == Spec => []Dealt
<1>1. Init => Dealt
  BY DEF Init, Dealt
<1>2. Dealt /\ [Next]_vars => Dealt'
  <2> SUFFICES ASSUME Dealt, [Next]_vars PROVE teams' = teams
    BY DEF Dealt
  <2> QED
    BY DEF Next, RecordResult, RollbackResult, GeneratePlayoffs, vars
<1> QED
  BY <1>1, <1>2, PTL DEF Spec

LEMMA FieldIsSeeding ==
  ASSUME Dealt, Laid
  PROVE  /\ size \in Nat /\ size >= 2 /\ Field = [i \in 1..size |-> i] /\ Len(Field) = size
         /\ IsSeeding(Field) /\ Built = buildBracket(Field)
         /\ DOMAIN Built = MatchIds(size) /\ NoMatch \notin Nat \X Nat
<1>1. PICK n \in Fields : teams = [i \in 1..n |-> i]
  BY DEF Dealt
<1>2. n \in Nat /\ Len(teams) = n
  BY <1>1, DrawAssumption
<1>3. size = n /\ size >= 2
  BY <1>2 DEF size, Laid
<1>4. Field = [i \in 1..n |-> i] /\ Len(Field) = n
  BY <1>2, <1>3 DEF Field
<1>5. IsSeeding(Field)
  BY <1>2, <1>3, <1>4, DrawAssumption DEF IsSeeding
<1> QED
  BY <1>2, <1>3, <1>4, <1>5, DrawAssumption DEF Built, buildBracket, Field

\* The slots of the first round in the finished bracket.
LEMMA FirstSlots ==
  ASSUME NEW qs, IsSeeding(qs), NEW m \in 0..(Half(Len(qs)) - 1), NEW slot \in {"a", "b"}
  PROVE  /\ <<1, m>> \in MatchIds(Len(qs))
         /\ buildBracket(qs)[<<1, m>>][slot] = FirstRoundTeams(qs, m)[slot]
         /\ buildBracket(qs)[<<1, m>>].winner = ByeWinner(qs, m)
<1> DEFINE q == Len(qs)
           id == <<1, m>>
           R == Rounds(q)
<1>1. q \in Nat /\ q >= 2 /\ R \in Nat \ {0}
  BY RoundsAre DEF IsSeeding
<1>2. id \in MatchIds(q)
  <2>1. 1 \in 1..R /\ m \in InRoundOf(q, 1)
    BY <1>1 DEF InRoundOf, Half
  <2> QED
    BY <1>1, <2>1, IdsAre
<1>3. id[1] = 1 /\ id[2] = m
  OBVIOUS
<1> HIDE DEF id
<1>4. /\ buildBracket(qs)[id].a = FirstRoundTeams(qs, m).a
      /\ buildBracket(qs)[id].b = FirstRoundTeams(qs, m).b
      /\ buildBracket(qs)[id].winner = ByeWinner(qs, m)
  BY <1>2, <1>3, BuiltIs
<1> QED
  BY <1>2, <1>4 DEF id

\* The byes are the matches of the best seeds.
LEMMA ByesOf ==
  ASSUME NEW qs, IsSeeding(qs)
  PROVE  LET q == Len(qs)
             built == buildBracket(qs)
         IN  /\ 2^Rounds(q) = 2 * Half(q)
             /\ \A id \in MatchIds(q) : built[id].done =>
                  \E s \in 1..(2^Rounds(q) - q) : s \in 1..q /\ built[id].winner = qs[s]
             /\ \A s \in 1..(2^Rounds(q) - q) : s \in 1..q /\
                  \E id \in MatchIds(q) : built[id].done /\ built[id].winner = qs[s]
<1> DEFINE q == Len(qs)
           N == Half(q)
           built == buildBracket(qs)
<1>1. q \in Nat /\ q >= 2 /\ N \in Nat /\ N < q /\ q <= 2 * N /\ 2^Rounds(q) = 2 * N
  <2>1. q \in Nat /\ q >= 2
    BY DEF IsSeeding
  <2>2. Rounds(q) \in Nat \ {0}
    BY <2>1, RoundsAre
  <2>3. Rounds(q) - 1 \in Nat /\ (Rounds(q) - 1) + 1 = Rounds(q)
    BY <2>2
  <2>4. 2^Rounds(q) = 2 * N
    BY <2>3, PowerNext DEF Half
  <2> QED
    BY <2>1, <2>4, BetterSeeds
<1>2. \A m \in 0..(N - 1) : Better(q, m) \in 1..N /\ Worse(q, m) = 2 * N + 1 - Better(q, m)
  BY <1>1, BetterSeeds DEF Worse
<1>3. ASSUME NEW id \in MatchIds(q), built[id].done
      PROVE  \E s \in 1..(2^Rounds(q) - q) : s \in 1..q /\ built[id].winner = qs[s]
  <2> DEFINE m == id[2]
  <2>1. id[1] = 1 /\ Worse(q, m) > q
    BY <1>3, ByesAre
  <2>2. m \in 0..(N - 1)
    BY <1>1, <2>1, IdsAre DEF InRoundOf, Half
  <2>3. built[id].winner = ByeWinner(qs, m)
    BY <2>1, BuiltIs
  <2>4. /\ Better(q, m) \in 1..q /\ FirstRoundTeams(qs, m).a = qs[Better(q, m)]
        /\ ByeWinner(qs, m) = IF Worse(q, m) <= q THEN NoTeam ELSE FirstRoundTeams(qs, m).a
    BY <2>2, FirstRoundIs
  <2>5. Better(q, m) \in 1..N /\ Worse(q, m) = 2 * N + 1 - Better(q, m)
    BY <1>2, <2>2
  <2>6. Better(q, m) \in 1..(2^Rounds(q) - q) /\ ~(Worse(q, m) <= q)
    BY <1>1, <2>1, <2>5
  <2> QED
    BY <2>3, <2>4, <2>6
<1>4. ASSUME NEW s \in 1..(2^Rounds(q) - q)
      PROVE  s \in 1..q /\ \E id \in MatchIds(q) : built[id].done /\ built[id].winner = qs[s]
  <2>1. s \in 1..N /\ s \in 1..q
    BY <1>1
  <2>2. PICK m \in 0..(N - 1) : Better(q, m) = s
    BY <1>1, <2>1, BetterSeeds
  <2>3. Worse(q, m) = 2 * N + 1 - s
    BY <1>2, <2>2
  <2>4. ~(Worse(q, m) <= q)
    BY <1>1, <2>1, <2>3
  <2>5. ByeWinner(qs, m) = qs[s]
    BY <2>2, <2>4, FirstRoundIs
  <2>6. <<1, m>> \in MatchIds(q) /\ built[<<1, m>>].winner = qs[s]
    BY <2>5, FirstSlots
  <2>7. built[<<1, m>>].done
    BY <2>1, <2>6, BuiltIs DEF IsSeeding
  <2> QED
    BY <2>1, <2>6, <2>7
<1> QED
  BY <1>1, <1>3, <1>4

\* However many teams there are, every one of them stands in exactly one
\* first-round slot of the bracket, no first-round match is empty, and the
\* teams that advance unplayed are the best seeds.
THEOREM TeamsEnterOnce == Spec => []EveryTeamEntersOnce
<1>1. Dealt => EveryTeamEntersOnce
  <2> SUFFICES ASSUME Dealt, Laid PROVE EveryTeamEntersOnce
    BY DEF EveryTeamEntersOnce
  <2> DEFINE M == 0..(Half(size) - 1)
             first(m) == FirstRoundTeams(Field, m)
             At(t) == {x \in Entries : Built[x[1]][x[2]] = t}
  <2>1. /\ size \in Nat /\ size >= 2 /\ Len(Field) = size /\ IsSeeding(Field)
        /\ Built = buildBracket(Field) /\ DOMAIN Built = MatchIds(size)
        /\ \A i \in 1..size : Field[i] = i
    BY FieldIsSeeding
  <2>2. Entries = {<<<<1, m>>, slot>> : m \in M, slot \in {"a", "b"}}
    BY DEF Entries, Half
  <2>3. \A m \in M, slot \in {"a", "b"} : Built[<<1, m>>][slot] = first(m)[slot]
    BY <2>1, FirstSlots
  <2>4. ASSUME NEW t \in 1..size PROVE Cardinality(At(t)) = 1
    <3>1. PICK m \in M, slot \in {"a", "b"} :
            /\ first(m)[slot] = t
            /\ \A n \in M, other \in {"a", "b"} : first(n)[other] = t => n = m /\ other = slot
      <4>1. t \in 1..Len(Field) /\ Field[t] = t
        BY <2>1
      <4> QED
        BY <2>1, <4>1, SeedsEnterOnce
    <3> HIDE DEF M, first
    <3>2. ASSUME NEW x \in At(t) PROVE x = <<<<1, m>>, slot>>
      <4>1. PICK n \in M, other \in {"a", "b"} : x = <<<<1, n>>, other>>
        BY <2>2, <3>2
      <4>2. Built[<<1, n>>][other] = t
        BY <3>2, <4>1
      <4>3. first(n)[other] = t
        BY <2>3, <4>2
      <4> QED
        BY <3>1, <4>1, <4>3
    <3>3. <<<<1, m>>, slot>> \in At(t)
      BY <2>2, <2>3, <3>1
    <3> HIDE DEF At
    <3>4. At(t) = {<<<<1, m>>, slot>>}
      BY <3>2, <3>3
    <3> QED
      BY <3>4, FS_Singleton
  <2>5. ASSUME NEW x \in Entries PROVE Built[x[1]].a # NoTeam
    <3>1. PICK m \in M, slot \in {"a", "b"} : x = <<<<1, m>>, slot>>
      BY <2>2
    <3>2. first(m).a # NoTeam
      BY <2>1, FirstRoundIs
    <3>3. Built[<<1, m>>]["a"] = first(m)["a"]
      BY <2>3
    <3> QED
      BY <3>1, <3>2, <3>3
  <2>6. {Built[id].winner : id \in {x \in DOMAIN Built : Built[x].done}} = 1..(2^Rounds(size) - size)
    <3>1. /\ \A id \in MatchIds(size) : Built[id].done =>
               \E s \in 1..(2^Rounds(size) - size) : s \in 1..size /\ Built[id].winner = Field[s]
          /\ \A s \in 1..(2^Rounds(size) - size) : s \in 1..size /\
               \E id \in MatchIds(size) : Built[id].done /\ Built[id].winner = Field[s]
      BY <2>1, ByesOf
    <3> DEFINE Best == 1..(2^Rounds(size) - size)
    <3>2. ASSUME NEW id \in MatchIds(size), Built[id].done PROVE Built[id].winner \in Best
      BY <2>1, <3>1, <3>2
    <3>3. ASSUME NEW s \in Best PROVE \E id \in MatchIds(size) : Built[id].done /\ Built[id].winner = s
      <4>1. s \in 1..size
        BY <3>1
      <4>2. Field[s] = s
        BY <2>1, <4>1
      <4> QED
        BY <3>1, <4>2
    <3> HIDE DEF Best
    <3> QED
      BY <2>1, <3>2, <3>3 DEF Best
  <2> QED
    BY <2>4, <2>5, <2>6 DEF EveryTeamEntersOnce
<1> QED
  BY <1>1, AlwaysDealt, PTL

\* However many teams there are, every later slot of the bracket has exactly
\* one match that feeds it, of the round before, and holds from the start the
\* team that had a bye there, if one had; there is one final; and only
\* first-round matches that feed another are over before they are played.
THEOREM SlotsAreFed == Spec => []EverySlotIsFed
<1>1. Dealt => EverySlotIsFed
  <2> SUFFICES ASSUME Dealt, Laid PROVE EverySlotIsFed
    BY DEF EverySlotIsFed
  <2> DEFINE Ids == MatchIds(size)
             feeders(id, slot) == {x \in DOMAIN Built : Built[x].next = id /\ Built[x].slot = slot}
             finals == {id \in DOMAIN Built : Built[id].next = NoMatch /\ ~Built[id].done}
             final == <<Rounds(size), 0>>
  <2>1. /\ size \in Nat /\ size >= 2 /\ Len(Field) = size /\ IsSeeding(Field)
        /\ Built = buildBracket(Field) /\ DOMAIN Built = Ids /\ NoMatch \notin Nat \X Nat
    BY FieldIsSeeding
  <2>2. ASSUME NEW id \in Ids, NEW slot \in {"a", "b"}, id[1] > 1
        PROVE  /\ Cardinality(feeders(id, slot)) = 1
               /\ \A x \in feeders(id, slot) :
                    Built[id][slot] = Built[x].winner /\ Built[id].round = Built[x].round + 1
    <3> DEFINE f == Feeder(id, slot)
    <3>1. /\ f \in Ids /\ f[1] = id[1] - 1
          /\ \A x \in Ids : Built[x].next = id /\ Built[x].slot = slot <=> x = f
          /\ Built[id][slot] = Built[f].winner
      BY <2>1, <2>2, FeedersAre
    <3>2. Built[id].round = id[1] /\ Built[f].round = f[1] /\ id[1] \in Nat
      <4>1. Built[id].round = id[1] /\ Built[f].round = f[1]
        BY <2>1, <3>1, BuiltIs
      <4>2. Rounds(size) \in Nat /\ id[1] \in 1..Rounds(size)
        BY <2>1, IdsAre, RoundsAre
      <4> QED
        BY <4>1, <4>2
    <3> HIDE DEF f
    <3>3. feeders(id, slot) = {f}
      BY <2>1, <3>1
    <3>4. Built[id].round = Built[f].round + 1
      BY <3>1, <3>2
    <3> HIDE DEF feeders
    <3> QED
      BY <3>1, <3>3, <3>4, FS_Singleton
  <2>3. Cardinality(finals) = 1
    <3>1. final \in Ids /\ \A id \in Ids : Built[id].next = NoMatch <=> id = final
      BY <2>1, FinalIs
    <3>2. ~Built[final].done
      <4>1. final[1] = Rounds(size)
        OBVIOUS
      <4> HIDE DEF final
      <4> QED
        BY <2>1, <3>1, <4>1, ByesAre
    <3> HIDE DEF final
    <3>3. finals = {final}
      BY <2>1, <3>1, <3>2
    <3> HIDE DEF finals
    <3> QED
      BY <3>3, FS_Singleton
  <2>4. ASSUME NEW id \in Ids, Built[id].done PROVE id[1] = 1 /\ Built[id].next # NoMatch
    <3>1. id[1] = 1 /\ Rounds(size) # 1
      BY <2>1, <2>4, ByesAre
    <3>2. Built[id].next = NoMatch <=> id = final
      BY <2>1, FinalIs
    <3> QED
      BY <3>1, <3>2
  <2> HIDE DEF Ids
  <2> QED
    BY <2>1, <2>2, <2>3, <2>4 DEF EverySlotIsFed
<1> QED
  BY <1>1, AlwaysDealt, PTL

\* The match that the winner of a match goes to.
LEMMA NextIs ==
  ASSUME NEW qs, IsSeeding(qs), NoMatch \notin Nat \X Nat, NEW id \in MatchIds(Len(qs)),
         buildBracket(qs)[id].next # NoMatch
  PROVE  LET built == buildBracket(qs)
             next == built[id].next
             slot == built[id].slot
         IN  /\ next \in MatchIds(Len(qs)) /\ next[1] = id[1] + 1 /\ next[1] > 1
             /\ slot \in {"a", "b"} /\ id = Feeder(next, slot)
             /\ built[next][slot] = built[id].winner
<1> DEFINE q == Len(qs)
           R == Rounds(q)
           built == buildBracket(qs)
           next == built[id].next
           slot == built[id].slot
<1>1. q \in Nat /\ q >= 2 /\ R \in Nat
  BY RoundsAre DEF IsSeeding
<1>2. id[1] \in 1..R /\ id[2] \in InRoundOf(q, id[1]) /\ id[1] \in Nat
  BY <1>1, IdsAre
<1>3. id[1] # R
  BY BuiltIs
<1>4. next = <<id[1] + 1, id[2] \div 2>> /\ slot = IF id[2] % 2 = 0 THEN "a" ELSE "b"
  BY <1>3, BuiltIs
<1>5. next \in MatchIds(q)
  <2>1. /\ id[1] + 1 \in 1..R /\ 2^(R - (id[1] + 1)) \in Nat
        /\ 2^(R - id[1]) = 2 * 2^(R - (id[1] + 1))
    <3>1. id[1] + 1 \in 1..R /\ 2^(R - id[1]) = 2 * 2^(R - (id[1] + 1))
      BY <1>1, <1>2, <1>3, RoundSizes
    <3> QED
      BY <1>1, <3>1, RoundSizes
  <2>2. id[2] \div 2 \in InRoundOf(q, id[1] + 1)
    <3> DEFINE n == 2^(R - (id[1] + 1))
    <3>1. n \in Nat /\ id[2] \in 0..(2 * n - 1)
      BY <1>2, <2>1 DEF InRoundOf
    <3> HIDE DEF n
    <3>2. id[2] \div 2 \in 0..(n - 1)
      BY <3>1
    <3> QED
      BY <3>2 DEF n, InRoundOf
  <2>3. <<id[1] + 1, id[2] \div 2>> \in MatchIds(q)
    BY <1>1, <2>1, <2>2, IdsAre
  <2> QED
    BY <1>4, <2>3
<1>6. next[1] = id[1] + 1 /\ next[1] > 1 /\ slot \in {"a", "b"}
  BY <1>2, <1>4
<1> HIDE DEF built, next, slot
<1>7. /\ built[id].next = next /\ built[id].slot = slot
      /\ \A x \in MatchIds(q) : built[x].next = next /\ built[x].slot = slot <=> x = Feeder(next, slot)
      /\ built[next][slot] = built[Feeder(next, slot)].winner
  BY <1>5, <1>6, FeedersAre DEF built, next, slot
<1> QED
  BY <1>5, <1>6, <1>7 DEF built, next, slot

\* A slot holds at creation one of the teams that may reach it, if any.
LEMMA CreatedInSides ==
  ASSUME NEW qs, IsSeeding(qs), NoMatch \notin Nat \X Nat, NEW id \in MatchIds(Len(qs)),
         NEW slot \in {"a", "b"}
  PROVE  buildBracket(qs)[id][slot] \in TeamsBelow(qs, id, slot) \cup {NoTeam}
<1> DEFINE q == Len(qs)
           built == buildBracket(qs)
<1>1. /\ q \in Nat /\ q >= 2
      /\ \A x \in MatchIds(q) : x[1] \in Nat \ {0} /\ (x[1] = 1 => x[2] \in 0..(Half(q) - 1))
  <2>1. q \in Nat /\ q >= 2
    BY DEF IsSeeding
  <2>2. Rounds(q) \in Nat
    BY <2>1, RoundsAre
  <2> QED
    BY <2>1, <2>2, IdsAre DEF InRoundOf, Half
<1>2. ASSUME NEW x \in MatchIds(q), x[1] = 1, NEW s \in {"a", "b"}
      PROVE  built[x][s] \in TeamsBelow(qs, x, s) \cup {NoTeam}
  <2>1. built[x][s] = FirstRoundTeams(qs, x[2])[s]
    BY <1>2, BuiltIs
  <2> QED
    BY <1>2, <2>1 DEF TeamsBelow
<1>3. CASE id[1] = 1
  BY <1>2, <1>3
<1>4. CASE id[1] # 1
  <2> DEFINE f == Feeder(id, slot)
  <2>1. id[1] > 1
    BY <1>1, <1>4
  <2>2. /\ f \in MatchIds(q) /\ built[f].next = id /\ built[f].slot = slot
        /\ built[id][slot] = built[f].winner
    BY <2>1, FeedersAre
  <2> HIDE DEF f
  <2>3. CASE f[1] # 1
    <3>1. built[f].winner = NoTeam
      BY <2>2, <2>3, BuiltIs
    <3> QED
      BY <2>2, <3>1
  <2>4. CASE f[1] = 1
    <3>1. built[f].winner = ByeWinner(qs, f[2]) /\ built[f].a = FirstRoundTeams(qs, f[2]).a
      BY <2>2, <2>4, BuiltIs
    <3>2. ByeWinner(qs, f[2]) \in {NoTeam, FirstRoundTeams(qs, f[2]).a}
      BY <1>1, <2>2, <2>4, FirstRoundIs
    <3>3. built[f]["a"] \in TeamsBelow(qs, f, "a") \cup {NoTeam}
      BY <1>2, <2>2, <2>4
    <3>4. TeamsBelow(qs, f, "a") \subseteq TeamsBelow(qs, id, slot)
      BY <2>2, SidesNest
    <3> QED
      BY <2>2, <3>1, <3>2, <3>3, <3>4
  <2> QED
    BY <2>3, <2>4
<1> QED
  BY <1>3, <1>4

\* What module Playoffs assumes of its bracket, it may: every bracket that
\* buildBracket makes, of any two or more teams, has sides and is a tree.
THEOREM BuiltIsSided ==
  ASSUME NEW qs, IsSeeding(qs), NoMatch \notin Nat \X Nat
  PROVE  IsSided(buildBracket(qs), SidesOf(qs))
<1> DEFINE q == Len(qs)
           Ids == MatchIds(q)
           built == buildBracket(qs)
           side == SidesOf(qs)
<1>1. DOMAIN built = Ids /\ \A m \in Ids, s \in Slots : side[m][s] = TeamsBelow(qs, m, s)
  BY DEF buildBracket, SidesOf
<1>2. Slots = {"a", "b"} /\ \A m \in Ids : built[m].done \in BOOLEAN
  BY DEF Slots, buildBracket
<1>3. ASSUME NEW m \in Ids, built[m].next # NoMatch
      PROVE  /\ built[m].next \in Ids /\ built[m].slot \in Slots
             /\ \A s \in Slots : TeamsBelow(qs, m, s) \subseteq TeamsBelow(qs, built[m].next, built[m].slot)
  <2>1. built[m].next \in Ids /\ built[m].slot \in {"a", "b"}
    BY <1>3, NextIs
  <2>2. ASSUME NEW s \in {"a", "b"}
        PROVE  TeamsBelow(qs, m, s) \subseteq TeamsBelow(qs, built[m].next, built[m].slot)
    BY <2>1, SidesNest
  <2> QED
    BY <1>2, <2>1, <2>2
<1>4. ASSUME NEW m \in Ids
      PROVE  /\ built[m].a \in TeamsBelow(qs, m, "a") \cup {NoTeam}
             /\ built[m].b \in TeamsBelow(qs, m, "b") \cup {NoTeam}
  <2>1. \A slot \in {"a", "b"} : built[m][slot] \in TeamsBelow(qs, m, slot) \cup {NoTeam}
    BY CreatedInSides
  <2> QED
    BY <2>1
<1>5. ASSUME NEW m \in Ids
      PROVE  /\ built[m].winner \in {built[m].a, built[m].b, NoTeam}
             /\ built[m].done <=> built[m].winner # NoTeam
  <2>1. q \in Nat /\ q >= 2
    BY DEF IsSeeding
  <2>2. CASE m[1] = 1
    <3>1. m[2] \in 0..(Half(q) - 1)
      BY <2>1, <2>2, IdsAre DEF InRoundOf, Half
    <3>2. ByeWinner(qs, m[2]) \in {NoTeam, FirstRoundTeams(qs, m[2]).a}
      BY <3>1, FirstRoundIs
    <3> QED
      BY <2>2, <3>2, BuiltIs
  <2>3. CASE m[1] # 1
    BY <2>3, BuiltIs
  <2> QED
    BY <2>2, <2>3
<1>6. ASSUME NEW m \in Ids, NEW n \in Ids, NEW s \in Slots, NEW u \in Slots,
             built[m].round = built[n].round, <<m, s>> # <<n, u>>
      PROVE  TeamsBelow(qs, m, s) \cap TeamsBelow(qs, n, u) = {}
  <2>1. m[1] = n[1]
    BY <1>6, BuiltIs
  <2>2. ASSUME NEW t \in TeamsBelow(qs, m, s), t \in TeamsBelow(qs, n, u) PROVE FALSE
    <3>1. m = n /\ s = u
      BY <1>2, <2>1, <2>2, SidesDisjoint
    <3> QED
      BY <1>6, <3>1
  <2> QED
    BY <2>2
<1> HIDE DEF Ids, built, side
<1>7. \A m, n \in Ids : built[m].round = built[n].round =>
        \A s, u \in Slots : <<m, s>> # <<n, u>> => side[m][s] \cap side[n][u] = {}
  BY <1>1, <1>6
<1>8. \A m \in Ids :
        /\ built[m].next \in Ids \cup {NoMatch}
        /\ built[m].next # NoMatch =>
             /\ built[m].slot \in Slots
             /\ \A s \in Slots : side[m][s] \subseteq side[built[m].next][built[m].slot]
  BY <1>1, <1>3
<1>9. \A m \in Ids : /\ built[m].a \in side[m]["a"] \cup {NoTeam}
                     /\ built[m].b \in side[m]["b"] \cup {NoTeam}
  BY <1>1, <1>2, <1>4
<1>10. IsSided(built, side)
  BY <1>1, <1>2, <1>5, <1>7, <1>8, <1>9 DEF IsSided
<1> QED
  BY <1>10 DEF built, side

THEOREM BuiltIsTree ==
  ASSUME NEW qs, IsSeeding(qs), NoMatch \notin Nat \X Nat
  PROVE  IsTree(buildBracket(qs))
<1> DEFINE q == Len(qs)
           Ids == MatchIds(q)
           built == buildBracket(qs)
<1>1. DOMAIN built = Ids /\ Slots = {"a", "b"} /\ q \in Nat /\ q >= 2
  BY DEF buildBracket, Slots, IsSeeding
<1>2. \A m \in Ids : built[m].round = m[1] /\ m[1] \in Nat \ {0}
  <2>1. Rounds(q) \in Nat
    BY <1>1, RoundsAre
  <2> QED
    BY <1>1, <2>1, IdsAre, BuiltIs
<1>3. ASSUME NEW m \in Ids, built[m].next # NoMatch
      PROVE  /\ built[m].next \in Ids /\ built[m].next[1] > 1 /\ built[m].slot \in {"a", "b"}
             /\ m = Feeder(built[m].next, built[m].slot)
             /\ built[built[m].next].round = built[m].round + 1
             /\ built[built[m].next][built[m].slot] = built[m].winner
  BY <1>2, <1>3, NextIs
<1>4. ASSUME NEW m \in Ids, built[m].round > 1, NEW s \in Slots
      PROVE  \E f \in Ids : built[f].next = m /\ built[f].slot = s
  <2>1. m[1] > 1 /\ s \in {"a", "b"}
    BY <1>1, <1>2, <1>4
  <2>2. /\ Feeder(m, s) \in Ids
        /\ \A x \in Ids : built[x].next = m /\ built[x].slot = s <=> x = Feeder(m, s)
    BY <2>1, FeedersAre
  <2> QED
    BY <2>2
<1>5. ASSUME NEW m \in Ids, built[m].done PROVE built[m].round = 1 /\ built[m].next # NoMatch
  <2>1. m[1] = 1 /\ Rounds(q) # 1
    BY <1>5, ByesAre
  <2>2. built[m].next = NoMatch <=> m = <<Rounds(q), 0>>
    BY FinalIs
  <2> QED
    BY <1>2, <2>1, <2>2
<1>6. ASSUME NEW m \in Ids, built[m].round = 1
      PROVE  built[m].done <=> built[m].a = NoTeam \/ built[m].b = NoTeam
  <2>1. m[1] = 1
    BY <1>2, <1>6
  <2>2. m[2] \in 0..(Half(q) - 1)
    BY <1>1, <2>1, IdsAre DEF InRoundOf, Half
  <2> DEFINE first == FirstRoundTeams(qs, m[2])
  <2>3. built[m].a = first.a /\ built[m].b = first.b /\ (built[m].done <=> ByeWinner(qs, m[2]) # NoTeam)
    BY <2>1, BuiltIs
  <2>4. /\ first.a # NoTeam
        /\ Worse(q, m[2]) <= q => first.b # NoTeam
        /\ Worse(q, m[2]) > q => first.b = NoTeam
        /\ ByeWinner(qs, m[2]) = IF Worse(q, m[2]) <= q THEN NoTeam ELSE first.a
        /\ Worse(q, m[2]) \in 1..(2 * Half(q))
    BY <2>2, FirstRoundIs
  <2>5. Worse(q, m[2]) <= q \/ Worse(q, m[2]) > q
    <3>1. Half(q) \in Nat
      BY <1>1, BetterSeeds
    <3> QED
      BY <1>1, <2>4, <3>1
  <2> HIDE DEF first
  <2>6. CASE Worse(q, m[2]) <= q
    BY <2>3, <2>4, <2>6
  <2>7. CASE ~(Worse(q, m[2]) <= q)
    BY <2>3, <2>4, <2>5, <2>7
  <2> QED
    BY <2>6, <2>7
<1>7. ASSUME NEW f \in Ids, NEW g \in Ids, built[f].next = built[g].next,
             built[f].next # NoMatch => built[f].slot = built[g].slot
      PROVE  f = g
  <2>1. CASE built[f].next = NoMatch
    <3>1. \A m \in Ids : built[m].next = NoMatch <=> m = <<Rounds(q), 0>>
      BY FinalIs
    <3> HIDE DEF built, Ids
    <3> QED
      BY <1>7, <2>1, <3>1
  <2>2. CASE built[f].next # NoMatch
    BY <1>3, <1>7, <2>2
  <2> QED
    BY <2>1, <2>2
<1> HIDE DEF Ids, built
<1>8. IsTree(built)
  BY <1>1, <1>2, <1>3, <1>4, <1>5, <1>6, <1>7 DEF IsTree
<1> QED
  BY <1>8 DEF built

\* However many teams there are, their bracket is one that module Playoffs
\* assumes.
THEOREM SidesAreApart == Spec => []SidesAreDisjointAndNested
<1>1. Dealt => SidesAreDisjointAndNested
  <2> SUFFICES ASSUME Dealt, Laid PROVE SidesAreDisjointAndNested
    BY DEF SidesAreDisjointAndNested
  <2>1. IsSeeding(Field) /\ Built = buildBracket(Field) /\ NoMatch \notin Nat \X Nat
    BY FieldIsSeeding
  <2> QED
    BY <2>1, BuiltIsSided, BuiltIsTree DEF SidesAreDisjointAndNested
<1> QED
  BY <1>1, AlwaysDealt, PTL

-----------------------------------------------------------------------------
(***************************************************************************)
(* Where two seeds meet                                                    *)
(***************************************************************************)

LEMMA HalveTwice ==
  ASSUME NEW m \in Nat, NEW d \in Nat \ {0}
  PROVE  m \div (2 * d) = (m \div 2) \div d
OBVIOUS

LEMMA DivBound ==
  ASSUME NEW c \in Nat \ {0}, NEW d \in Nat \ {0}, NEW p \in Nat, p < c * d
  PROVE  p \div d \in 0..(c - 1)
OBVIOUS

LEMMA PowerSum == \A j, k \in Nat : 2^(j + k) = 2^j * 2^k
<1> SUFFICES ASSUME NEW j \in Nat PROVE \A k \in Nat : 2^(j + k) = 2^j * 2^k
  OBVIOUS
<1> DEFINE Good == {k \in Nat : 2^(j + k) = 2^j * 2^k}
<1>1. 2^j \in Nat
  BY PowerNext
<1>2. 0 \in Good
  <2>1. j + 0 = j
    OBVIOUS
  <2> QED
    BY <1>1, <2>1, PowerZero
<1>3. ASSUME NEW k \in Nat, k \in Good PROVE k + 1 \in Good
  <2>1. j + (k + 1) = (j + k) + 1 /\ j + k \in Nat
    OBVIOUS
  <2>2. 2^(j + (k + 1)) = 2 * 2^(j + k) /\ 2^(k + 1) = 2 * 2^k /\ 2^k \in Nat
    BY <2>1, PowerNext
  <2>3. \A x, y \in Nat : 2 * (x * y) = x * (2 * y)
    OBVIOUS
  <2>4. 2 * (2^j * 2^k) = 2^j * (2 * 2^k)
    BY <1>1, <2>2, <2>3
  <2> QED
    BY <1>3, <2>2, <2>4
<1> HIDE DEF Good
<1>4. \A k \in Nat : k \in Good
  BY <1>2, <1>3, Induction
<1> QED
  BY <1>4 DEF Good

LEMMA PowerMonotone == \A j, k \in Nat : 2^j <= 2^(j + k)
<1> SUFFICES ASSUME NEW j \in Nat, NEW k \in Nat PROVE 2^j <= 2^(j + k)
  OBVIOUS
<1>1. 2^(j + k) = 2^j * 2^k /\ 2^j \in Nat /\ 2^k \in Nat \ {0}
  BY PowerSum, PowerNext, PowerPositive
<1>2. \A x \in Nat, y \in Nat \ {0} : x <= x * y
  OBVIOUS
<1> QED
  BY <1>1, <1>2

\* Of the best 2^k seeds, no two stand in the same block of 2^j places of a
\* bracket of 2^(k+j), nor in the same smaller block.
Spread(k, j) ==
  \A r \in 0..j, x, y \in 0..(2^(k + j) - 1) :
    /\ seedPositions[k + j][x + 1] <= 2^k
    /\ seedPositions[k + j][y + 1] <= 2^k
    /\ x \div 2^r = y \div 2^r
    => x = y

LEMMA SeedsAreSpread == \A k, j \in Nat : Spread(k, j)
<1> SUFFICES ASSUME NEW k \in Nat PROVE \A j \in Nat : Spread(k, j)
  OBVIOUS
<1> DEFINE Good == {j \in Nat : Spread(k, j)}
<1>1. 0 \in Good
  <2> SUFFICES Spread(k, 0)
    OBVIOUS
  <2>1. k + 0 = k /\ \A r \in 0..0 : r = 0
    OBVIOUS
  <2>2. 2^k \in Nat
    BY PowerNext
  <2>3. \A x \in Nat : x \div 1 = x
    OBVIOUS
  <2>4. \A x \in 0..(2^k - 1) : x \div 2^0 = x
    BY <2>2, <2>3, PowerZero
  <2> QED
    BY <2>1, <2>4 DEF Spread
<1>2. ASSUME NEW j \in Nat, j \in Good PROVE j + 1 \in Good
  <2> DEFINE N == 2^(k + j)
             half == seedPositions[k + j]
             s == seedPositions[k + (j + 1)]
  <2>1. k + j \in Nat /\ k + (j + 1) = (k + j) + 1 /\ j + 1 \in Nat
    OBVIOUS
  <2>2. N \in Nat /\ 2^(k + (j + 1)) = 2 * N /\ 2^k \in Nat /\ 2^k <= N
    BY <2>1, PowerNext, PowerMonotone
  <2>3. s = Paired(half) /\ half \in [1..N -> 1..N]
    BY <2>1, SeedPositionsRecursion, SeedsInOrder DEF IsOrder
  <2>4. Spread(k, j)
    BY <1>2
  <2> SUFFICES ASSUME NEW r \in 0..(j + 1), NEW x \in 0..(2 * N - 1), NEW y \in 0..(2 * N - 1),
                      s[x + 1] <= 2^k, s[y + 1] <= 2^k, x \div 2^r = y \div 2^r
               PROVE  x = y
    BY <2>1, <2>2 DEF Spread
  <2>5. ASSUME NEW z \in 0..(2 * N - 1), s[z + 1] <= 2^k
        PROVE  z = 2 * (z \div 2) /\ z \div 2 \in 0..(N - 1) /\ half[z \div 2 + 1] <= 2^k
    <3> DEFINE i == z \div 2 + 1
    <3> HIDE DEF s, half, N
    <3>1. i \in 1..N /\ (z + 1 = 2 * i - 1 \/ z + 1 = 2 * i)
      BY <2>2
    <3> HIDE DEF i
    <3>2. s[2 * i - 1] = half[i] /\ s[2 * i] = 2 * N + 1 - half[i] /\ half[i] \in 1..N
      <4>1. s[2 * i - 1] = half[i] /\ s[2 * i] = 2 * N + 1 - half[i]
        BY <2>2, <2>3, <3>1, PairedIs
      <4> QED
        BY <2>3, <3>1, <4>1
    <3>3. ~(2 * N + 1 - half[i] <= 2^k)
      BY <2>2, <3>2
    <3>4. z + 1 = 2 * i - 1
      BY <2>5, <3>1, <3>2, <3>3
    <3>5. half[i] <= 2^k
      BY <2>5, <3>2, <3>4
    <3>6. z = 2 * (z \div 2) /\ z \div 2 \in 0..(N - 1)
      BY <2>2, <3>1, <3>4 DEF i
    <3> QED
      BY <3>5, <3>6 DEF i
  <2> HIDE DEF N, half, s
  <2>6. CASE r = 0
    <3>1. 2^r = 1
      BY <2>6, PowerZero
    <3> QED
      BY <2>2, <3>1
  <2>7. CASE r # 0
    <3> DEFINE xx == x \div 2
               yy == y \div 2
    <3>1. r - 1 \in Nat /\ r - 1 \in 0..j /\ r = (r - 1) + 1
      BY <2>7
    <3>2. 2^r = 2 * 2^(r - 1) /\ 2^(r - 1) \in Nat \ {0}
      BY <3>1, PowerNext, PowerPositive
    <3>3. /\ x = 2 * xx /\ xx \in 0..(N - 1) /\ half[xx + 1] <= 2^k
          /\ y = 2 * yy /\ yy \in 0..(N - 1) /\ half[yy + 1] <= 2^k
      BY <2>5
    <3>4. x \div 2^r = xx \div 2^(r - 1) /\ y \div 2^r = yy \div 2^(r - 1)
      <4> DEFINE d == 2^(r - 1)
      <4>1. x \in Nat /\ y \in Nat /\ d \in Nat \ {0} /\ 2^r = 2 * d
        BY <2>2, <3>2
      <4> HIDE DEF d
      <4>2. x \div (2 * d) = xx \div d /\ y \div (2 * d) = yy \div d
        BY <4>1, HalveTwice
      <4> QED
        BY <4>1, <4>2 DEF d
    <3> HIDE DEF xx, yy
    <3>5. xx = yy
      BY <2>4, <3>1, <3>3, <3>4 DEF Spread, N, half
    <3> QED
      BY <3>3, <3>5
  <2> QED
    BY <2>6, <2>7
<1> HIDE DEF Good
<1>3. \A j \in Nat : j \in Good
  BY <1>1, <1>2, Induction
<1> QED
  BY <1>3 DEF Good

\* A place of the first round from which a slot can be reached.
Leads(p, id, slot) == p \div 2^(id[1] - 1) = Entry(id, slot)

LEMMA LeadsIs ==
  ASSUME NEW qs, IsSeeding(qs), NEW id \in MatchIds(Len(qs)), NEW slot \in {"a", "b"},
         NEW m \in Nat, NEW s \in {"a", "b"}
  PROVE  Under(m, s, id, slot) <=> Leads(Entry(<<1, m>>, s), id, slot)
<1> DEFINE q == Len(qs)
           p == Entry(<<1, m>>, s)
<1>1. id[1] \in Nat \ {0} /\ id[2] \in Nat
  <2>1. q \in Nat /\ q >= 2
    BY DEF IsSeeding
  <2>2. Rounds(q) \in Nat
    BY <2>1, RoundsAre
  <2> QED
    BY <2>1, <2>2, IdsAre DEF InRoundOf
<1>2. p \in Nat /\ p \div 2 = m /\ p = 2 * m + (IF s = "b" THEN 1 ELSE 0)
  BY DEF Entry
<1> HIDE DEF p
<1>3. CASE id[1] = 1
  <2>1. 2^(id[1] - 1) = 1
    BY <1>3, PowerZero
  <2>2. p \div 2^(id[1] - 1) = p
    BY <1>2, <2>1
  <2>3. Entry(id, slot) = 2 * id[2] + (IF slot = "b" THEN 1 ELSE 0)
    BY DEF Entry
  <2>4. m = id[2] /\ s = slot <=> p = Entry(id, slot)
    BY <1>1, <1>2, <2>3
  <2> QED
    BY <1>3, <2>2, <2>4 DEF Under, Leads, p
<1>4. CASE id[1] # 1
  <2> DEFINE d == 2^(id[1] - 2)
  <2>1. id[1] - 2 \in Nat /\ id[1] - 1 = (id[1] - 2) + 1
    BY <1>1, <1>4
  <2>2. d \in Nat \ {0} /\ 2^(id[1] - 1) = 2 * d
    BY <2>1, PowerNext, PowerPositive
  <2> HIDE DEF d
  <2>3. p \div (2 * d) = (p \div 2) \div d
    BY <1>2, <2>2, HalveTwice
  <2>4. p \div 2^(id[1] - 1) = m \div d
    BY <1>2, <2>2, <2>3
  <2> QED
    BY <1>4, <2>4 DEF Under, Leads, p, d
<1> QED
  BY <1>3, <1>4

\* A team may reach the slots that the place of its seed leads to.
LEMMA SeedsBelow ==
  ASSUME NEW qs, IsSeeding(qs), NEW id \in MatchIds(Len(qs)), NEW slot \in {"a", "b"},
         NEW p \in 0..(2^Rounds(Len(qs)) - 1), seedPositions[Rounds(Len(qs))][p + 1] \in 1..Len(qs)
  PROVE  qs[seedPositions[Rounds(Len(qs))][p + 1]] \in TeamsBelow(qs, id, slot) <=> Leads(p, id, slot)
<1> DEFINE q == Len(qs)
           N == Half(q)
           M == 0..(N - 1)
           seeds == seedPositions[Rounds(q)]
           t == seeds[p + 1]
           first(m) == FirstRoundTeams(qs, m)
<1>1. /\ q \in Nat /\ q >= 2 /\ N \in Nat /\ 2^Rounds(q) = 2 * N
      /\ IsOrder(seeds, 2 * N)
  <2>1. q \in Nat /\ q >= 2
    BY DEF IsSeeding
  <2> QED
    BY <2>1, RoundsAre, SeedsInOrder DEF Half
<1>2. \A m : first(m) = [a |-> IF seeds[2 * m + 1] > q THEN NoTeam ELSE qs[seeds[2 * m + 1]],
                         b |-> IF seeds[2 * m + 2] > q THEN NoTeam ELSE qs[seeds[2 * m + 2]]]
  BY DEF FirstRoundTeams
<1>3. qs[t] # NoTeam /\ t \in 1..q /\ p \in 0..(2 * N - 1)
  BY <1>1 DEF IsSeeding
<1>4. \A m, s : Entry(<<1, m>>, s) = 2 * m + (IF s = "b" THEN 1 ELSE 0)
  BY DEF Entry
<1> HIDE DEF seeds, N, first
<1>5. ASSUME NEW m \in M, NEW s \in {"a", "b"} PROVE first(m)[s] = qs[t] <=> Entry(<<1, m>>, s) = p
  <2> DEFINE x == Entry(<<1, m>>, s)
  <2>1. x \in 0..(2 * N - 1) /\ x + 1 \in 1..(2 * N) /\ p + 1 \in 1..(2 * N)
    BY <1>1, <1>3, <1>4
  <2>2. first(m)[s] = IF seeds[x + 1] > q THEN NoTeam ELSE qs[seeds[x + 1]]
    <3>1. CASE s = "a"
      <4>1. x + 1 = 2 * m + 1
        BY <1>1, <1>4, <3>1
      <4> QED
        BY <1>2, <3>1, <4>1
    <3>2. CASE s = "b"
      <4>1. x + 1 = 2 * m + 2
        BY <1>1, <1>4, <3>2
      <4> QED
        BY <1>2, <3>2, <4>1
    <3> QED
      BY <3>1, <3>2
  <2> HIDE DEF x
  <2>3. seeds[x + 1] \in 1..(2 * N)
    BY <1>1, <2>1 DEF IsOrder
  <2>4. seeds[x + 1] = t <=> x = p
    <3>1. seeds[x + 1] = t => x + 1 = p + 1
      BY <1>1, <2>1 DEF IsOrder
    <3> QED
      BY <2>1, <3>1
  <2>5. first(m)[s] = qs[t] => seeds[x + 1] = t
    <3> SUFFICES ASSUME first(m)[s] = qs[t] PROVE seeds[x + 1] = t
      OBVIOUS
    <3>1. ~(seeds[x + 1] > q) /\ qs[seeds[x + 1]] = qs[t]
      BY <1>3, <2>2
    <3>2. seeds[x + 1] \in 1..q
      BY <1>1, <2>3, <3>1
    <3> HIDE DEF t
    <3> QED
      BY <1>3, <3>1, <3>2 DEF IsSeeding
  <2>6. seeds[x + 1] = t => first(m)[s] = qs[t]
    <3> SUFFICES ASSUME seeds[x + 1] = t PROVE first(m)[s] = qs[t]
      OBVIOUS
    <3>1. ~(seeds[x + 1] > q)
      BY <1>1, <1>3
    <3> QED
      BY <2>2, <3>1
  <2> QED
    BY <2>4, <2>5, <2>6 DEF x
<1>6. PICK m \in M, s \in {"a", "b"} : Entry(<<1, m>>, s) = p
  <2> DEFINE m == p \div 2
             s == IF p % 2 = 1 THEN "b" ELSE "a"
  <2>1. m \in M /\ s \in {"a", "b"} /\ 2 * m + (IF s = "b" THEN 1 ELSE 0) = p
    BY <1>1, <1>3
  <2> QED
    BY <1>4, <2>1
<1>7. qs[t] \in TeamsBelow(qs, id, slot) <=>
        \E n \in M, o \in {"a", "b"} : qs[t] = first(n)[o] /\ Under(n, o, id, slot)
  <2> HIDE DEF t
  <2> QED
    BY <1>3, TeamsBelowAre DEF first, N
<1>8. \A n \in M, o \in {"a", "b"} : Under(n, o, id, slot) <=> Leads(Entry(<<1, n>>, o), id, slot)
  <2>1. \A n \in M : n \in Nat
    BY <1>1
  <2> QED
    BY <2>1, LeadsIs
<1> HIDE DEF M, t
<1> QED
  BY <1>5, <1>6, <1>7, <1>8 DEF t, seeds

\* The places of two seeds, in one block of 2^r places of a bracket of 2^R.
InOneBlock(R, s1, s2, r) ==
  \E x, y \in 0..(2^R - 1) :
    /\ x # y /\ seedPositions[R][x + 1] = s1 /\ seedPositions[R][y + 1] = s2
    /\ x \div 2^r = y \div 2^r

\* Two seeds meet: one match has them below its slots, and the block of the
\* places that lead to it holds both of theirs.
LEMMA SeedsMeet ==
  ASSUME NEW qs, IsSeeding(qs), NEW s1 \in 1..Len(qs), NEW s2 \in 1..Len(qs), s1 # s2
  PROVE  /\ MeetingRound(qs, s1, s2) \in 1..Rounds(Len(qs))
         /\ InOneBlock(Rounds(Len(qs)), s1, s2, MeetingRound(qs, s1, s2))
<1> DEFINE q == Len(qs)
           R == Rounds(q)
           seeds == seedPositions[R]
           Places == 0..(2^R - 1)
           Meet(id) == \/ /\ qs[s1] \in TeamsBelow(qs, id, "a")
                          /\ qs[s2] \in TeamsBelow(qs, id, "b")
                       \/ /\ qs[s2] \in TeamsBelow(qs, id, "a")
                          /\ qs[s1] \in TeamsBelow(qs, id, "b")
           r == MeetingRound(qs, s1, s2)
<1>1. q \in Nat /\ q >= 2 /\ R \in Nat \ {0} /\ 2^R \in Nat /\ q <= 2^R /\ IsOrder(seeds, 2^R)
  <2>1. q \in Nat /\ q >= 2
    BY DEF IsSeeding
  <2>2. R \in Nat \ {0} /\ 2^R \in Nat /\ q <= 2^R
    BY <2>1, RoundsAre
  <2> QED
    BY <2>1, <2>2, SeedsInOrder
<1> HIDE DEF seeds, R
<1>2. ASSUME NEW s \in 1..q PROVE \E x \in Places : seeds[x + 1] = s
  <2>1. s \in 1..(2^R)
    BY <1>1
  <2>2. PICK i \in 1..(2^R) : seeds[i] = s
    BY <1>1, <2>1 DEF IsOrder
  <2>3. i - 1 \in Places /\ (i - 1) + 1 = i
    BY <1>1
  <2> QED
    BY <2>2, <2>3
<1>3. PICK x \in Places : seeds[x + 1] = s1
  BY <1>2
<1>4. PICK y \in Places : seeds[y + 1] = s2
  BY <1>2
<1>5. x # y /\ x \in Nat /\ y \in Nat
  BY <1>1, <1>3, <1>4
<1>6. ASSUME NEW id \in MatchIds(q)
      PROVE  Meet(id) <=> \/ Leads(x, id, "a") /\ Leads(y, id, "b")
                          \/ Leads(y, id, "a") /\ Leads(x, id, "b")
  <2>1. \A slot \in {"a", "b"} : qs[s1] \in TeamsBelow(qs, id, slot) <=> Leads(x, id, slot)
    BY <1>3, SeedsBelow DEF seeds, R
  <2>2. \A slot \in {"a", "b"} : qs[s2] \in TeamsBelow(qs, id, slot) <=> Leads(y, id, slot)
    BY <1>4, SeedsBelow DEF seeds, R
  <2> QED
    BY <2>1, <2>2
<1>7. \A id : /\ Entry(id, "a") = 2 * id[2] + 0
              /\ Entry(id, "b") = 2 * id[2] + 1
  BY DEF Entry
<1>8. \A k \in Nat \ {0}, p \in Nat : p \div 2^k = (p \div 2^(k - 1)) \div 2 /\ p \div 2^(k - 1) \in Nat
  <2> TAKE k \in Nat \ {0}, p \in Nat
  <2> DEFINE d == 2^(k - 1)
  <2>1. k - 1 \in Nat /\ k = (k - 1) + 1
    OBVIOUS
  <2>2. 2^k = 2 * d /\ d \in Nat \ {0}
    BY <2>1, PowerNext, PowerPositive
  <2> HIDE DEF d
  <2>3. p \div (2 * d) = (p \div d) \div 2
    BY <2>2, DivTwice
  <2>4. p \div d \in Nat
    BY <2>2
  <2> QED
    BY <2>2, <2>3, <2>4 DEF d
<1>9. \E k \in 1..R : \E id \in MatchIds(q) : id[1] = k /\ Meet(id)
  <2> DEFINE Together == {k \in Nat : x \div 2^k = y \div 2^k}
  <2>1. R \in Together
    <3>1. \A p \in 0..(2^R - 1) : p \div 2^R = 0
      BY <1>1
    <3>2. x \div 2^R = 0 /\ y \div 2^R = 0
      BY <3>1
    <3> QED
      BY <1>1, <3>2
  <2>2. PICK k \in Together : \A l \in Together : k <= l
    <3> HIDE DEF Together
    <3>1. Together \subseteq Nat
      BY DEF Together
    <3> QED
      BY <2>1, <3>1, FirstOf
  <2>3. k # 0
    <3>1. \A p \in Nat : p \div 1 = p
      OBVIOUS
    <3> SUFFICES ASSUME k = 0 PROVE FALSE
      OBVIOUS
    <3>2. x \div 1 = y \div 1
      BY <2>2, PowerZero
    <3> QED
      BY <1>5, <3>1, <3>2
  <2>4. k \in Nat \ {0} /\ k \in 1..R /\ x \div 2^k = y \div 2^k /\ k - 1 \in Nat /\ k - 1 \notin Together
    BY <1>1, <2>1, <2>2, <2>3
  <2> DEFINE n == x \div 2^k
             i == x \div 2^(k - 1)
             j == y \div 2^(k - 1)
  <2>5. n = i \div 2 /\ n = j \div 2 /\ i \in Nat /\ j \in Nat /\ i # j
    BY <1>5, <1>8, <2>4
  <2>6. n \in InRoundOf(q, k)
    <3> DEFINE c == 2^(R - k)
               d == 2^k
    <3>1. R - k \in Nat /\ (R - k) + k = R
      BY <1>1, <2>4
    <3>2. 2^R = c * d /\ c \in Nat \ {0} /\ d \in Nat \ {0}
      BY <2>4, <3>1, PowerSum, PowerPositive
    <3> HIDE DEF c, d
    <3>3. x < c * d
      BY <1>1, <3>2
    <3>4. x \div d \in 0..(c - 1)
      BY <1>5, <3>2, <3>3, DivBound
    <3> QED
      BY <3>4 DEF InRoundOf, R, c, d
  <2> DEFINE id == <<k, n>>
  <2>7. id \in MatchIds(q) /\ id[1] = k /\ id[2] = n
    BY <1>1, <2>4, <2>6, IdsAre DEF R
  <2> HIDE DEF id, n, Together
  <2>8. /\ Leads(x, id, "a") <=> i = 2 * n
        /\ Leads(x, id, "b") <=> i = 2 * n + 1
        /\ Leads(y, id, "a") <=> j = 2 * n
        /\ Leads(y, id, "b") <=> j = 2 * n + 1
    <3> HIDE DEF i, j
    <3>1. n \in Nat
      BY <2>5
    <3>2. Entry(id, "a") = 2 * n /\ Entry(id, "b") = 2 * n + 1
      BY <1>7, <2>7, <3>1
    <3> QED
      BY <2>7, <3>2 DEF Leads, i, j
  <2> HIDE DEF i, j
  <2>9. (i = 2 * n /\ j = 2 * n + 1) \/ (j = 2 * n /\ i = 2 * n + 1)
    BY <2>5
  <2>10. Meet(id)
    BY <1>6, <2>7, <2>8, <2>9
  <2> QED
    BY <2>4, <2>7, <2>10
<1>10. r \in 1..R /\ \E id \in MatchIds(q) : id[1] = r /\ Meet(id)
  BY <1>9 DEF MeetingRound, R
<1>11. PICK id \in MatchIds(q) : id[1] = r /\ Meet(id)
  BY <1>10
<1> HIDE DEF r
<1>12. x \div 2^r = y \div 2^r
  <2> DEFINE n == id[2]
             i == x \div 2^(r - 1)
             j == y \div 2^(r - 1)
  <2>1. r \in Nat \ {0} /\ n \in Nat
    <3>1. r \in Nat \ {0} /\ id[2] \in InRoundOf(q, id[1])
      BY <1>1, <1>10, <1>11, IdsAre
    <3> QED
      BY <3>1 DEF InRoundOf
  <2>2. Entry(id, "a") = 2 * n /\ Entry(id, "b") = 2 * n + 1
    BY <1>7, <2>1
  <2>3. x \div 2^r = i \div 2 /\ y \div 2^r = j \div 2 /\ i \in Nat /\ j \in Nat
    BY <1>5, <1>8, <2>1
  <2> HIDE DEF n
  <2>4. (i = 2 * n /\ j = 2 * n + 1) \/ (j = 2 * n /\ i = 2 * n + 1)
    BY <1>6, <1>11, <2>2 DEF Leads
  <2> HIDE DEF i, j
  <2> QED
    BY <2>1, <2>3, <2>4
<1> QED
  BY <1>3, <1>4, <1>5, <1>10, <1>12 DEF r, R, seeds, InOneBlock

\* A smaller field has no more rounds.
LEMMA RoundsMonotone ==
  ASSUME NEW p \in Nat, NEW q \in Nat, 2 <= p, p <= q
  PROVE  Rounds(p) <= Rounds(q)
<1>1. /\ Rounds(p) \in Nat \ {0} /\ 2^(Rounds(p) - 1) < p /\ 2^(Rounds(p) - 1) \in Nat
      /\ Rounds(q) \in Nat \ {0} /\ q <= 2^Rounds(q) /\ 2^Rounds(q) \in Nat
  BY RoundsAre
<1> SUFFICES ASSUME Rounds(q) <= Rounds(p) - 1 PROVE FALSE
  BY <1>1
<1> DEFINE j == (Rounds(p) - 1) - Rounds(q)
<1>2. j \in Nat /\ Rounds(q) + j = Rounds(p) - 1
  BY <1>1
<1>3. 2^Rounds(q) <= 2^(Rounds(p) - 1)
  BY <1>1, <1>2, PowerMonotone
<1> QED
  BY <1>1, <1>3

\* However many teams there are, two of the best 2^k seeds cannot meet before
\* 2^k teams are left; the best two meet in the final.
THEOREM TopSeedsAreApart == Spec => []TopSeedsMeetLate
<1>1. Dealt => TopSeedsMeetLate
  <2> SUFFICES ASSUME Dealt, Laid, NEW s1 \in 1..size, NEW s2 \in 1..size, s1 < s2
               PROVE  MeetingRound(Field, s1, s2) >= Rounds(size) - Rounds(s2) + 1
    BY DEF TopSeedsMeetLate
  <2> DEFINE R == Rounds(size)
             K == Rounds(s2)
             r == MeetingRound(Field, s1, s2)
             seeds == seedPositions[R]
  <2>1. size \in Nat /\ size >= 2 /\ Len(Field) = size /\ IsSeeding(Field)
    BY FieldIsSeeding
  <2>2. s1 # s2 /\ s2 >= 2 /\ s2 \in Nat /\ s1 \in Nat
    BY <2>1
  <2>3. /\ R \in Nat /\ K \in Nat /\ K <= R
        /\ s2 <= 2^K /\ s1 <= 2^K
    <3>1. R \in Nat /\ K \in Nat /\ s2 <= 2^K /\ 2^K \in Nat
      BY <2>1, <2>2, RoundsAre
    <3>2. K <= R
      BY <2>1, <2>2, RoundsMonotone
    <3> QED
      BY <2>2, <3>1, <3>2
  <2>4. /\ r \in 1..R
        /\ \E x, y \in 0..(2^R - 1) :
             x # y /\ seeds[x + 1] = s1 /\ seeds[y + 1] = s2 /\ x \div 2^r = y \div 2^r
    <3>1. s1 \in 1..Len(Field) /\ s2 \in 1..Len(Field)
      BY <2>1
    <3> HIDE DEF r, K, R, seeds
    <3>2. /\ MeetingRound(Field, s1, s2) \in 1..Rounds(Len(Field))
          /\ InOneBlock(Rounds(Len(Field)), s1, s2, MeetingRound(Field, s1, s2))
      BY <2>1, <2>2, <3>1, SeedsMeet
    <3>3. r \in 1..R /\ InOneBlock(R, s1, s2, r)
      BY <2>1, <3>2 DEF r, R
    <3> QED
      BY <3>3 DEF InOneBlock, seeds
  <2>5. PICK x \in 0..(2^R - 1), y \in 0..(2^R - 1) :
             x # y /\ seeds[x + 1] = s1 /\ seeds[y + 1] = s2 /\ x \div 2^r = y \div 2^r
    BY <2>4
  <2> DEFINE j == R - K
  <2>6. j \in Nat /\ K + j = R
    BY <2>3
  <2>7. Spread(K, j)
    BY <2>3, <2>6, SeedsAreSpread
  <2> HIDE DEF r, K, R, seeds
  <2>8. r \notin 0..j
    <3> HIDE DEF j
    <3> SUFFICES ASSUME r \in 0..j PROVE FALSE
      OBVIOUS
    <3>1. seedPositions[K + j][x + 1] <= 2^K /\ seedPositions[K + j][y + 1] <= 2^K
      BY <2>3, <2>5, <2>6 DEF seeds
    <3>2. x \in 0..(2^(K + j) - 1) /\ y \in 0..(2^(K + j) - 1)
      BY <2>6
    <3>3. x = y
      BY <2>5, <2>7, <3>1, <3>2 DEF Spread
    <3> QED
      BY <2>5, <3>3
  <2>9. r >= R - K + 1
    BY <2>3, <2>4, <2>6, <2>8
  <2> QED
    BY <2>9 DEF r, R, K
<1> QED
  BY <1>1, AlwaysDealt, PTL

-----------------------------------------------------------------------------
(***************************************************************************)
(* Byes are earned: what seedQualifiers makes of the standings             *)
(***************************************************************************)

\* Rows in the order of their wins, each of them once.
Ranked(e, rest) ==
  LET n == Cardinality(rest)
  IN  /\ \A x \in rest : \E i \in 1..n : e[i] = x
      /\ \A i, j \in 1..n : e[i] = e[j] => i = j
      /\ \A i, j \in 1..n : i <= j => e[i].wins >= e[j].wins

Rankings(rest) == {e \in [1..Cardinality(rest) -> rest] : Ranked(e, rest)}
Seedings(rest) == {[i \in 1..Cardinality(rest) |-> e[i].team] : e \in Rankings(rest)}

LEMMA Prepend ==
  ASSUME NEW T, NEW n \in Nat, NEW f \in [1..n -> T], NEW t \in T
  PROVE  <<t>> \o f = [i \in 1..(n + 1) |-> IF i = 1 THEN t ELSE f[i - 1]]
<1>1. f \in Seq(T) /\ Len(f) = n /\ <<t>> \in Seq(T) /\ Len(<<t>>) = 1
  OBVIOUS
<1>2. <<t>> \o f \in Seq(T) /\ Len(<<t>> \o f) = n + 1
  BY <1>1
<1>3. \A i \in 1..(n + 1) : (<<t>> \o f)[i] = IF i = 1 THEN t ELSE f[i - 1]
  BY <1>1
<1> QED
  BY <1>2, <1>3

LEMMA SeedingsOfNone == Seedings({}) = {<<>>}
<1>1. Cardinality({}) = 0
  BY FS_EmptySet
<1>2. \A e : [i \in 1..0 |-> e[i].team] = <<>>
  OBVIOUS
<1>3. <<>> \in [1..0 -> {}]
  OBVIOUS
<1>4. <<>> \in Rankings({})
  BY <1>1, <1>3 DEF Rankings, Ranked
<1> QED
  BY <1>1, <1>2, <1>4 DEF Seedings

\* The first of a ranking, and the rest of it.
LEMMA RankingStep ==
  ASSUME NEW rest, IsFiniteSet(rest), NEW x \in rest
  PROVE  /\ \A e \in Rankings(rest) : e[1] = x =>
              [i \in 1..(Cardinality(rest) - 1) |-> e[i + 1]] \in Rankings(rest \ {x})
         /\ \A e \in Rankings(rest \ {x}) : x \in MostWins(rest) =>
              [i \in 1..Cardinality(rest) |-> IF i = 1 THEN x ELSE e[i - 1]] \in Rankings(rest)
<1> DEFINE n == Cardinality(rest)
           less == rest \ {x}
<1>1. n \in Nat /\ n >= 1 /\ Cardinality(less) = n - 1
  <2>1. n \in Nat /\ Cardinality(less) = n - 1 /\ IsFiniteSet(less)
    BY FS_RemoveElement, FS_CardinalityType
  <2>2. Cardinality(less) \in Nat
    BY <2>1, FS_CardinalityType
  <2> QED
    BY <2>1, <2>2
<1>2. ASSUME NEW e \in Rankings(rest), e[1] = x
      PROVE  [i \in 1..(n - 1) |-> e[i + 1]] \in Rankings(less)
  <2> DEFINE f == [i \in 1..(n - 1) |-> e[i + 1]]
  <2>1. /\ e \in [1..n -> rest]
        /\ \A y \in rest : \E i \in 1..n : e[i] = y
        /\ \A i, j \in 1..n : e[i] = e[j] => i = j
        /\ \A i, j \in 1..n : i <= j => e[i].wins >= e[j].wins
    BY DEF Rankings, Ranked
  <2> HIDE DEF n, less
  <2>2. \A i \in 1..(n - 1) : i + 1 \in 1..n /\ i + 1 # 1 /\ f[i] = e[i + 1] /\ 1 \in 1..n
    BY <1>1
  <2> HIDE DEF f
  <2>3. \A i \in 1..(n - 1) : f[i] \in less
    BY <1>2, <2>1, <2>2 DEF less
  <2>4. f \in [1..(n - 1) -> less]
    BY <2>3 DEF f
  <2>5. ASSUME NEW y \in less PROVE \E i \in 1..(n - 1) : f[i] = y
    <3>1. PICK i \in 1..n : e[i] = y
      BY <2>1 DEF less
    <3>2. i # 1
      BY <1>2, <3>1 DEF less
    <3>3. i - 1 \in 1..(n - 1) /\ (i - 1) + 1 = i
      BY <1>1, <3>2
    <3> QED
      BY <2>2, <3>1, <3>3
  <2>6. ASSUME NEW i \in 1..(n - 1), NEW j \in 1..(n - 1)
        PROVE  (f[i] = f[j] => i = j) /\ (i <= j => f[i].wins >= f[j].wins)
    <3>1. (e[i + 1] = e[j + 1] => i + 1 = j + 1) /\ (i + 1 <= j + 1 => e[i + 1].wins >= e[j + 1].wins)
      BY <2>1, <2>2
    <3>2. (i + 1 = j + 1 <=> i = j) /\ (i <= j => i + 1 <= j + 1)
      BY <1>1
    <3> QED
      BY <2>2, <3>1, <3>2
  <2> QED
    BY <1>1, <2>4, <2>5, <2>6 DEF Rankings, Ranked, f
<1>3. ASSUME NEW f \in Rankings(less), x \in MostWins(rest)
      PROVE  [i \in 1..n |-> IF i = 1 THEN x ELSE f[i - 1]] \in Rankings(rest)
  <2> DEFINE e == [i \in 1..n |-> IF i = 1 THEN x ELSE f[i - 1]]
  <2>1. /\ f \in [1..(n - 1) -> less]
        /\ \A y \in less : \E i \in 1..(n - 1) : f[i] = y
        /\ \A i, j \in 1..(n - 1) : f[i] = f[j] => i = j
        /\ \A i, j \in 1..(n - 1) : i <= j => f[i].wins >= f[j].wins
    BY <1>1 DEF Rankings, Ranked
  <2>2. \A y \in rest : x.wins >= y.wins
    BY <1>3 DEF MostWins
  <2> HIDE DEF n
  <2>3. \A i \in 1..n : i = 1 \/ (i - 1 \in 1..(n - 1) /\ i # 1)
    BY <1>1
  <2>4. 1 \in 1..n /\ e[1] = x /\ \A i \in 1..n : i # 1 => e[i] = f[i - 1] /\ e[i] \in less
    BY <1>1, <2>1, <2>3
  <2>5. e \in [1..n -> rest]
    BY <2>1, <2>3
  <2> HIDE DEF e
  <2>6. ASSUME NEW y \in rest PROVE \E i \in 1..n : e[i] = y
    <3>1. CASE y = x
      BY <2>4, <3>1
    <3>2. CASE y # x
      <4>1. PICK i \in 1..(n - 1) : f[i] = y
        BY <2>1, <3>2
      <4>2. i + 1 \in 1..n /\ i + 1 # 1 /\ (i + 1) - 1 = i
        BY <1>1
      <4> QED
        BY <2>4, <4>1, <4>2
    <3> QED
      BY <3>1, <3>2
  <2>7. ASSUME NEW i \in 1..n, NEW j \in 1..n
        PROVE  (e[i] = e[j] => i = j) /\ (i <= j => e[i].wins >= e[j].wins)
    <3>1. CASE i = 1
      <4>1. e[j] \in rest
        BY <2>5
      <4>2. j # 1 => e[j] # x
        BY <2>4
      <4> QED
        BY <2>2, <2>4, <3>1, <4>1, <4>2
    <3>2. CASE j = 1 /\ i # 1
      <4>1. e[i] # x /\ ~(i <= j)
        BY <1>1, <2>4, <3>2
      <4> QED
        BY <2>4, <3>2, <4>1
    <3>3. CASE j # 1 /\ i # 1
      <4>1. i - 1 \in 1..(n - 1) /\ j - 1 \in 1..(n - 1)
        BY <2>3, <3>3
      <4>2. (f[i - 1] = f[j - 1] => i - 1 = j - 1) /\ (i - 1 <= j - 1 => f[i - 1].wins >= f[j - 1].wins)
        BY <2>1, <4>1
      <4>3. (i - 1 = j - 1 => i = j) /\ (i <= j => i - 1 <= j - 1)
        BY <1>1
      <4> QED
        BY <2>4, <3>3, <4>2, <4>3
    <3> QED
      BY <3>1, <3>2, <3>3
  <2> QED
    BY <2>5, <2>6, <2>7 DEF Rankings, Ranked, e, n
<1> QED
  BY <1>2, <1>3

LEMMA SeedingStep ==
  ASSUME NEW rest, IsFiniteSet(rest), rest # {}
  PROVE  Seedings(rest) =
           UNION {{<<x.team>> \o s : s \in Seedings(rest \ {x})} : x \in MostWins(rest)}
<1> DEFINE n == Cardinality(rest)
           Step == UNION {{<<x.team>> \o s : s \in Seedings(rest \ {x})} : x \in MostWins(rest)}
           T == {x.team : x \in rest}
<1>1. /\ n \in Nat /\ n >= 1
      /\ \A x \in rest : Cardinality(rest \ {x}) = n - 1
  <2>1. \A x \in rest : Cardinality(rest \ {x}) = n - 1 /\ IsFiniteSet(rest \ {x})
    BY FS_RemoveElement
  <2>2. n \in Nat /\ \A x \in rest : Cardinality(rest \ {x}) \in Nat
    BY <2>1, FS_CardinalityType
  <2>3. PICK y : y \in rest
    OBVIOUS
  <2>4. n >= 1
    <3>1. n - 1 \in Nat /\ n \in Nat
      BY <2>1, <2>2, <2>3
    <3> HIDE DEF n
    <3> QED
      BY <3>1
  <2> QED
    BY <2>1, <2>2, <2>4
<1>2. ASSUME NEW q \in Seedings(rest) PROVE q \in Step
  <2>1. PICK e \in Rankings(rest) : q = [i \in 1..n |-> e[i].team]
    BY DEF Seedings
  <2> DEFINE x == e[1]
             f == [i \in 1..(n - 1) |-> e[i + 1]]
             s == [i \in 1..(n - 1) |-> f[i].team]
  <2>2. e \in [1..n -> rest] /\ Ranked(e, rest)
    BY DEF Rankings
  <2>3. x \in rest
    BY <1>1, <2>2
  <2>4. x \in MostWins(rest)
    <3>1. ASSUME NEW y \in rest PROVE x.wins >= y.wins
      <4>1. PICK i \in 1..n : e[i] = y
        BY <2>2 DEF Ranked
      <4>2. 1 \in 1..n /\ 1 <= i
        BY <1>1
      <4> QED
        BY <2>2, <4>1, <4>2 DEF Ranked
    <3> QED
      BY <2>3, <3>1 DEF MostWins
  <2>5. f \in Rankings(rest \ {x})
    BY <2>3, RankingStep
  <2>6. s \in Seedings(rest \ {x})
    BY <1>1, <2>3, <2>5 DEF Seedings
  <2>7. <<x.team>> \o s = [i \in 1..((n - 1) + 1) |-> IF i = 1 THEN x.team ELSE s[i - 1]]
    <3>1. s \in [1..(n - 1) -> T] /\ x.team \in T /\ n - 1 \in Nat
      BY <1>1, <2>2, <2>3
    <3> HIDE DEF s, x, T, n
    <3> QED
      BY <3>1, Prepend
  <2>8. q = <<x.team>> \o s
    <3>1. (n - 1) + 1 = n
      BY <1>1
    <3>2. \A i \in 1..n : i # 1 => i - 1 \in 1..(n - 1) /\ (i - 1) + 1 = i
      BY <1>1
    <3>3. \A i \in 1..n : e[i].team = IF i = 1 THEN x.team ELSE s[i - 1]
      BY <3>2
    <3> HIDE DEF s, x, n
    <3> QED
      BY <2>1, <2>7, <3>1, <3>3
  <2> HIDE DEF s, x
  <2>9. q \in {<<x.team>> \o r : r \in Seedings(rest \ {x})}
    BY <2>6, <2>8
  <2> QED
    BY <2>4, <2>9
<1>3. ASSUME NEW x \in MostWins(rest), NEW s \in Seedings(rest \ {x}) PROVE <<x.team>> \o s \in Seedings(rest)
  <2>1. x \in rest
    BY DEF MostWins
  <2>2. PICK f \in Rankings(rest \ {x}) : s = [i \in 1..(n - 1) |-> f[i].team]
    BY <1>1, <2>1 DEF Seedings
  <2> DEFINE e == [i \in 1..n |-> IF i = 1 THEN x ELSE f[i - 1]]
  <2>3. e \in Rankings(rest)
    BY <2>1, RankingStep
  <2>4. f \in [1..(n - 1) -> rest \ {x}]
    BY <1>1, <2>1 DEF Rankings
  <2>5. <<x.team>> \o s = [i \in 1..((n - 1) + 1) |-> IF i = 1 THEN x.team ELSE s[i - 1]]
    <3>1. s \in [1..(n - 1) -> T] /\ x.team \in T /\ n - 1 \in Nat
      BY <1>1, <2>1, <2>2, <2>4
    <3> HIDE DEF T, n
    <3> QED
      BY <3>1, Prepend
  <2>6. <<x.team>> \o s = [i \in 1..n |-> e[i].team]
    <3>1. (n - 1) + 1 = n
      BY <1>1
    <3>2. \A i \in 1..n : i # 1 => i - 1 \in 1..(n - 1)
      BY <1>1
    <3>3. \A i \in 1..n : e[i].team = IF i = 1 THEN x.team ELSE s[i - 1]
      BY <2>2, <3>2
    <3> HIDE DEF e, n
    <3> QED
      BY <2>5, <3>1, <3>3
  <2> HIDE DEF e
  <2> QED
    BY <2>3, <2>6 DEF Seedings
<1> HIDE DEF n
<1>4. ASSUME NEW q \in Step PROVE q \in Seedings(rest)
  <2>1. PICK x \in MostWins(rest) : q \in {<<x.team>> \o s : s \in Seedings(rest \ {x})}
    OBVIOUS
  <2>2. PICK s \in Seedings(rest \ {x}) : q = <<x.team>> \o s
    BY <2>1
  <2> QED
    BY <1>3, <2>2
<1> HIDE DEF Step
<1>5. Seedings(rest) = Step
  BY <1>2, <1>4
<1> QED
  BY <1>5 DEF Step

\* seedQualifiers gives the orders in which no row has more wins than one
\* before it.
LEMMA SeedQualifiersAre ==
  ASSUME NEW rows, IsFiniteSet(rows)
  PROVE  seedQualifiers(rows) = Seedings(rows)
<1> DEFINE body(g) ==
             [rest \in SUBSET rows |->
                IF rest = {} THEN {<<>>}
                ELSE UNION {{<<x.team>> \o s : s \in g[rest \ {x}]} : x \in MostWins(rest)}]
           all == [rest \in SUBSET rows |-> Seedings(rest)]
           seedings == CHOOSE g : g = body(g)
<1>1. seedQualifiers(rows) = seedings[rows]
  BY DEF seedQualifiers
<1>2. all = body(all)
  <2>1. ASSUME NEW rest \in SUBSET rows
        PROVE  all[rest] = IF rest = {} THEN {<<>>}
                           ELSE UNION {{<<x.team>> \o s : s \in all[rest \ {x}]} : x \in MostWins(rest)}
    <3>1. CASE rest = {}
      BY <3>1, SeedingsOfNone
    <3>2. CASE rest # {}
      <4>1. IsFiniteSet(rest)
        BY FS_Subset
      <4>2. \A x : all[rest \ {x}] = Seedings(rest \ {x})
        OBVIOUS
      <4>3. all[rest] = Seedings(rest)
        OBVIOUS
      <4> DEFINE A(x) == {<<x.team>> \o s : s \in all[rest \ {x}]}
                 B(x) == {<<x.team>> \o s : s \in Seedings(rest \ {x})}
      <4>4. \A x : A(x) = B(x)
        BY <4>2
      <4>5. Seedings(rest) = UNION {B(x) : x \in MostWins(rest)}
        BY <3>2, <4>1, SeedingStep
      <4>6. UNION {A(x) : x \in MostWins(rest)} = UNION {B(x) : x \in MostWins(rest)}
        <5> HIDE DEF A, B
        <5> QED
          BY <4>4
      <4> HIDE DEF all
      <4> QED
        BY <3>2, <4>3, <4>5, <4>6
    <3> QED
      BY <3>1, <3>2
  <2> QED
    BY <2>1
<1>3. seedings = body(seedings)
  <2> HIDE DEF body, all
  <2> QED
    BY <1>2
<1> HIDE DEF seedings, all
<1> DEFINE Good == {n \in Nat : \A rest \in SUBSET rows : Cardinality(rest) = n => seedings[rest] = Seedings(rest)}
<1>4. \A rest \in SUBSET rows :
        seedings[rest] = IF rest = {} THEN {<<>>}
                         ELSE UNION {{<<x.team>> \o s : s \in seedings[rest \ {x}]} : x \in MostWins(rest)}
  BY <1>3
<1>5. \A rest \in SUBSET rows : IsFiniteSet(rest) /\ Cardinality(rest) \in Nat
  BY FS_Subset, FS_CardinalityType
<1>6. 0 \in Good
  <2>1. ASSUME NEW rest \in SUBSET rows, Cardinality(rest) = 0 PROVE seedings[rest] = Seedings(rest)
    <3>1. rest = {}
      BY <1>5, <2>1, FS_EmptySet
    <3> QED
      BY <1>4, <3>1, SeedingsOfNone
  <2> QED
    BY <2>1
<1>7. ASSUME NEW n \in Nat, n \in Good PROVE n + 1 \in Good
  <2>1. ASSUME NEW rest \in SUBSET rows, Cardinality(rest) = n + 1 PROVE seedings[rest] = Seedings(rest)
    <3>1. rest # {}
      BY <2>1, FS_EmptySet
    <3>2. ASSUME NEW x \in MostWins(rest) PROVE seedings[rest \ {x}] = Seedings(rest \ {x})
      <4>1. x \in rest /\ rest \ {x} \in SUBSET rows
        BY DEF MostWins
      <4>2. Cardinality(rest \ {x}) = (n + 1) - 1
        BY <1>5, <2>1, <4>1, FS_RemoveElement
      <4> QED
        BY <1>7, <4>1, <4>2
    <3>3. seedings[rest] = UNION {{<<x.team>> \o s : s \in seedings[rest \ {x}]} : x \in MostWins(rest)}
      BY <1>4, <3>1
    <3>4. Seedings(rest) = UNION {{<<x.team>> \o s : s \in Seedings(rest \ {x})} : x \in MostWins(rest)}
      BY <1>5, <3>1, SeedingStep
    <3> DEFINE A(x) == {<<x.team>> \o s : s \in seedings[rest \ {x}]}
               B(x) == {<<x.team>> \o s : s \in Seedings(rest \ {x})}
    <3>5. \A x \in MostWins(rest) : A(x) = B(x)
      BY <3>2
    <3>6. UNION {A(x) : x \in MostWins(rest)} = UNION {B(x) : x \in MostWins(rest)}
      <4> HIDE DEF A, B
      <4> QED
        BY <3>5
    <3> QED
      BY <3>3, <3>4, <3>6
  <2> QED
    BY <2>1
<1> HIDE DEF Good
<1>8. \A n \in Nat : n \in Good
  BY <1>6, <1>7, Induction
<1>9. seedings[rows] = Seedings(rows)
  <2>1. Cardinality(rows) \in Good
    BY <1>5, <1>8
  <2> QED
    BY <2>1 DEF Good
<1> QED
  BY <1>1, <1>9

\* The team in each place of each group.
LEMMA GroupTeams ==
  ASSUME Dealt
  PROVE  /\ DOMAIN standings = DOMAIN Groups
         /\ \A g \in DOMAIN Groups : \A j \in DOMAIN Groups[g] : Groups[g][j] \in 1..Len(teams)
         /\ \A g, h \in DOMAIN Groups : \A i \in DOMAIN Groups[g], j \in DOMAIN Groups[h] :
              Groups[g][i] = Groups[h][j] => g = h /\ i = j
<1> DEFINE n == Len(teams)
           k == numGroups(n)
           At(g, j) == g + (j - 1) * k
           Size(g) == (n + k - g) \div k
<1>1. n \in Nat \ {0} /\ teams = [i \in 1..n |-> i]
  BY DrawAssumption DEF Dealt
<1>2. k \in Nat \ {0}
  <2> HIDE DEF n
  <2> QED
    BY <1>1 DEF numGroups, teamsPerGroup
<1>3. Groups = [g \in 1..k |-> [j \in 1..Size(g) |-> teams[At(g, j)]]]
  BY DEF Groups, groupedTeams
<1> HIDE DEF k, n
<1>4. ASSUME NEW g \in 1..k, NEW j \in 1..Size(g) PROVE At(g, j) \in 1..n
  <2>1. g \in Int /\ 1 <= g /\ g <= k /\ Size(g) \in Int /\ j \in Int /\ 1 <= j /\ j <= Size(g)
    BY <1>1, <1>2
  <2>2. Size(g) * k <= n + k - g
    BY <1>1, <1>2, <2>1
  <2>3. j * k <= Size(g) * k
    <3> DEFINE z == Size(g)
    <3>1. z \in Int /\ j <= z
      BY <2>1
    <3> HIDE DEF z
    <3>2. j * k <= z * k
      BY <1>2, <2>1, <3>1
    <3> QED
      BY <3>2 DEF z
  <2> HIDE DEF Size
  <2>4. (j - 1) * k = j * k - k /\ (j - 1) * k >= 0 /\ j * k \in Int /\ Size(g) * k \in Int
    BY <1>2, <2>1
  <2> QED
    BY <1>1, <1>2, <2>1, <2>2, <2>3, <2>4
<1>5. ASSUME NEW g \in 1..k, NEW h \in 1..k, NEW i \in Nat \ {0}, NEW j \in Nat \ {0}, At(g, i) = At(h, j)
      PROVE  g = h /\ i = j
  <2>1. (i - j) * k = h - g
    BY <1>2, <1>5
  <2>2. h - g < k /\ h - g > 0 - k
    BY <1>2
  <2>3. i - j >= 1 => (i - j) * k >= k
    BY <1>2
  <2>4. i - j <= 0 - 1 => (i - j) * k <= 0 - k
    BY <1>2
  <2>5. i = j
    BY <1>2, <2>1, <2>2, <2>3, <2>4
  <2> QED
    BY <1>2, <1>5, <2>5
<1>6. ASSUME NEW g \in DOMAIN Groups
      PROVE  /\ g \in 1..k
             /\ \A j \in DOMAIN Groups[g] :
                  j \in Nat \ {0} /\ At(g, j) \in 1..n /\ Groups[g][j] = At(g, j)
  <2>1. g \in 1..k /\ Groups[g] = [j \in 1..Size(g) |-> teams[At(g, j)]]
    BY <1>3
  <2>2. ASSUME NEW j \in DOMAIN Groups[g] PROVE j \in Nat \ {0} /\ At(g, j) \in 1..n /\ Groups[g][j] = At(g, j)
    <3>1. j \in 1..Size(g) /\ Groups[g][j] = teams[At(g, j)]
      BY <2>1
    <3>2. At(g, j) \in 1..n
      BY <1>4, <2>1, <3>1
    <3>3. j \in Nat \ {0}
      BY <1>1, <1>2, <2>1, <3>1
    <3> QED
      BY <1>1, <3>1, <3>2, <3>3
  <2> QED
    BY <2>1, <2>2
<1> HIDE DEF At
<1>7. ASSUME NEW g \in DOMAIN Groups, NEW h \in DOMAIN Groups,
             NEW i \in DOMAIN Groups[g], NEW j \in DOMAIN Groups[h], Groups[g][i] = Groups[h][j]
      PROVE  g = h /\ i = j
  BY <1>5, <1>6, <1>7
<1> QED
  BY <1>6, <1>7 DEF standings, computeStandings, n

\* A team has at most one row in the standings.
LEMMA OneRowPerTeam ==
  ASSUME Dealt
  PROVE  /\ \A x, y \in Rows : x.team = y.team => x = y
         /\ \A x \in Rows : x.team \in Nat
         /\ IsFiniteSet(Rows)
<1>1. ASSUME NEW x \in Rows
      PROVE  \E g \in DOMAIN Groups : \E j \in DOMAIN Groups[g] : x = Row(matches, g, Groups[g][j])
  <2>1. PICK g \in DOMAIN Groups : x \in standings[g]
    BY DEF Rows
  <2>2. standings[g] = {Row(matches, g, Groups[g][j]) : j \in DOMAIN Groups[g]}
    BY DEF standings, computeStandings
  <2> QED
    BY <2>1, <2>2
<1>2. \A g, t : Row(matches, g, t).team = t
  BY DEF Row
<1>3. ASSUME NEW x \in Rows, NEW y \in Rows, x.team = y.team PROVE x = y
  <2>1. PICK g \in DOMAIN Groups : \E j \in DOMAIN Groups[g] : x = Row(matches, g, Groups[g][j])
    BY <1>1
  <2>2. PICK i \in DOMAIN Groups[g] : x = Row(matches, g, Groups[g][i])
    BY <2>1
  <2>3. PICK h \in DOMAIN Groups : \E j \in DOMAIN Groups[h] : y = Row(matches, h, Groups[h][j])
    BY <1>1
  <2>4. PICK j \in DOMAIN Groups[h] : y = Row(matches, h, Groups[h][j])
    BY <2>3
  <2>5. Groups[g][i] = Groups[h][j]
    BY <1>2, <1>3, <2>2, <2>4
  <2>6. g = h /\ i = j
    BY <2>5, GroupTeams
  <2> QED
    BY <2>2, <2>4, <2>6
<1>4. ASSUME NEW x \in Rows PROVE x.team \in 1..Len(teams)
  BY <1>1, <1>2, GroupTeams
<1>5. Len(teams) \in Nat
  BY DrawAssumption DEF Dealt
<1>6. IsFiniteSet(Rows)
  <2> DEFINE name == [x \in Rows |-> x.team]
  <2>1. name \in Injection(Rows, 1..Len(teams))
    BY <1>3, <1>4 DEF Injection, IsInjective
  <2>2. IsFiniteSet(1..Len(teams))
    BY <1>5, FS_Interval
  <2> HIDE DEF name
  <2> QED
    BY <2>1, <2>2, FS_Injection
<1> QED
  BY <1>3, <1>4, <1>5, <1>6

\* The seeds are an order of the standings, and the standings are final.
Seeded ==
  qualifiers # <<>> =>
    (\A i \in DOMAIN matches : matches[i].done) /\ qualifiers \in seedQualifiers(Rows)

LEMMA AlwaysSeeded == Spec => []Seeded
<1>1. Init => Seeded
  BY DEF Init, Seeded
<1>2. Seeded /\ [Next]_vars => Seeded'
  <2> SUFFICES ASSUME Seeded, [Next]_vars PROVE Seeded'
    OBVIOUS
  <2>1. teams' = teams /\ matches' = matches => Rows' = Rows
    BY DEF Rows, standings, Groups
  <2>2. ASSUME NEW i \in DOMAIN matches, NEW r \in Results, RecordResult(i, r) PROVE Seeded'
    BY <2>2 DEF RecordResult, Seeded
  <2>3. ASSUME NEW i \in DOMAIN matches, RollbackResult(i) PROVE Seeded'
    BY <2>3 DEF RollbackResult, Seeded
  <2>4. CASE GeneratePlayoffs
    <3>1. teams' = teams /\ matches' = matches /\ qualifiers' \in seedQualifiers(Rows)
          /\ \A i \in DOMAIN matches : matches[i].done
      BY <2>4 DEF GeneratePlayoffs
    <3> QED
      BY <2>1, <3>1 DEF Seeded
  <2>5. CASE UNCHANGED vars
    <3>1. teams' = teams /\ matches' = matches /\ qualifiers' = qualifiers
      BY <2>5 DEF vars
    <3> QED
      BY <2>1, <3>1 DEF Seeded
  <2> QED
    BY <2>2, <2>3, <2>4, <2>5 DEF Next
<1> QED
  BY <1>1, <1>2, PTL DEF Spec

\* In a bracket of one team, or none, there is no match.
LEMMA NoMatchForOne == \A q \in {0, 1} : MatchIds(q) = {}
<1>1. ASSUME NEW q \in {0, 1} PROVE Rounds(q) = 0
  <2> DEFINE Fits(r) == 2^r >= q /\ \A s \in 0..(r - 1) : 2^s < q
  <2>1. Fits(0) /\ 0 \in 0..q
    BY PowerZero
  <2>2. \A r \in 0..q : Fits(r) => r = 0
    <3>1. SUFFICES ASSUME NEW r \in 0..q, r # 0, Fits(r) PROVE FALSE
      OBVIOUS
    <3>2. 0 \in 0..(r - 1)
      BY <3>1
    <3>3. 2^0 < q
      BY <3>1, <3>2
    <3> QED
      BY <3>3, PowerZero
  <2>3. Rounds(q) = CHOOSE r \in 0..q : Fits(r)
    BY DEF Rounds
  <2> HIDE DEF Fits
  <2> QED
    BY <2>1, <2>2, <2>3
<1> QED
  BY <1>1 DEF MatchIds

\* A team with a bye is seeded before the teams of a match that is played.
LEMMA ByesBeforeMatches ==
  ASSUME NEW qs, IsSeeding(qs), NEW id \in MatchIds(Len(qs)), NEW other \in MatchIds(Len(qs)),
         buildBracket(qs)[id].done, buildBracket(qs)[other].round = 1, ~buildBracket(qs)[other].done
  PROVE  \E s \in 1..Len(qs), u \in 1..Len(qs), v \in 1..Len(qs) :
           /\ s <= u /\ s <= v /\ buildBracket(qs)[id].winner = qs[s]
           /\ buildBracket(qs)[other].a = qs[u] /\ buildBracket(qs)[other].b = qs[v]
<1> DEFINE q == Len(qs)
           N == Half(q)
           built == buildBracket(qs)
           m == other[2]
           u == Better(q, m)
           v == Worse(q, m)
<1>1. q \in Nat /\ q >= 2 /\ N \in Nat /\ N < q /\ q <= 2 * N
  BY BetterSeeds DEF IsSeeding
<1>2. PICK s \in 1..(2^Rounds(q) - q) : s \in 1..q /\ built[id].winner = qs[s]
  BY ByesOf
<1>3. 2^Rounds(q) = 2 * N
  BY ByesOf
<1>4. other[1] = 1 /\ m \in 0..(N - 1)
  <2>1. other[1] = 1
    BY BuiltIs
  <2> QED
    BY <1>1, <2>1, IdsAre DEF InRoundOf, Half
<1>5. /\ u \in 1..q /\ FirstRoundTeams(qs, m).a = qs[u] /\ FirstRoundTeams(qs, m).a # NoTeam
      /\ v \in 1..(2 * N) /\ u < v
      /\ v <= q => FirstRoundTeams(qs, m).b = qs[v]
      /\ ByeWinner(qs, m) = IF v <= q THEN NoTeam ELSE FirstRoundTeams(qs, m).a
  BY <1>4, FirstRoundIs
<1>6. /\ built[other].a = FirstRoundTeams(qs, m).a /\ built[other].b = FirstRoundTeams(qs, m).b
      /\ ByeWinner(qs, m) = NoTeam
  BY <1>4, BuiltIs
<1>7. v <= q
  BY <1>5, <1>6
<1>8. u \in 1..N /\ v = 2 * N + 1 - u
  BY <1>1, <1>4, BetterSeeds DEF Worse
<1> HIDE DEF u, v, N, q, built, m
<1>9. s <= u /\ s <= v /\ v \in 1..q
  BY <1>1, <1>2, <1>3, <1>5, <1>7, <1>8
<1>10. built[other].a = qs[u] /\ built[other].b = qs[v]
  BY <1>5, <1>6, <1>7
<1> QED
  BY <1>2, <1>5, <1>9, <1>10 DEF q, built

\* However many teams there are and whatever the results, a team that
\* advances unplayed has won no less in its group than either team of any
\* match of the first round: seedQualifiers orders by wins, seedPositions
\* gives the byes to the first of that order (playoffs.go).
THEOREM ByesEarned == Spec => []ByesAreEarned
<1>1. Dealt /\ Seeded => ByesAreEarned
  <2> SUFFICES ASSUME Dealt, Seeded, qualifiers # <<>> PROVE ByesAreEarned
    BY DEF ByesAreEarned
  <2> DEFINE built == buildBracket(qualifiers)
             wins(t) == (CHOOSE x \in Rows : x.team = t).wins
             N == Cardinality(Rows)
  <2>1. /\ \A x, y \in Rows : x.team = y.team => x = y
        /\ \A x \in Rows : x.team \in Nat
        /\ IsFiniteSet(Rows)
    BY OneRowPerTeam
  <2>2. N \in Nat
    BY <2>1, FS_CardinalityType
  <2>3. PICK e \in Rankings(Rows) : qualifiers = [i \in 1..N |-> e[i].team]
    BY <2>1, SeedQualifiersAre DEF Seeded, Seedings
  <2>4. /\ e \in [1..N -> Rows]
        /\ \A i, j \in 1..N : e[i] = e[j] => i = j
        /\ \A i, j \in 1..N : i <= j => e[i].wins >= e[j].wins
    BY DEF Rankings, Ranked
  <2> HIDE DEF N
  <2>5. Len(qualifiers) = N /\ \A i \in 1..N : qualifiers[i] = e[i].team /\ e[i] \in Rows
    BY <2>2, <2>3, <2>4
  <2>6. \A i \in 1..N : wins(qualifiers[i]) = e[i].wins
    <3>1. ASSUME NEW i \in 1..N PROVE (CHOOSE x \in Rows : x.team = qualifiers[i]) = e[i]
      <4>1. e[i] \in Rows /\ e[i].team = qualifiers[i]
        BY <2>5
      <4> HIDE DEF built, wins
      <4> QED
        BY <2>1, <4>1
    <3> QED
      BY <3>1
  <2>7. DOMAIN built = MatchIds(N)
    BY <2>5 DEF buildBracket
  <2> HIDE DEF wins
  <2>8. CASE N >= 2
    <3>1. IsSeeding(qualifiers)
      <4>1. \A i \in 1..N : qualifiers[i] # NoTeam
        BY <2>1, <2>5, DrawAssumption
      <4>2. \A i, j \in 1..N : qualifiers[i] = qualifiers[j] => i = j
        BY <2>1, <2>4, <2>5
      <4> QED
        BY <2>2, <2>5, <2>8, <4>1, <4>2 DEF IsSeeding
    <3>2. ASSUME NEW id \in DOMAIN built, NEW other \in DOMAIN built,
                 built[id].done, built[other].round = 1, ~built[other].done,
                 NEW t \in {built[other].a, built[other].b}
          PROVE  wins(built[id].winner) >= wins(t)
      <4>1. PICK s \in 1..N, u \in 1..N, v \in 1..N :
              /\ s <= u /\ s <= v /\ built[id].winner = qualifiers[s]
              /\ built[other].a = qualifiers[u] /\ built[other].b = qualifiers[v]
        BY <2>5, <2>7, <3>1, <3>2, ByesBeforeMatches
      <4>2. e[s].wins >= e[u].wins /\ e[s].wins >= e[v].wins
        BY <2>4, <4>1
      <4>3. /\ wins(built[id].winner) = e[s].wins
            /\ wins(built[other].a) = e[u].wins /\ wins(built[other].b) = e[v].wins
        BY <2>6, <4>1
      <4> QED
        BY <3>2, <4>2, <4>3
    <3> QED
      BY <3>2 DEF ByesAreEarned, wins
  <2>9. CASE ~(N >= 2)
    <3>1. N \in {0, 1}
      BY <2>2, <2>9
    <3>2. DOMAIN built = {}
      BY <2>7, <3>1, NoMatchForOne
    <3> QED
      BY <3>2 DEF ByesAreEarned
  <2> QED
    BY <2>8, <2>9
<1> QED
  BY <1>1, AlwaysDealt, AlwaysSeeded, PTL

=============================================================================
