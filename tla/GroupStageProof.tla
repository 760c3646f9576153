--------------------------- MODULE GroupStageProof ---------------------------
(***************************************************************************)
(* The group stage of module Draw for every number of teams: the schedule  *)
(* and the standings that run draw checks for small fields.                *)
(***************************************************************************)
EXTENDS DrawProof, SequenceTheorems

-----------------------------------------------------------------------------
(***************************************************************************)
(* Sums over finite sets                                                   *)
(***************************************************************************)

\* A set is reached from the empty one, element by element.
LEMMA SetInduction ==
  ASSUME NEW S, IsFiniteSet(S), NEW G, {} \in G,
         \A U \in SUBSET S : \A x \in U : U \ {x} \in G => U \in G
  PROVE  S \in G
<1> DEFINE T == {n \in Nat : \A U \in SUBSET S : Cardinality(U) = n => U \in G}
<1>1. \A U \in SUBSET S : IsFiniteSet(U) /\ Cardinality(U) \in Nat /\ (Cardinality(U) = 0 <=> U = {})
  BY FS_Subset, FS_CardinalityType, FS_EmptySet
<1>2. 0 \in T
  BY <1>1
<1>3. ASSUME NEW n \in Nat, n \in T PROVE n + 1 \in T
  <2> SUFFICES ASSUME NEW U \in SUBSET S, Cardinality(U) = n + 1 PROVE U \in G
    OBVIOUS
  <2>1. PICK x \in U : TRUE
    BY <1>1
  <2>2. Cardinality(U \ {x}) = Cardinality(U) - 1
    BY <1>1, <2>1, FS_RemoveElement
  <2>3. U \ {x} \in SUBSET S /\ Cardinality(U \ {x}) = n
    BY <2>2
  <2> QED
    BY <1>3, <2>1, <2>3
<1> HIDE DEF T
<1>4. Cardinality(S) \in T
  BY <1>1, <1>2, <1>3, Induction
<1> QED
  BY <1>4 DEF T

\* The recursion in SumFunctionOnSet.
SumsTo(f, S, g) ==
  g = [T \in SUBSET S |-> IF T = {} THEN 0
                          ELSE LET x == CHOOSE y \in T : TRUE IN f[x] + g[T \ {x}]]

\* The recursion of a sum defines a function, and its values are integers.
LEMMA SumsExist ==
  ASSUME NEW f, NEW S, IsFiniteSet(S), \A x \in S : f[x] \in Int
  PROVE  \E g \in [SUBSET S -> Int] : SumsTo(f, S, g)
<1> DEFINE Any(T) == CHOOSE y \in T : TRUE
           Eq(g, T) == g[T] = IF T = {} THEN 0 ELSE f[Any(T)] + g[T \ {Any(T)}]
           Good == {n \in Nat : \E g \in [SUBSET S -> Int] :
                                  \A T \in SUBSET S : Cardinality(T) <= n => Eq(g, T)}
<1>1. ASSUME NEW T \in SUBSET S
      PROVE  /\ Cardinality(T) \in Nat /\ (Cardinality(T) = 0 <=> T = {})
             /\ T # {} => Any(T) \in T /\ Cardinality(T \ {Any(T)}) = Cardinality(T) - 1
  <2>1. IsFiniteSet(T)
    BY FS_Subset
  <2>2. T # {} => Any(T) \in T
    OBVIOUS
  <2> HIDE DEF Any
  <2> QED
    BY <2>1, <2>2, FS_CardinalityType, FS_EmptySet, FS_RemoveElement
<1> HIDE DEF Any
<1>2. 0 \in Good
  <2> DEFINE g == [T \in SUBSET S |-> 0]
  <2>1. g \in [SUBSET S -> Int]
    OBVIOUS
  <2>2. ASSUME NEW T \in SUBSET S, Cardinality(T) <= 0 PROVE Eq(g, T)
    <3>1. T = {}
      <4>1. Cardinality(T) \in Nat
        BY <1>1
      <4>2. Cardinality(T) = 0
        BY <2>2, <4>1
      <4> QED
        BY <1>1, <4>2
    <3>2. g[T] = 0
      OBVIOUS
    <3> QED
      BY <3>1, <3>2
  <2> HIDE DEF g, Eq
  <2> QED
    BY <2>1, <2>2
<1>3. ASSUME NEW n \in Nat, n \in Good PROVE n + 1 \in Good
  <2>1. PICK g \in [SUBSET S -> Int] : \A T \in SUBSET S : Cardinality(T) <= n => Eq(g, T)
    BY <1>3
  <2> DEFINE h == [T \in SUBSET S |-> IF Cardinality(T) = n + 1 THEN f[Any(T)] + g[T \ {Any(T)}] ELSE g[T]]
  <2>2. h \in [SUBSET S -> Int]
    <3>1. ASSUME NEW T \in SUBSET S, Cardinality(T) = n + 1 PROVE f[Any(T)] + g[T \ {Any(T)}] \in Int
      <4>1. Any(T) \in T
        BY <1>1, <3>1
      <4>2. T \ {Any(T)} \in SUBSET S
        OBVIOUS
      <4> QED
        BY <4>1, <4>2
    <3>2. \A T \in SUBSET S : g[T] \in Int
      OBVIOUS
    <3> QED
      BY <3>1, <3>2
  <2>3. ASSUME NEW T \in SUBSET S, Cardinality(T) <= n + 1 PROVE Eq(h, T)
    <3>1. CASE T = {}
      <4>1. Cardinality(T) = 0
        BY <1>1, <3>1
      <4>2. Cardinality(T) <= n /\ Cardinality(T) # n + 1
        BY <4>1
      <4>3. Eq(g, T) /\ h[T] = g[T]
        BY <2>1, <4>2
      <4> QED
        BY <3>1, <4>3
    <3>2. CASE T # {}
      <4> DEFINE U == T \ {Any(T)}
      <4>1. Cardinality(U) = Cardinality(T) - 1 /\ U \in SUBSET S /\ Cardinality(T) \in Nat
        BY <1>1, <3>2
      <4>2. h[U] = g[U]
        <5>1. Cardinality(U) # n + 1
          BY <2>3, <4>1
        <5> QED
          BY <4>1, <5>1
      <4>3. CASE Cardinality(T) = n + 1
        BY <3>2, <4>2, <4>3
      <4>4. CASE Cardinality(T) # n + 1
        <5>1. Cardinality(T) <= n
          BY <2>3, <4>1, <4>4
        <5>2. Eq(g, T) /\ h[T] = g[T]
          BY <2>1, <4>4, <5>1
        <5> QED
          BY <3>2, <4>2, <5>2
      <4> QED
        BY <4>3, <4>4
    <3> QED
      BY <3>1, <3>2
  <2> HIDE DEF h, Eq
  <2> QED
    BY <2>2, <2>3
<1> HIDE DEF Good
<1>4. Cardinality(S) \in Nat /\ Cardinality(S) \in Good
  BY <1>2, <1>3, FS_CardinalityType, Induction
<1>5. PICK g \in [SUBSET S -> Int] : \A T \in SUBSET S : Cardinality(T) <= Cardinality(S) => Eq(g, T)
  BY <1>4 DEF Good
<1>6. \A T \in SUBSET S : Eq(g, T)
  BY <1>1, <1>4, <1>5, FS_Subset
<1>7. SumsTo(f, S, g)
  BY <1>6 DEF SumsTo, Any
<1> QED
  BY <1>7

\* Over a subset it has the value it has there within the larger set.
LEMMA SumsAgree ==
  ASSUME NEW f, NEW S, NEW T \in SUBSET S, IsFiniteSet(S), NEW g, SumsTo(f, S, g), NEW h, SumsTo(f, T, h)
  PROVE  g[T] = h[T]
<1> DEFINE G == {U \in SUBSET T : g[U] = h[U]}
<1>1. IsFiniteSet(T)
  BY FS_Subset
<1>2. \A U \in SUBSET T :
        LET x == CHOOSE y \in U : TRUE
        IN  /\ g[U] = IF U = {} THEN 0 ELSE f[x] + g[U \ {x}]
            /\ h[U] = IF U = {} THEN 0 ELSE f[x] + h[U \ {x}]
            /\ U # {} => x \in U
  BY DEF SumsTo
<1>3. {} \in G
  BY <1>2
<1> DEFINE Good == {n \in Nat : \A U \in SUBSET T : Cardinality(U) = n => g[U] = h[U]}
<1>4. \A U \in SUBSET T : IsFiniteSet(U) /\ Cardinality(U) \in Nat /\ (Cardinality(U) = 0 <=> U = {})
  BY <1>1, FS_Subset, FS_CardinalityType, FS_EmptySet
<1>5. 0 \in Good
  BY <1>3, <1>4
<1>6. ASSUME NEW n \in Nat, n \in Good PROVE n + 1 \in Good
  <2> SUFFICES ASSUME NEW U \in SUBSET T, Cardinality(U) = n + 1 PROVE g[U] = h[U]
    OBVIOUS
  <2> DEFINE x == CHOOSE y \in U : TRUE
  <2>1. U # {} /\ x \in U
    BY <1>4
  <2>2. g[U] = f[x] + g[U \ {x}] /\ h[U] = f[x] + h[U \ {x}]
    BY <1>2, <2>1
  <2> HIDE DEF x
  <2>3. U \ {x} \in SUBSET T /\ Cardinality(U \ {x}) = n
    <3>1. IsFiniteSet(U)
      BY <1>4
    <3>2. Cardinality(U \ {x}) = Cardinality(U) - 1
      BY ONLY <2>1, <3>1, FS_RemoveElement, Zenon
    <3> QED
      BY ONLY <3>2, U \in SUBSET T, Cardinality(U) = n + 1, n \in Nat
  <2> QED
    BY <1>6, <2>2, <2>3
<1> HIDE DEF Good
<1>7. Cardinality(T) \in Good
  BY <1>4, <1>5, <1>6, Induction
<1> QED
  BY <1>7 DEF Good

\* A sum is taken in any order.
LEMMA SumFirst ==
  ASSUME NEW f, NEW S, IsFiniteSet(S), \A x \in S : f[x] \in Int
  PROVE  /\ SumFunctionOnSet(f, S) \in Int
         /\ S = {} => SumFunctionOnSet(f, S) = 0
         /\ S # {} => LET x == CHOOSE y \in S : TRUE
                      IN  SumFunctionOnSet(f, S) = f[x] + SumFunctionOnSet(f, S \ {x})
<1> DEFINE iter(T) == CHOOSE g : SumsTo(f, T, g)
<1>1. ASSUME NEW T \in SUBSET S
      PROVE  /\ SumFunctionOnSet(f, T) = iter(T)[T] /\ SumsTo(f, T, iter(T))
             /\ \A g : SumsTo(f, T, g) => g[T] = iter(T)[T]
  <2>1. IsFiniteSet(T)
    BY FS_Subset
  <2>2. \E g : SumsTo(f, T, g)
    BY <2>1, SumsExist
  <2>3. SumFunctionOnSet(f, T) = iter(T)[T]
    BY Zenon DEF SumFunctionOnSet, FoldFunctionOnSet, MapThenFoldSet, SumsTo
  <2>4. SumsTo(f, T, iter(T))
    BY <2>2, Zenon
  <2> HIDE DEF iter
  <2>5. ASSUME NEW g, SumsTo(f, T, g) PROVE g[T] = iter(T)[T]
    BY <2>1, <2>4, <2>5, SumsAgree
  <2> QED
    BY <2>3, <2>4, <2>5
<1>2. SumFunctionOnSet(f, S) \in Int
  <2>1. PICK g \in [SUBSET S -> Int] : SumsTo(f, S, g)
    BY SumsExist
  <2>2. SumFunctionOnSet(f, S) = g[S] /\ g[S] \in Int
    BY <1>1, <2>1
  <2> QED
    BY <2>2
<1> HIDE DEF iter
<1>3. ASSUME NEW T \in SUBSET S PROVE SumFunctionOnSet(f, T) = iter(S)[T]
  BY <1>1, <1>3, SumsAgree
<1>4. iter(S)[S] = IF S = {} THEN 0 ELSE LET x == CHOOSE y \in S : TRUE IN f[x] + iter(S)[S \ {x}]
  BY <1>1 DEF SumsTo
<1>5. S = {} => SumFunctionOnSet(f, S) = 0
  BY <1>3, <1>4
<1>6. ASSUME S # {}
      PROVE  LET x == CHOOSE y \in S : TRUE
             IN  SumFunctionOnSet(f, S) = f[x] + SumFunctionOnSet(f, S \ {x})
  <2> DEFINE x == CHOOSE y \in S : TRUE
  <2>1. iter(S)[S] = f[x] + iter(S)[S \ {x}]
    BY <1>4, <1>6
  <2> HIDE DEF x
  <2>2. SumFunctionOnSet(f, S) = f[x] + SumFunctionOnSet(f, S \ {x})
    BY <1>3, <2>1
  <2> QED
    BY <2>2 DEF x
<1> QED
  BY <1>2, <1>5, <1>6

\* A sum is any one of its terms and the sum of the others.
LEMMA SumRest ==
  ASSUME NEW f, NEW S, IsFiniteSet(S), \A x \in S : f[x] \in Int
  PROVE  /\ SumFunctionOnSet(f, S) \in Int
         /\ S = {} => SumFunctionOnSet(f, S) = 0
         /\ \A x \in S : SumFunctionOnSet(f, S) = f[x] + SumFunctionOnSet(f, S \ {x})
<1> DEFINE Sum(T) == SumFunctionOnSet(f, T)
           Good == {n \in Nat : \A U \in SUBSET S : Cardinality(U) = n =>
                                  \A x \in U : Sum(U) = f[x] + Sum(U \ {x})}
<1>1. \A U \in SUBSET S : IsFiniteSet(U) /\ Cardinality(U) \in Nat /\ (Cardinality(U) = 0 <=> U = {})
  BY FS_Subset, FS_CardinalityType, FS_EmptySet
<1>2. ASSUME NEW U \in SUBSET S
      PROVE  Sum(U) \in Int /\ (U # {} => \E c \in U : Sum(U) = f[c] + Sum(U \ {c}))
  <2>1. /\ Sum(U) \in Int
        /\ U # {} => LET x == CHOOSE y \in U : TRUE IN Sum(U) = f[x] + Sum(U \ {x})
    BY <1>1, SumFirst
  <2>2. U # {} => (CHOOSE y \in U : TRUE) \in U
    OBVIOUS
  <2> HIDE DEF Sum
  <2> QED
    BY <2>1, <2>2
<1> HIDE DEF Sum
<1>3. 0 \in Good
  BY <1>1
<1>4. ASSUME NEW n \in Nat, n \in Good PROVE n + 1 \in Good
  <2> SUFFICES ASSUME NEW U \in SUBSET S, Cardinality(U) = n + 1, NEW x \in U
               PROVE  Sum(U) = f[x] + Sum(U \ {x})
    OBVIOUS
  <2>1. ASSUME NEW y \in U PROVE Cardinality(U \ {y}) = n /\ U \ {y} \in SUBSET S
    <3>1. Cardinality(U \ {y}) = Cardinality(U) - 1
      BY <1>1, FS_RemoveElement
    <3> QED
      BY <3>1
  <2>2. PICK c \in U : Sum(U) = f[c] + Sum(U \ {c})
    BY <1>2
  <2>3. CASE c = x
    BY <2>2, <2>3
  <2>4. CASE c # x
    <3>1. x \in U \ {c} /\ c \in U \ {x}
      BY <2>4
    <3>2. Sum(U \ {c}) = f[x] + Sum((U \ {c}) \ {x})
      BY <1>4, <2>1, <3>1
    <3>3. Sum(U \ {x}) = f[c] + Sum((U \ {x}) \ {c})
      BY <1>4, <2>1, <3>1
    <3>4. (U \ {c}) \ {x} = (U \ {x}) \ {c}
      OBVIOUS
    <3>5. Sum((U \ {x}) \ {c}) \in Int /\ f[x] \in Int /\ f[c] \in Int
      <4>1. (U \ {x}) \ {c} \in SUBSET S
        OBVIOUS
      <4> QED
        BY <1>2, <4>1
    <3>6. Sum(U) = f[c] + (f[x] + Sum((U \ {x}) \ {c}))
      BY <2>2, <3>2, <3>4
    <3> QED
      BY <3>3, <3>5, <3>6
  <2> QED
    BY <2>3, <2>4
<1> HIDE DEF Good
<1>5. Cardinality(S) \in Good
  BY <1>1, <1>3, <1>4, Induction
<1>6. \A x \in S : Sum(S) = f[x] + Sum(S \ {x})
  BY <1>5 DEF Good
<1>7. Sum(S) \in Int /\ (S = {} => Sum(S) = 0)
  BY SumFirst DEF Sum
<1> QED
  BY <1>6, <1>7 DEF Sum

\* What two sums have in common.
LEMMA SumSame ==
  ASSUME NEW f, NEW h, NEW S, IsFiniteSet(S), \A x \in S : f[x] \in Int /\ h[x] = f[x]
  PROVE  SumFunctionOnSet(h, S) = SumFunctionOnSet(f, S)
<1> DEFINE G == {U \in SUBSET S : SumFunctionOnSet(h, U) = SumFunctionOnSet(f, U)}
<1>1. \A U \in SUBSET S : IsFiniteSet(U)
  BY FS_Subset
<1>2. ASSUME NEW U \in SUBSET S
      PROVE  /\ U = {} => SumFunctionOnSet(h, U) = SumFunctionOnSet(f, U)
             /\ \A x \in U : /\ SumFunctionOnSet(f, U) = f[x] + SumFunctionOnSet(f, U \ {x})
                             /\ SumFunctionOnSet(h, U) = h[x] + SumFunctionOnSet(h, U \ {x})
  <2>1. IsFiniteSet(U)
    BY <1>1
  <2>2. \A x \in U : f[x] \in Int /\ h[x] \in Int
    OBVIOUS
  <2>3. /\ U = {} => SumFunctionOnSet(f, U) = 0
        /\ \A x \in U : SumFunctionOnSet(f, U) = f[x] + SumFunctionOnSet(f, U \ {x})
    BY <2>1, <2>2, SumRest
  <2>4. /\ U = {} => SumFunctionOnSet(h, U) = 0
        /\ \A x \in U : SumFunctionOnSet(h, U) = h[x] + SumFunctionOnSet(h, U \ {x})
    BY <2>1, <2>2, SumRest
  <2> QED
    BY <2>3, <2>4
<1>3. {} \in G
  BY <1>2
<1>4. \A U \in SUBSET S : \A x \in U : U \ {x} \in G => U \in G
  BY <1>2
<1> HIDE DEF G
<1>5. S \in G
  BY <1>3, <1>4, SetInduction
<1> QED
  BY <1>5 DEF G

\* A sum in which two terms have changed.
LEMMA SumChanged ==
  ASSUME NEW f, NEW h, NEW S, IsFiniteSet(S), \A z \in S : f[z] \in Int /\ h[z] \in Int,
         NEW x \in S, NEW y \in S, x # y, \A z \in S \ {x, y} : h[z] = f[z]
  PROVE  SumFunctionOnSet(h, S) = SumFunctionOnSet(f, S) + (h[x] - f[x]) + (h[y] - f[y])
<1> DEFINE A == S \ {x}
           B == A \ {y}
<1>1. IsFiniteSet(A) /\ IsFiniteSet(B) /\ y \in A
  BY FS_Subset
<1>2. SumFunctionOnSet(f, S) = f[x] + SumFunctionOnSet(f, A)
  BY SumRest
<1>3. SumFunctionOnSet(h, S) = h[x] + SumFunctionOnSet(h, A)
  BY SumRest
<1>4. \A z \in A : f[z] \in Int /\ h[z] \in Int
  OBVIOUS
<1>5. \A z \in B : f[z] \in Int /\ h[z] = f[z]
  OBVIOUS
<1> HIDE DEF A
<1>6. SumFunctionOnSet(f, A) = f[y] + SumFunctionOnSet(f, B)
  BY <1>1, <1>4, SumRest
<1>7. SumFunctionOnSet(h, A) = h[y] + SumFunctionOnSet(h, B)
  BY <1>1, <1>4, SumRest
<1> HIDE DEF B
<1>8. SumFunctionOnSet(f, B) \in Int
  BY <1>1, <1>5, SumRest
<1>9. SumFunctionOnSet(h, B) = SumFunctionOnSet(f, B)
  BY <1>1, <1>5, SumSame
<1>10. SumFunctionOnSet(f, S) = f[x] + (f[y] + SumFunctionOnSet(f, B))
  BY <1>2, <1>6
<1>11. SumFunctionOnSet(h, S) = h[x] + (h[y] + SumFunctionOnSet(f, B))
  BY <1>3, <1>7, <1>9
<1> QED
  BY <1>8, <1>10, <1>11

\* Counting by the values of a function.
LEMMA SumOfFibers ==
  ASSUME NEW C, IsFiniteSet(C), NEW S, IsFiniteSet(S), NEW w, \A i \in C : w[i] \in S
  PROVE  SumFunctionOnSet([x \in S |-> Cardinality({i \in C : w[i] = x})], S) = Cardinality(C)
<1> DEFINE count == [x \in S |-> Cardinality({i \in C : w[i] = x})]
           In(U) == {i \in C : w[i] \in U}
           G == {U \in SUBSET S : SumFunctionOnSet(count, U) = Cardinality(In(U))}
<1>1. \A U : IsFiniteSet(In(U)) /\ Cardinality(In(U)) \in Nat
  BY FS_Subset, FS_CardinalityType
<1>2. ASSUME NEW x \in S PROVE count[x] \in Int /\ count[x] = Cardinality(In({x}))
  <2>1. {i \in C : w[i] = x} = In({x})
    OBVIOUS
  <2>2. count[x] = Cardinality({i \in C : w[i] = x})
    OBVIOUS
  <2> HIDE DEF In, count
  <2> QED
    BY <1>1, <2>1, <2>2
<1> HIDE DEF count
<1>3. ASSUME NEW U \in SUBSET S
      PROVE  /\ U = {} => SumFunctionOnSet(count, U) = 0
             /\ \A x \in U : SumFunctionOnSet(count, U) = count[x] + SumFunctionOnSet(count, U \ {x})
  <2>1. IsFiniteSet(U)
    BY FS_Subset
  <2>2. \A x \in U : count[x] \in Int
    BY <1>2
  <2> QED
    BY <2>1, <2>2, SumRest
<1>4. {} \in G
  <2>1. In({}) = {}
    OBVIOUS
  <2> HIDE DEF In
  <2>2. SumFunctionOnSet(count, {}) = Cardinality(In({}))
    BY <1>3, <2>1, FS_EmptySet
  <2> QED
    BY <2>2
<1>5. ASSUME NEW U \in SUBSET S, NEW x \in U, U \ {x} \in G PROVE U \in G
  <2>1. In(U) = In({x}) \cup In(U \ {x}) /\ In({x}) \cap In(U \ {x}) = {}
    OBVIOUS
  <2>2. SumFunctionOnSet(count, U \ {x}) = Cardinality(In(U \ {x}))
    BY <1>5
  <2> HIDE DEF In, G
  <2>3. Cardinality(In(U)) = Cardinality(In({x})) + Cardinality(In(U \ {x}))
    <3>1. /\ IsFiniteSet(In({x})) /\ IsFiniteSet(In(U \ {x}))
          /\ Cardinality(In({x})) \in Nat /\ Cardinality(In(U \ {x})) \in Nat
      BY <1>1
    <3>2. Cardinality(In({x}) \cup In(U \ {x})) =
            Cardinality(In({x})) + Cardinality(In(U \ {x})) - Cardinality(In({x}) \cap In(U \ {x}))
      BY <3>1, FS_Union
    <3>3. Cardinality(In({x}) \cap In(U \ {x})) = 0
      BY <2>1, FS_EmptySet
    <3>4. Cardinality(In(U)) = Cardinality(In({x}) \cup In(U \ {x}))
      BY <2>1
    <3> QED
      BY <3>1, <3>2, <3>3, <3>4
  <2>4. SumFunctionOnSet(count, U) = count[x] + SumFunctionOnSet(count, U \ {x})
    BY <1>3
  <2>5. SumFunctionOnSet(count, U) = Cardinality(In(U))
    BY <1>2, <2>2, <2>3, <2>4
  <2> QED
    BY <2>5 DEF G
<1> HIDE DEF G
<1>6. S \in G
  BY <1>4, <1>5, SetInduction
<1>7. In(S) = C
  OBVIOUS
<1> HIDE DEF In
<1>8. SumFunctionOnSet(count, S) = Cardinality(C)
  BY <1>6, <1>7 DEF G
<1> QED
  BY <1>8 DEF count

-----------------------------------------------------------------------------
(***************************************************************************)
(* Loops: what concat appends                                              *)
(***************************************************************************)

\* There is a function that is computed step by step.
IsComputed(n, S, s0, next) ==
  \E f \in [0..n -> S] : f[0] = s0 /\ \A i \in 1..n : f[i] = next[i][f[i - 1]]

\* A recursion that looks back by one step defines a function.
LEMMA StepByStep ==
  ASSUME NEW n \in Nat, NEW S, NEW s0 \in S, NEW next \in [1..n -> [S -> S]]
  PROVE  IsComputed(n, S, s0, next)
<1> DEFINE UpTo(m, f) == f[0] = s0 /\ \A i \in 1..n : i <= m => f[i] = next[i][f[i - 1]]
           Good == {m \in Nat : \E f \in [0..n -> S] : UpTo(m, f)}
<1>1. 0 \in Good
  <2>1. UpTo(0, [i \in 0..n |-> s0])
    OBVIOUS
  <2>2. [i \in 0..n |-> s0] \in [0..n -> S]
    OBVIOUS
  <2> HIDE DEF UpTo
  <2> QED
    BY <2>1, <2>2
<1>2. ASSUME NEW m \in Nat, m \in Good PROVE m + 1 \in Good
  <2>1. PICK f \in [0..n -> S] : UpTo(m, f)
    BY <1>2
  <2> DEFINE h == [i \in 0..n |-> IF i = m + 1 THEN next[i][f[i - 1]] ELSE f[i]]
  <2>2. h \in [0..n -> S]
    <3>1. ASSUME NEW i \in 0..n, i = m + 1 PROVE next[i][f[i - 1]] \in S
      <4>1. i \in 1..n /\ i - 1 \in 0..n
        BY <3>1
      <4>2. f[i - 1] \in S
        BY <4>1
      <4> QED
        BY <4>1, <4>2
    <3> QED
      BY <3>1
  <2>3. \A i \in 0..n : h[i] = IF i = m + 1 THEN next[i][f[i - 1]] ELSE f[i]
    OBVIOUS
  <2> HIDE DEF h
  <2>4. h[0] = s0
    <3>1. 0 \in 0..n /\ 0 # m + 1
      OBVIOUS
    <3> QED
      BY <2>1, <2>3, <3>1
  <2>5. ASSUME NEW i \in 1..n, i <= m + 1 PROVE h[i] = next[i][h[i - 1]]
    <3>1. i \in 0..n /\ i - 1 \in 0..n /\ i - 1 # m + 1
      BY <2>5
    <3>2. h[i - 1] = f[i - 1]
      BY <2>3, <3>1
    <3>3. CASE i = m + 1
      BY <2>3, <3>1, <3>2, <3>3
    <3>4. CASE i # m + 1
      <4>1. i <= m
        BY <2>5, <3>4
      <4> QED
        BY <2>1, <2>3, <3>1, <3>2, <3>4, <4>1
    <3> QED
      BY <3>3, <3>4
  <2>6. UpTo(m + 1, h)
    BY <2>4, <2>5
  <2> HIDE DEF UpTo
  <2> QED
    BY <2>2, <2>6
<1> HIDE DEF Good
<1>3. n \in Good
  BY <1>1, <1>2, Induction
<1>4. PICK f \in [0..n -> S] : UpTo(n, f)
  BY <1>3 DEF Good
<1> QED
  BY <1>4 DEF IsComputed

\* A sequence of the elements of a set, each of them once.
Lists(s, A) ==
  /\ s \in Seq(A)
  /\ \A e \in A : \E x \in 1..Len(s) : s[x] = e
  /\ \A x, y \in 1..Len(s) : s[x] = s[y] => x = y

\* A list of nothing and one of a single thing.
LEMMA ListsOne == Lists(<<>>, {}) /\ \A e : Lists(<<e>>, {e})
<1>1. Lists(<<>>, {})
  BY DEF Lists
<1>2. ASSUME NEW e PROVE Lists(<<e>>, {e})
  <2>1. <<e>> \in Seq({e}) /\ Len(<<e>>) = 1 /\ <<e>>[1] = e
    OBVIOUS
  <2> QED
    BY <2>1 DEF Lists
<1> QED
  BY <1>1, <1>2

\* One list after another, of different things.
LEMMA ListsBoth ==
  ASSUME NEW A, NEW B, A \cap B = {}, NEW s, Lists(s, A), NEW t, Lists(t, B)
  PROVE  Lists(s \o t, A \cup B)
<1> DEFINE u == s \o t
<1>1. /\ s \in Seq(A) /\ t \in Seq(B) /\ Len(s) \in Nat /\ Len(t) \in Nat
      /\ \A x \in 1..Len(s) : s[x] \in A
      /\ \A x \in 1..Len(t) : t[x] \in B
  BY DEF Lists
<1>2. s \in Seq(A \cup B) /\ t \in Seq(A \cup B)
  <2>1. ASSUME NEW C, NEW D, C \subseteq D, NEW v \in Seq(C) PROVE v \in Seq(D)
    BY <2>1
  <2> QED
    BY <1>1, <2>1
<1>3. /\ u \in Seq(A \cup B) /\ Len(u) = Len(s) + Len(t)
      /\ \A x \in 1..Len(u) : u[x] = IF x <= Len(s) THEN s[x] ELSE t[x - Len(s)]
  BY <1>1, <1>2
<1> HIDE DEF u
<1>4. ASSUME NEW e \in A \cup B PROVE \E x \in 1..Len(u) : u[x] = e
  <2>1. CASE e \in A
    <3>1. PICK x \in 1..Len(s) : s[x] = e
      BY <2>1 DEF Lists
    <3>2. x \in 1..Len(u) /\ x <= Len(s)
      BY <1>1, <1>3
    <3> QED
      BY <1>3, <3>1, <3>2
  <2>2. CASE e \in B
    <3>1. PICK x \in 1..Len(t) : t[x] = e
      BY <2>2 DEF Lists
    <3>2. x + Len(s) \in 1..Len(u) /\ ~(x + Len(s) <= Len(s)) /\ (x + Len(s)) - Len(s) = x
      BY <1>1, <1>3
    <3> QED
      BY <1>3, <3>1, <3>2
  <2> QED
    BY <2>1, <2>2
<1>5. ASSUME NEW x \in 1..Len(u), NEW y \in 1..Len(u), u[x] = u[y] PROVE x = y
  <2>1. CASE x <= Len(s) /\ y <= Len(s)
    <3>1. x \in 1..Len(s) /\ y \in 1..Len(s) /\ s[x] = s[y]
      BY <1>1, <1>3, <1>5, <2>1
    <3> QED
      BY <3>1 DEF Lists
  <2>2. CASE ~(x <= Len(s)) /\ ~(y <= Len(s))
    <3>1. x - Len(s) \in 1..Len(t) /\ y - Len(s) \in 1..Len(t)
      BY <1>1, <1>3, <2>2
    <3>2. t[x - Len(s)] = t[y - Len(s)]
      BY <1>3, <1>5, <2>2
    <3>3. x - Len(s) = y - Len(s)
      BY <3>1, <3>2 DEF Lists
    <3> QED
      BY <1>1, <3>3
  <2>3. ASSUME NEW v \in 1..Len(u), NEW w \in 1..Len(u), v <= Len(s), ~(w <= Len(s)) PROVE u[v] # u[w]
    <3>1. v \in 1..Len(s) /\ w - Len(s) \in 1..Len(t)
      BY <1>1, <1>3, <2>3
    <3>2. u[v] \in A /\ u[w] \in B
      BY <1>1, <1>3, <2>3, <3>1
    <3> QED
      BY <3>2
  <2> QED
    BY <1>5, <2>1, <2>2, <2>3
<1> QED
  BY <1>3, <1>4, <1>5 DEF Lists, u

\* A loop that appends lists of different things makes a list of them all.
LEMMA ConcatLists ==
  ASSUME NEW n \in Nat, NEW parts, NEW A,
         \A i \in 1..n : Lists(parts[i], A[i]),
         \A i, j \in 1..n : i # j => A[i] \cap A[j] = {}
  PROVE  Lists(concat(n, parts), UNION {A[i] : i \in 1..n})
<1> DEFINE All(m) == UNION {A[i] : i \in 1..m}
           S == Seq(All(n))
           Step(f) == f = [i \in 0..n |-> IF i = 0 THEN <<>> ELSE f[i - 1] \o parts[i]]
           upto == CHOOSE f : Step(f)
<1>1. concat(n, parts) = upto[n]
  BY DEF concat
<1>2. \E f : Step(f)
  <2> DEFINE next == [i \in 1..n |-> [s \in S |-> s \o parts[i]]]
  <2>1. next \in [1..n -> [S -> S]]
    <3>1. ASSUME NEW i \in 1..n PROVE parts[i] \in S
      <4>1. parts[i] \in Seq(A[i]) /\ A[i] \subseteq All(n)
        BY DEF Lists
      <4> HIDE DEF All
      <4> QED
        BY <4>1
    <3> HIDE DEF All
    <3> QED
      BY <3>1
  <2> DEFINE none == <<>>
  <2>2. none \in S
    OBVIOUS
  <2>3. \A i \in 1..n : \A s \in S : next[i][s] = s \o parts[i]
    OBVIOUS
  <2> HIDE DEF next, S, none, Step, upto
  <2>4. PICK f \in [0..n -> S] : f[0] = none /\ \A i \in 1..n : f[i] = next[i][f[i - 1]]
    <3>1. IsComputed(n, S, none, next)
      BY <2>1, <2>2, StepByStep
    <3> QED
      BY <3>1 DEF IsComputed
  <2>5. ASSUME NEW i \in 0..n PROVE f[i] = IF i = 0 THEN <<>> ELSE f[i - 1] \o parts[i]
    <3>1. CASE i = 0
      BY <2>4, <3>1 DEF none
    <3>2. CASE i # 0
      <4>1. i \in 1..n /\ i - 1 \in 0..n
        BY <3>2
      <4>2. f[i - 1] \in S
        BY <4>1
      <4> QED
        BY <2>3, <2>4, <3>2, <4>1, <4>2
    <3> QED
      BY <3>1, <3>2
  <2>6. f = [i \in 0..n |-> IF i = 0 THEN <<>> ELSE f[i - 1] \o parts[i]]
    BY <2>5
  <2> QED
    BY <2>6 DEF Step
<1>3. Step(upto)
  <2> HIDE DEF Step
  <2> QED
    BY <1>2
<1> HIDE DEF upto
<1>4. upto[0] = <<>> /\ \A i \in 1..n : upto[i] = upto[i - 1] \o parts[i]
  <2>1. \A i \in 0..n : upto[i] = IF i = 0 THEN <<>> ELSE upto[i - 1] \o parts[i]
    BY ONLY <1>3, Zenon DEF Step
  <2>2. 0 \in 0..n /\ \A i \in 1..n : i \in 0..n /\ i # 0
    OBVIOUS
  <2> HIDE DEF Step
  <2> QED
    BY <2>1, <2>2
<1> DEFINE Good == {m \in Nat : m <= n => Lists(upto[m], All(m))}
<1>5. 0 \in Good
  <2>1. All(0) = {}
    OBVIOUS
  <2> HIDE DEF All
  <2>2. Lists(upto[0], All(0))
    BY <1>4, <2>1 DEF Lists
  <2> QED
    BY <2>2
<1>6. ASSUME NEW m \in Nat, m \in Good PROVE m + 1 \in Good
  <2> SUFFICES ASSUME m + 1 <= n PROVE Lists(upto[m + 1], All(m + 1))
    OBVIOUS
  <2>1. m + 1 \in 1..n /\ (m + 1) - 1 = m /\ m <= n
    OBVIOUS
  <2>2. All(m + 1) = All(m) \cup A[m + 1]
    <3>1. 1..(m + 1) = (1..m) \cup {m + 1}
      OBVIOUS
    <3> QED
      BY <3>1
  <2>3. All(m) \cap A[m + 1] = {}
    <3>1. \A i \in 1..m : i \in 1..n /\ i # m + 1
      BY <2>1
    <3>2. \A i \in 1..m : A[i] \cap A[m + 1] = {}
      BY <2>1, <3>1
    <3> QED
      BY <3>2
  <2>4. upto[m + 1] = upto[m] \o parts[m + 1]
    BY <1>4, <2>1
  <2>5. Lists(upto[m], All(m)) /\ Lists(parts[m + 1], A[m + 1])
    BY <1>6, <2>1
  <2> HIDE DEF All
  <2> QED
    BY <2>2, <2>3, <2>4, <2>5, ListsBoth
<1> HIDE DEF Good
<1>7. n \in Good
  BY <1>5, <1>6, Induction
<1>8. Lists(upto[n], All(n))
  BY <1>7 DEF Good
<1> QED
  BY <1>1, <1>8

-----------------------------------------------------------------------------
(***************************************************************************)
(* The circle method                                                       *)
(***************************************************************************)

\* Where the team at position p of round r has stood in the first round, in a
\* circle of 2 * h.
Place(h, r, p) == IF p = 1 THEN 1 ELSE IF p > r THEN p + 1 - r ELSE p + 2 * h - r
Opposite(h, p) == 2 * h + 1 - p

\* The two that face each other in place i of round r.
Facing(h, r, i) == {Place(h, r, i), Place(h, r, Opposite(h, i))}

\* In every round the places are permuted; a match is between a place of the
\* upper half and the one that is opposite.
LEMMA PlacesArePermuted ==
  ASSUME NEW h \in Nat \ {0}, NEW r \in 1..(2 * h)
  PROVE  /\ \A p \in 1..(2 * h) : Place(h, r, p) \in 1..(2 * h)
         /\ \A p, q \in 1..(2 * h) : Place(h, r, p) = Place(h, r, q) => p = q
         /\ \A i \in 1..h : i \in 1..(2 * h) /\ Opposite(h, i) \in 1..(2 * h) /\ Opposite(h, i) > h
         /\ \A p \in 1..(2 * h) : Place(h, 1, p) = p
BY DEF Place, Opposite

\* Two positions of the first round face each other in one round.
LEMMA PlacesMeet ==
  ASSUME NEW h \in Nat \ {0}, NEW u \in 1..(2 * h), NEW v \in 1..(2 * h), u < v
  PROVE  \E r \in 1..(2 * h - 1) : \E i \in 1..h : Facing(h, r, i) = {u, v}
<1> DEFINE Faces(r, i) ==
             \/ Place(h, r, i) = u /\ Place(h, r, Opposite(h, i)) = v
             \/ Place(h, r, i) = v /\ Place(h, r, Opposite(h, i)) = u
           At(r, x) == IF x + r - 1 <= 2 * h THEN x + r - 1 ELSE x + r - 2 * h
<1>1. ASSUME u = 1 PROVE \E r \in 1..(2 * h - 1), i \in 1..h : Faces(r, i)
  <2>1. 2 * h + 1 - v \in 1..(2 * h - 1) /\ 1 \in 1..h
    BY <1>1
  <2>2. Faces(2 * h + 1 - v, 1)
    BY <1>1 DEF Place, Opposite
  <2> HIDE DEF Faces
  <2> QED
    BY <2>1, <2>2 DEF Faces
<1>2. ASSUME u # 1 PROVE \E r \in 1..(2 * h - 1), i \in 1..h : Faces(r, i)
  <2>1. PICK r \in 1..(2 * h - 1) :
          u + v = 2 * h + 3 - 2 * r \/ u + v = 4 * h + 2 - 2 * r \/ u + v = 6 * h + 1 - 2 * r
    <3>1. PICK d \in Nat : u + v = 2 * d \/ u + v = 2 * d + 1
      <4>1. (u + v) \div 2 \in Nat /\ (u + v = 2 * ((u + v) \div 2) \/ u + v = 2 * ((u + v) \div 2) + 1)
        OBVIOUS
      <4> QED
        BY <4>1
    <3>2. CASE u + v = 2 * d
      <4>1. 2 * h + 1 - d \in 1..(2 * h - 1) /\ u + v = 4 * h + 2 - 2 * (2 * h + 1 - d)
        BY <1>2, <3>2
      <4> QED
        BY <4>1
    <3>3. CASE u + v = 2 * d + 1 /\ d <= h
      <4>1. h + 1 - d \in 1..(2 * h - 1) /\ u + v = 2 * h + 3 - 2 * (h + 1 - d)
        BY <1>2, <3>3
      <4> QED
        BY <4>1
    <3>4. CASE u + v = 2 * d + 1 /\ d > h
      <4>1. 3 * h - d \in 1..(2 * h - 1) /\ u + v = 6 * h + 1 - 2 * (3 * h - d)
        BY <1>2, <3>4
      <4> QED
        BY <4>1
    <3> QED
      BY <3>1, <3>2, <3>3, <3>4
  <2>2. /\ At(r, u) \in 2..(2 * h) /\ At(r, v) \in 2..(2 * h)
        /\ Place(h, r, At(r, u)) = u /\ Place(h, r, At(r, v)) = v
    BY <1>2 DEF Place
  <2>3. At(r, u) + At(r, v) = 2 * h + 1
    BY <1>2, <2>1
  <2> HIDE DEF At
  <2>4. CASE At(r, u) <= h
    <3>1. At(r, u) \in 1..h /\ Opposite(h, At(r, u)) = At(r, v)
      BY <2>2, <2>3, <2>4 DEF Opposite
    <3> QED
      BY <2>2, <3>1
  <2>5. CASE At(r, u) > h
    <3>1. At(r, v) \in 1..h /\ Opposite(h, At(r, v)) = At(r, u)
      BY <2>2, <2>3, <2>5 DEF Opposite
    <3> QED
      BY <2>2, <3>1
  <2> QED
    BY <2>2, <2>4, <2>5
<1>3. PICK r \in 1..(2 * h - 1), i \in 1..h : Faces(r, i)
  BY <1>1, <1>2
<1>4. Facing(h, r, i) = {u, v}
  <2> DEFINE a == Place(h, r, i)
             b == Place(h, r, Opposite(h, i))
  <2>1. (a = u /\ b = v) \/ (a = v /\ b = u)
    BY <1>3
  <2> HIDE DEF a, b
  <2>2. {a, b} = {u, v}
    BY <2>1
  <2> QED
    BY <2>2 DEF a, b, Facing
<1> QED
  BY <1>4

\* They face each other in no other round.
LEMMA PlacesMeetOnce ==
  ASSUME NEW h \in Nat \ {0}, NEW r \in 1..(2 * h - 1), NEW q \in 1..(2 * h - 1),
         NEW i \in 1..h, NEW j \in 1..h,
         Facing(h, r, i) = Facing(h, q, j)
  PROVE  r = q /\ i = j
<1> DEFINE a == Place(h, r, i)
           b == Place(h, r, Opposite(h, i))
           c == Place(h, q, j)
           d == Place(h, q, Opposite(h, j))
<1>1. (a = c /\ b = d) \/ (a = d /\ b = c)
  <2>1. {a, b} = {c, d}
    BY DEF Facing
  <2> HIDE DEF a, b, c, d
  <2> QED
    BY <2>1
<1>2. CASE i = 1
  BY <1>1, <1>2 DEF Place, Opposite
<1>3. CASE j = 1
  BY <1>1, <1>3 DEF Place, Opposite
<1>4. CASE i # 1 /\ j # 1
  <2>1. /\ a + b = 2 * h + 3 - 2 * r \/ a + b = 4 * h + 2 - 2 * r \/ a + b = 6 * h + 1 - 2 * r
        /\ c + d = 2 * h + 3 - 2 * q \/ c + d = 4 * h + 2 - 2 * q \/ c + d = 6 * h + 1 - 2 * q
    BY <1>4 DEF Place, Opposite
  <2>2. a + b = c + d
    BY <1>1 DEF Place, Opposite
  <2>3. r = q
    <3> HIDE DEF a, b, c, d
    <3> QED
      BY <2>1, <2>2
  <2>4. i = j
    BY <1>1, <1>4, <2>3 DEF Place, Opposite
  <2> QED
    BY <2>3, <2>4
<1> QED
  BY <1>2, <1>3, <1>4

\* The first one stays and the others move on by one.
LEMMA RotateIs ==
  ASSUME NEW T, NEW h \in Nat \ {0}, NEW arr \in Seq(T), Len(arr) = 2 * h
  PROVE  /\ rotate(arr) \in Seq(T) /\ Len(rotate(arr)) = 2 * h
         /\ \A p \in 1..(2 * h) : rotate(arr)[p] = IF p = 1 THEN arr[1]
                                                   ELSE IF p = 2 THEN arr[2 * h] ELSE arr[p - 1]
<1> DEFINE two == <<arr[1], arr[2 * h]>>
           rest == SubSeq(arr, 2, 2 * h - 1)
<1>1. 1 \in 1..(2 * h) /\ 2 * h \in 1..(2 * h) /\ 2 * h \in Nat
  OBVIOUS
<1>2. two \in Seq(T) /\ Len(two) = 2 /\ two[1] = arr[1] /\ two[2] = arr[2 * h]
  BY <1>1
<1>3. rest \in Seq(T) /\ Len(rest) = 2 * h - 2
  <2>1. \A p \in 2..(2 * h - 1) : arr[p] \in T
    BY <1>1
  <2>2. CASE h = 1
    BY <2>2
  <2>3. CASE h # 1
    BY <2>3
  <2> QED
    BY <2>2, <2>3
<1>4. \A p \in 1..(2 * h - 2) : rest[p] = arr[p + 1]
  BY <1>1
<1>5. rotate(arr) = two \o rest
  BY DEF rotate
<1> HIDE DEF two, rest
<1>6. /\ two \o rest \in Seq(T) /\ Len(two \o rest) = 2 * h
      /\ \A p \in 1..(2 * h) : (two \o rest)[p] = IF p <= 2 THEN two[p] ELSE rest[p - 2]
  <2>1. Len(two) + Len(rest) = 2 * h
    BY <1>2, <1>3
  <2>2. two \o rest \in Seq(T) /\ Len(two \o rest) = Len(two) + Len(rest)
    BY <1>2, <1>3, ConcatProperties
  <2>3. Len(two \o rest) = 2 * h
    BY ONLY <2>1, <2>2
  <2>4. \A p \in 1..(Len(two) + Len(rest)) :
          (two \o rest)[p] = IF p <= Len(two) THEN two[p] ELSE rest[p - Len(two)]
    BY <1>2, <1>3, ConcatProperties
  <2>5. \A p \in 1..(2 * h) : (two \o rest)[p] = IF p <= 2 THEN two[p] ELSE rest[p - 2]
    BY ONLY <2>1, <2>4, <1>2
  <2> QED
    BY ONLY <2>2, <2>3, <2>5
<1>7. ASSUME NEW p \in 1..(2 * h)
      PROVE  (two \o rest)[p] = IF p = 1 THEN arr[1] ELSE IF p = 2 THEN arr[2 * h] ELSE arr[p - 1]
  <2>1. CASE p <= 2
    <3>1. p = 1 \/ p = 2
      BY <2>1
    <3>2. (two \o rest)[p] = two[p]
      BY ONLY <1>6, <2>1, p \in 1..(2 * h)
    <3> QED
      BY ONLY <1>2, <3>1, <3>2
  <2>2. CASE ~(p <= 2)
    <3>1. p - 2 \in 1..(2 * h - 2) /\ (p - 2) + 1 = p - 1
      BY <2>2
    <3>2. (two \o rest)[p] = rest[p - 2]
      BY ONLY <1>6, <2>2, p \in 1..(2 * h)
    <3>3. rest[p - 2] = arr[(p - 2) + 1]
      BY ONLY <1>4, <3>1
    <3>4. p # 1 /\ p # 2
      BY <2>2
    <3> QED
      BY ONLY <3>1, <3>2, <3>3, <3>4
  <2> QED
    BY <2>1, <2>2
<1> QED
  BY <1>5, <1>6, <1>7

\* The circle of each round.
Circle(arr, h, r) == [p \in 1..(2 * h) |-> arr[Place(h, r, p)]]

\* Rotating the circle of one round yields that of the next.
LEMMA CircleTurns ==
  ASSUME NEW T, NEW h \in Nat \ {0}, NEW arr \in Seq(T), Len(arr) = 2 * h
  PROVE  /\ \A r \in 1..(2 * h) : Circle(arr, h, r) \in Seq(T) /\ Len(Circle(arr, h, r)) = 2 * h
         /\ Circle(arr, h, 1) = arr
         /\ \A r \in 1..(2 * h) : r # 1 => Circle(arr, h, r) = rotate(Circle(arr, h, r - 1))
<1>1. ASSUME NEW r \in 1..(2 * h)
      PROVE  /\ Circle(arr, h, r) \in Seq(T) /\ Len(Circle(arr, h, r)) = 2 * h
             /\ \A p \in 1..(2 * h) : Circle(arr, h, r)[p] = arr[Place(h, r, p)]
  <2>1. \A p \in 1..(2 * h) : Place(h, r, p) \in 1..(2 * h)
    BY PlacesArePermuted
  <2>2. \A x \in 1..(2 * h) : arr[x] \in T
    OBVIOUS
  <2>3. \A p \in 1..(2 * h) : arr[Place(h, r, p)] \in T
    BY ONLY <2>1, <2>2
  <2> QED
    BY <2>3 DEF Circle
<1>2. Circle(arr, h, 1) = arr
  <2>1. \A p \in 1..(2 * h) : Place(h, 1, p) = p
    BY PlacesArePermuted
  <2>2. \A p \in 1..(2 * h) : Circle(arr, h, 1)[p] = arr[p]
    BY <1>1, <2>1
  <2> QED
    BY <1>1, <2>2
<1>3. ASSUME NEW r \in 1..(2 * h), r # 1
      PROVE  Circle(arr, h, r) = rotate(Circle(arr, h, r - 1))
  <2> DEFINE before == Circle(arr, h, r - 1)
             after == Circle(arr, h, r)
  <2>1. r - 1 \in 1..(2 * h)
    BY <1>3
  <2>2. before \in Seq(T) /\ Len(before) = 2 * h /\ after \in Seq(T) /\ Len(after) = 2 * h
    BY <1>1, <2>1
  <2>3. \A p \in 1..(2 * h) : before[p] = arr[Place(h, r - 1, p)] /\ after[p] = arr[Place(h, r, p)]
    BY <1>1, <2>1
  <2> HIDE DEF before, after
  <2>4. /\ rotate(before) \in Seq(T) /\ Len(rotate(before)) = 2 * h
        /\ \A p \in 1..(2 * h) : rotate(before)[p] = IF p = 1 THEN before[1]
                                                     ELSE IF p = 2 THEN before[2 * h] ELSE before[p - 1]
    BY <2>2, RotateIs
  <2>5. ASSUME NEW p \in 1..(2 * h) PROVE rotate(before)[p] = after[p]
    <3>1. CASE p = 1
      <4>1. Place(h, r - 1, 1) = Place(h, r, 1) /\ 1 \in 1..(2 * h)
        BY DEF Place
      <4> QED
        BY <2>3, <2>4, <3>1, <4>1
    <3>2. CASE p = 2
      <4>1. Place(h, r - 1, 2 * h) = Place(h, r, 2) /\ 2 * h \in 1..(2 * h) /\ 2 # 1
        BY <1>3 DEF Place
      <4>2. rotate(before)[p] = before[2 * h]
        BY ONLY <2>4, <3>2, <4>1, p \in 1..(2 * h)
      <4>3. before[2 * h] = arr[Place(h, r - 1, 2 * h)] /\ after[p] = arr[Place(h, r, p)]
        BY ONLY <2>3, <4>1, p \in 1..(2 * h)
      <4> QED
        BY ONLY <3>2, <4>1, <4>2, <4>3
    <3>3. CASE p # 1 /\ p # 2
      <4>1. Place(h, r - 1, p - 1) = Place(h, r, p) /\ p - 1 \in 1..(2 * h)
        BY <1>3, <3>3 DEF Place
      <4>2. rotate(before)[p] = before[p - 1]
        BY ONLY <2>4, <3>3, p \in 1..(2 * h)
      <4>3. before[p - 1] = arr[Place(h, r - 1, p - 1)] /\ after[p] = arr[Place(h, r, p)]
        BY ONLY <2>3, <4>1, p \in 1..(2 * h)
      <4> QED
        BY ONLY <4>1, <4>2, <4>3
    <3> QED
      BY <3>1, <3>2, <3>3
  <2>6. rotate(before) = after
    BY <2>2, <2>4, <2>5
  <2> QED
    BY <2>6 DEF before, after
<1> QED
  BY <1>1, <1>2, <1>3

\* What the recursion of roundRobinMatchings computes.
Circles(arr, h) ==
  [r \in 1..(2 * h - 1) |-> concat(h, [i \in 1..h |-> playing(Circle(arr, h, r), i)])]

\* The rounds are read off the circles.
LEMMA MatchingsAre ==
  ASSUME NEW T, NEW h \in Nat \ {0}, NEW ids, withBye(ids) \in Seq(T), Len(withBye(ids)) = 2 * h
  PROVE  roundRobinMatchings(ids) = Circles(withBye(ids), h)
<1> DEFINE n == Len(withBye(ids))
           arr == withBye(ids)
           Turns(c) == c = [r \in 1..n |-> IF r = 1 THEN arr ELSE rotate(c[r - 1])]
           circle == CHOOSE c : Turns(c)
           all == [r \in 1..n |-> Circle(arr, h, r)]
<1>1. roundRobinMatchings(ids) =
        [r \in 1..(n - 1) |-> concat(n \div 2, [i \in 1..(n \div 2) |-> playing(circle[r], i)])]
  BY DEF roundRobinMatchings
<1>2. n = 2 * h /\ n \div 2 = h /\ n - 1 = 2 * h - 1
  OBVIOUS
<1>3. /\ Circle(arr, h, 1) = arr
      /\ \A r \in 1..n : r # 1 => Circle(arr, h, r) = rotate(Circle(arr, h, r - 1))
  BY <1>2, CircleTurns
<1> HIDE DEF n, arr
<1>4. Turns(all)
  <2>1. ASSUME NEW r \in 1..n PROVE Circle(arr, h, r) = IF r = 1 THEN arr ELSE rotate(all[r - 1])
    <3>1. CASE r = 1
      BY <1>3, <3>1
    <3>2. CASE r # 1
      <4>1. r - 1 \in 1..n
        BY <1>2, <3>2
      <4> QED
        BY <1>3, <3>2, <4>1
    <3> QED
      BY <3>1, <3>2
  <2> QED
    BY <2>1
<1>5. Turns(circle)
  <2> HIDE DEF Turns, all
  <2> QED
    BY <1>4
<1> HIDE DEF circle
<1>6. \A r \in 1..n : circle[r] = IF r = 1 THEN arr ELSE rotate(circle[r - 1])
  BY ONLY <1>5, Zenon DEF Turns
<1> DEFINE Good == {m \in Nat : m + 1 \in 1..n => circle[m + 1] = Circle(arr, h, m + 1)}
<1>7. 0 \in Good
  BY <1>3, <1>6
<1>8. ASSUME NEW m \in Nat, m \in Good PROVE m + 1 \in Good
  <2> SUFFICES ASSUME (m + 1) + 1 \in 1..n PROVE circle[(m + 1) + 1] = Circle(arr, h, (m + 1) + 1)
    OBVIOUS
  <2>1. m + 1 \in 1..n /\ (m + 1) + 1 # 1 /\ ((m + 1) + 1) - 1 = m + 1
    BY <1>2
  <2>2. circle[m + 1] = Circle(arr, h, m + 1)
    BY <1>8, <2>1
  <2> QED
    BY <1>3, <1>6, <2>1, <2>2
<1> HIDE DEF Good
<1>9. ASSUME NEW r \in 1..n PROVE circle[r] = Circle(arr, h, r)
  <2>1. r - 1 \in Nat /\ (r - 1) + 1 = r
    BY <1>2
  <2>2. r - 1 \in Good
    BY <1>7, <1>8, <2>1, Induction
  <2> QED
    BY <2>1, <2>2 DEF Good
<1>10. \A r \in 1..(n - 1) : r \in 1..n
  BY <1>2
<1>11. roundRobinMatchings(ids) =
        [r \in 1..(n - 1) |-> concat(n \div 2, [i \in 1..(n \div 2) |-> playing(Circle(arr, h, r), i)])]
  <2> DEFINE A(r) == concat(n \div 2, [i \in 1..(n \div 2) |-> playing(circle[r], i)])
             B(r) == concat(n \div 2, [i \in 1..(n \div 2) |-> playing(Circle(arr, h, r), i)])
  <2>1. \A r \in 1..(n - 1) : A(r) = B(r)
    BY <1>9, <1>10
  <2>2. roundRobinMatchings(ids) = [r \in 1..(n - 1) |-> A(r)]
    BY <1>1
  <2> HIDE DEF A, B
  <2>3. roundRobinMatchings(ids) = [r \in 1..(n - 1) |-> B(r)]
    BY <2>1, <2>2
  <2> QED
    BY <2>3 DEF B
<1> QED
  BY <1>2, <1>11 DEF arr, Circles

\* Two by two, every team meets every other one once, and none of them plays
\* twice in a round.
Both(pair) == {pair[1], pair[2]}

IsRoundRobin(rounds, T) ==
  /\ DOMAIN rounds = 1..Len(rounds) /\ Len(rounds) \in Nat
  /\ \A r \in DOMAIN rounds : rounds[r] \in Seq(T \X T)
  /\ \A r \in DOMAIN rounds : \A i \in DOMAIN rounds[r] : rounds[r][i][1] # rounds[r][i][2]
  /\ \A s, t \in T : s # t =>
       \E r \in DOMAIN rounds : \E i \in DOMAIN rounds[r] : Both(rounds[r][i]) = {s, t}
  /\ \A r, q \in DOMAIN rounds : \A i \in DOMAIN rounds[r], j \in DOMAIN rounds[q] :
       Both(rounds[r][i]) = Both(rounds[q][j]) => r = q /\ i = j
  /\ \A r \in DOMAIN rounds : \A i, j \in DOMAIN rounds[r] :
       i # j => Both(rounds[r][i]) \cap Both(rounds[r][j]) = {}

\* Division by two, with its remainder.
LEMMA Halves ==
  ASSUME NEW n \in Nat
  PROVE  n \div 2 \in Nat /\ (n % 2 = 0 \/ n % 2 = 1) /\ n = 2 * (n \div 2) + (n % 2)
<1>1. n \div 2 \in Nat
  OBVIOUS
<1>2. n % 2 = 0 \/ n % 2 = 1
  OBVIOUS
<1>3. n = 2 * (n \div 2) + (n % 2)
  OBVIOUS
<1> QED
  BY ONLY <1>1, <1>2, <1>3

\* The circle, made even by the bye marker.
LEMMA WithByeIs ==
  ASSUME NEW ids \in Seq(Nat), Len(ids) >= 1, ByeMarker \notin Nat,
         \A i, j \in 1..Len(ids) : ids[i] = ids[j] => i = j,
         NEW T, T = {ids[j] : j \in 1..Len(ids)}
  PROVE  /\ withBye(ids) \in Seq(T \cup {ByeMarker})
         /\ \E h \in Nat \ {0} : Len(withBye(ids)) = 2 * h /\ 2 * h <= Len(ids) + 1
         /\ \A u, v \in 1..Len(withBye(ids)) : withBye(ids)[u] = withBye(ids)[v] => u = v
         /\ \A t \in T : \E u \in 1..Len(withBye(ids)) : withBye(ids)[u] = t
<1>1. /\ Len(ids) \in Nat /\ T \subseteq Nat
      /\ \A j \in 1..Len(ids) : ids[j] \in T
  OBVIOUS
<1>2. ids \in Seq(T \cup {ByeMarker})
  <2>1. DOMAIN ids = 1..Len(ids) /\ ids = [j \in 1..Len(ids) |-> ids[j]]
    OBVIOUS
  <2> QED
    BY ONLY <1>1, <2>1
<1>3. CASE Len(ids) % 2 = 1
  <2> DEFINE arr == Append(ids, ByeMarker)
  <2>1. withBye(ids) = arr
    BY <1>3 DEF withBye
  <2>2. arr \in Seq(T \cup {ByeMarker}) /\ Len(arr) = Len(ids) + 1
    BY <1>2
  <2>3. \A j \in 1..Len(ids) : arr[j] = ids[j]
    BY <1>2
  <2>4. arr[Len(ids) + 1] = ByeMarker
    BY <1>2
  <2> HIDE DEF arr
  <2>5. \A j \in 1..Len(arr) : j \in 1..Len(ids) \/ j = Len(ids) + 1
    BY <1>1, <2>2
  <2>6. \A j \in 1..Len(ids) : j \in 1..Len(arr) /\ arr[j] # ByeMarker
    <3>1. \A j \in 1..Len(ids) : j \in 1..Len(arr)
      BY <1>1, <2>2
    <3>2. \A j \in 1..Len(ids) : ids[j] \in Nat
      BY <1>1
    <3> QED
      BY <2>3, <3>1, <3>2
  <2>7. \A u, v \in 1..Len(arr) : arr[u] = arr[v] => u = v
    BY <2>3, <2>4, <2>5, <2>6
  <2>8. \A t \in T : \E u \in 1..Len(arr) : arr[u] = t
    BY <2>3, <2>6
  <2>9. PICK h \in Nat \ {0} : Len(ids) + 1 = 2 * h
    <3>1. Len(ids) = 2 * (Len(ids) \div 2) + 1 /\ Len(ids) \div 2 \in Nat
      BY ONLY Halves, <1>1, <1>3
    <3>2. Len(ids) \div 2 + 1 \in Nat \ {0} /\ Len(ids) + 1 = 2 * (Len(ids) \div 2 + 1)
      BY ONLY <3>1
    <3> QED
      BY ONLY <3>2, Zenon
  <2> QED
    BY <2>1, <2>2, <2>7, <2>8, <2>9
<1>4. CASE Len(ids) % 2 # 1
  <2>1. withBye(ids) = ids
    BY <1>4 DEF withBye
  <2>2. PICK h \in Nat \ {0} : Len(ids) = 2 * h
    <3>1. Len(ids) = 2 * (Len(ids) \div 2) /\ Len(ids) \div 2 \in Nat
      BY ONLY Halves, <1>1, <1>4
    <3>2. Len(ids) >= 1
      OBVIOUS
    <3> QED
      BY ONLY <3>1, <3>2, SMT
  <2>3. \A t \in T : \E u \in 1..Len(ids) : ids[u] = t
    OBVIOUS
  <2> QED
    BY <1>2, <2>1, <2>2, <2>3
<1> QED
  BY <1>3, <1>4

\* The rounds that roundRobinMatchings makes are a round robin of any teams,
\* however many they are (groups.go:154).
THEOREM CircleMethod ==
  ASSUME NEW ids \in Seq(Nat), Len(ids) >= 1, ByeMarker \notin Nat,
         \A i, j \in 1..Len(ids) : ids[i] = ids[j] => i = j
  PROVE  /\ IsRoundRobin(roundRobinMatchings(ids), {ids[j] : j \in 1..Len(ids)})
         /\ Len(roundRobinMatchings(ids)) <= Len(ids)
<1> DEFINE T == {ids[j] : j \in 1..Len(ids)}
           arr == withBye(ids)
           R == roundRobinMatchings(ids)
<1> HIDE DEF T
<1>1. /\ arr \in Seq(T \cup {ByeMarker})
      /\ \E h \in Nat \ {0} : Len(arr) = 2 * h /\ 2 * h <= Len(ids) + 1
      /\ \A u, v \in 1..Len(arr) : arr[u] = arr[v] => u = v
      /\ \A t \in T : \E u \in 1..Len(arr) : arr[u] = t
  BY WithByeIs DEF T
<1>2. PICK h \in Nat \ {0} : Len(arr) = 2 * h /\ 2 * h <= Len(ids) + 1
  BY <1>1
<1>3. ByeMarker \notin T
  BY DEF T
<1> DEFINE First(r, i) == arr[Place(h, r, i)]
           Second(r, i) == arr[Place(h, r, Opposite(h, i))]
           Pair(r, i) == <<First(r, i), Second(r, i)>>
           Bye(r, i) == ByeMarker \in {First(r, i), Second(r, i)}
<1>4. R = [r \in 1..(2 * h - 1) |-> concat(h, [i \in 1..h |-> playing(Circle(arr, h, r), i)])]
  <2> DEFINE S == T \cup {ByeMarker}
  <2>1. withBye(ids) \in Seq(S) /\ Len(withBye(ids)) = 2 * h
    BY <1>1, <1>2
  <2> HIDE DEF S
  <2>2. R = Circles(arr, h)
    BY <2>1, MatchingsAre
  <2> QED
    BY <2>2 DEF Circles
<1>20. \A r, i : Both(Pair(r, i)) = {First(r, i), Second(r, i)}
  BY DEF Both
<1> HIDE DEF arr, R
<1>5. /\ DOMAIN R = 1..(2 * h - 1) /\ Len(R) = 2 * h - 1 /\ 2 * h - 1 \in Nat
      /\ \A r \in 1..(2 * h - 1) : r \in 1..(2 * h)
  BY <1>4
<1>6. ASSUME NEW r \in 1..(2 * h - 1), NEW i \in 1..h
      PROVE  /\ First(r, i) \in T \cup {ByeMarker} /\ Second(r, i) \in T \cup {ByeMarker}
             /\ ~Bye(r, i) => First(r, i) \in T /\ Second(r, i) \in T
  <2>1. r \in 1..(2 * h)
    BY <1>5
  <2>2. Place(h, r, i) \in 1..(2 * h) /\ Place(h, r, Opposite(h, i)) \in 1..(2 * h)
    BY <2>1, PlacesArePermuted
  <2>3. \A x \in 1..(2 * h) : arr[x] \in T \cup {ByeMarker}
    BY <1>1, <1>2
  <2> QED
    BY <2>2, <2>3
<1>7. ASSUME NEW r \in 1..(2 * h - 1)
      PROVE  Lists(R[r], {Pair(r, i) : i \in {j \in 1..h : ~Bye(r, j)}})
  <2> DEFINE c == Circle(arr, h, r)
             parts == [i \in 1..h |-> playing(c, i)]
             A == [i \in 1..h |-> IF Bye(r, i) THEN {} ELSE {Pair(r, i)}]
  <2>1. R[r] = concat(h, parts)
    BY <1>4
  <2>2. r \in 1..(2 * h)
    BY <1>5
  <2>3. c \in Seq(T \cup {ByeMarker}) /\ Len(c) = 2 * h
    BY <1>1, <1>2, <2>2, CircleTurns
  <2>4. \A p \in 1..(2 * h) : c[p] = arr[Place(h, r, p)]
    BY DEF Circle
  <2> HIDE DEF c
  <2>5. ASSUME NEW i \in 1..h PROVE parts[i] = IF Bye(r, i) THEN <<>> ELSE <<Pair(r, i)>>
    <3>1. i \in 1..(2 * h) /\ Opposite(h, i) \in 1..(2 * h)
      BY <2>2, PlacesArePermuted
    <3>2. c[i] = First(r, i) /\ c[Opposite(h, i)] = Second(r, i)
      BY <2>4, <3>1
    <3>3. Len(c) + 1 - i = Opposite(h, i)
      BY <2>3 DEF Opposite
    <3>4. parts[i] = playing(c, i)
      OBVIOUS
    <3> HIDE DEF First, Second, parts
    <3> QED
      BY <3>2, <3>3, <3>4 DEF playing
  <2>6. ASSUME NEW i \in 1..h PROVE Lists(parts[i], A[i])
    <3> HIDE DEF parts, Pair, Bye
    <3>1. CASE Bye(r, i)
      BY <2>5, <3>1, ListsOne
    <3>2. CASE ~Bye(r, i)
      <4>1. parts[i] = <<Pair(r, i)>> /\ A[i] = {Pair(r, i)}
        BY <2>5, <3>2
      <4> HIDE DEF A
      <4> QED
        BY <4>1, ListsOne, Zenon
    <3> QED
      BY <3>1, <3>2
  <2>7. ASSUME NEW i \in 1..h, NEW j \in 1..h, i # j PROVE A[i] \cap A[j] = {}
    <3> SUFFICES ASSUME Pair(r, i) = Pair(r, j) PROVE FALSE
      OBVIOUS
    <3>1. First(r, i) = First(r, j)
      OBVIOUS
    <3>2. i \in 1..(2 * h) /\ j \in 1..(2 * h)
      BY PlacesArePermuted, <2>2
    <3>3. Place(h, r, i) \in 1..(2 * h) /\ Place(h, r, j) \in 1..(2 * h)
      BY PlacesArePermuted, <2>2, <3>2
    <3>4. Place(h, r, i) = Place(h, r, j)
      BY <1>1, <1>2, <3>1, <3>3
    <3>5. i = j
      BY PlacesArePermuted, <2>2, <3>2, <3>4
    <3> QED
      BY <2>7, <3>5
  <2>8. UNION {A[i] : i \in 1..h} = {Pair(r, i) : i \in {j \in 1..h : ~Bye(r, j)}}
    <3> HIDE DEF Pair, Bye
    <3> QED
      OBVIOUS
  <2> HIDE DEF parts, A
  <2>9. Lists(concat(h, parts), UNION {A[i] : i \in 1..h})
    BY <2>6, <2>7, ConcatLists
  <2> HIDE DEF Pair, Bye
  <2> QED
    BY <2>1, <2>8, <2>9
<1>8. ASSUME NEW r \in 1..(2 * h - 1)
      PROVE  /\ R[r] \in Seq(T \X T) /\ DOMAIN R[r] = 1..Len(R[r])
             /\ \A x \in DOMAIN R[r] : \E i \in 1..h : ~Bye(r, i) /\ R[r][x] = Pair(r, i)
             /\ \A i \in 1..h : ~Bye(r, i) => \E x \in DOMAIN R[r] : R[r][x] = Pair(r, i)
             /\ \A x, y \in DOMAIN R[r] : R[r][x] = R[r][y] => x = y
  <2> DEFINE P == {Pair(r, i) : i \in {j \in 1..h : ~Bye(r, j)}}
  <2>1. \A p \in P : \E i \in 1..h : ~Bye(r, i) /\ p = Pair(r, i)
    OBVIOUS
  <2>2. \A i \in 1..h : ~Bye(r, i) => Pair(r, i) \in P
    OBVIOUS
  <2>3. P \subseteq T \X T
    BY <1>6
  <2>4. /\ R[r] \in Seq(P) /\ (\A e \in P : \E x \in 1..Len(R[r]) : R[r][x] = e)
        /\ \A x, y \in 1..Len(R[r]) : R[r][x] = R[r][y] => x = y
    BY <1>7 DEF Lists
  <2> HIDE DEF P, Pair, Bye
  <2>5. DOMAIN R[r] = 1..Len(R[r]) /\ Len(R[r]) \in Nat /\ \A x \in 1..Len(R[r]) : R[r][x] \in P
    BY <2>4
  <2>6. R[r] \in Seq(T \X T)
    <3> DEFINE s == R[r]
               TT == T \X T
    <3>1. s \in Seq(P) /\ P \subseteq TT
      BY <2>3, <2>4
    <3> HIDE DEF s, TT
    <3>2. s \in Seq(TT)
      BY ONLY <3>1
    <3> QED
      BY <3>2 DEF s, TT
  <2> QED
    BY <2>1, <2>2, <2>4, <2>5, <2>6
<1>9. ASSUME NEW r \in 1..(2 * h - 1), NEW i \in 1..h
      PROVE  /\ Place(h, r, i) \in 1..(2 * h) /\ Place(h, r, Opposite(h, i)) \in 1..(2 * h)
             /\ Place(h, r, i) # Place(h, r, Opposite(h, i))
             /\ \A j \in 1..h : j # i =>
                  Facing(h, r, i) \cap Facing(h, r, j) = {}
  <2>1. r \in 1..(2 * h)
    BY <1>5
  <2>2. \A j \in 1..h : j \in 1..(2 * h) /\ Opposite(h, j) \in 1..(2 * h) /\ Opposite(h, j) > h
    BY <2>1, PlacesArePermuted
  <2>3. \A j \in 1..h : i # Opposite(h, j) /\ j # Opposite(h, i)
                        /\ (Opposite(h, i) = Opposite(h, j) => i = j)
    BY <2>2 DEF Opposite
  <2>4. \A p, q \in 1..(2 * h) : Place(h, r, p) = Place(h, r, q) => p = q
    BY <2>1, PlacesArePermuted
  <2>5. \A p \in 1..(2 * h) : Place(h, r, p) \in 1..(2 * h)
    BY <2>1, PlacesArePermuted
  <2> QED
    BY <2>2, <2>3, <2>4, <2>5 DEF Facing
<1>10. ASSUME NEW r \in 1..(2 * h - 1), NEW x \in DOMAIN R[r] PROVE R[r][x][1] # R[r][x][2]
  <2>1. PICK i \in 1..h : R[r][x] = Pair(r, i)
    <3> HIDE DEF Pair, Bye
    <3> QED
      BY <1>8
  <2>2. First(r, i) # Second(r, i)
    BY <1>1, <1>2, <1>9
  <2> QED
    BY <2>1, <2>2
<1>11. ASSUME NEW s \in T, NEW t \in T, s # t
       PROVE  \E r \in 1..(2 * h - 1) : \E x \in DOMAIN R[r] : Both(R[r][x]) = {s, t}
  <2>1. PICK u \in 1..(2 * h), v \in 1..(2 * h) : arr[u] = s /\ arr[v] = t
    BY <1>1, <1>2
  <2>0. PICK r \in 1..(2 * h - 1) : \E i \in 1..h : Facing(h, r, i) = {u, v}
    <3>1. u # v
      BY <1>11, <2>1
    <3>2. CASE u < v
      BY <3>2, PlacesMeet
    <3>3. CASE v < u
      <4>1. {v, u} = {u, v}
        OBVIOUS
      <4>2. PICK r \in 1..(2 * h - 1) : \E i \in 1..h : Facing(h, r, i) = {v, u}
        BY <3>3, PlacesMeet, Zenon
      <4>3. PICK i \in 1..h : Facing(h, r, i) = {v, u}
        BY <4>2
      <4>4. Facing(h, r, i) = {u, v}
        BY <4>1, <4>3, Zenon
      <4> QED
        BY <4>4
    <3>4. u < v \/ v < u
      BY <3>1
    <3> QED
      BY ONLY <3>2, <3>3, <3>4, Zenon
  <2>2. PICK i \in 1..h : Facing(h, r, i) = {u, v}
    BY <2>0
  <2>3. {First(r, i), Second(r, i)} = {s, t}
    <3> DEFINE a == Place(h, r, i)
               b == Place(h, r, Opposite(h, i))
    <3>1. {a, b} = {u, v}
      BY <2>2 DEF Facing
    <3> HIDE DEF a, b
    <3>2. {arr[a], arr[b]} = {s, t}
      <4>1. (a = u /\ b = v) \/ (a = v /\ b = u)
        BY ONLY <3>1
      <4> QED
        BY ONLY <2>1, <4>1
    <3> QED
      BY <3>2 DEF a, b
  <2>4. ~Bye(r, i)
    BY <1>3, <2>3
  <2>5. PICK x \in DOMAIN R[r] : R[r][x] = Pair(r, i)
    <3> HIDE DEF Pair, Bye
    <3> QED
      BY <1>8, <2>4
  <2>6. Both(R[r][x]) = {s, t}
    <3> HIDE DEF Pair
    <3> QED
      BY <1>20, <2>3, <2>5
  <2> QED
    BY <2>6
<1>12. ASSUME NEW r \in 1..(2 * h - 1), NEW q \in 1..(2 * h - 1),
              NEW x \in DOMAIN R[r], NEW y \in DOMAIN R[q], Both(R[r][x]) = Both(R[q][y])
       PROVE  r = q /\ x = y
  <2>1. PICK i \in 1..h : R[r][x] = Pair(r, i)
    <3> HIDE DEF Pair, Bye
    <3> QED
      BY <1>8
  <2>2. PICK j \in 1..h : R[q][y] = Pair(q, j)
    <3> HIDE DEF Pair, Bye
    <3> QED
      BY <1>8
  <2>3. {First(r, i), Second(r, i)} = {First(q, j), Second(q, j)}
    <3> HIDE DEF Pair
    <3> QED
      BY <1>12, <1>20, <2>1, <2>2
  <2>4. Facing(h, r, i) = Facing(h, q, j)
    <3> DEFINE a == Place(h, r, i)
               b == Place(h, r, Opposite(h, i))
               c == Place(h, q, j)
               d == Place(h, q, Opposite(h, j))
    <3>1. a \in 1..(2 * h) /\ b \in 1..(2 * h) /\ c \in 1..(2 * h) /\ d \in 1..(2 * h)
      BY <1>9
    <3>2. {arr[a], arr[b]} = {arr[c], arr[d]}
      BY <2>3
    <3> HIDE DEF a, b, c, d
    <3>3. (arr[a] = arr[c] /\ arr[b] = arr[d]) \/ (arr[a] = arr[d] /\ arr[b] = arr[c])
      BY <3>2
    <3>4. (a = c /\ b = d) \/ (a = d /\ b = c)
      BY <1>1, <1>2, <3>1, <3>3
    <3>5. {a, b} = {c, d}
      BY <3>4
    <3> QED
      BY <3>5 DEF a, b, c, d, Facing
  <2>5. r = q /\ i = j
    BY <2>4, PlacesMeetOnce
  <2>6. R[r][x] = R[r][y] /\ y \in DOMAIN R[r]
    BY <2>1, <2>2, <2>5
  <2> QED
    BY <1>8, <2>5, <2>6
<1>13. ASSUME NEW r \in 1..(2 * h - 1), NEW x \in DOMAIN R[r], NEW y \in DOMAIN R[r], x # y
       PROVE  Both(R[r][x]) \cap Both(R[r][y]) = {}
  <2>1. PICK i \in 1..h : R[r][x] = Pair(r, i)
    <3> HIDE DEF Pair, Bye
    <3> QED
      BY <1>8
  <2>2. PICK j \in 1..h : R[r][y] = Pair(r, j)
    <3> HIDE DEF Pair, Bye
    <3> QED
      BY <1>8
  <2>3. i # j
    <3> HIDE DEF Pair
    <3> QED
      BY <1>8, <1>13, <2>1, <2>2
  <2> DEFINE a == Place(h, r, i)
             b == Place(h, r, Opposite(h, i))
             c == Place(h, r, j)
             d == Place(h, r, Opposite(h, j))
  <2>4. a \in 1..(2 * h) /\ b \in 1..(2 * h) /\ c \in 1..(2 * h) /\ d \in 1..(2 * h) /\ {a, b} \cap {c, d} = {}
    BY <1>9, <2>3 DEF Facing
  <2>5. Both(R[r][x]) = {arr[a], arr[b]} /\ Both(R[r][y]) = {arr[c], arr[d]}
    <3> HIDE DEF Pair
    <3> QED
      BY <1>20, <2>1, <2>2
  <2> HIDE DEF a, b, c, d
  <2> QED
    BY <1>1, <1>2, <2>4, <2>5
<1>14. IsRoundRobin(R, T)
  <2> HIDE DEF Pair, Bye, First, Second
  <2>1. DOMAIN R = 1..Len(R) /\ Len(R) \in Nat /\ \A r \in DOMAIN R : R[r] \in Seq(T \X T)
    BY <1>5, <1>8
  <2>2. \A r \in DOMAIN R : \A i \in DOMAIN R[r] : R[r][i][1] # R[r][i][2]
    BY <1>5, <1>10
  <2>3. \A s, t \in T : s # t =>
          \E r \in DOMAIN R : \E i \in DOMAIN R[r] : Both(R[r][i]) = {s, t}
    BY <1>5, <1>11
  <2>4. \A r, q \in DOMAIN R : \A i \in DOMAIN R[r], j \in DOMAIN R[q] :
          Both(R[r][i]) = Both(R[q][j]) => r = q /\ i = j
    BY <1>5, <1>12
  <2>5. \A r \in DOMAIN R : \A i, j \in DOMAIN R[r] :
          i # j => Both(R[r][i]) \cap Both(R[r][j]) = {}
    BY <1>5, <1>13
  <2> QED
    BY <2>1, <2>2, <2>3, <2>4, <2>5 DEF IsRoundRobin
<1>15. Len(R) <= Len(ids)
  BY <1>2, <1>5
<1> QED
  BY <1>14, <1>15 DEF T, R

-----------------------------------------------------------------------------
(***************************************************************************)
(* The groups and their matches                                            *)
(***************************************************************************)

\* The teams are dealt into groups of at most six.
LEMMA GroupsAre ==
  ASSUME Dealt
  PROVE  /\ DOMAIN Groups = 1..Len(Groups) /\ Len(Groups) \in Nat
         /\ \A g \in DOMAIN Groups : /\ Groups[g] \in Seq(Nat) /\ DOMAIN Groups[g] = 1..Len(Groups[g])
                                     /\ Len(Groups[g]) \in 1..teamsPerGroup
         /\ DOMAIN teams = 1..Len(teams) /\ Len(teams) \in Nat
         /\ \A t \in DOMAIN teams : \E g \in DOMAIN Groups : \E j \in DOMAIN Groups[g] : Groups[g][j] = t
<1> DEFINE n == Len(teams)
           k == numGroups(n)
           At(g, j) == g + (j - 1) * k
           Size(g) == (n + k - g) \div k
<1>1. n \in Nat \ {0} /\ teams = [i \in 1..n |-> i]
  BY DrawAssumption DEF Dealt
<1>2. k \in Nat \ {0} /\ k <= n /\ n <= 6 * k
  <2> HIDE DEF n
  <2> QED
    BY <1>1 DEF numGroups, teamsPerGroup
<1>3. Groups = [g \in 1..k |-> [j \in 1..Size(g) |-> teams[At(g, j)]]]
  BY DEF Groups, groupedTeams
<1>4. \A g \in DOMAIN Groups : \A j \in DOMAIN Groups[g] : Groups[g][j] \in 1..n
  BY GroupTeams
<1> HIDE DEF k, n
<1>5. ASSUME NEW g \in 1..k
      PROVE  /\ Size(g) \in 1..6 /\ Size(g) * k <= n + k - g /\ n + k - g < (Size(g) + 1) * k
  <2> DEFINE z == Size(g)
  <2>1. z \in Nat /\ z * k <= n + k - g /\ n + k - g < (z + 1) * k
    BY <1>1, <1>2
  <2> HIDE DEF z
  <2>2. z >= 1
    <3> SUFFICES ASSUME z = 0 PROVE FALSE
      BY <2>1
    <3> QED
      BY <1>1, <1>2, <2>1
  <2>3. z <= 6
    <3> SUFFICES ASSUME z >= 7 PROVE FALSE
      BY <2>1
    <3>1. z * k >= 7 * k
      BY <1>2, <2>1
    <3> QED
      BY <1>1, <1>2, <2>1, <3>1
  <2> QED
    BY <2>1, <2>2, <2>3 DEF z
<1>6. DOMAIN Groups = 1..k /\ Len(Groups) = k
  BY <1>2, <1>3
<1>7. ASSUME NEW g \in DOMAIN Groups
      PROVE  /\ Groups[g] \in Seq(Nat) /\ DOMAIN Groups[g] = 1..Len(Groups[g])
             /\ Len(Groups[g]) \in 1..teamsPerGroup /\ Len(Groups[g]) = Size(g)
  <2>1. g \in 1..k /\ Groups[g] = [j \in 1..Size(g) |-> teams[At(g, j)]]
    BY <1>3
  <2>2. Size(g) \in 1..6
    BY <1>5, <2>1
  <2>3. \A j \in DOMAIN Groups[g] : Groups[g][j] \in Nat
    BY <1>1, <1>4
  <2> HIDE DEF Size, At
  <2> QED
    BY <2>1, <2>2, <2>3 DEF teamsPerGroup
<1>8. ASSUME NEW t \in DOMAIN teams
      PROVE  \E g \in DOMAIN Groups : \E j \in DOMAIN Groups[g] : Groups[g][j] = t
  <2>1. t \in 1..n
    BY <1>1
  <2> DEFINE q == (t - 1) \div k
             g == t - q * k
             j == q + 1
  <2>2. q \in Nat /\ q * k <= t - 1 /\ t - 1 < (q + 1) * k
    BY <1>1, <1>2, <2>1
  <2> HIDE DEF q
  <2>3. q * k \in Nat /\ (q + 1) * k = q * k + k
    BY <1>2, <2>2
  <2>4. g \in 1..k /\ At(g, j) = t
    BY <1>2, <2>1, <2>2, <2>3
  <2>5. j * k <= n + k - g
    BY <1>1, <1>2, <2>1, <2>2, <2>3
  <2> HIDE DEF g, At
  <2>6. j \in 1..Size(g)
    <3> DEFINE z == Size(g)
    <3>1. z \in Nat /\ n + k - g < (z + 1) * k
      BY <1>5, <2>4
    <3> HIDE DEF z
    <3>2. z < j => (z + 1) * k <= j * k
      BY <1>2, <2>2, <3>1
    <3>3. (z + 1) * k \in Int /\ j * k \in Int /\ n + k - g \in Int
      BY <1>1, <1>2, <2>2, <2>4, <3>1
    <3>4. j <= z
      BY <2>2, <2>5, <3>1, <3>2, <3>3
    <3> QED
      BY <2>2, <3>1, <3>4 DEF z
  <2>7. g \in DOMAIN Groups /\ j \in DOMAIN Groups[g] /\ Groups[g][j] = teams[At(g, j)]
    BY <1>3, <2>4, <2>6
  <2>8. Groups[g][j] = t
    BY <1>1, <2>1, <2>4, <2>7
  <2> QED
    BY <2>7, <2>8
<1> QED
  BY <1>1, <1>2, <1>6, <1>7, <1>8 DEF n

\* Every two teams of a group meet once, others never, and nobody plays twice
\* in a round.
IsTimetable(list, groups) ==
  /\ \A x \in DOMAIN list :
       /\ list[x].group \in DOMAIN groups /\ list[x].a # list[x].b
       /\ {list[x].a, list[x].b} \subseteq {groups[list[x].group][j] : j \in DOMAIN groups[list[x].group]}
  /\ \A g \in DOMAIN groups : \A i, j \in DOMAIN groups[g] : i # j =>
       \E x \in DOMAIN list : {list[x].a, list[x].b} = {groups[g][i], groups[g][j]}
  /\ \A x, y \in DOMAIN list : {list[x].a, list[x].b} = {list[y].a, list[y].b} => x = y
  /\ \A x, y \in DOMAIN list :
       x # y /\ list[x].round = list[y].round => {list[x].a, list[x].b} \cap {list[y].a, list[y].b} = {}

\* What pairings lists: the rounds of all groups.
LEMMA PairingsAre ==
  ASSUME Dealt, ByeMarker \notin Nat
  PROVE  /\ IsTimetable(pairings(teams), Groups)
         /\ DOMAIN pairings(teams) = 1..Len(pairings(teams)) /\ Len(pairings(teams)) \in Nat
<1> DEFINE k == Len(Groups)
           rounds == [g \in DOMAIN Groups |-> roundRobinMatchings(Groups[g])]
           Meeting(r, g, i) == [group |-> g, round |-> r, a |-> rounds[g][r][i][1], b |-> rounds[g][r][i][2]]
           of(r, g) == IF r > Len(rounds[g]) THEN <<>> ELSE [i \in DOMAIN rounds[g][r] |-> Meeting(r, g, i)]
           row(r) == [g \in 1..k |-> of(r, g)]
           parts == [r \in 1..teamsPerGroup |-> concat(k, row(r))]
           todo == pairings(teams)
           Members(g) == {Groups[g][j] : j \in DOMAIN Groups[g]}
<1>1. todo = concat(teamsPerGroup, parts)
  BY DEF pairings, Groups
<1>2. /\ DOMAIN Groups = 1..k /\ k \in Nat
      /\ \A g \in DOMAIN Groups : /\ Groups[g] \in Seq(Nat) /\ DOMAIN Groups[g] = 1..Len(Groups[g])
                                  /\ Len(Groups[g]) \in 1..teamsPerGroup
  BY GroupsAre
<1>3. \A g, h \in DOMAIN Groups : \A i \in DOMAIN Groups[g], j \in DOMAIN Groups[h] :
        Groups[g][i] = Groups[h][j] => g = h /\ i = j
  BY GroupTeams
<1>4. teamsPerGroup \in Nat
  BY DEF teamsPerGroup
<1>5. ASSUME NEW g \in DOMAIN Groups
      PROVE  IsRoundRobin(rounds[g], Members(g)) /\ Len(rounds[g]) <= teamsPerGroup
  <2> DEFINE ids == Groups[g]
  <2>1. ids \in Seq(Nat) /\ DOMAIN ids = 1..Len(ids) /\ Len(ids) >= 1 /\ Len(ids) <= teamsPerGroup /\ Len(ids) \in Nat
    BY <1>2, <1>4
  <2>2. \A i, j \in 1..Len(ids) : ids[i] = ids[j] => i = j
    BY <1>3, <2>1
  <2>3. rounds[g] = roundRobinMatchings(ids) /\ Members(g) = {ids[j] : j \in 1..Len(ids)}
    BY <2>1
  <2> HIDE DEF ids, rounds, Members
  <2>4. /\ IsRoundRobin(roundRobinMatchings(ids), {ids[j] : j \in 1..Len(ids)})
        /\ Len(roundRobinMatchings(ids)) <= Len(ids)
    BY <2>1, <2>2, CircleMethod
  <2>5. Len(rounds[g]) \in Nat
    BY <2>3, <2>4 DEF IsRoundRobin
  <2> QED
    BY <1>4, <2>1, <2>3, <2>4, <2>5
<1> HIDE DEF todo, k, rounds, Members
<1> DEFINE On(r, g) == IF r > Len(rounds[g]) THEN {} ELSE DOMAIN rounds[g][r]
           Held(r, g) == {Meeting(r, g, i) : i \in On(r, g)}
<1> DEFINE All == UNION {UNION {Held(r, g) : g \in 1..k} : r \in 1..teamsPerGroup}
<1>6. ASSUME NEW g \in DOMAIN Groups
      PROVE  /\ DOMAIN rounds[g] = 1..Len(rounds[g]) /\ Len(rounds[g]) \in Nat
             /\ \A r \in 1..teamsPerGroup : r \in DOMAIN rounds[g] <=> ~(r > Len(rounds[g]))
             /\ \A r \in DOMAIN rounds[g] : r \in 1..teamsPerGroup
  <2>1. DOMAIN rounds[g] = 1..Len(rounds[g]) /\ Len(rounds[g]) \in Nat
    BY <1>5, Zenon DEF IsRoundRobin
  <2>2. Len(rounds[g]) <= teamsPerGroup
    BY <1>5
  <2> QED
    BY <1>4, <2>1, <2>2
<1> DEFINE At(g, r, i) == r \in DOMAIN rounds[g] /\ i \in DOMAIN rounds[g][r]
           pair(g, r, i) == rounds[g][r][i]
<1>18. ASSUME NEW g \in DOMAIN Groups
       PROVE  /\ \A r, i : At(g, r, i) => /\ pair(g, r, i) \in Members(g) \X Members(g)
                                         /\ pair(g, r, i)[1] # pair(g, r, i)[2]
              /\ \A s, t \in Members(g) : s # t => \E r, i : At(g, r, i) /\ Both(pair(g, r, i)) = {s, t}
              /\ \A r, q, i, j : At(g, r, i) /\ At(g, q, j) /\ Both(pair(g, r, i)) = Both(pair(g, q, j)) =>
                   r = q /\ i = j
              /\ \A r, i, j : At(g, r, i) /\ At(g, r, j) /\ i # j =>
                   Both(pair(g, r, i)) \cap Both(pair(g, r, j)) = {}
              /\ \A r : r \in DOMAIN rounds[g] => rounds[g][r] \in Seq(Members(g) \X Members(g))
  <2> DEFINE R == rounds[g]
             M == Members(g)
             at(r, i) == r \in DOMAIN R /\ i \in DOMAIN R[r]
  <2>1. IsRoundRobin(R, M)
    BY <1>5
  <2> HIDE DEF R, M
  <2>2. \A s, t \in M : s # t => \E r, i : at(r, i) /\ Both(R[r][i]) = {s, t}
    <3>1. \A s, t \in M : s # t => \E r \in DOMAIN R : \E i \in DOMAIN R[r] : Both(R[r][i]) = {s, t}
      BY ONLY <2>1, Zenon DEF IsRoundRobin
    <3> QED
      BY ONLY <3>1, Zenon
  <2>3. \A r \in DOMAIN R : R[r] \in Seq(M \X M)
    BY <2>1 DEF IsRoundRobin
  <2>4. \A r, i : at(r, i) => R[r][i] \in M \X M /\ R[r][i][1] # R[r][i][2]
    <3>1. \A r, i : at(r, i) => R[r][i][1] # R[r][i][2]
      BY <2>1 DEF IsRoundRobin
    <3>2. \A r, i : at(r, i) => R[r][i] \in M \X M
      BY <2>3
    <3> QED
      BY <3>1, <3>2
  <2>5. \A r, q, i, j : at(r, i) /\ at(q, j) /\ Both(R[r][i]) = Both(R[q][j]) => r = q /\ i = j
    BY <2>1 DEF IsRoundRobin
  <2>6. \A r, i, j : at(r, i) /\ at(r, j) /\ i # j => Both(R[r][i]) \cap Both(R[r][j]) = {}
    BY <2>1 DEF IsRoundRobin
  <2> QED
    BY <2>2, <2>3, <2>4, <2>5, <2>6, Zenon DEF R, M
<1>7. ASSUME NEW r \in 1..teamsPerGroup, NEW g \in DOMAIN Groups
      PROVE  Lists(of(r, g), Held(r, g))
  <2>1. CASE r > Len(rounds[g])
    BY <2>1, ListsOne
  <2>2. CASE ~(r > Len(rounds[g]))
    <3> DEFINE s == rounds[g][r]
               f == [i \in DOMAIN s |-> Meeting(r, g, i)]
               A == {Meeting(r, g, i) : i \in DOMAIN s}
    <3>1. r \in DOMAIN rounds[g]
      BY <1>6, <2>2
    <3>2. s \in Seq(Members(g) \X Members(g))
      BY <1>18, <3>1
    <3>3. ASSUME NEW i \in DOMAIN s, NEW j \in DOMAIN s, Both(s[i]) = Both(s[j]) PROVE i = j
      <4>1. At(g, r, i) /\ At(g, r, j) /\ Both(pair(g, r, i)) = Both(pair(g, r, j))
        BY <3>1, <3>3
      <4> HIDE DEF At, pair
      <4> QED
        BY <1>18, <4>1, Zenon
    <3>4. DOMAIN s = 1..Len(s) /\ Len(s) \in Nat
      BY <3>2
    <3>5. of(r, g) = f /\ Held(r, g) = A
      BY <2>2
    <3>11. \A i, j \in DOMAIN s : Meeting(r, g, i) = Meeting(r, g, j) => s[i][1] = s[j][1] /\ s[i][2] = s[j][2]
      OBVIOUS
    <3> HIDE DEF s, Meeting
    <3>6. \A i, j \in DOMAIN s : Meeting(r, g, i) = Meeting(r, g, j) => i = j
      BY <3>3, <3>11 DEF Both
    <3> HIDE DEF s, Meeting
    <3>7. f \in Seq(A) /\ Len(f) = Len(s) /\ \A i \in 1..Len(s) : f[i] = Meeting(r, g, i)
      BY <3>4
    <3>8. \A e \in A : \E i \in 1..Len(s) : f[i] = e
      BY <3>4
    <3>9. \A i, j \in 1..Len(s) : f[i] = f[j] => i = j
      <4> HIDE DEF f
      <4> QED
        BY <3>4, <3>6, <3>7
    <3>10. Lists(f, A)
      <4> HIDE DEF f, A
      <4> QED
        BY <3>7, <3>8, <3>9 DEF Lists
    <3> QED
      BY <3>5, <3>10, Zenon
  <2> QED
    BY <2>1, <2>2
<1>8. ASSUME NEW r \in 1..teamsPerGroup
      PROVE  Lists(parts[r], UNION {Held(r, g) : g \in 1..k})
  <2> DEFINE A == [g \in 1..k |-> Held(r, g)]
             p == row(r)
  <2>1. \A g \in 1..k : Lists(p[g], A[g])
    <3> HIDE DEF of, Held
    <3> QED
      BY <1>2, <1>7
  <2>2. ASSUME NEW g \in 1..k, NEW h \in 1..k, g # h PROVE A[g] \cap A[h] = {}
    <3>1. \A e \in A[g] : e.group = g
      OBVIOUS
    <3>2. \A e \in A[h] : e.group = h
      OBVIOUS
    <3> HIDE DEF A
    <3> QED
      BY <2>2, <3>1, <3>2
  <2>3. UNION {A[g] : g \in 1..k} = UNION {Held(r, g) : g \in 1..k}
    <3> HIDE DEF Held
    <3> QED
      OBVIOUS
  <2>4. parts[r] = concat(k, p)
    <3> HIDE DEF row
    <3> QED
      OBVIOUS
  <2> HIDE DEF p, A, parts
  <2>5. Lists(concat(k, p), UNION {A[g] : g \in 1..k})
    BY <1>2, <2>1, <2>2, ConcatLists
  <2> HIDE DEF Held
  <2> QED
    BY <2>3, <2>4, <2>5
<1>9. Lists(todo, All)
  <2> DEFINE B(r) == UNION {Held(r, g) : g \in 1..k}
             A == [r \in 1..teamsPerGroup |-> B(r)]
  <2>1. ASSUME NEW r \in 1..teamsPerGroup PROVE \A e \in B(r) : e.round = r
    <3>1. \A g \in 1..k : \A e \in Held(r, g) : e.round = r
      OBVIOUS
    <3> HIDE DEF Held
    <3> QED
      BY <3>1
  <2>2. \A r \in 1..teamsPerGroup : Lists(parts[r], B(r))
    BY <1>8
  <2> HIDE DEF B, parts
  <2>3. \A r \in 1..teamsPerGroup : Lists(parts[r], A[r])
    BY <2>2
  <2>4. \A r, q \in 1..teamsPerGroup : r # q => A[r] \cap A[q] = {}
    BY <2>1
  <2>5. UNION {A[r] : r \in 1..teamsPerGroup} = UNION {B(r) : r \in 1..teamsPerGroup}
    OBVIOUS
  <2> HIDE DEF A
  <2>6. Lists(concat(teamsPerGroup, parts), UNION {A[r] : r \in 1..teamsPerGroup})
    BY <1>4, <2>3, <2>4, ConcatLists
  <2>7. Lists(todo, UNION {B(r) : r \in 1..teamsPerGroup})
    BY <1>1, <2>5, <2>6
  <2> QED
    BY <2>7 DEF B
<1>10. ASSUME NEW x \in DOMAIN todo
       PROVE  \E g \in DOMAIN Groups : \E r, i : At(g, r, i) /\ todo[x] = Meeting(r, g, i)
  <2>1. todo[x] \in All
    <3> HIDE DEF All
    <3>1. todo \in Seq(All)
      BY <1>9 DEF Lists
    <3> QED
      BY <3>1
  <2> HIDE DEF Held
  <2>2. PICK r \in 1..teamsPerGroup, g \in 1..k : todo[x] \in Held(r, g)
    BY <2>1
  <2> HIDE DEF Meeting
  <2>3. PICK i \in On(r, g) : todo[x] = Meeting(r, g, i)
    BY <2>2 DEF Held
  <2>4. ~(r > Len(rounds[g])) /\ i \in DOMAIN rounds[g][r] /\ g \in DOMAIN Groups
    BY <1>2
  <2>5. At(g, r, i)
    BY <1>6, <2>4
  <2> HIDE DEF At
  <2> QED
    BY <2>3, <2>4, <2>5
<1>11. ASSUME NEW g \in DOMAIN Groups, NEW r, NEW i, At(g, r, i)
       PROVE  \E x \in DOMAIN todo : todo[x] = Meeting(r, g, i)
  <2>1. r \in 1..teamsPerGroup /\ ~(r > Len(rounds[g])) /\ g \in 1..k
    BY <1>2, <1>6, <1>11
  <2> HIDE DEF Meeting
  <2>2. Meeting(r, g, i) \in Held(r, g)
    BY <1>11, <2>1
  <2> HIDE DEF Held
  <2>3. Meeting(r, g, i) \in All
    BY <2>1, <2>2
  <2> HIDE DEF All
  <2>4. todo \in Seq(All) /\ \E x \in 1..Len(todo) : todo[x] = Meeting(r, g, i)
    BY <1>9, <2>3 DEF Lists
  <2> QED
    BY <2>4
<1>12. DOMAIN todo = 1..Len(todo) /\ Len(todo) \in Nat /\ \A x, y \in DOMAIN todo : todo[x] = todo[y] => x = y
  <2> HIDE DEF All
  <2>1. todo \in Seq(All) /\ \A x, y \in 1..Len(todo) : todo[x] = todo[y] => x = y
    BY <1>9 DEF Lists
  <2> QED
    BY <2>1
<1> HIDE DEF On, Held, of, parts, All, At
<1>13. ASSUME NEW g \in DOMAIN Groups, NEW r, NEW i, At(g, r, i)
       PROVE  /\ Meeting(r, g, i).group = g /\ Meeting(r, g, i).round = r
              /\ {Meeting(r, g, i).a, Meeting(r, g, i).b} = Both(pair(g, r, i))
              /\ Meeting(r, g, i).a # Meeting(r, g, i).b
              /\ {Meeting(r, g, i).a, Meeting(r, g, i).b} \subseteq Members(g)
  <2>1. pair(g, r, i) \in Members(g) \X Members(g) /\ pair(g, r, i)[1] # pair(g, r, i)[2]
    <3> HIDE DEF pair
    <3> QED
      BY <1>13, <1>18, Zenon
  <2> DEFINE p == pair(g, r, i)
  <2>2. Meeting(r, g, i) = [group |-> g, round |-> r, a |-> p[1], b |-> p[2]]
    OBVIOUS
  <2> HIDE DEF p, Meeting
  <2>3. p[1] \in Members(g) /\ p[2] \in Members(g)
    BY <2>1 DEF p
  <2> QED
    BY <2>1, <2>2, <2>3 DEF p, Both
<1> HIDE DEF Meeting, pair
<1>14. ASSUME NEW x \in DOMAIN todo
       PROVE  /\ todo[x].group \in DOMAIN Groups /\ todo[x].a # todo[x].b
              /\ {todo[x].a, todo[x].b} \subseteq Members(todo[x].group)
  BY <1>10, <1>13
<1>15. ASSUME NEW g \in DOMAIN Groups, NEW i \in DOMAIN Groups[g], NEW j \in DOMAIN Groups[g], i # j
       PROVE  \E x \in DOMAIN todo : {todo[x].a, todo[x].b} = {Groups[g][i], Groups[g][j]}
  <2> DEFINE s == Groups[g][i]
             t == Groups[g][j]
  <2>1. s \in Members(g) /\ t \in Members(g) /\ s # t
    BY <1>3, <1>15 DEF Members
  <2> HIDE DEF s, t
  <2>2. PICK r, y : At(g, r, y) /\ Both(pair(g, r, y)) = {s, t}
    BY <1>18, <2>1
  <2>3. PICK x \in DOMAIN todo : todo[x] = Meeting(r, g, y)
    BY <1>11, <2>2
  <2>4. {Meeting(r, g, y).a, Meeting(r, g, y).b} = {s, t}
    BY <1>13, <2>2
  <2>5. {todo[x].a, todo[x].b} = {s, t}
    BY <2>3, <2>4
  <2> QED
    BY <2>5 DEF s, t
<1>16. ASSUME NEW x \in DOMAIN todo, NEW y \in DOMAIN todo
       PROVE  /\ {todo[x].a, todo[x].b} = {todo[y].a, todo[y].b} => x = y
              /\ x # y /\ todo[x].round = todo[y].round =>
                   {todo[x].a, todo[x].b} \cap {todo[y].a, todo[y].b} = {}
  <2> DEFINE X == {todo[x].a, todo[x].b}
             Y == {todo[y].a, todo[y].b}
  <2>9. PICK g \in DOMAIN Groups : \E r, i : At(g, r, i) /\ todo[x] = Meeting(r, g, i)
    BY <1>10
  <2>1. PICK r, i : At(g, r, i) /\ todo[x] = Meeting(r, g, i)
    BY <2>9
  <2>10. PICK h \in DOMAIN Groups : \E q, j : At(h, q, j) /\ todo[y] = Meeting(q, h, j)
    BY <1>10
  <2>2. PICK q, j : At(h, q, j) /\ todo[y] = Meeting(q, h, j)
    BY <2>10
  <2>3. X = Both(pair(g, r, i)) /\ X \subseteq Members(g) /\ todo[x].round = r
    BY <1>13, <2>1
  <2>4. Y = Both(pair(h, q, j)) /\ Y \subseteq Members(h) /\ todo[y].round = q
    BY <1>13, <2>2
  <2>5. todo[x].a \in X
    OBVIOUS
  <2> HIDE DEF X, Y
  <2>6. ASSUME NEW t \in X, t \in Y PROVE g = h
    BY <1>3, <2>3, <2>4, <2>6 DEF Members
  <2>7. ASSUME X = Y PROVE x = y
    <3>1. g = h
      BY <2>5, <2>6, <2>7
    <3>2. Both(pair(g, r, i)) = Both(pair(g, q, j)) /\ At(g, q, j)
      BY <2>2, <2>3, <2>4, <2>7, <3>1
    <3>3. r = q /\ i = j
      BY <1>18, <2>1, <3>2, Zenon
    <3> QED
      BY <1>12, <2>1, <2>2, <3>1, <3>3
  <2>8. ASSUME x # y, todo[x].round = todo[y].round, NEW t \in X, t \in Y PROVE FALSE
    <3>1. g = h /\ r = q
      BY <2>3, <2>4, <2>6, <2>8
    <3>2. i # j
      BY <1>12, <2>1, <2>2, <2>8, <3>1
    <3>3. At(g, r, j)
      BY <2>2, <3>1
    <3>4. Both(pair(g, r, i)) \cap Both(pair(g, r, j)) = {}
      BY <1>18, <2>1, <3>2, <3>3, Zenon
    <3> QED
      BY <2>3, <2>4, <2>8, <3>1, <3>4
  <2> QED
    BY <2>7, <2>8 DEF X, Y
<1>17. IsTimetable(todo, Groups)
  BY <1>14, <1>15, <1>16 DEF IsTimetable, Members
<1> QED
  BY <1>12, <1>17 DEF todo

-----------------------------------------------------------------------------
(***************************************************************************)
(* The stations                                                            *)
(***************************************************************************)

\* The game that pickGame looks for: the least score, then the first.
LEMMA LeastScore ==
  ASSUME NEW C \in SUBSET (1..3), C # {}, NEW f, \A i \in 1..3 : f[i] \in Int
  PROVE  \E i \in C : \A j \in C : f[i] < f[j] \/ (f[i] = f[j] /\ i <= j)
<1>1. f[1] \in Int /\ f[2] \in Int /\ f[3] \in Int
  OBVIOUS
<1>2. \A j \in C : j = 1 \/ j = 2 \/ j = 3
  OBVIOUS
<1>3. \/ 1 \in C /\ (2 \in C => f[1] <= f[2]) /\ (3 \in C => f[1] <= f[3])
      \/ 2 \in C /\ (1 \in C => f[2] < f[1]) /\ (3 \in C => f[2] <= f[3])
      \/ 3 \in C /\ (1 \in C => f[3] < f[1]) /\ (2 \in C => f[3] < f[2])
  <2>1. 1 \in C \/ 2 \in C \/ 3 \in C
    BY <1>2
  <2> QED
    BY <1>1, <2>1
<1> DEFINE Least(i) == \A j \in C : f[i] < f[j] \/ (f[i] = f[j] /\ i <= j)
<1>4. CASE 1 \in C /\ (2 \in C => f[1] <= f[2]) /\ (3 \in C => f[1] <= f[3])
  <2>1. Least(1)
    BY <1>1, <1>2, <1>4
  <2> QED
    BY <1>4, <2>1
<1>5. CASE 2 \in C /\ (1 \in C => f[2] < f[1]) /\ (3 \in C => f[2] <= f[3])
  <2>1. Least(2)
    BY <1>1, <1>2, <1>5
  <2> QED
    BY <1>5, <2>1
<1>6. CASE 3 \in C /\ (1 \in C => f[3] < f[1]) /\ (2 \in C => f[3] < f[2])
  <2>1. Least(3)
    BY <1>1, <1>2, <1>6
  <2> QED
    BY <1>6, <2>1
<1> QED
  BY <1>3, <1>4, <1>5, <1>6

\* A match more uses its game in its round once more, and no other.
LEMMA UsageGrows ==
  ASSUME NEW R, NEW s \in Seq(R), NEW e \in R, NEW r, NEW game
  PROVE  /\ roundUsage(s, r, game) \in Nat /\ roundUsage(Append(s, e), r, game) \in Nat
         /\ roundUsage(Append(s, e), r, game) =
              IF e.round = r /\ e.game = game THEN roundUsage(s, r, game) + 1 ELSE roundUsage(s, r, game)
<1> DEFINE U == {i \in DOMAIN s : s[i].round = r /\ s[i].game = game}
           t == Append(s, e)
           V == {i \in DOMAIN t : t[i].round = r /\ t[i].game = game}
           n == Len(s)
<1>1. n \in Nat /\ DOMAIN s = 1..n
  OBVIOUS
<1>2. DOMAIN t = 1..(n + 1) /\ t[n + 1] = e /\ \A i \in 1..n : t[i] = s[i]
  BY AppendProperties
<1> HIDE DEF t, n
<1>3. IsFiniteSet(U) /\ n + 1 \notin U
  BY <1>1, FS_Interval, FS_Subset
<1>4. V = IF e.round = r /\ e.game = game THEN U \cup {n + 1} ELSE U
  <2>1. ASSUME NEW i PROVE i \in V <=> (i \in U \/ (i = n + 1 /\ e.round = r /\ e.game = game))
    <3>1. CASE i \in 1..n
      BY <1>1, <1>2, <3>1
    <3>2. CASE i = n + 1
      BY <1>1, <1>2, <3>2
    <3>3. CASE i \notin 1..n /\ i # n + 1
      <4>1. i \notin 1..(n + 1)
        BY <1>1, <3>3
      <4> QED
        BY <1>1, <1>2, <3>3, <4>1
    <3> QED
      BY <3>1, <3>2, <3>3
  <2> HIDE DEF U, V
  <2> QED
    BY <2>1
<1> HIDE DEF U, V
<1>5. Cardinality(U) \in Nat /\ Cardinality(U \cup {n + 1}) = Cardinality(U) + 1
  BY <1>3, FS_CardinalityType, FS_AddElement
<1>6. roundUsage(s, r, game) = Cardinality(U) /\ roundUsage(t, r, game) = Cardinality(V)
  BY DEF roundUsage, U, V
<1> QED
  BY <1>4, <1>5, <1>6 DEF t

\* A game is picked whose stations are not all taken, as long as there is one.
LEMMA PickedGame ==
  ASSUME NEW R, NEW s \in Seq(R), NEW r, NEW a, NEW b
  PROVE  \E i \in DOMAIN groupGames :
           pickGame(s, r, a, b) = groupGames[i] /\ (free(s, r) # {} => i \in free(s, r))
<1> DEFINE count(i) == gameCount(s, a, groupGames[i]) + gameCount(s, b, groupGames[i])
           full == free(s, r) = {}
           score(i) == IF full THEN count(i) ELSE count(i) * 100 + roundUsage(s, r, groupGames[i])
           choices == IF full THEN DOMAIN groupGames ELSE free(s, r)
           Best(i) == i \in choices /\ \A j \in choices : score(i) < score(j) \/ (score(i) = score(j) /\ i <= j)
           best == CHOOSE i \in choices : \A j \in choices :
                     score(i) < score(j) \/ (score(i) = score(j) /\ i <= j)
<1>1. DOMAIN groupGames = 1..3
  BY DEF groupGames
<1>2. choices \in SUBSET (1..3) /\ choices # {}
  BY <1>1 DEF free
<1>3. IsFiniteSet(DOMAIN s)
  BY FS_Interval
<1>4. ASSUME NEW i PROVE count(i) \in Nat /\ roundUsage(s, r, groupGames[i]) \in Nat
  <2>1. gameCount(s, a, groupGames[i]) \in Nat
    <3> DEFINE U == {x \in DOMAIN s : a \in {s[x].a, s[x].b} /\ s[x].game = groupGames[i]}
    <3>1. IsFiniteSet(U)
      BY <1>3, FS_Subset
    <3> QED
      BY <3>1, FS_CardinalityType DEF gameCount
  <2>2. gameCount(s, b, groupGames[i]) \in Nat
    <3> DEFINE U == {x \in DOMAIN s : b \in {s[x].a, s[x].b} /\ s[x].game = groupGames[i]}
    <3>1. IsFiniteSet(U)
      BY <1>3, FS_Subset
    <3> QED
      BY <3>1, FS_CardinalityType DEF gameCount
  <2>3. roundUsage(s, r, groupGames[i]) \in Nat
    <3> DEFINE U == {x \in DOMAIN s : s[x].round = r /\ s[x].game = groupGames[i]}
    <3>1. IsFiniteSet(U)
      BY <1>3, FS_Subset
    <3> QED
      BY <3>1, FS_CardinalityType DEF roundUsage
  <2> QED
    BY <2>1, <2>2, <2>3
<1> HIDE DEF count
<1>5. \A i : score(i) \in Int
  BY <1>4
<1> DEFINE f == [i \in 1..3 |-> score(i)]
<1> HIDE DEF score, choices
<1>6. \E i \in choices : \A j \in choices : f[i] < f[j] \/ (f[i] = f[j] /\ i <= j)
  <2>1. \A i \in 1..3 : f[i] \in Int
    BY <1>5
  <2> HIDE DEF f
  <2> QED
    BY <1>2, <2>1, LeastScore
<1>7. \E i \in choices : \A j \in choices : score(i) < score(j) \/ (score(i) = score(j) /\ i <= j)
  <2>1. \A i \in choices : f[i] = score(i)
    BY <1>2
  <2> HIDE DEF f
  <2> QED
    BY <1>6, <2>1
<1>8. best \in choices
  BY <1>7
<1>9. pickGame(s, r, a, b) = groupGames[best]
  BY DEF pickGame, score, choices, count
<1> HIDE DEF best
<1>10. best \in DOMAIN groupGames /\ (free(s, r) # {} => best \in free(s, r))
  BY <1>1, <1>2, <1>8 DEF choices
<1> QED
  BY <1>9, <1>10

\* There are three games of two stations each.
LEMMA TheGames ==
  /\ DOMAIN groupGames = 1..3
  /\ \A i \in 1..3 : gameCapacity[groupGames[i]] = 2
  /\ \A i, j \in 1..3 : groupGames[i] = groupGames[j] => i = j
<1>1. DOMAIN groupGames = 1..3
  BY DEF groupGames
<1>2. groupGames[1] = "Darts" /\ groupGames[2] = "Bocce" /\ groupGames[3] = "Cornhole"
  BY DEF groupGames
<1>3. \A i \in 1..3 : i = 1 \/ i = 2 \/ i = 3
  OBVIOUS
<1>4. ASSUME NEW i \in 1..3 PROVE gameCapacity[groupGames[i]] = 2
  <2>1. groupGames[i] \in {"Darts", "Bocce", "Cornhole"}
    BY <1>2, <1>3
  <2> QED
    BY <2>1 DEF gameCapacity
<1>5. ASSUME NEW i \in 1..3, NEW j \in 1..3, groupGames[i] = groupGames[j] PROVE i = j
  BY <1>2, <1>3, <1>5
<1> QED
  BY <1>1, <1>4, <1>5

\* In every round a station is free only as long as none is overbooked.
Balanced(s) ==
  \A r : free(s, r) = {} \/ \A i \in DOMAIN groupGames :
                              roundUsage(s, r, groupGames[i]) <= gameCapacity[groupGames[i]]

\* A match keeps the rounds balanced when it takes a free station where there
\* is one.
LEMMA BalancedGrows ==
  ASSUME NEW R, NEW s \in Seq(R), NEW e \in R, Balanced(s),
         NEW i \in DOMAIN groupGames, e.game = groupGames[i],
         free(s, e.round) # {} => i \in free(s, e.round)
  PROVE  Balanced(Append(s, e))
<1> DEFINE t == Append(s, e)
           U(r, j) == roundUsage(s, r, groupGames[j])
           V(r, j) == roundUsage(t, r, groupGames[j])
<1>1. \A r, j : U(r, j) \in Nat /\ V(r, j) \in Nat
                /\ V(r, j) = IF e.round = r /\ e.game = groupGames[j] THEN U(r, j) + 1 ELSE U(r, j)
  BY UsageGrows
<1>2. \A r : free(s, r) = {j \in 1..3 : U(r, j) < 2} /\ free(t, r) = {j \in 1..3 : V(r, j) < 2}
  BY TheGames DEF free
<1>3. \A r : free(s, r) = {} \/ \A j \in 1..3 : U(r, j) <= 2
  BY TheGames DEF Balanced
<1>4. i \in 1..3 /\ \A j \in 1..3 : e.game = groupGames[j] => j = i
  BY TheGames
<1> HIDE DEF t, U, V
<1>5. ASSUME NEW r PROVE free(t, r) = {} \/ \A j \in 1..3 : V(r, j) <= 2
  <2>1. CASE free(s, r) = {}
    <3>1. \A j \in 1..3 : ~(U(r, j) < 2)
      BY <1>2, <2>1
    <3>2. \A j \in 1..3 : ~(V(r, j) < 2)
      BY <1>1, <3>1
    <3> QED
      BY <1>2, <3>2
  <2>2. CASE free(s, r) # {}
    <3>1. \A j \in 1..3 : U(r, j) <= 2
      BY <1>3, <2>2
    <3>2. ASSUME NEW j \in 1..3 PROVE V(r, j) <= 2
      <4>1. CASE e.round = r /\ e.game = groupGames[j]
        <5>1. j \in free(s, r)
          BY <1>4, <2>2, <4>1
        <5>2. U(r, j) < 2
          BY <1>2, <5>1
        <5> QED
          BY <1>1, <4>1, <5>2
      <4>2. CASE ~(e.round = r /\ e.game = groupGames[j])
        BY <1>1, <3>1, <4>2
      <4> QED
        BY <4>1, <4>2
    <3> QED
      BY <3>2
  <2> QED
    BY <2>1, <2>2
<1>6. \A r : free(t, r) = {} \/ \A j \in DOMAIN groupGames :
                                  roundUsage(t, r, groupGames[j]) <= gameCapacity[groupGames[j]]
  BY <1>5, TheGames DEF V
<1>7. Balanced(t)
  BY <1>6 DEF Balanced
<1> QED
  BY <1>7 DEF t

\* What scheduleGroupMatches adds to the pairs.
LEMMA ScheduleIs ==
  ASSUME DOMAIN pairings(teams) = 1..Len(pairings(teams)), Len(pairings(teams)) \in Nat
  PROVE  LET todo == pairings(teams)
             schedule == scheduleGroupMatches(teams)
         IN  /\ DOMAIN schedule = DOMAIN todo
             /\ \A x \in DOMAIN todo : /\ schedule[x].group = todo[x].group /\ schedule[x].round = todo[x].round
                                       /\ schedule[x].a = todo[x].a /\ schedule[x].b = todo[x].b
                                       /\ \E i \in DOMAIN groupGames : schedule[x].game = groupGames[i]
             /\ Balanced(schedule)
<1> DEFINE todo == pairings(teams)
           N == Len(todo)
           D == DOMAIN todo
           Rec == [group : {todo[x].group : x \in D}, round : {todo[x].round : x \in D},
                   a : {todo[x].a : x \in D}, b : {todo[x].b : x \in D},
                   game : {groupGames[i] : i \in DOMAIN groupGames}]
           rec(i, s) == [group |-> todo[i].group, round |-> todo[i].round, a |-> todo[i].a, b |-> todo[i].b,
                         game |-> pickGame(s, todo[i].round, todo[i].a, todo[i].b)]
           S == Seq(Rec)
           Step(f) == f = [i \in 0..N |-> IF i = 0 THEN <<>> ELSE Append(f[i - 1], rec(i, f[i - 1]))]
           upto == CHOOSE f : Step(f)
<1>1. scheduleGroupMatches(teams) = upto[N]
  BY DEF scheduleGroupMatches
<1> HIDE DEF todo
<1>2. D = 1..N /\ N \in Nat
  BY DEF todo
<1> HIDE DEF N
<1>3. ASSUME NEW i \in D, NEW s \in S
      PROVE  /\ rec(i, s) \in Rec
             /\ \E j \in DOMAIN groupGames :
                  /\ rec(i, s).game = groupGames[j]
                  /\ free(s, rec(i, s).round) # {} => j \in free(s, rec(i, s).round)
  <2> DEFINE p == pickGame(s, todo[i].round, todo[i].a, todo[i].b)
  <2>1. PICK j \in DOMAIN groupGames :
          p = groupGames[j] /\ (free(s, todo[i].round) # {} => j \in free(s, todo[i].round))
    <3> HIDE DEF Rec
    <3> QED
      BY PickedGame
  <2> HIDE DEF p
  <2>2. rec(i, s) = [group |-> todo[i].group, round |-> todo[i].round, a |-> todo[i].a, b |-> todo[i].b, game |-> p]
    BY DEF p
  <2>3. rec(i, s).game = p /\ rec(i, s).round = todo[i].round
    BY <2>2
  <2>4. p \in {groupGames[l] : l \in DOMAIN groupGames}
    BY <2>1
  <2> HIDE DEF D
  <2>5. rec(i, s) \in Rec
    BY <2>2, <2>4
  <2> HIDE DEF rec
  <2> QED
    BY <2>1, <2>3, <2>5
<1>4. \E f : Step(f)
  <2> DEFINE next == [i \in 1..N |-> [s \in S |-> Append(s, rec(i, s))]]
             none == <<>>
  <2>1. none \in S
    OBVIOUS
  <2> HIDE DEF Rec, rec
  <2>2. ASSUME NEW i \in 1..N, NEW s \in S PROVE Append(s, rec(i, s)) \in S
    <3>1. rec(i, s) \in Rec
      BY <1>2, <1>3
    <3> QED
      BY <3>1, AppendProperties
  <2>3. \A i \in 1..N : \A s \in S : next[i][s] = Append(s, rec(i, s))
    OBVIOUS
  <2> HIDE DEF S
  <2>6. next \in [1..N -> [S -> S]]
    BY <2>2
  <2> HIDE DEF next, none, Step
  <2>4. PICK f \in [0..N -> S] : f[0] = none /\ \A i \in 1..N : f[i] = next[i][f[i - 1]]
    <3>1. IsComputed(N, S, none, next)
      BY <1>2, <2>1, <2>6, StepByStep
    <3> QED
      BY <3>1 DEF IsComputed
  <2>5. ASSUME NEW i \in 0..N PROVE f[i] = IF i = 0 THEN <<>> ELSE Append(f[i - 1], rec(i, f[i - 1]))
    <3>1. CASE i = 0
      BY <2>4, <3>1 DEF none
    <3>2. CASE i # 0
      <4>1. i \in 1..N /\ i - 1 \in 0..N
        BY <1>2, <3>2
      <4>2. f[i - 1] \in S
        BY <4>1
      <4> QED
        BY <2>3, <2>4, <3>2, <4>1, <4>2
    <3> QED
      BY <3>1, <3>2
  <2>7. f = [i \in 0..N |-> IF i = 0 THEN <<>> ELSE Append(f[i - 1], rec(i, f[i - 1]))]
    BY <2>5
  <2> QED
    BY <2>7 DEF Step
<1>5. Step(upto)
  <2> HIDE DEF Step
  <2> QED
    BY <1>4
<1> HIDE DEF upto
<1>6. upto[0] = <<>> /\ \A i \in 1..N : upto[i] = Append(upto[i - 1], rec(i, upto[i - 1]))
  <2> HIDE DEF rec
  <2>1. \A i \in 0..N : upto[i] = IF i = 0 THEN <<>> ELSE Append(upto[i - 1], rec(i, upto[i - 1]))
    BY ONLY <1>5, Zenon DEF Step
  <2>2. 0 \in 0..N /\ \A i \in 1..N : i \in 0..N /\ i # 0
    BY <1>2
  <2> HIDE DEF Step
  <2> QED
    BY <2>1, <2>2
<1> HIDE DEF Step
<1> DEFINE Same(e, x) == /\ e.group = todo[x].group /\ e.round = todo[x].round
                         /\ e.a = todo[x].a /\ e.b = todo[x].b
                         /\ \E i \in DOMAIN groupGames : e.game = groupGames[i]
           Good == {m \in Nat : m <= N => /\ upto[m] \in S /\ Len(upto[m]) = m /\ Balanced(upto[m])
                                          /\ \A x \in 1..m : Same(upto[m][x], x)}
<1>7. 0 \in Good
  <2>1. \A r, j : roundUsage(<<>>, r, j) = 0
    <3>1. \A r, j : {i \in DOMAIN <<>> : <<>>[i].round = r /\ <<>>[i].game = j} = {}
      OBVIOUS
    <3> QED
      BY <3>1, FS_EmptySet DEF roundUsage
  <2>2. Balanced(<<>>)
    BY <2>1, TheGames DEF Balanced
  <2>3. <<>> \in S /\ Len(<<>>) = 0
    OBVIOUS
  <2> HIDE DEF S, Same
  <2> QED
    BY <1>6, <2>2, <2>3
<1>8. ASSUME NEW m \in Nat, m \in Good PROVE m + 1 \in Good
  <2> SUFFICES ASSUME m + 1 <= N
               PROVE  /\ upto[m + 1] \in S /\ Len(upto[m + 1]) = m + 1 /\ Balanced(upto[m + 1])
                      /\ \A x \in 1..(m + 1) : Same(upto[m + 1][x], x)
    BY <1>2
  <2> DEFINE s == upto[m]
             e == rec(m + 1, s)
  <2>1. m + 1 \in 1..N /\ (m + 1) - 1 = m /\ m + 1 \in D
    BY <1>2
  <2>2. s \in S /\ Len(s) = m /\ Balanced(s) /\ \A x \in 1..m : Same(s[x], x)
    <3>1. m <= N
      BY <1>2
    <3> HIDE DEF S, Same
    <3> QED
      BY <1>8, <3>1
  <2>3. upto[m + 1] = Append(s, e)
    BY <1>6, <2>1
  <2>4. Same(e, m + 1)
    <3>1. \E j \in DOMAIN groupGames : e.game = groupGames[j]
      <4> HIDE DEF rec, S
      <4> QED
        BY <1>3, <2>1, <2>2
    <3> QED
      BY <3>1
  <2> HIDE DEF s, rec, Rec
  <2>5. PICK j \in DOMAIN groupGames :
          e \in Rec /\ e.game = groupGames[j] /\ (free(s, e.round) # {} => j \in free(s, e.round))
    BY <1>3, <2>1, <2>2
  <2> HIDE DEF e, Same
  <2>6. Balanced(Append(s, e))
    BY <2>2, <2>5, BalancedGrows
  <2>7. Append(s, e) \in S /\ Len(Append(s, e)) = m + 1
    BY <2>2, <2>5
  <2>8. ASSUME NEW x \in 1..(m + 1) PROVE Same(Append(s, e)[x], x)
    <3>1. CASE x = m + 1
      BY <2>2, <2>4, <2>5, <3>1
    <3>2. CASE x # m + 1
      <4>1. x \in 1..m
        BY <3>2
      <4>2. Append(s, e)[x] = s[x]
        BY <2>2, <2>5, <4>1
      <4> QED
        BY <2>2, <4>1, <4>2
    <3> QED
      BY <3>1, <3>2
  <2> QED
    BY <2>3, <2>6, <2>7, <2>8
<1> HIDE DEF Good
<1>9. N \in Good
  BY <1>2, <1>7, <1>8, Induction
<1> HIDE DEF Rec, Same
<1>10. upto[N] \in S /\ Len(upto[N]) = N /\ Balanced(upto[N]) /\ \A x \in 1..N : Same(upto[N][x], x)
  BY <1>2, <1>9 DEF Good
<1>11. DOMAIN upto[N] = D
  BY <1>2, <1>10
<1> HIDE DEF S
<1>12. \A x \in D : Same(upto[N][x], x)
  BY <1>2, <1>10
<1> QED
  BY <1>1, <1>10, <1>11, <1>12 DEF Same, todo

-----------------------------------------------------------------------------
(***************************************************************************)
(* The group stage                                                         *)
(***************************************************************************)

\* Every match is as it was scheduled, or has one of the results.
WithResult(m, r) ==
  [Scheduled(m) EXCEPT !.sa = r[1], !.sb = r[2], !.done = TRUE, !.winner = IF r[1] > r[2] THEN m.a ELSE m.b]

OnSchedule ==
  LET schedule == scheduleGroupMatches(teams)
  IN  /\ DOMAIN matches = DOMAIN schedule
      /\ \A i \in DOMAIN schedule :
           matches[i] = Scheduled(schedule[i]) \/ \E r \in Results : matches[i] = WithResult(schedule[i], r)

\* A result and its undoing keep every match as it was scheduled.
LEMMA AlwaysOnSchedule == Spec => []OnSchedule
<1>1. Init => OnSchedule
  BY DEF Init, OnSchedule
<1>2. OnSchedule /\ [Next]_vars => OnSchedule'
  <2> SUFFICES ASSUME OnSchedule, [Next]_vars PROVE OnSchedule'
    OBVIOUS
  <2> DEFINE schedule == scheduleGroupMatches(teams)
             Known(m, x) == m = Scheduled(schedule[x]) \/ \E r \in Results : m = WithResult(schedule[x], r)
  <2>1. DOMAIN matches = DOMAIN schedule /\ \A x \in DOMAIN schedule : Known(matches[x], x)
    BY DEF OnSchedule
  <2>2. ASSUME teams' = teams, DOMAIN matches' = DOMAIN matches, \A x \in DOMAIN schedule : Known(matches'[x], x)
        PROVE  OnSchedule'
    BY <2>1, <2>2 DEF OnSchedule
  <2> HIDE DEF schedule
  <2>3. ASSUME NEW i \in DOMAIN matches, NEW r \in Results, RecordResult(i, r) PROVE OnSchedule'
    <3> DEFINE e == [matches[i] EXCEPT !.sa = r[1], !.sb = r[2], !.done = TRUE,
                                       !.winner = IF r[1] > r[2] THEN matches[i].a ELSE matches[i].b]
    <3>1. matches' = [matches EXCEPT ![i] = e] /\ ~matches[i].done /\ teams' = teams
      BY <2>3 DEF RecordResult
    <3>2. matches[i] = Scheduled(schedule[i])
      <4>1. \A q \in Results : WithResult(schedule[i], q).done
        BY DEF WithResult, Scheduled
      <4> QED
        BY <2>1, <3>1, <4>1
    <3>3. e = WithResult(schedule[i], r)
      BY <3>2 DEF Scheduled, WithResult
    <3> HIDE DEF e
    <3>4. \A x \in DOMAIN schedule : matches'[x] = IF x = i THEN e ELSE matches[x]
      BY <2>1, <3>1
    <3>5. DOMAIN matches' = DOMAIN matches
      BY <3>1
    <3>6. \A x \in DOMAIN schedule : Known(matches'[x], x)
      BY <2>1, <3>3, <3>4
    <3> QED
      BY <2>2, <3>1, <3>5, <3>6
  <2>4. ASSUME NEW i \in DOMAIN matches, RollbackResult(i) PROVE OnSchedule'
    <3> DEFINE e == Scheduled(matches[i])
    <3>1. matches' = [matches EXCEPT ![i] = e] /\ teams' = teams
      BY <2>4 DEF RollbackResult
    <3>2. Scheduled(Scheduled(schedule[i])) = Scheduled(schedule[i])
      BY DEF Scheduled
    <3>3. \A q \in Results : Scheduled(WithResult(schedule[i], q)) = Scheduled(schedule[i])
      BY DEF WithResult, Scheduled
    <3>4. e = Scheduled(schedule[i])
      BY <2>1, <3>2, <3>3
    <3> HIDE DEF e
    <3>5. \A x \in DOMAIN schedule : matches'[x] = IF x = i THEN e ELSE matches[x]
      BY <2>1, <3>1
    <3>6. DOMAIN matches' = DOMAIN matches
      BY <3>1
    <3>7. \A x \in DOMAIN schedule : Known(matches'[x], x)
      BY <2>1, <3>4, <3>5
    <3> QED
      BY <2>2, <3>1, <3>6, <3>7
  <2>5. CASE GeneratePlayoffs
    BY <2>1, <2>2, <2>5 DEF GeneratePlayoffs
  <2>6. CASE UNCHANGED vars
    BY <2>1, <2>2, <2>6 DEF vars
  <2> QED
    BY <2>3, <2>4, <2>5, <2>6 DEF Next
<1> QED
  BY <1>1, <1>2, PTL DEF Spec

\* What is known of the matches, played or not.
LEMMA GroupMatchesAre ==
  ASSUME Dealt, OnSchedule
  PROVE  /\ IsTimetable(matches, Groups) /\ Balanced(matches)
         /\ DOMAIN matches = 1..Len(pairings(teams)) /\ Len(pairings(teams)) \in Nat
         /\ \A i \in DOMAIN matches : \E j \in DOMAIN groupGames : matches[i].game = groupGames[j]
         /\ \A i \in DOMAIN matches : /\ matches[i].sa \in Nat /\ matches[i].sb \in Nat
                                      /\ matches[i].done \in BOOLEAN
                                      /\ matches[i].done => matches[i].sa # matches[i].sb
                                      /\ matches[i].done => matches[i].winner =
                                           IF matches[i].sa > matches[i].sb THEN matches[i].a ELSE matches[i].b
<1> DEFINE todo == pairings(teams)
           schedule == scheduleGroupMatches(teams)
<1>1. ByeMarker \notin Nat
  BY DrawAssumption
<1>2. IsTimetable(todo, Groups) /\ DOMAIN todo = 1..Len(todo) /\ Len(todo) \in Nat
  BY <1>1, PairingsAre
<1>3. /\ DOMAIN schedule = DOMAIN todo
      /\ \A x \in DOMAIN todo : /\ schedule[x].group = todo[x].group /\ schedule[x].round = todo[x].round
                                /\ schedule[x].a = todo[x].a /\ schedule[x].b = todo[x].b
                                /\ \E i \in DOMAIN groupGames : schedule[x].game = groupGames[i]
      /\ Balanced(schedule)
  BY <1>2, ScheduleIs
<1>4. /\ DOMAIN matches = DOMAIN schedule
      /\ \A i \in DOMAIN schedule :
           matches[i] = Scheduled(schedule[i]) \/ \E r \in Results : matches[i] = WithResult(schedule[i], r)
  BY DEF OnSchedule
<1> HIDE DEF todo, schedule
<1>5. ASSUME NEW i \in DOMAIN matches
      PROVE  /\ matches[i].group = schedule[i].group /\ matches[i].round = schedule[i].round
             /\ matches[i].a = schedule[i].a /\ matches[i].b = schedule[i].b
             /\ matches[i].game = schedule[i].game
             /\ matches[i].sa \in Nat /\ matches[i].sb \in Nat /\ matches[i].done \in BOOLEAN
             /\ matches[i].done => matches[i].sa # matches[i].sb
             /\ matches[i].done => matches[i].winner =
                  IF matches[i].sa > matches[i].sb THEN matches[i].a ELSE matches[i].b
  <2>1. CASE matches[i] = Scheduled(schedule[i])
    BY <2>1 DEF Scheduled
  <2>2. ASSUME NEW r \in Results, matches[i] = WithResult(schedule[i], r) PROVE <1>5!2
    <3>1. r[1] \in Nat /\ r[2] \in Nat /\ r[1] # r[2]
      BY DrawAssumption
    <3>2. matches[i] = [group |-> schedule[i].group, round |-> schedule[i].round, game |-> schedule[i].game,
                        a |-> schedule[i].a, b |-> schedule[i].b, sa |-> r[1], sb |-> r[2],
                        winner |-> IF r[1] > r[2] THEN schedule[i].a ELSE schedule[i].b, done |-> TRUE]
      BY <2>2 DEF WithResult, Scheduled
    <3> DEFINE m == matches[i]
    <3>3. m.sa = r[1] /\ m.sb = r[2] /\ m.a = schedule[i].a /\ m.b = schedule[i].b
          /\ m.winner = (IF r[1] > r[2] THEN schedule[i].a ELSE schedule[i].b) /\ m.done = TRUE
          /\ m.group = schedule[i].group /\ m.round = schedule[i].round /\ m.game = schedule[i].game
      BY <3>2
    <3> HIDE DEF m
    <3>4. m.winner = IF m.sa > m.sb THEN m.a ELSE m.b
      BY <3>3
    <3> QED
      BY <3>1, <3>3, <3>4 DEF m
  <2> QED
    BY <1>4, <2>1, <2>2
<1>6. \A i \in DOMAIN matches : /\ matches[i].group = todo[i].group /\ matches[i].round = todo[i].round
                                /\ matches[i].a = todo[i].a /\ matches[i].b = todo[i].b
  BY <1>3, <1>4, <1>5
<1>7. IsTimetable(matches, Groups)
  <2>1. DOMAIN matches = DOMAIN todo
    BY <1>3, <1>4
  <2>2. \A x \in DOMAIN matches :
          /\ matches[x].group \in DOMAIN Groups /\ matches[x].a # matches[x].b
          /\ {matches[x].a, matches[x].b} \subseteq {Groups[matches[x].group][j] : j \in DOMAIN Groups[matches[x].group]}
    BY <1>2, <1>6, <2>1 DEF IsTimetable
  <2>3. ASSUME NEW g \in DOMAIN Groups, NEW i \in DOMAIN Groups[g], NEW j \in DOMAIN Groups[g], i # j
        PROVE  \E x \in DOMAIN matches : {matches[x].a, matches[x].b} = {Groups[g][i], Groups[g][j]}
    <3>1. PICK x \in DOMAIN todo : {todo[x].a, todo[x].b} = {Groups[g][i], Groups[g][j]}
      <4> DEFINE Meet(h, u, v) == \E x \in DOMAIN todo : {todo[x].a, todo[x].b} = {Groups[h][u], Groups[h][v]}
      <4>1. \A h \in DOMAIN Groups : \A u, v \in DOMAIN Groups[h] : u # v => Meet(h, u, v)
        BY <1>2, Zenon DEF IsTimetable
      <4> HIDE DEF Meet
      <4>2. Meet(g, i, j)
        BY ONLY <2>3, <4>1, Zenon
      <4> QED
        BY ONLY <4>2, Zenon DEF Meet
    <3>2. {matches[x].a, matches[x].b} = {todo[x].a, todo[x].b} /\ x \in DOMAIN matches
      BY <1>6, <2>1
    <3> QED
      BY <3>1, <3>2
  <2>4. ASSUME NEW x \in DOMAIN matches, NEW y \in DOMAIN matches
        PROVE  /\ {matches[x].a, matches[x].b} = {matches[y].a, matches[y].b} => x = y
               /\ x # y /\ matches[x].round = matches[y].round =>
                    {matches[x].a, matches[x].b} \cap {matches[y].a, matches[y].b} = {}
    <3>1. {matches[x].a, matches[x].b} = {todo[x].a, todo[x].b} /\ {matches[y].a, matches[y].b} = {todo[y].a, todo[y].b}
      BY <1>6
    <3>2. /\ {todo[x].a, todo[x].b} = {todo[y].a, todo[y].b} => x = y
          /\ x # y /\ todo[x].round = todo[y].round => {todo[x].a, todo[x].b} \cap {todo[y].a, todo[y].b} = {}
      BY <1>2, <2>1, Zenon DEF IsTimetable
    <3> QED
      BY <1>6, <3>1, <3>2
  <2> QED
    BY <2>2, <2>3, <2>4 DEF IsTimetable
<1>8. Balanced(matches)
  <2>1. ASSUME NEW r, NEW game PROVE roundUsage(matches, r, game) = roundUsage(schedule, r, game)
    <3> DEFINE U == {i \in DOMAIN matches : matches[i].round = r /\ matches[i].game = game}
               V == {i \in DOMAIN schedule : schedule[i].round = r /\ schedule[i].game = game}
    <3>1. ASSUME NEW i PROVE i \in U <=> i \in V
      BY <1>4, <1>5
    <3> HIDE DEF U, V
    <3>2. U = V
      BY <3>1
    <3> QED
      BY <3>2 DEF roundUsage, U, V
  <2>2. \A r : free(matches, r) = free(schedule, r)
    BY <2>1 DEF free
  <2> QED
    BY <1>3, <2>1, <2>2 DEF Balanced
<1> QED
  BY <1>2, <1>3, <1>4, <1>5, <1>7, <1>8 DEF todo

\* However many teams there are, no round asks for more of a station than
\* there are when it has no more matches than there are stations, and a round
\* that has more leaves no station free: pickGame takes a free station as long
\* as there is one (groups.go).
THEOREM StationsAreRespected == Spec => []StationsRespected
<1>1. Dealt /\ OnSchedule => StationsRespected
  <2> SUFFICES ASSUME Dealt, OnSchedule, NEW r \in RoundsPlayed
               PROVE  IF Cardinality(InRound(r)) <= 6
                      THEN \A i \in DOMAIN groupGames :
                             roundUsage(matches, r, groupGames[i]) <= gameCapacity[groupGames[i]]
                      ELSE free(matches, r) = {}
    BY DEF StationsRespected
  <2> DEFINE At(i) == {x \in DOMAIN matches : matches[x].round = r /\ matches[x].game = groupGames[i]}
             u(i) == roundUsage(matches, r, groupGames[i])
  <2>1. DOMAIN matches = 1..Len(pairings(teams)) /\ Len(pairings(teams)) \in Nat /\ Balanced(matches)
    BY GroupMatchesAre
  <2>2. \A x \in DOMAIN matches : \E j \in 1..3 : matches[x].game = groupGames[j]
    BY GroupMatchesAre, TheGames
  <2>3. \A i : IsFiniteSet(At(i)) /\ Cardinality(At(i)) \in Nat
    <3>1. IsFiniteSet(DOMAIN matches)
      BY <2>1, FS_Interval
    <3>2. \A i : At(i) \subseteq DOMAIN matches
      OBVIOUS
    <3> HIDE DEF At
    <3> QED
      BY <3>1, <3>2, FS_Subset, FS_CardinalityType
  <2>4. InRound(r) = (At(1) \cup At(2)) \cup At(3)
    <3>1. \A x \in DOMAIN matches : \/ matches[x].game = groupGames[1] \/ matches[x].game = groupGames[2]
                                    \/ matches[x].game = groupGames[3]
      <4>1. \A j \in 1..3 : j = 1 \/ j = 2 \/ j = 3
        OBVIOUS
      <4> QED
        BY <2>2, <4>1
    <3> QED
      BY <3>1 DEF InRound
  <2>5. At(1) \cap At(2) = {} /\ (At(1) \cup At(2)) \cap At(3) = {}
    <3>1. groupGames[1] # groupGames[2] /\ groupGames[1] # groupGames[3] /\ groupGames[2] # groupGames[3]
      BY TheGames
    <3> QED
      BY <3>1
  <2>6. \A i : u(i) = Cardinality(At(i))
    BY DEF roundUsage
  <2> HIDE DEF At, u
  <2>7. IsFiniteSet(At(1) \cup At(2)) /\ Cardinality(At(1) \cup At(2)) = u(1) + u(2)
    <3>1. /\ IsFiniteSet(At(1) \cup At(2))
          /\ Cardinality(At(1) \cup At(2)) = Cardinality(At(1)) + Cardinality(At(2)) - Cardinality(At(1) \cap At(2))
      BY <2>3, FS_Union
    <3>2. Cardinality(At(1) \cap At(2)) = 0
      BY <2>5, FS_EmptySet
    <3> QED
      BY <2>3, <2>6, <3>1, <3>2
  <2>8. Cardinality(InRound(r)) = u(1) + u(2) + u(3)
    <3> DEFINE B == At(1) \cup At(2)
    <3>1. IsFiniteSet(B) /\ B \cap At(3) = {} /\ InRound(r) = B \cup At(3) /\ Cardinality(B) = u(1) + u(2)
      BY <2>4, <2>5, <2>7
    <3> HIDE DEF B
    <3>2. Cardinality(B \cup At(3)) = Cardinality(B) + Cardinality(At(3)) - Cardinality(B \cap At(3))
      BY <2>3, <3>1, FS_Union
    <3>3. Cardinality(B \cap At(3)) = 0
      BY <3>1, FS_EmptySet
    <3> QED
      BY <2>3, <2>6, <3>1, <3>2, <3>3
  <2>9. u(1) \in Nat /\ u(2) \in Nat /\ u(3) \in Nat
    BY <2>3, <2>6
  <2>10. free(matches, r) = {i \in 1..3 : u(i) < 2}
    BY TheGames DEF free, u
  <2>11. free(matches, r) = {} \/ \A i \in 1..3 : u(i) <= 2
    BY <2>1, TheGames DEF Balanced, u
  <2>12. IF Cardinality(InRound(r)) <= 6 THEN \A i \in 1..3 : u(i) <= 2 ELSE free(matches, r) = {}
    <3>1. CASE free(matches, r) = {}
      <4>1. ~(u(1) < 2) /\ ~(u(2) < 2) /\ ~(u(3) < 2)
        BY <2>10, <3>1
      <4>2. Cardinality(InRound(r)) <= 6 => u(1) <= 2 /\ u(2) <= 2 /\ u(3) <= 2
        BY <2>8, <2>9, <4>1
      <4>3. \A i \in 1..3 : i = 1 \/ i = 2 \/ i = 3
        OBVIOUS
      <4> QED
        BY <3>1, <4>2, <4>3
    <3>2. CASE \A i \in 1..3 : u(i) <= 2
      <4>1. u(1) <= 2 /\ u(2) <= 2 /\ u(3) <= 2
        BY <3>2
      <4>2. Cardinality(InRound(r)) <= 6
        BY <2>8, <2>9, <4>1
      <4> QED
        BY <3>2, <4>2
    <3> QED
      BY <2>11, <3>1, <3>2
  <2> QED
    BY <2>12, TheGames DEF u
<1> QED
  BY <1>1, AlwaysDealt, AlwaysOnSchedule, PTL

\* However many teams there are, every team is in one group, every two teams
\* of a group meet in exactly one match, teams of different groups in none,
\* and no team plays twice in a round (groups.go:154).
THEOREM GroupsPlayRoundRobin == Spec => []RoundRobin
<1>1. Dealt /\ OnSchedule => RoundRobin
  <2> SUFFICES ASSUME Dealt, OnSchedule PROVE RoundRobin
    OBVIOUS
  <2> DEFINE pair(i) == {matches[i].a, matches[i].b}
             places(t) == {x \in (DOMAIN Groups) \X (1..teamsPerGroup) :
                             x[2] \in DOMAIN Groups[x[1]] /\ Groups[x[1]][x[2]] = t}
             Members(g) == {Groups[g][j] : j \in DOMAIN Groups[g]}
             games(s, t) == {i \in DOMAIN matches : pair(i) = {s, t}}
             Together(s, t) == \E g \in DOMAIN Groups : {s, t} \subseteq Members(g)
  <2>1. IsTimetable(matches, Groups)
    BY GroupMatchesAre
  <2>2. /\ \A g \in DOMAIN Groups : \A j \in DOMAIN Groups[g] : j \in 1..teamsPerGroup
        /\ \A t \in DOMAIN teams : \E g \in DOMAIN Groups : \E j \in DOMAIN Groups[g] : Groups[g][j] = t
    <3>1. \A g \in DOMAIN Groups : DOMAIN Groups[g] = 1..Len(Groups[g]) /\ Len(Groups[g]) \in 1..teamsPerGroup
      BY GroupsAre
    <3>2. ASSUME NEW n \in 1..teamsPerGroup, NEW j \in 1..n PROVE j \in 1..teamsPerGroup
      BY DEF teamsPerGroup
    <3>3. \A g \in DOMAIN Groups : \A j \in DOMAIN Groups[g] : j \in 1..teamsPerGroup
      BY <3>1, <3>2
    <3> QED
      BY <3>3, GroupsAre
  <2>3. \A g, h \in DOMAIN Groups : \A i \in DOMAIN Groups[g], j \in DOMAIN Groups[h] :
          Groups[g][i] = Groups[h][j] => g = h /\ i = j
    BY GroupTeams
  <2>4. ASSUME NEW t \in DOMAIN teams PROVE Cardinality(places(t)) = 1
    <3>1. PICK g \in DOMAIN Groups : \E j \in DOMAIN Groups[g] : Groups[g][j] = t
      BY <2>2
    <3>2. PICK j \in DOMAIN Groups[g] : Groups[g][j] = t
      BY <3>1
    <3>3. <<g, j>> \in places(t)
      BY <2>2, <3>2
    <3>4. ASSUME NEW x \in places(t) PROVE x = <<g, j>>
      <4>1. x = <<x[1], x[2]>> /\ x[1] \in DOMAIN Groups /\ x[2] \in DOMAIN Groups[x[1]] /\ Groups[x[1]][x[2]] = t
        BY <3>4
      <4>2. x[1] = g /\ x[2] = j
        BY <2>3, <3>2, <4>1
      <4> QED
        BY <4>1, <4>2
    <3> HIDE DEF places
    <3>5. places(t) = {<<g, j>>}
      BY <3>3, <3>4
    <3> QED
      BY <3>5, FS_Singleton
  <2>5. ASSUME NEW i \in DOMAIN matches
        PROVE  matches[i].group \in DOMAIN Groups /\ pair(i) \subseteq Members(matches[i].group)
    BY <2>1, Zenon DEF IsTimetable
  <2>6. ASSUME NEW g \in DOMAIN Groups, NEW s \in Members(g), NEW t \in Members(g), s # t
        PROVE  \E i \in DOMAIN matches : pair(i) = {s, t}
    <3>1. \A h \in DOMAIN Groups : \A u, v \in DOMAIN Groups[h] : u # v =>
            \E i \in DOMAIN matches : pair(i) = {Groups[h][u], Groups[h][v]}
      BY <2>1, Zenon DEF IsTimetable
    <3>2. PICK u \in DOMAIN Groups[g], v \in DOMAIN Groups[g] : s = Groups[g][u] /\ t = Groups[g][v]
      OBVIOUS
    <3>3. u # v
      BY <2>6, <3>2
    <3> HIDE DEF pair
    <3>4. PICK i \in DOMAIN matches : pair(i) = {Groups[g][u], Groups[g][v]}
      BY ONLY <3>1, <3>3, Zenon
    <3>5. pair(i) = {s, t}
      BY ONLY <3>2, <3>4
    <3> QED
      BY ONLY <3>5, Zenon
  <2>7. ASSUME NEW i \in DOMAIN matches, NEW j \in DOMAIN matches
        PROVE  /\ pair(i) = pair(j) => i = j
               /\ i # j /\ matches[i].round = matches[j].round => pair(i) \cap pair(j) = {}
    BY <2>1, Zenon DEF IsTimetable
  <2> HIDE DEF pair, Members
  <2>8. ASSUME NEW s \in DOMAIN teams, NEW t \in DOMAIN teams, s < t
        PROVE  Cardinality(games(s, t)) = IF Together(s, t) THEN 1 ELSE 0
    <3>0. s # t
      BY <2>8, GroupsAre
    <3>1. CASE Together(s, t)
      <4>1. PICK g \in DOMAIN Groups : s \in Members(g) /\ t \in Members(g)
        BY <3>1
      <4>2. PICK i \in DOMAIN matches : pair(i) = {s, t}
        BY <2>6, <3>0, <4>1
      <4>3. games(s, t) = {i}
        <5>1. \A j \in DOMAIN matches : pair(j) = {s, t} <=> j = i
          BY ONLY <2>7, <4>2, Zenon
        <5> QED
          BY ONLY <4>2, <5>1
      <4>4. Cardinality(games(s, t)) = 1
        BY <4>3, FS_Singleton
      <4> QED
        BY <3>1, <4>4
    <3>2. CASE ~Together(s, t)
      <4>1. games(s, t) = {}
        BY <2>5, <3>2
      <4>2. Cardinality(games(s, t)) = 0
        BY <4>1, FS_EmptySet
      <4> QED
        BY <3>2, <4>2
    <3> QED
      BY <3>1, <3>2
  <2> HIDE DEF games, Together, places
  <2>9. RoundRobin
    BY <2>4, <2>7, <2>8, Zenon DEF RoundRobin, games, Together, places, pair, Members
  <2> QED
    BY <2>9
<1> QED
  BY <1>1, AlwaysDealt, AlwaysOnSchedule, PTL

-----------------------------------------------------------------------------
(***************************************************************************)
(* The standings                                                           *)
(***************************************************************************)

\* The teams of the rows are those of the group, and every number in a row is
\* a number.
LEMMA RowsAre ==
  ASSUME Dealt, OnSchedule, NEW g \in DOMAIN Groups
  PROVE  /\ standings[g] = {Row(matches, g, Groups[g][j]) : j \in DOMAIN Groups[g]}
         /\ IsFiniteSet(standings[g]) /\ IsFiniteSet(Completed(matches, g))
         /\ \A t : Row(matches, g, t).team = t
         /\ \A t : /\ Row(matches, g, t).wins \in Nat /\ Row(matches, g, t).losses \in Int
                   /\ Row(matches, g, t).pointsFor \in Int /\ Row(matches, g, t).pointDiff \in Int
<1>1. /\ DOMAIN matches = 1..Len(pairings(teams)) /\ Len(pairings(teams)) \in Nat
      /\ \A i \in DOMAIN matches : matches[i].sa \in Nat /\ matches[i].sb \in Nat
  BY GroupMatchesAre
<1>2. IsFiniteSet(Completed(matches, g)) /\ Completed(matches, g) \subseteq DOMAIN matches
  <2>1. IsFiniteSet(DOMAIN matches)
    <3> DEFINE n == Len(pairings(teams))
    <3>1. DOMAIN matches = 1..n /\ n \in Nat
      BY <1>1
    <3> HIDE DEF n
    <3>2. IsFiniteSet(1..n)
      BY <3>1, FS_Interval
    <3> QED
      BY <3>1, <3>2
  <2>2. Completed(matches, g) \subseteq DOMAIN matches
    BY DEF Completed
  <2> QED
    BY <2>1, <2>2, FS_Subset
<1>3. standings[g] = {Row(matches, g, Groups[g][j]) : j \in DOMAIN Groups[g]}
  BY DEF standings, computeStandings
<1>4. IsFiniteSet(standings[g])
  <2>1. standings[g] \subseteq Rows
    BY GroupTeams DEF Rows
  <2> QED
    BY <2>1, OneRowPerTeam, FS_Subset
<1>5. ASSUME NEW t
      PROVE  /\ Row(matches, g, t).team = t
             /\ Row(matches, g, t).wins \in Nat /\ Row(matches, g, t).losses \in Int
             /\ Row(matches, g, t).pointsFor \in Int /\ Row(matches, g, t).pointDiff \in Int
  <2> DEFINE mine == Of(matches, g, t)
             won == {i \in mine : Won(matches[i], t)}
             F == [i \in mine |-> PointsFor(matches[i], t)]
             A == [i \in mine |-> PointsAgainst(matches[i], t)]
  <2>1. mine \subseteq Completed(matches, g) /\ won \subseteq Completed(matches, g)
    BY DEF Of
  <2>2. IsFiniteSet(mine) /\ IsFiniteSet(won)
    BY <1>2, <2>1, FS_Subset
  <2>3. Cardinality(mine) \in Nat /\ Cardinality(won) \in Nat
    BY <2>2, FS_CardinalityType
  <2>4. \A i \in mine : F[i] \in Int /\ A[i] \in Int
    BY <1>1, <1>2, <2>1 DEF PointsFor, PointsAgainst
  <2>5. DOMAIN F = mine /\ DOMAIN A = mine
    OBVIOUS
  <2> HIDE DEF mine, won, F, A
  <2>6. SumFunctionOnSet(F, mine) \in Int
    BY <2>2, <2>4, SumRest
  <2>7. SumFunctionOnSet(A, mine) \in Int
    BY <2>2, <2>4, SumRest
  <2>8. SumFunction(F) \in Int /\ SumFunction(A) \in Int
    BY <2>5, <2>6, <2>7 DEF SumFunction
  <2>9. Row(matches, g, t) =
          [team |-> t, played |-> Cardinality(mine), wins |-> Cardinality(won),
           losses |-> Cardinality(mine) - Cardinality(won),
           pointsFor |-> SumFunction(F), pointDiff |-> SumFunction(F) - SumFunction(A)]
    BY DEF Row, mine, won, F, A
  <2> QED
    BY <2>3, <2>8, <2>9
<1> QED
  BY <1>2, <1>3, <1>4, <1>5

\* Rows can be listed in an order that is by numbers.
LEMMA RowsCanBeListed ==
  ASSUME NEW rows, IsFiniteSet(rows),
         \A x \in rows : x.wins \in Int /\ x.pointDiff \in Int /\ x.pointsFor \in Int
  PROVE  sortStandings(rows) # {}
<1>1. \A U \in SUBSET rows : IsFiniteSet(U) /\ Cardinality(U) \in Nat /\ (Cardinality(U) = 0 <=> U = {})
  BY FS_Subset, FS_CardinalityType, FS_EmptySet
<1>2. \A x, y, z \in rows : /\ ~Ahead(x, x) /\ (Ahead(x, y) => ~Ahead(y, x))
                            /\ ~Ahead(x, y) /\ ~Ahead(y, z) => ~Ahead(x, z)
  BY DEF Ahead
<1>3. ASSUME NEW U \in SUBSET rows, U # {} PROVE \E x \in U : \A y \in U : ~Ahead(x, y)
  <2> DEFINE Last(x, V) == x \in V /\ \A y \in V : ~Ahead(x, y)
             G == {V \in SUBSET U : V = {} \/ \E x \in U : Last(x, V)}
  <2>1. {} \in G
    OBVIOUS
  <2>2. ASSUME NEW V \in SUBSET U, NEW x \in V, V \ {x} \in G PROVE V \in G
    <3>1. CASE V \ {x} = {}
      <4>1. V = {x}
        BY <3>1
      <4>2. Last(x, V)
        BY <1>2, <4>1
      <4> QED
        BY <4>2
    <3>2. CASE V \ {x} # {}
      <4>1. PICK z \in U : Last(z, V \ {x})
        BY <2>2, <3>2
      <4>2. CASE Ahead(x, z)
        <5>1. Last(z, V)
          BY <1>2, <4>1, <4>2
        <5> QED
          BY <5>1
      <4>3. CASE ~Ahead(x, z)
        <5>1. ASSUME NEW y \in V PROVE ~Ahead(x, y)
          <6>1. CASE y = x
            BY <1>2, <6>1
          <6>2. CASE y # x
            <7>1. ~Ahead(z, y) /\ y \in rows /\ z \in rows /\ x \in rows
              BY <4>1, <6>2
            <7> QED
              BY <1>2, <4>3, <7>1
          <6> QED
            BY <6>1, <6>2
        <5> QED
          BY <5>1
      <4> QED
        BY <4>2, <4>3
    <3> QED
      BY <3>1, <3>2
  <2> HIDE DEF G
  <2>3. U \in G
    BY <1>1, <2>1, <2>2, SetInduction
  <2> QED
    BY <1>3, <2>3 DEF G
<1> DEFINE Listing(s, U) == /\ s \in [1..Cardinality(U) -> U]
                            /\ \A i, j \in 1..Cardinality(U) : i < j => s[i] # s[j] /\ ~Ahead(s[j], s[i])
           Good == {n \in Nat : \A U \in SUBSET rows : Cardinality(U) = n => \E s : Listing(s, U)}
<1>4. 0 \in Good
  <2>1. ASSUME NEW U \in SUBSET rows, Cardinality(U) = 0 PROVE Listing(<<>>, U)
    BY <1>1, <2>1
  <2> QED
    BY <2>1
<1>5. ASSUME NEW n \in Nat, n \in Good PROVE n + 1 \in Good
  <2> SUFFICES ASSUME NEW U \in SUBSET rows, Cardinality(U) = n + 1 PROVE \E s : Listing(s, U)
    OBVIOUS
  <2>1. U # {} /\ IsFiniteSet(U)
    BY <1>1
  <2>2. PICK x \in U : \A y \in U : ~Ahead(x, y)
    BY <1>3, <2>1
  <2> DEFINE V == U \ {x}
  <2>3. V \in SUBSET rows /\ x \notin V /\ V \subseteq U /\ Cardinality(V) = n
    <3>1. Cardinality(V) = Cardinality(U) - 1
      BY <2>1, FS_RemoveElement
    <3> QED
      BY <3>1
  <2> HIDE DEF V
  <2>4. PICK s : Listing(s, V)
    BY <1>5, <2>3
  <2> DEFINE t == [i \in 1..(n + 1) |-> IF i = n + 1 THEN x ELSE s[i]]
  <2>5. \A i \in 1..n : s[i] \in V
    BY <2>3, <2>4
  <2>6. \A i \in 1..(n + 1) : i = n + 1 \/ i \in 1..n
    OBVIOUS
  <2>7. t \in [1..(n + 1) -> U]
    BY <2>3, <2>5, <2>6
  <2>8. \A i \in 1..(n + 1) : t[i] = IF i = n + 1 THEN x ELSE s[i]
    OBVIOUS
  <2> HIDE DEF t
  <2>9. ASSUME NEW i \in 1..(n + 1), NEW j \in 1..(n + 1), i < j
        PROVE  t[i] # t[j] /\ ~Ahead(t[j], t[i])
    <3>1. i \in 1..n /\ t[i] = s[i] /\ s[i] \in V
      BY <2>5, <2>8, <2>9
    <3>2. CASE j = n + 1
      <4>1. t[j] = x
        BY <2>8, <3>2
      <4> QED
        BY <2>2, <2>3, <3>1, <4>1
    <3>3. CASE j # n + 1
      <4>1. j \in 1..n /\ t[j] = s[j]
        BY <2>6, <2>8, <3>3
      <4> QED
        BY <2>3, <2>4, <2>9, <3>1, <4>1
    <3> QED
      BY <3>2, <3>3
  <2>10. Listing(t, U)
    BY <2>7, <2>9
  <2> QED
    BY <2>10
<1> HIDE DEF Good
<1>6. Cardinality(rows) \in Good
  BY <1>1, <1>4, <1>5, Induction
<1>7. PICK s : Listing(s, rows)
  BY <1>6 DEF Good
<1>8. s \in sortStandings(rows)
  BY <1>7 DEF sortStandings
<1> QED
  BY <1>8

\* However many teams there are and whatever the results so far, the rows of a
\* group have an order by wins, then point difference, then points
\* (standings.go:95).
THEOREM StandingsAreListed == Spec => []StandingsCanBeListed
<1>1. Dealt /\ OnSchedule => StandingsCanBeListed
  <2> SUFFICES ASSUME Dealt, OnSchedule, NEW g \in DOMAIN Groups PROVE sortStandings(standings[g]) # {}
    BY DEF StandingsCanBeListed
  <2>1. /\ IsFiniteSet(standings[g])
        /\ \A x \in standings[g] : x.wins \in Int /\ x.pointDiff \in Int /\ x.pointsFor \in Int
    BY RowsAre
  <2> QED
    BY <2>1, RowsCanBeListed
<1> QED
  BY <1>1, AlwaysDealt, AlwaysOnSchedule, PTL

\* Each completed match is won by one of two teams of the group, and lost by
\* the other one.
Loser(m) == IF m.sa > m.sb THEN m.b ELSE m.a

\* A completed match has two teams of its group, one of which won it.
LEMMA CompletedAre ==
  ASSUME Dealt, OnSchedule, NEW g \in DOMAIN Groups, NEW i \in Completed(matches, g)
  PROVE  LET m == matches[i]
             members == {Groups[g][j] : j \in DOMAIN Groups[g]}
         IN  /\ m.a \in members /\ m.b \in members /\ m.a # m.b
             /\ m.sa \in Nat /\ m.sb \in Nat /\ m.sa # m.sb
             /\ m.winner = (IF m.sa > m.sb THEN m.a ELSE m.b)
<1>1. i \in DOMAIN matches /\ matches[i].group = g /\ matches[i].done
  BY DEF Completed
<1>2. /\ matches[i].a # matches[i].b
      /\ {matches[i].a, matches[i].b} \subseteq
           {Groups[matches[i].group][j] : j \in DOMAIN Groups[matches[i].group]}
  BY <1>1, GroupMatchesAre, Zenon DEF IsTimetable
<1>3. /\ matches[i].sa \in Nat /\ matches[i].sb \in Nat
      /\ matches[i].done => matches[i].sa # matches[i].sb
      /\ matches[i].done => matches[i].winner =
           IF matches[i].sa > matches[i].sb THEN matches[i].a ELSE matches[i].b
  BY <1>1, GroupMatchesAre
<1> QED
  BY <1>1, <1>2, <1>3

\* What a row counts, in terms of the winners and losers.
LEMMA RowCounts ==
  ASSUME Dealt, OnSchedule, NEW g \in DOMAIN Groups, NEW t
  PROVE  /\ Row(matches, g, t).wins = Cardinality({i \in Completed(matches, g) : matches[i].winner = t})
         /\ Row(matches, g, t).losses = Cardinality({i \in Completed(matches, g) : Loser(matches[i]) = t})
<1> DEFINE C == Completed(matches, g)
           mine == Of(matches, g, t)
           won == {i \in mine : Won(matches[i], t)}
           W == {i \in C : matches[i].winner = t}
           L == {i \in C : Loser(matches[i]) = t}
<1>1. ASSUME NEW i \in C
      PROVE  /\ i \in mine <=> (i \in W \/ i \in L)
             /\ i \in won <=> i \in W
             /\ ~(i \in W /\ i \in L)
  <2> DEFINE m == matches[i]
  <2>1. /\ m.a # m.b /\ m.sa \in Nat /\ m.sb \in Nat /\ m.sa # m.sb
        /\ m.winner = (IF m.sa > m.sb THEN m.a ELSE m.b)
    BY CompletedAre
  <2>2. i \in mine <=> t = m.a \/ t = m.b
    BY DEF Of
  <2>3. i \in won <=> i \in mine /\ (IF m.sa > m.sb THEN t = m.a ELSE t = m.b)
    BY DEF Won
  <2>4. (i \in W <=> m.winner = t) /\ (i \in L <=> (IF m.sa > m.sb THEN m.b ELSE m.a) = t)
    BY DEF Loser
  <2> HIDE DEF m, mine, won, W, L
  <2> QED
    BY <2>1, <2>2, <2>3, <2>4
<1>2. mine \subseteq C /\ won \subseteq C /\ W \subseteq C /\ L \subseteq C
  BY DEF Of
<1>3. Row(matches, g, t).wins = Cardinality(won)
      /\ Row(matches, g, t).losses = Cardinality(mine) - Cardinality(won)
  BY DEF Row
<1>4. IsFiniteSet(C)
  BY RowsAre
<1> HIDE DEF C, mine, won, W, L
<1>5. won = W /\ mine = W \cup L /\ W \cap L = {}
  BY <1>1, <1>2
<1>6. IsFiniteSet(W) /\ IsFiniteSet(L)
  BY <1>2, <1>4, FS_Subset
<1>7. Cardinality(W) \in Nat /\ Cardinality(L) \in Nat
  BY <1>6, FS_CardinalityType
<1>8. Cardinality(mine) = Cardinality(W) + Cardinality(L)
  <2>1. Cardinality(W \cup L) = Cardinality(W) + Cardinality(L) - Cardinality(W \cap L)
    BY <1>6, FS_Union
  <2>2. Cardinality(W \cap L) = 0
    BY <1>5, FS_EmptySet
  <2> QED
    BY <1>5, <1>7, <2>1, <2>2
<1>9. Cardinality(mine) - Cardinality(won) = Cardinality(L)
  BY <1>5, <1>7, <1>8
<1> QED
  BY <1>3, <1>5, <1>9 DEF W, L, C

\* Counted over the rows of a group, something that one team of the group has
\* of every completed match is counted as often as there are such matches.
LEMMA OneOfEach ==
  ASSUME Dealt, OnSchedule, NEW g \in DOMAIN Groups, NEW who,
         \A i \in Completed(matches, g) : who[i] \in {Groups[g][j] : j \in DOMAIN Groups[g]},
         NEW f, DOMAIN f = standings[g],
         \A x \in standings[g] : f[x] = Cardinality({i \in Completed(matches, g) : who[i] = x.team})
  PROVE  SumFunction(f) = Cardinality(Completed(matches, g))
<1> DEFINE C == Completed(matches, g)
           S == standings[g]
           row == [i \in C |-> Row(matches, g, who[i])]
           count == [x \in S |-> Cardinality({i \in C : row[i] = x})]
<1>1. /\ S = {Row(matches, g, Groups[g][j]) : j \in DOMAIN Groups[g]} /\ IsFiniteSet(S) /\ IsFiniteSet(C)
      /\ \A t : Row(matches, g, t).team = t
  BY RowsAre
<1>2. \A i \in C : row[i] \in S
  BY <1>1
<1>3. \A x \in S : x = Row(matches, g, x.team)
  BY <1>1
<1>4. ASSUME NEW x \in S PROVE {i \in C : row[i] = x} = {i \in C : who[i] = x.team}
  BY <1>1, <1>3
<1>5. ASSUME NEW x \in S PROVE count[x] = f[x]
  BY <1>4
<1>6. \A x \in S : count[x] \in Int
  <2>1. \A x \in S : IsFiniteSet({i \in C : row[i] = x})
    BY <1>1, FS_Subset
  <2> QED
    BY <2>1, FS_CardinalityType
<1> HIDE DEF C, S, row
<1>7. SumFunctionOnSet(count, S) = Cardinality(C)
  BY <1>1, <1>2, SumOfFibers
<1> HIDE DEF count
<1>8. SumFunctionOnSet(f, S) = SumFunctionOnSet(count, S)
  BY <1>1, <1>5, <1>6, SumSame
<1>9. SumFunction(f) = SumFunctionOnSet(f, S)
  BY DEF SumFunction, S
<1> QED
  BY <1>7, <1>8, <1>9 DEF C

\* No point is made but against somebody.
LEMMA PointsCancel ==
  ASSUME Dealt, OnSchedule, NEW g \in DOMAIN Groups
  PROVE  SumFunction([x \in standings[g] |-> x.pointDiff]) = 0
<1> DEFINE C == Completed(matches, g)
           S == standings[g]
           M(x) == Of(matches, g, x.team)
           F(x) == [i \in M(x) |-> PointsFor(matches[i], x.team)]
           A(x) == [i \in M(x) |-> PointsAgainst(matches[i], x.team)]
           f(x, U) == SumFunctionOnSet(F(x), U \cap M(x))
           a(x, U) == SumFunctionOnSet(A(x), U \cap M(x))
           D(U) == [x \in S |-> f(x, U) - a(x, U)]
           G == {U \in SUBSET C : SumFunctionOnSet(D(U), S) = 0}
<1>1. /\ S = {Row(matches, g, Groups[g][j]) : j \in DOMAIN Groups[g]} /\ IsFiniteSet(S) /\ IsFiniteSet(C)
      /\ \A t : Row(matches, g, t).team = t
  BY RowsAre
<1>2. \A x \in S : x = Row(matches, g, x.team)
  BY <1>1
<1>3. \A x, i : i \in M(x) <=> i \in C /\ (x.team = matches[i].a \/ x.team = matches[i].b)
  BY DEF Of
<1>4. ASSUME NEW i \in C
      PROVE  /\ matches[i].a # matches[i].b /\ matches[i].sa \in Nat /\ matches[i].sb \in Nat
             /\ Row(matches, g, matches[i].a) \in S /\ Row(matches, g, matches[i].b) \in S
  <2>1. /\ matches[i].a # matches[i].b /\ matches[i].sa \in Nat /\ matches[i].sb \in Nat
        /\ matches[i].a \in {Groups[g][j] : j \in DOMAIN Groups[g]}
        /\ matches[i].b \in {Groups[g][j] : j \in DOMAIN Groups[g]}
    BY CompletedAre
  <2> QED
    BY <1>1, <2>1
<1>5. ASSUME NEW x, NEW i \in M(x)
      PROVE  /\ F(x)[i] = PointsFor(matches[i], x.team) /\ A(x)[i] = PointsAgainst(matches[i], x.team)
             /\ F(x)[i] \in Int /\ A(x)[i] \in Int
  BY <1>3, <1>4 DEF PointsFor, PointsAgainst
<1>6. \A x : DOMAIN F(x) = M(x) /\ DOMAIN A(x) = M(x)
  OBVIOUS
<1>7. ASSUME NEW x \in S PROVE x.pointDiff = SumFunctionOnSet(F(x), M(x)) - SumFunctionOnSet(A(x), M(x))
  <2>1. Row(matches, g, x.team).pointDiff = SumFunction(F(x)) - SumFunction(A(x))
    BY DEF Row
  <2> HIDE DEF F, A, M
  <2> QED
    BY <1>2, <1>6, <2>1 DEF SumFunction
<1> HIDE DEF M, F, A
<1>8. ASSUME NEW x, NEW U \in SUBSET C
      PROVE  /\ f(x, U) \in Int /\ a(x, U) \in Int
             /\ U = {} => f(x, U) = 0 /\ a(x, U) = 0
             /\ \A i \in U : i \in M(x) => /\ f(x, U) = F(x)[i] + f(x, U \ {i})
                                           /\ a(x, U) = A(x)[i] + a(x, U \ {i})
             /\ \A i \in U : i \notin M(x) => f(x, U) = f(x, U \ {i}) /\ a(x, U) = a(x, U \ {i})
  <2> DEFINE Z == U \cap M(x)
  <2>1. IsFiniteSet(Z) /\ \A i \in Z : F(x)[i] \in Int /\ A(x)[i] \in Int
    BY <1>1, <1>5, FS_Subset
  <2>2. \A i \in U : i \in M(x) => i \in Z /\ Z \ {i} = (U \ {i}) \cap M(x)
    OBVIOUS
  <2>3. \A i \in U : i \notin M(x) => Z = (U \ {i}) \cap M(x)
    OBVIOUS
  <2>4. U = {} => Z = {}
    OBVIOUS
  <2>5. f(x, U) = SumFunctionOnSet(F(x), Z) /\ a(x, U) = SumFunctionOnSet(A(x), Z)
    OBVIOUS
  <2> HIDE DEF Z
  <2>6. /\ SumFunctionOnSet(F(x), Z) \in Int /\ (Z = {} => SumFunctionOnSet(F(x), Z) = 0)
        /\ \A i \in Z : SumFunctionOnSet(F(x), Z) = F(x)[i] + SumFunctionOnSet(F(x), Z \ {i})
    BY <2>1, SumRest
  <2>7. /\ SumFunctionOnSet(A(x), Z) \in Int /\ (Z = {} => SumFunctionOnSet(A(x), Z) = 0)
        /\ \A i \in Z : SumFunctionOnSet(A(x), Z) = A(x)[i] + SumFunctionOnSet(A(x), Z \ {i})
    BY <2>1, SumRest
  <2>8. ASSUME NEW i \in U, i \in M(x)
        PROVE  f(x, U) = F(x)[i] + f(x, U \ {i}) /\ a(x, U) = A(x)[i] + a(x, U \ {i})
    <3>1. i \in Z /\ Z \ {i} = (U \ {i}) \cap M(x)
      BY <2>2, <2>8
    <3> QED
      BY <2>5, <2>6, <2>7, <3>1
  <2>9. ASSUME NEW i \in U, i \notin M(x)
        PROVE  f(x, U) = f(x, U \ {i}) /\ a(x, U) = a(x, U \ {i})
    <3>1. Z = (U \ {i}) \cap M(x)
      BY <2>3, <2>9
    <3> QED
      BY <2>5, <3>1
  <2> HIDE DEF f, a
  <2> QED
    BY <2>4, <2>5, <2>6, <2>7, <2>8, <2>9
<1> HIDE DEF f, a
<1>9. {} \in G
  <2> DEFINE none == [x \in S |-> Cardinality({i \in {} : i = x})]
             id == [i \in {} |-> i]
  <2>1. \A x : {i \in {} : id[i] = x} = {}
    OBVIOUS
  <2> DEFINE zero == [x \in S |-> Cardinality({i \in {} : id[i] = x})]
  <2>2. \A x \in S : zero[x] = 0
    BY <2>1, FS_EmptySet
  <2>3. SumFunctionOnSet(zero, S) = 0
    <3>1. IsFiniteSet({}) /\ Cardinality({}) = 0 /\ \A i \in {} : id[i] \in S
      BY FS_EmptySet
    <3> HIDE DEF id, S
    <3>2. SumFunctionOnSet(zero, S) = Cardinality({})
      BY <1>1, <3>1, SumOfFibers
    <3> QED
      BY <3>1, <3>2
  <2>4. \A x \in S : D({})[x] = 0
    BY <1>8
  <2>5. \A x \in S : zero[x] \in Int /\ D({})[x] = zero[x]
    BY <2>2, <2>4
  <2> HIDE DEF zero, D, S
  <2>6. SumFunctionOnSet(D({}), S) = SumFunctionOnSet(zero, S)
    BY <1>1, <2>5, SumSame
  <2> QED
    BY <2>3, <2>6
<1>10. ASSUME NEW U \in SUBSET C, NEW i \in U, U \ {i} \in G PROVE U \in G
  <2> DEFINE V == U \ {i}
             m == matches[i]
             x == Row(matches, g, m.a)
             y == Row(matches, g, m.b)
             h == D(U)
             k == D(V)
  <2>1. /\ i \in C /\ m.a # m.b /\ m.sa \in Nat /\ m.sb \in Nat /\ x \in S /\ y \in S
        /\ x.team = m.a /\ y.team = m.b
    BY <1>1, <1>4
  <2>2. V \in SUBSET C /\ SumFunctionOnSet(k, S) = 0
    BY <1>10
  <2>3. \A z \in S : h[z] = f(z, U) - a(z, U) /\ k[z] = f(z, V) - a(z, V)
    OBVIOUS
  <2>4. \A z \in S : h[z] \in Int /\ k[z] \in Int
    BY <1>8, <2>2, <2>3
  <2>5. ASSUME NEW z \in S, i \notin M(z) PROVE h[z] = k[z]
    BY <1>8, <2>3, <2>5
  <2>6. ASSUME NEW z \in S, i \in M(z) PROVE h[z] - k[z] = F(z)[i] - A(z)[i]
    <3>1. f(z, U) = F(z)[i] + f(z, V) /\ a(z, U) = A(z)[i] + a(z, V)
      BY <1>8, <2>6
    <3>2. f(z, V) \in Int /\ a(z, V) \in Int
      BY <1>8, <2>2
    <3>3. F(z)[i] \in Int /\ A(z)[i] \in Int
      BY <1>5, <2>6
    <3>4. h[z] = f(z, U) - a(z, U) /\ k[z] = f(z, V) - a(z, V)
      BY <2>3
    <3> HIDE DEF h, k, V
    <3> QED
      BY <3>1, <3>2, <3>3, <3>4
  <2>7. ASSUME NEW z \in S \ {x, y} PROVE i \notin M(z)
    <3>1. z.team # m.a /\ z.team # m.b
      BY <1>2, <2>7
    <3> QED
      BY <1>3, <3>1
  <2>8. i \in M(x) /\ i \in M(y)
    BY <1>3, <2>1
  <2>9. h[x] - k[x] = m.sa - m.sb
    <3>1. F(x)[i] = m.sa /\ A(x)[i] = m.sb
      BY <1>5, <2>1, <2>8 DEF PointsFor, PointsAgainst
    <3> QED
      BY <2>1, <2>6, <2>8, <3>1
  <2>10. h[y] - k[y] = m.sb - m.sa
    <3>1. F(y)[i] = m.sb /\ A(y)[i] = m.sa
      BY <1>5, <2>1, <2>8 DEF PointsFor, PointsAgainst
    <3> QED
      BY <2>1, <2>6, <2>8, <3>1
  <2>11. x # y
    BY <2>1
  <2> HIDE DEF x, y, h, k, m, S
  <2>12. SumFunctionOnSet(h, S) = SumFunctionOnSet(k, S) + (h[x] - k[x]) + (h[y] - k[y])
    <3>1. \A z \in S \ {x, y} : h[z] = k[z]
      BY <2>5, <2>7
    <3> QED
      BY <1>1, <2>1, <2>4, <2>11, <3>1, SumChanged
  <2>13. SumFunctionOnSet(h, S) = 0
    BY <2>1, <2>2, <2>9, <2>10, <2>12
  <2> QED
    BY <2>13 DEF h
<1> HIDE DEF G
<1>11. C \in G
  BY <1>1, <1>9, <1>10, SetInduction
<1> DEFINE diff == [x \in standings[g] |-> x.pointDiff]
<1>12. \A x \in S : diff[x] \in Int /\ D(C)[x] = diff[x]
  <2>1. ASSUME NEW x \in S PROVE D(C)[x] = x.pointDiff
    <3>1. C \cap M(x) = M(x)
      BY <1>3
    <3>2. D(C)[x] = f(x, C) - a(x, C)
      OBVIOUS
    <3> QED
      BY <1>7, <3>1, <3>2 DEF f, a
  <2>2. \A x \in S : x.pointDiff \in Int
    BY <1>1, RowsAre
  <2> QED
    BY <2>1, <2>2
<1>13. DOMAIN diff = S
  OBVIOUS
<1> HIDE DEF diff, D, S
<1>14. SumFunctionOnSet(D(C), S) = SumFunctionOnSet(diff, S)
  BY <1>1, <1>12, SumSame
<1>15. SumFunction(diff) = 0
  BY <1>11, <1>13, <1>14 DEF G, SumFunction
<1> QED
  BY <1>15 DEF diff

\* However many teams there are and whatever has been played, the wins in the
\* standings are the winners recorded, match by match; a group's wins and its
\* losses are each as many as its completed matches, and its point differences
\* add up to nothing (standings.go:70, match_service.go:82).
THEOREM StandingsAreBalanced == Spec => []StandingsBalance
<1>1. Dealt /\ OnSchedule => StandingsBalance
  <2> SUFFICES ASSUME Dealt, OnSchedule, NEW g \in DOMAIN Groups
               PROVE  LET rows == standings[g]
                          completed == Completed(matches, g)
                      IN  /\ \A x \in rows : x.wins = Cardinality({i \in completed : matches[i].winner = x.team})
                          /\ SumFunction([x \in rows |-> x.wins]) = Cardinality(completed)
                          /\ SumFunction([x \in rows |-> x.losses]) = Cardinality(completed)
                          /\ SumFunction([x \in rows |-> x.pointDiff]) = 0
    BY DEF StandingsBalance
  <2> DEFINE C == Completed(matches, g)
             S == standings[g]
             members == {Groups[g][j] : j \in DOMAIN Groups[g]}
             wins == [x \in S |-> x.wins]
             losses == [x \in S |-> x.losses]
             winner == [i \in C |-> matches[i].winner]
             loser == [i \in C |-> Loser(matches[i])]
  <2>1. \A x \in S : x = Row(matches, g, x.team)
    BY RowsAre
  <2>2. \A i \in C : winner[i] \in members /\ loser[i] \in members
    BY CompletedAre DEF Loser
  <2>3. ASSUME NEW t PROVE /\ {i \in C : winner[i] = t} = {i \in C : matches[i].winner = t}
                           /\ {i \in C : loser[i] = t} = {i \in C : Loser(matches[i]) = t}
    OBVIOUS
  <2>4. ASSUME NEW x \in S
        PROVE  /\ x.wins = Cardinality({i \in C : matches[i].winner = x.team})
               /\ x.losses = Cardinality({i \in C : Loser(matches[i]) = x.team})
    <3> HIDE DEF C
    <3> QED
      BY <2>1, RowCounts DEF C
  <2>5. /\ \A x \in S : wins[x] = Cardinality({i \in C : winner[i] = x.team})
        /\ \A x \in S : losses[x] = Cardinality({i \in C : loser[i] = x.team})
    BY <2>3, <2>4
  <2>6. DOMAIN wins = S /\ DOMAIN losses = S
    OBVIOUS
  <2> HIDE DEF wins, losses, winner, loser
  <2>7. SumFunction(wins) = Cardinality(C)
    BY <2>2, <2>5, <2>6, OneOfEach
  <2>8. SumFunction(losses) = Cardinality(C)
    BY <2>2, <2>5, <2>6, OneOfEach
  <2>9. SumFunction([x \in S |-> x.pointDiff]) = 0
    BY PointsCancel
  <2> QED
    BY <2>4, <2>7, <2>8, <2>9 DEF wins, losses
<1> QED
  BY <1>1, AlwaysDealt, AlwaysOnSchedule, PTL
=============================================================================
