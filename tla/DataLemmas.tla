----------------------------- MODULE DataLemmas -----------------------------
(***************************************************************************)
(* What the proofs need to know about sums, orders and divisions.  The sums*)
(* of the specifications are the community modules' folds, which take what *)
(* they sum over in an arbitrary order: whatever is proved of them here is *)
(* proved by induction over the subsets of the finite set they run over.   *)
(* The provers take no operator for an induction's claim, so an induction  *)
(* is about the set Good of the numbers, or subsets, it holds of.          *)
(***************************************************************************)
EXTENDS Integers, Sequences, SequencesExt, FiniteSets, Functions, FiniteSetTheorems, TLAPS

(* Induction over the natural numbers, for a set of numbers.               *)
LEMMA NatSetInduction ==
  ASSUME NEW Good, 0 \in Good, \A n \in Nat : n \in Good => n + 1 \in Good
  PROVE  Nat \subseteq Good
<1> DEFINE T == {n \in Nat : n \notin Good}
<1>1. SUFFICES ASSUME T # {} PROVE FALSE
  OBVIOUS
<1>2. PICK n \in T : \A m \in T : <<m, n>> \notin OpToRel(<, Nat)
  BY <1>1, WFMin, NatLessThanWellFounded
<1>3. \A m \in T : ~(m < n)
  BY <1>2 DEF OpToRel
<1>4. n # 0 /\ n - 1 \in Nat /\ n - 1 \notin T
  BY <1>3
<1>5. QED
  BY <1>4

(* Induction over an interval of numbers.                                  *)
LEMMA IntervalInduction ==
  ASSUME NEW a \in Nat, NEW b \in Nat, NEW Good, a <= b => a \in Good,
         \A i \in (a + 1)..b : i - 1 \in Good => i \in Good
  PROVE  a..b \subseteq Good
<1> DEFINE Reached == {n \in Nat : n \in a..b => n \in Good}
<1>1. 0 \in Reached
  OBVIOUS
<1>2. ASSUME NEW n \in Nat, n \in Reached
      PROVE  n + 1 \in Reached
  <2>1. CASE n + 1 = a
    BY <2>1
  <2>2. CASE n + 1 # a
    BY <1>2, <2>2
  <2>3. QED
    BY <2>1, <2>2
<1>3. Nat \subseteq Reached
  <2> HIDE DEF Reached
  <2> QED
    BY <1>1, <1>2, NatSetInduction
<1>4. QED
  BY <1>3

(* Induction over the subsets of a finite set.                             *)
LEMMA SubsetInduction ==
  ASSUME NEW S, IsFiniteSet(S), NEW Good,
         \A U \in SUBSET S : (\A V \in SUBSET U : V # U => V \in Good) => U \in Good
  PROVE  SUBSET S \subseteq Good
<1> DEFINE T == {U \in SUBSET S : U \notin Good}
           R == StrictSubsetOrdering(S)
<1>1. SUFFICES ASSUME T # {} PROVE FALSE
  OBVIOUS
<1>0. IsWellFoundedOn(R, SUBSET S)
  BY FS_StrictSubsetOrderingWellFounded, FS_FiniteSubsetsOfFinite
<1>2. PICK U \in T : \A V \in T : <<V, U>> \notin R
  <2> HIDE DEF R
  <2>1. T \subseteq SUBSET S
    OBVIOUS
  <2> HIDE DEF T
  <2>2. QED
    BY <1>0, <1>1, <2>1, WFMin
<1>3. \A V \in SUBSET U : V # U => V \in Good
  BY <1>2 DEF StrictSubsetOrdering
<1>4. QED
  BY <1>3

-----------------------------------------------------------------------------
(* A sum is the last entry of a table of the sums over all subsets.        *)

\* The element a fold takes next.
Pick(s) == CHOOSE x \in s : TRUE

\* g is the table of the sums of f over the subsets of S.
IsSumTable(f, S, g) ==
  g = [s \in SUBSET S |-> IF s = {} THEN 0 ELSE f[Pick(s)] + g[s \ {Pick(s)}]]

(* The definition of the fold, in terms of tables.                         *)
LEMMA SumUnfolds ==
  ASSUME NEW f, NEW S
  PROVE  SumFunctionOnSet(f, S) = (CHOOSE g : IsSumTable(f, S, g))[S]
BY DEF SumFunctionOnSet, FoldFunctionOnSet, MapThenFoldSet, IsSumTable, Pick

(* There is at most one table.                                             *)
LEMMA TablesAgree ==
  ASSUME NEW S, IsFiniteSet(S), NEW f, NEW g, NEW h,
         IsSumTable(f, S, g), IsSumTable(f, S, h)
  PROVE  g = h
<1> DEFINE Good == {U \in SUBSET S : g[U] = h[U]}
<1>1. ASSUME NEW U \in SUBSET S, \A V \in SUBSET U : V # U => V \in Good
      PROVE  U \in Good
  <2>1. CASE U = {}
    BY <2>1 DEF IsSumTable
  <2>2. CASE U # {}
    <3>1. Pick(U) \in U
      BY <2>2 DEF Pick
    <3>2. g[U \ {Pick(U)}] = h[U \ {Pick(U)}]
      BY <3>1, <1>1
    <3>3. QED
      BY <2>2, <3>2 DEF IsSumTable
  <2>3. QED
    BY <2>1, <2>2
<1>2. SUBSET S \subseteq Good
  <2> HIDE DEF Good
  <2> QED
    BY <1>1, SubsetInduction
<1>3. QED
  BY <1>2 DEF IsSumTable

(* What a table says of the subsets of a subset is a table.                *)
LEMMA TableRestricted ==
  ASSUME NEW S, NEW f, NEW g, IsSumTable(f, S, g), NEW U \in SUBSET S
  PROVE  IsSumTable(f, U, [s \in SUBSET U |-> g[s]])
<1> DEFINE h == [s \in SUBSET U |-> g[s]]
<1>1. ASSUME NEW s \in SUBSET U
      PROVE  h[s] = IF s = {} THEN 0 ELSE f[Pick(s)] + h[s \ {Pick(s)}]
  BY DEF IsSumTable
<1>2. QED
  BY <1>1 DEF IsSumTable

(* There is a table for every finite set.                                  *)
LEMMA TableExists ==
  ASSUME NEW S, IsFiniteSet(S), NEW f
  PROVE  \E g : IsSumTable(f, S, g)
<1> DEFINE Good == {U \in SUBSET S : \E g : IsSumTable(f, U, g)}
           T(U) == CHOOSE g : IsSumTable(f, U, g)
<1>1. ASSUME NEW U \in SUBSET S, \A V \in SUBSET U : V # U => V \in Good
      PROVE  U \in Good
  <2> DEFINE Rest(s) == s \ {Pick(s)}
             G == [s \in SUBSET U |-> IF s = {} THEN 0
                                       ELSE f[Pick(s)] + T(Rest(s))[Rest(s)]]
  <2>1. ASSUME NEW s \in SUBSET U, s # {}
        PROVE  Rest(s) \in SUBSET U /\ Rest(s) # U /\ IsSumTable(f, Rest(s), T(Rest(s)))
    <3>1. Pick(s) \in s
      BY <2>1 DEF Pick
    <3>2. Rest(s) \in Good
      BY <3>1, <1>1
    <3>3. QED
      BY <3>1, <3>2
  <2>2. ASSUME NEW s \in SUBSET U, s # {}
        PROVE  T(Rest(s))[Rest(s)] = G[Rest(s)]
    <3> DEFINE r == Rest(s)
    <3>1. r \in SUBSET U /\ IsSumTable(f, r, T(r)) /\ IsFiniteSet(r)
      BY <2>1, <2>2, FS_Subset
    <3>2. CASE r = {}
      BY <3>1, <3>2 DEF IsSumTable
    <3>3. CASE r # {}
      <4>1. Rest(r) \in SUBSET r /\ IsSumTable(f, Rest(r), T(Rest(r)))
        BY <2>1, <3>1, <3>3
      <4>2. T(Rest(r)) = [u \in SUBSET Rest(r) |-> T(r)[u]]
        <5>1. IsSumTable(f, Rest(r), [u \in SUBSET Rest(r) |-> T(r)[u]])
          <6> HIDE DEF T, r, Rest
          <6> QED
            BY <3>1, <4>1, TableRestricted
        <5>2. IsFiniteSet(Rest(r))
          BY <3>1, <4>1, FS_Subset
        <5>3. QED
          BY <5>1, <5>2, <4>1, TablesAgree
      <4>3. T(r)[r] = f[Pick(r)] + T(r)[Rest(r)]
        BY <3>1, <3>3 DEF IsSumTable
      <4>4. QED
        BY <3>1, <3>3, <4>2, <4>3
    <3>4. QED
      BY <3>2, <3>3
  <2>3. ASSUME NEW s \in SUBSET U
        PROVE  G[s] = IF s = {} THEN 0 ELSE f[Pick(s)] + G[s \ {Pick(s)}]
    <3>1. CASE s = {}
      BY <3>1
    <3>2. CASE s # {}
      <4>1. G[s] = f[Pick(s)] + T(Rest(s))[Rest(s)]
        <5> HIDE DEF T, Rest
        <5> QED
          BY <3>2
      <4>2. G[s] = f[Pick(s)] + G[Rest(s)]
        <5> HIDE DEF T, Rest, G
        <5> QED
          BY <4>1, <3>2, <2>2
      <4>3. QED
        BY <4>2, <3>2
    <3>3. QED
      BY <3>1, <3>2
  <2>4. IsSumTable(f, U, G)
    <3>1. G = [s \in SUBSET U |-> G[s]]
      OBVIOUS
    <3>2. QED
      <4> HIDE DEF G, T, Rest
      <4> QED
        BY <3>1, <2>3 DEF IsSumTable
  <2>5. QED
    BY <2>4
<1>2. SUBSET S \subseteq Good
  <2> HIDE DEF Good
  <2> QED
    BY <1>1, SubsetInduction
<1>3. QED
  BY <1>2

-----------------------------------------------------------------------------
(* What a sum is, one element at a time.                                   *)

(* The sum over nothing.                                                   *)
LEMMA SumEmpty ==
  ASSUME NEW f
  PROVE  SumFunctionOnSet(f, {}) = 0
<1> DEFINE g == CHOOSE h : IsSumTable(f, {}, h)
<1>1. IsSumTable(f, {}, g)
  BY TableExists, FS_EmptySet
<1>2. g[{}] = 0
  <2> HIDE DEF g
  <2> QED
    BY <1>1 DEF IsSumTable
<1>3. QED
  BY <1>2, SumUnfolds

(* The sum over a set is the picked element and the sum over the others.   *)
LEMMA SumOfPicked ==
  ASSUME NEW S, IsFiniteSet(S), S # {}, NEW f
  PROVE  SumFunctionOnSet(f, S) = f[Pick(S)] + SumFunctionOnSet(f, S \ {Pick(S)})
<1> DEFINE g == CHOOSE h : IsSumTable(f, S, h)
           R == S \ {Pick(S)}
           k == CHOOSE h : IsSumTable(f, R, h)
<1>1. IsSumTable(f, S, g)
  BY TableExists
<1>2. IsFiniteSet(R) /\ IsSumTable(f, R, k)
  BY TableExists, FS_Subset
<1>3. k = [s \in SUBSET R |-> g[s]]
  <2> HIDE DEF g, k
  <2>1. IsSumTable(f, R, [s \in SUBSET R |-> g[s]])
    BY <1>1, TableRestricted, SMTT(20)
  <2>2. QED
    <3> HIDE DEF R
    <3> QED
      BY <2>1, <1>2, TablesAgree
<1>4. g[S] = f[Pick(S)] + g[R]
  <2> HIDE DEF g
  <2> QED
    BY <1>1 DEF IsSumTable
<1>5. g[R] = k[R]
  <2> HIDE DEF g, k, R
  <2> QED
    BY <1>3
<1>6. SumFunctionOnSet(f, S) = g[S] /\ SumFunctionOnSet(f, R) = k[R]
  BY SumUnfolds
<1>7. QED
  BY <1>4, <1>5, <1>6

(* The sum of integers is an integer.                                      *)
LEMMA SumIsInt ==
  ASSUME NEW S, IsFiniteSet(S), NEW f, \A s \in S : f[s] \in Int
  PROVE  SumFunctionOnSet(f, S) \in Int
<1> DEFINE Good == {U \in SUBSET S : SumFunctionOnSet(f, U) \in Int}
<1>1. ASSUME NEW U \in SUBSET S, \A V \in SUBSET U : V # U => V \in Good
      PROVE  U \in Good
  <2>1. CASE U = {}
    BY <2>1, SumEmpty
  <2>2. CASE U # {}
    <3>1. Pick(U) \in U /\ IsFiniteSet(U)
      BY <2>2, FS_Subset DEF Pick
    <3>2. SumFunctionOnSet(f, U \ {Pick(U)}) \in Int
      BY <3>1, <1>1
    <3>3. f[Pick(U)] \in Int
      BY <3>1
    <3>4. SumFunctionOnSet(f, U) = f[Pick(U)] + SumFunctionOnSet(f, U \ {Pick(U)})
      BY <2>2, <3>1, SumOfPicked
    <3>5. QED
      BY <3>2, <3>3, <3>4
  <2>3. QED
    BY <2>1, <2>2
<1>2. SUBSET S \subseteq Good
  <2> HIDE DEF Good
  <2> QED
    BY <1>1, SubsetInduction
<1>3. QED
  BY <1>2

(* Any element may be taken out first.                                     *)
LEMMA SumWithout ==
  ASSUME NEW S, IsFiniteSet(S), NEW f, \A s \in S : f[s] \in Int, NEW x \in S
  PROVE  SumFunctionOnSet(f, S) = f[x] + SumFunctionOnSet(f, S \ {x})
<1> DEFINE Sm(U) == SumFunctionOnSet(f, U)
           Good == {U \in SUBSET S : \A y \in U : Sm(U) = f[y] + Sm(U \ {y})}
<1>1. ASSUME NEW U \in SUBSET S, \A V \in SUBSET U : V # U => V \in Good
      PROVE  U \in Good
  <2> SUFFICES ASSUME NEW y \in U
               PROVE  Sm(U) = f[y] + Sm(U \ {y})
    OBVIOUS
  <2> DEFINE p == Pick(U)
  <2>1. p \in U /\ IsFiniteSet(U) /\ f[p] \in Int /\ f[y] \in Int
    BY FS_Subset DEF Pick
  <2>2. Sm(U) = f[p] + Sm(U \ {p})
    BY <2>1, SumOfPicked
  <2>3. CASE y = p
    BY <2>2, <2>3
  <2>4. CASE y # p
    <3> HIDE DEF p
    <3>1. U \ {p} \in Good /\ U \ {y} \in Good
      BY <2>1, <1>1
    <3>2. Sm(U \ {p}) = f[y] + Sm((U \ {p}) \ {y})
      BY <3>1, <2>4
    <3>3. Sm(U \ {y}) = f[p] + Sm((U \ {y}) \ {p})
      BY <3>1, <2>1, <2>4
    <3>4. (U \ {p}) \ {y} = (U \ {y}) \ {p}
      OBVIOUS
    <3>5. Sm((U \ {p}) \ {y}) \in Int
      <4>1. IsFiniteSet((U \ {p}) \ {y})
        BY <2>1, FS_Subset
      <4>2. QED
        BY <4>1, SumIsInt
    <3>6. Sm(U) = f[p] + (f[y] + Sm((U \ {p}) \ {y}))
      BY <2>2, <3>2
    <3>7. Sm(U \ {y}) = f[p] + Sm((U \ {p}) \ {y})
      BY <3>3, <3>4
    <3>8. \A a, b, c \in Int : a + (b + c) = b + (a + c)
      OBVIOUS
    <3>9. QED
      <4> HIDE DEF Sm
      <4> QED
        BY <2>1, <3>5, <3>6, <3>7, <3>8
  <2>5. QED
    BY <2>3, <2>4
<1>2. SUBSET S \subseteq Good
  <2> HIDE DEF Good
  <2> QED
    BY <1>1, SubsetInduction
<1>3. QED
  BY <1>2

(* The sum is monotone.                                                    *)
LEMMA SumMonotone ==
  ASSUME NEW S, IsFiniteSet(S), NEW f, NEW g,
         \A s \in S : f[s] \in Int /\ g[s] \in Int /\ f[s] <= g[s]
  PROVE  SumFunctionOnSet(f, S) <= SumFunctionOnSet(g, S)
<1> DEFINE Good == {U \in SUBSET S : SumFunctionOnSet(f, U) <= SumFunctionOnSet(g, U)}
<1>1. ASSUME NEW U \in SUBSET S, \A V \in SUBSET U : V # U => V \in Good
      PROVE  U \in Good
  <2>1. CASE U = {}
    BY <2>1, SumEmpty
  <2>2. CASE U # {}
    <3> DEFINE p == Pick(U)
    <3>1. p \in U /\ IsFiniteSet(U) /\ IsFiniteSet(U \ {p})
      BY <2>2, FS_Subset DEF Pick
    <3>2. SumFunctionOnSet(f, U \ {p}) <= SumFunctionOnSet(g, U \ {p})
      BY <3>1, <1>1
    <3>3. SumFunctionOnSet(f, U \ {p}) \in Int /\ SumFunctionOnSet(g, U \ {p}) \in Int
      BY <3>1, SumIsInt
    <3>4. /\ SumFunctionOnSet(f, U) = f[p] + SumFunctionOnSet(f, U \ {p})
          /\ SumFunctionOnSet(g, U) = g[p] + SumFunctionOnSet(g, U \ {p})
      BY <2>2, <3>1, SumOfPicked
    <3>5. f[p] \in Int /\ g[p] \in Int /\ f[p] <= g[p]
      BY <3>1
    <3>6. QED
      BY <3>2, <3>3, <3>4, <3>5
  <2>3. QED
    BY <2>1, <2>2
<1>2. SUBSET S \subseteq Good
  <2> HIDE DEF Good
  <2> QED
    BY <1>1, SubsetInduction
<1>3. QED
  BY <1>2

(* Functions that agree on the set have the same sum.                      *)
LEMMA SumSame ==
  ASSUME NEW S, IsFiniteSet(S), NEW f, NEW g,
         \A s \in S : f[s] \in Int /\ f[s] = g[s]
  PROVE  SumFunctionOnSet(f, S) = SumFunctionOnSet(g, S)
<1>1. SumFunctionOnSet(f, S) \in Int /\ SumFunctionOnSet(g, S) \in Int
  BY SumIsInt
<1>2. /\ SumFunctionOnSet(f, S) <= SumFunctionOnSet(g, S)
      /\ SumFunctionOnSet(g, S) <= SumFunctionOnSet(f, S)
  BY SumMonotone
<1>3. QED
  BY <1>1, <1>2

(* The sum of a constant is a product.                                     *)
LEMMA SumOfConstant ==
  ASSUME NEW S, IsFiniteSet(S), NEW f, NEW c \in Int, \A s \in S : f[s] = c
  PROVE  SumFunctionOnSet(f, S) = Cardinality(S) * c
<1> DEFINE Good == {U \in SUBSET S : SumFunctionOnSet(f, U) = Cardinality(U) * c}
<1>1. ASSUME NEW U \in SUBSET S, \A V \in SUBSET U : V # U => V \in Good
      PROVE  U \in Good
  <2>1. CASE U = {}
    BY <2>1, SumEmpty, FS_EmptySet
  <2>2. CASE U # {}
    <3> DEFINE p == Pick(U)
               n == Cardinality(U \ {p})
    <3>1. p \in U /\ IsFiniteSet(U) /\ IsFiniteSet(U \ {p})
      BY <2>2, FS_Subset DEF Pick
    <3>2. SumFunctionOnSet(f, U \ {p}) = n * c
      BY <3>1, <1>1
    <3>3. \A s \in U : f[s] \in Int
      OBVIOUS
    <3>4. SumFunctionOnSet(f, U) = f[p] + SumFunctionOnSet(f, U \ {p})
      BY <2>2, <3>1, <3>3, SumOfPicked
    <3>5. n \in Nat /\ Cardinality(U) = n + 1
      BY <3>1, FS_RemoveElement, FS_CardinalityType
    <3>6. f[p] = c
      BY <3>1
    <3> HIDE DEF n, p
    <3>7. (n + 1) * c = n * c + c /\ n * c \in Int
      BY <3>5
    <3>8. SumFunctionOnSet(f, U) = Cardinality(U) * c
      BY <3>2, <3>4, <3>5, <3>6, <3>7
    <3>9. QED
      BY <3>8
  <2>3. QED
    BY <2>1, <2>2
<1>2. SUBSET S \subseteq Good
  <2> HIDE DEF Good
  <2> QED
    BY <1>1, SubsetInduction
<1>3. QED
  BY <1>2

(* Bounds on every element, and their number, bound the sum.               *)
LEMMA SumBounded ==
  ASSUME NEW S, IsFiniteSet(S), NEW f, NEW c \in Int,
         \A s \in S : f[s] \in Int /\ f[s] <= c
  PROVE  SumFunctionOnSet(f, S) <= Cardinality(S) * c
<1> DEFINE g == [s \in S |-> c]
<1>1. SumFunctionOnSet(g, S) = Cardinality(S) * c
  BY SumOfConstant
<1>2. \A s \in S : f[s] \in Int /\ g[s] \in Int /\ f[s] <= g[s]
  OBVIOUS
<1> HIDE DEF g
<1>3. QED
  BY <1>1, <1>2, SumMonotone

(* The same from below.                                                    *)
LEMMA SumBoundedBelow ==
  ASSUME NEW S, IsFiniteSet(S), NEW f, NEW c \in Int,
         \A s \in S : f[s] \in Int /\ c <= f[s]
  PROVE  Cardinality(S) * c <= SumFunctionOnSet(f, S)
<1> DEFINE g == [s \in S |-> c]
<1>1. SumFunctionOnSet(g, S) = Cardinality(S) * c
  BY SumOfConstant
<1>2. \A s \in S : f[s] \in Int /\ g[s] \in Int /\ g[s] <= f[s]
  OBVIOUS
<1> HIDE DEF g
<1>3. QED
  BY <1>1, <1>2, SumMonotone

(* The sum of nothing but zeros.                                           *)
LEMMA SumOfZeros ==
  ASSUME NEW S, IsFiniteSet(S), NEW f, \A s \in S : f[s] = 0
  PROVE  SumFunctionOnSet(f, S) = 0
<1>1. Cardinality(S) \in Nat
  BY FS_CardinalityType
<1>2. SumFunctionOnSet(f, S) = Cardinality(S) * 0
  <2>1. ASSUME NEW c \in Int, c = 0
        PROVE  SumFunctionOnSet(f, S) = Cardinality(S) * c
    BY <2>1, SumOfConstant
  <2>2. QED
    BY <2>1
<1>3. QED
  BY <1>1, <1>2

(* What changing the function at one place does to the sum.                *)
LEMMA SumChanged ==
  ASSUME NEW S, IsFiniteSet(S), NEW f, NEW g, NEW x \in S,
         \A s \in S : f[s] \in Int /\ g[s] \in Int,
         \A s \in S \ {x} : f[s] = g[s]
  PROVE  SumFunctionOnSet(g, S) = SumFunctionOnSet(f, S) - f[x] + g[x]
<1>1. IsFiniteSet(S \ {x})
  BY FS_Subset
<1>2. SumFunctionOnSet(f, S \ {x}) = SumFunctionOnSet(g, S \ {x})
  BY <1>1, SumSame
<1>3. SumFunctionOnSet(f, S \ {x}) \in Int
  BY <1>1, SumIsInt
<1>4. /\ SumFunctionOnSet(f, S) = f[x] + SumFunctionOnSet(f, S \ {x})
      /\ SumFunctionOnSet(g, S) = g[x] + SumFunctionOnSet(g, S \ {x})
  BY SumWithout
<1>5. QED
  BY <1>2, <1>3, <1>4

(* Any table of the sums gives the sum.                                    *)
LEMMA TableGivesSum ==
  ASSUME NEW S, IsFiniteSet(S), NEW f, NEW g, IsSumTable(f, S, g)
  PROVE  g[S] = SumFunctionOnSet(f, S)
<1> DEFINE h == CHOOSE k : IsSumTable(f, S, k)
<1>1. IsSumTable(f, S, h)
  BY TableExists
<1>2. g = h
  <2> HIDE DEF h
  <2> QED
    BY <1>1, TablesAgree
<1>3. QED
  BY <1>2, SumUnfolds

-----------------------------------------------------------------------------
(* Sums of sequences of integers.                                          *)

(* The fold of a sequence is the sum over its places.                      *)
LEMMA SumOfSequence ==
  ASSUME NEW s \in Seq(Int)
  PROVE  /\ FoldFunction(+, 0, s) = SumFunctionOnSet(s, 1..Len(s))
         /\ FoldFunction(+, 0, s) \in Int
<1>1. FoldFunction(+, 0, s) = SumFunctionOnSet(s, DOMAIN s)
  BY DEF FoldFunction, SumFunctionOnSet
<1>2. DOMAIN s = 1..Len(s) /\ IsFiniteSet(1..Len(s)) /\ \A i \in 1..Len(s) : s[i] \in Int
  BY FS_Interval
<1>3. QED
  BY <1>1, <1>2, SumIsInt

(* The sum of a sequence with one more element in front.                   *)
LEMMA SumPrepended ==
  ASSUME NEW s \in Seq(Int), NEW v \in Int
  PROVE  FoldFunction(+, 0, <<v>> \o s) = v + FoldFunction(+, 0, s)
<1> DEFINE t == <<v>> \o s
           Good == {n \in Nat : n <= Len(s) =>
                      SumFunctionOnSet(t, 1..(n + 1)) = v + SumFunctionOnSet(s, 1..n)}
<1>1. /\ t \in Seq(Int) /\ Len(t) = Len(s) + 1 /\ t[1] = v
      /\ \A i \in 1..Len(s) : t[i + 1] = s[i] /\ s[i] \in Int
  OBVIOUS
<1>2. 0 \in Good
  <2>0. 1..(0 + 1) = {1} /\ 1..0 = {} /\ {1} \ {1} = {}
    OBVIOUS
  <2>1. 1..(0 + 1) = {1} /\ 1..0 = {} /\ {1} \ {1} = {} /\ IsFiniteSet({1})
    BY <2>0, FS_Singleton
  <2>2. SumFunctionOnSet(t, {1}) = t[1] + SumFunctionOnSet(t, {})
    <3> HIDE DEF t
    <3>1. \A i \in {1} : t[i] \in Int
      BY <1>1
    <3>2. SumFunctionOnSet(t, {1}) = t[1] + SumFunctionOnSet(t, {1} \ {1})
      BY <2>1, <3>1, SumWithout
    <3>3. QED
      BY <3>2, <2>1
  <2>3. QED
    <3> HIDE DEF t
    <3> QED
      BY <1>1, <2>1, <2>2, SumEmpty
<1>3. ASSUME NEW n \in Nat, n \in Good
      PROVE  n + 1 \in Good
  <2> SUFFICES ASSUME n + 1 <= Len(s)
               PROVE  SumFunctionOnSet(t, 1..(n + 2)) = v + SumFunctionOnSet(s, 1..(n + 1))
    OBVIOUS
  <2>1. SumFunctionOnSet(t, 1..(n + 1)) = v + SumFunctionOnSet(s, 1..n)
    BY <1>3
  <2> HIDE DEF t
  <2>0. IsFiniteSet(1..(n + 2)) /\ IsFiniteSet(1..(n + 1)) /\ IsFiniteSet(1..n)
    <3>1. n \in Int /\ n + 1 \in Int /\ n + 2 \in Int
      OBVIOUS
    <3>2. QED
      BY <3>1, FS_Interval
  <2>a. \A i \in 1..(n + 2) : t[i] \in Int
    BY <1>1
  <2>b. \A i \in 1..(n + 1) : s[i] \in Int
    OBVIOUS
  <2>c. (1..(n + 2)) \ {n + 2} = 1..(n + 1) /\ (1..(n + 1)) \ {n + 1} = 1..n
    OBVIOUS
  <2>2. /\ IsFiniteSet(1..(n + 2)) /\ IsFiniteSet(1..(n + 1)) /\ IsFiniteSet(1..n)
        /\ \A i \in 1..(n + 2) : t[i] \in Int
        /\ \A i \in 1..(n + 1) : s[i] \in Int
        /\ (1..(n + 2)) \ {n + 2} = 1..(n + 1)
        /\ (1..(n + 1)) \ {n + 1} = 1..n
    BY <2>0, <2>a, <2>b, <2>c
  <2>3. SumFunctionOnSet(t, 1..(n + 2)) = t[n + 2] + SumFunctionOnSet(t, 1..(n + 1))
    <3>1. n + 2 \in 1..(n + 2)
      OBVIOUS
    <3>2. SumFunctionOnSet(t, 1..(n + 2)) = t[n + 2] + SumFunctionOnSet(t, (1..(n + 2)) \ {n + 2})
      BY <2>2, <3>1, SumWithout, ZenonT(30)
    <3>3. QED
      BY <3>2, <2>2
  <2>4. SumFunctionOnSet(s, 1..(n + 1)) = s[n + 1] + SumFunctionOnSet(s, 1..n)
    <3>1. n + 1 \in 1..(n + 1)
      OBVIOUS
    <3>2. SumFunctionOnSet(s, 1..(n + 1)) = s[n + 1] + SumFunctionOnSet(s, (1..(n + 1)) \ {n + 1})
      BY <2>2, <3>1, SumWithout, SMTT(20)
    <3>3. QED
      BY <3>2, <2>2
  <2>5. t[n + 2] = s[n + 1] /\ s[n + 1] \in Int
    BY <1>1
  <2>6. SumFunctionOnSet(s, 1..n) \in Int
    <3>1. \A i \in 1..n : s[i] \in Int
      BY <2>2
    <3>2. QED
      BY <3>1, <2>2, SumIsInt
  <2>7. QED
    BY <2>1, <2>3, <2>4, <2>5, <2>6
<1>4. Len(s) \in Good
  <2>1. Nat \subseteq Good
    <3> HIDE DEF Good
    <3> QED
      BY <1>2, <1>3, NatSetInduction
  <2>2. QED
    BY <2>1
<1>5. QED
  <2> HIDE DEF t
  <2>1. Len(s) \in Nat /\ SumFunctionOnSet(t, 1..(Len(s) + 1)) = v + SumFunctionOnSet(s, 1..Len(s))
    BY <1>4
  <2>2. FoldFunction(+, 0, t) = SumFunctionOnSet(t, 1..Len(t))
    BY <1>1, SumOfSequence
  <2>3. FoldFunction(+, 0, s) = SumFunctionOnSet(s, 1..Len(s))
    BY SumOfSequence
  <2>4. FoldFunction(+, 0, t) = v + FoldFunction(+, 0, s)
    BY <2>1, <2>2, <2>3, <1>1
  <2>5. QED
    BY <2>4 DEF t

-----------------------------------------------------------------------------
(* Orders.                                                                 *)

(* SetToSeq lists every element of a finite set once.                      *)
LEMMA SetInOrder ==
  ASSUME NEW S, IsFiniteSet(S)
  PROVE  /\ SetToSeq(S) \in Seq(S)
         /\ Len(SetToSeq(S)) = Cardinality(S) /\ Cardinality(S) \in Nat
         /\ \A i, j \in 1..Len(SetToSeq(S)) : i # j => SetToSeq(S)[i] # SetToSeq(S)[j]
<1>1. ExistsBijection(1..Cardinality(S), S) /\ Cardinality(S) \in Nat
  BY FS_CardinalityType
<1>2. \E f \in [1..Cardinality(S) -> S] : IsInjective(f)
  BY <1>1 DEF ExistsBijection, Bijection, Injection, IsInjective
<1>3. SetToSeq(S) \in [1..Cardinality(S) -> S] /\ IsInjective(SetToSeq(S))
  BY <1>2 DEF SetToSeq
<1>4. SetToSeq(S) \in Seq(S) /\ Len(SetToSeq(S)) = Cardinality(S)
  BY <1>1, <1>3
<1>5. QED
  BY <1>1, <1>3, <1>4 DEF IsInjective

(* A finite set of integers that is not empty has a largest element.       *)
LEMMA LargestExists ==
  ASSUME NEW S, IsFiniteSet(S), S \subseteq Int, S # {}
  PROVE  \E n \in S : \A m \in S : m <= n
<1> DEFINE Good == {U \in SUBSET S : U # {} => \E n \in U : \A m \in U : m <= n}
<1>1. ASSUME NEW U \in SUBSET S, \A V \in SUBSET U : V # U => V \in Good
      PROVE  U \in Good
  <2> SUFFICES ASSUME U # {} PROVE \E n \in U : \A m \in U : m <= n
    OBVIOUS
  <2>1. PICK x \in U : TRUE
    OBVIOUS
  <2>2. CASE U \ {x} = {}
    BY <2>1, <2>2
  <2>3. CASE U \ {x} # {}
    <3>0. U \ {x} \in SUBSET U /\ U \ {x} # U
      BY <2>1
    <3>1. PICK n \in U \ {x} : \A m \in U \ {x} : m <= n
      <4>1. U \ {x} \in Good
        BY <3>0, <1>1
      <4>2. QED
        BY <2>3, <4>1
    <3>2. x \in Int /\ n \in Int
      BY <3>1
    <3>3. CASE x <= n
      <4>1. n \in U /\ \A m \in U : m <= n
        BY <3>1, <3>3
      <4>2. QED
        BY <4>1
    <3>4. CASE n <= x
      <4>1. \A m \in U \ {x} : m \in Int /\ m <= x
        BY <3>1, <3>2, <3>4
      <4>2. x \in U /\ \A m \in U : m <= x
        BY <2>1, <3>2, <4>1
      <4>3. QED
        BY <4>2
    <3>5. QED
      BY <3>2, <3>3, <3>4
  <2>4. QED
    BY <2>2, <2>3
<1>2. SUBSET S \subseteq Good
  <2> HIDE DEF Good
  <2> QED
    BY <1>1, SubsetInduction
<1>3. QED
  BY <1>2

(* And a smallest one.                                                     *)
LEMMA SmallestExists ==
  ASSUME NEW S, IsFiniteSet(S), S \subseteq Int, S # {}
  PROVE  \E n \in S : \A m \in S : n <= m
<1> DEFINE T == {-n : n \in S}
<1>1. IsFiniteSet(T) /\ T \subseteq Int /\ T # {}
  <2>1. [n \in S |-> -n] \in Surjection(S, T)
    BY DEF Surjection
  <2> HIDE DEF T
  <2>2. IsFiniteSet(T)
    BY <2>1, FS_Surjection
  <2>3. T \subseteq Int /\ T # {}
    <3>1. PICK n \in S : TRUE
      OBVIOUS
    <3>2. -n \in T /\ \A m \in S : -m \in Int
      BY DEF T
    <3>3. T \subseteq Int
      BY <3>2 DEF T
    <3>4. QED
      BY <3>2, <3>3
  <2>4. QED
    BY <2>2, <2>3
<1>2. PICK k \in T : \A m \in T : m <= k
  <2> HIDE DEF T
  <2> QED
    BY <1>1, LargestExists
<1>3. PICK n \in S : k = -n
  BY <1>2
<1>4. ASSUME NEW m \in S
      PROVE  n <= m
  <2>1. -m \in T
    OBVIOUS
  <2>2. -m <= k
    BY <1>2, <2>1
  <2>3. m \in Int /\ n \in Int
    OBVIOUS
  <2>4. QED
    BY <1>3, <2>2, <2>3
<1>5. QED
  BY <1>4

-----------------------------------------------------------------------------
(* Integer division.                                                       *)

(* The quotient is the largest number of divisors that fit.                *)
LEMMA DivisionBounds ==
  ASSUME NEW n \in Nat, NEW d \in Nat \ {0}
  PROVE  /\ n \div d \in Nat
         /\ (n \div d) * d <= n /\ n < ((n \div d) + 1) * d
<1>1. /\ n \div d \in Nat /\ n % d \in 0..(d - 1)
      /\ n = d * (n \div d) + (n % d)
  OBVIOUS
<1>2. QED
  BY <1>1

(* Division is monotone in the dividend and antitone in the divisor.       *)
LEMMA DivisionMonotone ==
  ASSUME NEW n \in Nat, NEW d \in Nat \ {0}, NEW m \in Nat, NEW e \in Nat \ {0},
         n <= m, e <= d
  PROVE  n \div d <= m \div e
<1> DEFINE p == n \div d
           q == m \div e
<1>1. p \in Nat /\ p * d <= n
  BY DivisionBounds
<1>2. q \in Nat /\ m < (q + 1) * e
  BY DivisionBounds
<1> HIDE DEF p, q
<1>3. SUFFICES ASSUME q + 1 <= p PROVE FALSE
  BY <1>1, <1>2 DEF p, q
<1>4. (q + 1) * e <= p * e
  BY <1>1, <1>2, <1>3
<1>5. p * e <= p * d
  BY <1>1
<1>6. (q + 1) * e \in Nat /\ p * e \in Nat /\ p * d \in Nat
  BY <1>1, <1>2
<1>7. QED
  BY <1>1, <1>2, <1>4, <1>5, <1>6
=============================================================================
