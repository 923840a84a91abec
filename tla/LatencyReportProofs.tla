------------------------- MODULE LatencyReportProofs -------------------------
(***************************************************************************)
(* Proofs about the figures of the microbenchmark: about LatencyReport for *)
(* every width of an int and every number of operations, and, at the end,  *)
(* about the formulas of ThroughputModel they are compared with.           *)
(***************************************************************************)
EXTENDS LatencyReport, ThroughputModel, FiniteSetTheorems, TLAPS

LEMMA HalfFacts == Half \in Nat \ {0} /\ Word = 2 * Half
  BY WordAssumption DEF Half

(* As long as two latencies differ by less than half the values of an int, *)
(* which is 2.1 s in the code, compare orders them as numbers: only beyond *)
(* does the truncation to int change its sign (main.c:309-312).            *)
THEOREM CompareOrders ==
  ASSUME NEW a \in Nat, NEW b \in Nat, a - b < Half, b - a < Half
  PROVE  /\ Compare(a, b) < 0 <=> a < b
         /\ Compare(a, b) = 0 <=> a = b
PROOF
<1>1. Half \in Nat \ {0} /\ Word = 2 * Half
  BY HalfFacts
<1>2. a - b + Half \in 0 .. Word - 1
  BY <1>1
<1>3. (a - b + Half) % Word = a - b + Half
  BY <1>1, <1>2
<1> QED BY <1>1, <1>3 DEF Compare, ToInt

(* A share below 1 of n entries leaves at least one of them out.           *)
LEMMA ShareBound ==
  ASSUME NEW n \in Nat \ {0}, NEW m \in Nat, NEW s \in Nat \ {0}, m < s
  PROVE  (n * m) \div s \in 0 .. n - 1
PROOF
<1> DEFINE a == n * m
           d == s - m
           q == a \div s
<1>1. d \in Nat \ {0} /\ s = m + d
  OBVIOUS
<1>2. a \in Nat /\ n * d \in Nat \ {0} /\ s * n = a + n * d
  BY <1>1
<1> HIDE DEF a, d
<1>3. q \in Nat /\ s * q <= a
  BY <1>2
<1> HIDE DEF q
<1>4. ASSUME q >= n PROVE FALSE
  <2>1. s * q >= s * n
    <3>1. PICK e \in Nat : q = n + e
      <4>1. q - n \in Nat /\ q = n + (q - n)
        BY <1>3, <1>4
      <4> QED BY <4>1
    <3>2. s * q = s * n + s * e /\ s * e \in Nat /\ s * n \in Nat
      BY <3>1
    <3> QED BY <3>2
  <2> QED BY <1>2, <1>3, <2>1
<1> QED BY <1>3, <1>4 DEF q, a

LEMMA QuantilesBelowOne ==
  /\ Scale \in Nat \ {0}
  /\ \A q \in DOMAIN Quantiles : Quantiles[q] \in Nat /\ Quantiles[q] < Scale
PROOF
<1>1. DOMAIN Quantiles = 1 .. 6
  BY SMT DEF Quantiles
<1>2. SUFFICES ASSUME NEW q \in 1 .. 6
               PROVE  Quantiles[q] \in Nat /\ Quantiles[q] < Scale
  BY <1>1, SMT DEF Scale
<1>3. q = 1 \/ q = 2 \/ q = 3 \/ q = 4 \/ q = 5 \/ q = 6
  BY SMT
<1> QED BY <1>3, SMT DEF Quantiles, Scale

(* The index of every percentile is inside an array of n entries.          *)
LEMMA IndexBound ==
  ASSUME NEW n \in Nat \ {0}, NEW q \in DOMAIN Quantiles
  PROVE  Index(n, Quantiles[q]) \in 0 .. n - 1
  BY QuantilesBelowOne, ShareBound DEF Index

Shape == \E n \in 1 .. MaxCount : DOMAIN lats = 0 .. n - 1

(* The report never reads outside op_latencies, for every number of        *)
(* operations of a run (main.c:349-355).                                   *)
THEOREM ReadsInside == Spec => []IndexInside
PROOF
<1>1. Init => Shape
  BY DEF Init, Shape
<1>2. Shape /\ [Next]_vars => Shape'
  <2>1. SUFFICES ASSUME Shape, [Next]_vars PROVE DOMAIN lats' = DOMAIN lats
    BY DEF Shape
  <2>2. CASE Sort
    BY <2>2 DEF Sort, Rearrangements
  <2>3. CASE PrintReport
    BY <2>3 DEF PrintReport
  <2>4. CASE UNCHANGED vars
    BY <2>4 DEF vars
  <2> QED BY <2>1, <2>2, <2>3, <2>4 DEF Next
<1>3. Shape => IndexInside
  <2>1. SUFFICES ASSUME Shape PROVE IndexInside
    OBVIOUS
  <2>2. PICK n \in 1 .. MaxCount : DOMAIN lats = 0 .. n - 1
    BY <2>1 DEF Shape
  <2>3. n \in Nat \ {0}
    BY <2>2, BoundsAssumption
  <2>4. Count = n
    <3>1. Cardinality(0 .. n - 1) = n
      BY <2>3, FS_Interval
    <3> QED BY <2>2, <3>1 DEF Count
  <2> QED BY <2>2, <2>3, <2>4, IndexBound DEF IndexInside
<1> QED BY <1>1, <1>2, <1>3, PTL DEF Spec

-----------------------------------------------------------------------------
(* A set of natural numbers has a least element.                           *)
LEMMA NatLeast ==
  ASSUME NEW T \in SUBSET Nat, T # {}
  PROVE  \E n \in T : \A m \in T : n <= m
PROOF
<1> DEFINE I == {0 .. n - 1 : n \in T}
<1>1. IsWellFoundedOn(StrictSubsetOrdering(Nat), FiniteSubsetsOf(Nat))
  BY FS_StrictSubsetOrderingWellFounded
<1>2. I \subseteq FiniteSubsetsOf(Nat) /\ I # {}
  <2>1. \A n \in Nat : IsFiniteSet(0 .. n - 1) /\ 0 .. n - 1 \in SUBSET Nat
    <3>1. SUFFICES ASSUME NEW n \in Nat PROVE IsFiniteSet(0 .. n - 1)
      OBVIOUS
    <3>2. 0 \in Int /\ n - 1 \in Int
      OBVIOUS
    <3> QED BY <3>2, FS_Interval
  <2> QED BY <2>1 DEF FiniteSubsetsOf
<1>3. PICK J \in I : \A K \in I : ~(<<K, J>> \in StrictSubsetOrdering(Nat))
  <2> HIDE DEF I
  <2> QED BY <1>1, <1>2, WFMin
<1>4. PICK n \in T : J = 0 .. n - 1
  OBVIOUS
<1>5. ASSUME NEW m \in T, m < n PROVE FALSE
  <2>1. m \in Nat /\ n \in Nat
    OBVIOUS
  <2>2. 0 .. m - 1 \in SUBSET Nat /\ J \in SUBSET Nat /\ 0 .. m - 1 \in I
    BY <1>4, <2>1
  <2>3. 0 .. m - 1 \subseteq J /\ m \in J /\ m \notin 0 .. m - 1
    BY <1>4, <1>5, <2>1
  <2> QED BY <1>3, <2>2, <2>3 DEF StrictSubsetOrdering
<1>6. \A m \in T : n <= m
  BY <1>5
<1> QED BY <1>6

(* Induction over the natural numbers, for a set of them.                  *)
LEMMA NatSetInduction ==
  ASSUME NEW T, 0 \in T, \A n \in Nat : n \in T => n + 1 \in T
  PROVE  \A n \in Nat : n \in T
PROOF
<1> SUFFICES ASSUME NEW k \in Nat, k \notin T PROVE FALSE
  OBVIOUS
<1> DEFINE U == Nat \ T
<1>1. PICK n \in U : \A m \in U : n <= m
  <2>1. U \in SUBSET Nat /\ U # {}
    OBVIOUS
  <2> HIDE DEF U
  <2> QED BY <2>1, NatLeast
<1>2. n # 0 /\ n - 1 \in Nat /\ n - 1 \notin U
  BY <1>1
<1>3. n - 1 + 1 \in T
  BY <1>2
<1> QED BY <1>3

(* FoldFunction, with its definitions expanded.                            *)
LEMMA FoldUnfolds ==
  ASSUME NEW f
  PROVE  FoldFunction(LAMBDA x, y : x + y, 0, f) =
    LET iter[s \in SUBSET DOMAIN f] == IF s = {} THEN 0 ELSE
              f[CHOOSE x \in s : TRUE] + iter[s \ {CHOOSE x \in s : TRUE}]
    IN iter[DOMAIN f]
  BY DEF FoldFunction, FoldFunctionOnSet, MapThenFoldSet


-----------------------------------------------------------------------------
(* A set without the element that CHOOSE takes from it.                    *)
LEMMA Removed ==
  ASSUME NEW D, IsFiniteSet(D), NEW U \in SUBSET D, U # {}
  PROVE  LET x == CHOOSE y \in U : TRUE
         IN  /\ x \in U /\ U \ {x} \in SUBSET D
             /\ Cardinality(U) \in Nat \ {0} /\ Cardinality(U \ {x}) = Cardinality(U) - 1
             /\ Cardinality(U \ {x}) \in Nat
PROOF
<1> DEFINE x == CHOOSE y \in U : TRUE
<1>1. x \in U
  OBVIOUS
<1> HIDE DEF x
<1>2. IsFiniteSet(U)
  BY FS_Subset
<1>3. IsFiniteSet(U \ {x}) /\ Cardinality(U \ {x}) = Cardinality(U) - 1
  BY <1>1, <1>2, FS_RemoveElement
<1>4. Cardinality(U) \in Nat /\ Cardinality(U) # 0 /\ Cardinality(U \ {x}) \in Nat
  BY <1>2, <1>3, FS_EmptySet, FS_CardinalityType
<1> QED BY <1>1, <1>3, <1>4 DEF x

(* h adds up f over each of the sets F, element by element.                *)
Adds(f, h, F) ==
  \A U \in F : h[U] = IF U = {} THEN 0
                      ELSE f[CHOOSE x \in U : TRUE] + h[U \ {CHOOSE x \in U : TRUE}]

Small(D, n) == {U \in SUBSET D : Cardinality(U) <= n}

(* Such a function exists: by induction over the size of the sets.         *)
LEMMA SumExists ==
  ASSUME NEW D, IsFiniteSet(D), NEW f \in [D -> Nat]
  PROVE  \E h \in [SUBSET D -> Nat] : Adds(f, h, SUBSET D)
PROOF
<1> DEFINE T == {n \in Nat : \E h \in [Small(D, n) -> Nat] : Adds(f, h, Small(D, n))}
<1>0. \A U \in SUBSET D : Cardinality(U) \in Nat /\ (Cardinality(U) = 0 <=> U = {}) /\ Cardinality(U) <= Cardinality(D)
  BY FS_Subset, FS_EmptySet, FS_CardinalityType
<1>1. 0 \in T
  <2> DEFINE h == [U \in Small(D, 0) |-> 0]
  <2>1. \A U \in Small(D, 0) : U = {}
    BY <1>0 DEF Small
  <2>2. h \in [Small(D, 0) -> Nat] /\ Adds(f, h, Small(D, 0))
    BY <2>1 DEF Adds
  <2> QED BY <2>2
<1>2. ASSUME NEW n \in Nat, n \in T PROVE n + 1 \in T
  <2>1. PICK h \in [Small(D, n) -> Nat] : Adds(f, h, Small(D, n))
    BY <1>2
  <2> DEFINE g == [U \in Small(D, n + 1) |->
                     IF U = {} THEN 0
                     ELSE f[CHOOSE x \in U : TRUE] + h[U \ {CHOOSE x \in U : TRUE}]]
  <2>2. ASSUME NEW U \in Small(D, n + 1), U # {}
        PROVE  /\ f[CHOOSE x \in U : TRUE] \in Nat
               /\ U \ {CHOOSE x \in U : TRUE} \in Small(D, n)
    <3>1. U \in SUBSET D /\ Cardinality(U) <= n + 1
      BY DEF Small
    <3>2. /\ (CHOOSE y \in U : TRUE) \in U /\ U \ {CHOOSE y \in U : TRUE} \in SUBSET D
          /\ Cardinality(U) \in Nat \ {0} /\ Cardinality(U \ {CHOOSE y \in U : TRUE}) = Cardinality(U) - 1
      BY <2>2, <3>1, Removed
    <3> DEFINE x == CHOOSE y \in U : TRUE
    <3> HIDE DEF x
    <3>3. x \in D /\ f[x] \in Nat
      BY <3>1, <3>2 DEF x
    <3>4. Cardinality(U \ {x}) <= n
      BY <3>1, <3>2 DEF x
    <3> QED BY <3>2, <3>3, <3>4 DEF Small, x
  <2>3. g \in [Small(D, n + 1) -> Nat]
    BY <2>2
  <2>4. \A U \in Small(D, n) : U \in Small(D, n + 1) /\ g[U] = h[U]
    BY <2>1, <1>0 DEF Small, Adds
  <2>5. Adds(f, g, Small(D, n + 1))
    <3>1. SUFFICES ASSUME NEW U \in Small(D, n + 1)
                   PROVE  g[U] = IF U = {} THEN 0
                      ELSE f[CHOOSE x \in U : TRUE] + g[U \ {CHOOSE x \in U : TRUE}]
      BY DEF Adds
    <3>2. CASE U = {}
      BY <3>2
    <3>3. CASE U # {}
      <4> DEFINE W == U \ {CHOOSE x \in U : TRUE}
      <4>1. g[W] = h[W]
        BY <2>2, <2>4, <3>3
      <4>2. g[U] = f[CHOOSE x \in U : TRUE] + h[W]
        BY <3>3
      <4> HIDE DEF g
      <4> QED BY <3>3, <4>1, <4>2
    <3> QED BY <3>2, <3>3
  <2> HIDE DEF g
  <2> QED BY <2>3, <2>5
<1>3. Cardinality(D) \in T
  <2> HIDE DEF T
  <2> QED BY <1>1, <1>2, NatSetInduction, <1>0
<1>4. Small(D, Cardinality(D)) = SUBSET D
  BY <1>0 DEF Small
<1> QED BY <1>3, <1>4

(* The fold that adds the entries of an array is what it should be.        *)
LEMMA SumUnfolds ==
  ASSUME NEW D, IsFiniteSet(D), NEW f \in [D -> Nat]
  PROVE  \E h :
           Adds(f, h, SUBSET D) /\ FoldFunction(LAMBDA x, y : x + y, 0, f) = h[D]
PROOF
<1> DEFINE E(h) == h = [s \in SUBSET D |->
                          IF s = {} THEN 0
                          ELSE f[CHOOSE x \in s : TRUE] + h[s \ {CHOOSE x \in s : TRUE}]]
           iter == CHOOSE h : E(h)
<1>1. PICK h \in [SUBSET D -> Nat] : Adds(f, h, SUBSET D)
  BY SumExists
<1>2. E(h)
  BY <1>1 DEF Adds
<1>3. E(iter)
  BY <1>2
<1>4. FoldFunction(LAMBDA x, y : x + y, 0, f) = iter[D]
  BY FoldUnfolds
<1>5. DOMAIN iter = SUBSET D
  BY <1>3
<1>6. Adds(f, iter, SUBSET D)
  BY <1>3 DEF Adds
<1> HIDE DEF iter
<1> QED BY <1>4, <1>6

(* A sum is no less than a lower bound of some of its terms times their    *)
(* number.                                                                 *)
LEMMA SumBound ==
  ASSUME NEW D, IsFiniteSet(D), NEW f \in [D -> Nat], NEW A \in SUBSET D, NEW v \in Nat,
         \A k \in A : f[k] >= v
  PROVE  FoldFunction(LAMBDA x, y : x + y, 0, f) >= Cardinality(A) * v
PROOF
<1>1. PICK h : Adds(f, h, SUBSET D) /\ FoldFunction(LAMBDA x, y : x + y, 0, f) = h[D]
  BY SumUnfolds
<1>2. \A U \in SUBSET D : /\ IsFiniteSet(U \cap A)
                          /\ Cardinality(U) \in Nat /\ Cardinality(U \cap A) \in Nat
                          /\ Cardinality(U) = 0 <=> U = {}
  BY FS_Subset, FS_EmptySet, FS_CardinalityType
<1> DEFINE Good(U) == h[U] \in Nat /\ h[U] >= Cardinality(U \cap A) * v
           T == {n \in Nat : \A U \in SUBSET D : Cardinality(U) = n => Good(U)}
<1>3. 0 \in T
  <2>1. \A U \in SUBSET D : Cardinality(U) = 0 => U = {}
    BY <1>2
  <2>2. Good({})
    <3>1. h[{}] = 0
      BY <1>1 DEF Adds
    <3>2. Cardinality({} \cap A) = 0
      <4>1. {} \cap A = {}
        OBVIOUS
      <4> QED BY <4>1, FS_EmptySet
    <3>3. 0 * v = 0
      OBVIOUS
    <3> QED BY <3>1, <3>2, <3>3
  <2> QED BY <2>1, <2>2
<1>4. ASSUME NEW n \in Nat, n \in T PROVE n + 1 \in T
  <2>1. SUFFICES ASSUME NEW U \in SUBSET D, Cardinality(U) = n + 1 PROVE Good(U)
    <3> HIDE DEF Good
    <3> QED OBVIOUS
  <2> DEFINE x == CHOOSE y \in U : TRUE
             W == U \ {x}
  <2>2. U # {}
    BY <1>2, <2>1
  <2>3. x \in U /\ W \in SUBSET D /\ Cardinality(W) = n
    BY <2>1, <2>2, Removed
  <2>4. h[U] = f[x] + h[W]
    BY <1>1, <2>2 DEF Adds
  <2> HIDE DEF x
  <2>5. Good(W)
    <3> HIDE DEF Good
    <3> QED BY <1>4, <2>3
  <2>6. f[x] \in Nat
    BY <2>3
  <2>7. CASE x \in A
    <3>1. W \cap A = (U \cap A) \ {x} /\ x \in U \cap A
      BY <2>3, <2>7
    <3>2. Cardinality(W \cap A) = Cardinality(U \cap A) - 1
      <4> DEFINE V == U \cap A
      <4>1. IsFiniteSet(V) /\ x \in V
        BY <1>2, <3>1
      <4> HIDE DEF V
      <4>2. Cardinality(V \ {x}) = Cardinality(V) - 1
        BY <4>1, FS_RemoveElement
      <4> QED BY <3>1, <4>2 DEF V
    <3>3. f[x] >= v
      BY <2>7
    <3> DEFINE c == Cardinality(U \cap A)
    <3>4. c \in Nat /\ c * v = (c - 1) * v + v /\ c * v \in Nat /\ (c - 1) * v \in Int
      <4>1. c \in Nat
        BY <1>2
      <4> HIDE DEF c
      <4> QED BY <4>1
    <3>5. h[W] >= (c - 1) * v /\ h[W] \in Nat
      BY <2>5, <3>2
    <3>6. h[U] \in Nat /\ h[U] >= c * v
      <4> DEFINE a == c * v
                 b == (c - 1) * v
      <4>1. a = b + v /\ a \in Nat /\ b \in Int /\ h[W] >= b
        BY <3>4, <3>5
      <4> HIDE DEF a, b, W
      <4>2. h[U] \in Nat /\ h[U] >= a
        BY <4>1, <2>4, <2>6, <3>3, <3>5
      <4> QED BY <4>2 DEF a
    <3> QED BY <3>6
  <2>8. CASE x \notin A
    <3>1. W \cap A = U \cap A
      BY <2>3, <2>8
    <3> DEFINE a == Cardinality(U \cap A) * v
    <3>2. h[W] \in Nat /\ h[W] >= a
      BY <2>5, <3>1
    <3>3. a \in Nat
      <4> DEFINE c == Cardinality(U \cap A)
      <4>1. c \in Nat
        BY <1>2
      <4> HIDE DEF c
      <4>2. c * v \in Nat
        BY <4>1
      <4> QED BY <4>2 DEF c
    <3> HIDE DEF a, W
    <3>4. h[U] \in Nat /\ h[U] >= a
      BY <3>2, <3>3, <2>4, <2>6
    <3> QED BY <3>4 DEF a
  <2> QED BY <2>7, <2>8
<1>5. Cardinality(D) \in T
  <2> HIDE DEF T
  <2> QED BY <1>3, <1>4, NatSetInduction, <1>2
<1>6. D \cap A = A
  OBVIOUS
<1> QED BY <1>1, <1>5, <1>6

(* The same, whichever element is taken first.                             *)
AddsAnyhow(f, h, F) == \A U \in F : \A y \in U : h[U] = f[y] + h[U \ {y}]

LEMMA AnyFirst ==
  ASSUME NEW D, IsFiniteSet(D), NEW f \in [D -> Nat]
  PROVE  \E h : /\ Adds(f, h, SUBSET D) /\ SumOf(f) = h[D]
                /\ AddsAnyhow(f, h, SUBSET D)
PROOF
<1>a. PICK h : Adds(f, h, SUBSET D) /\ SumOf(f) = h[D]
  BY SumUnfolds DEF SumOf
<1> DEFINE Good(U) == h[U] \in Nat /\ \A y \in U : h[U] = f[y] + h[U \ {y}]
           T == {n \in Nat : \A U \in SUBSET D : Cardinality(U) <= n => Good(U)}
<1>0. \A U \in SUBSET D : /\ IsFiniteSet(U) /\ Cardinality(U) \in Nat
                          /\ Cardinality(U) = 0 <=> U = {}
                          /\ Cardinality(U) <= Cardinality(D)
  BY FS_Subset, FS_EmptySet, FS_CardinalityType
<1>1. 0 \in T
  <2>1. \A U \in SUBSET D : Cardinality(U) <= 0 => U = {}
    BY <1>0
  <2>2. Good({})
    BY <1>a DEF Adds
  <2> QED BY <2>1, <2>2
<1>2. ASSUME NEW n \in Nat, n \in T PROVE n + 1 \in T
  <2>1. SUFFICES ASSUME NEW U \in SUBSET D, Cardinality(U) = n + 1 PROVE Good(U)
    <3>1. \A U \in SUBSET D : Cardinality(U) <= n + 1 =>
            Cardinality(U) <= n \/ Cardinality(U) = n + 1
      BY <1>0
    <3> HIDE DEF Good
    <3> QED BY <1>2, <3>1
  <2> DEFINE x == CHOOSE y \in U : TRUE
             W == U \ {x}
  <2>2. U # {}
    BY <1>0, <2>1
  <2>3. x \in U /\ W \in SUBSET D /\ Cardinality(W) = n
    BY <2>1, <2>2, Removed
  <2>4. h[U] = f[x] + h[W]
    BY <1>a, <2>2 DEF Adds
  <2> HIDE DEF x
  <2>5. Good(W)
    <3> HIDE DEF Good
    <3> QED BY <1>2, <2>3
  <2>6. f[x] \in Nat
    BY <2>3
  <2>7. ASSUME NEW y \in U, y # x PROVE h[U] = f[y] + h[U \ {y}]
    <3> DEFINE V == U \ {y}
               R == W \ {y}
    <3>1. y \in W /\ x \in V /\ V \ {x} = R /\ V \in SUBSET D /\ R \in SUBSET D
      BY <2>3, <2>7
    <3>2. Cardinality(V) <= n /\ Cardinality(R) <= n
      <4>1. Cardinality(V) = n
        <5>1. IsFiniteSet(U) /\ y \in U
          BY <1>0
        <5>2. Cardinality(U \ {y}) = Cardinality(U) - 1
          BY <5>1, FS_RemoveElement
        <5> QED BY <2>1, <5>2
      <4>2. Cardinality(R) <= Cardinality(W)
        BY <1>0, <2>3, FS_Subset
      <4> QED BY <2>3, <4>1, <4>2
    <3> HIDE DEF V, R
    <3>3. Good(V) /\ Good(R)
      <4> HIDE DEF Good
      <4> QED BY <1>2, <3>1, <3>2
    <3>4. h[W] = f[y] + h[R]
      BY <2>5, <3>1 DEF R
    <3>5. h[V] = f[x] + h[R]
      BY <3>1, <3>3
    <3>6. h[R] \in Nat /\ f[y] \in Nat
      BY <3>3
    <3>7. h[U] = f[y] + h[V]
      <4> HIDE DEF Good, W
      <4> QED BY <2>4, <2>6, <3>4, <3>5, <3>6
    <3> QED BY <3>7 DEF V
  <2>8. h[U] \in Nat
    BY <2>4, <2>5, <2>6
  <2> QED BY <2>4, <2>7, <2>8
<1>3. Cardinality(D) \in T
  <2> HIDE DEF T
  <2> QED BY <1>0, <1>1, <1>2, NatSetInduction
<1>4. \A U \in SUBSET D : Good(U)
  BY <1>0, <1>3
<1>5. AddsAnyhow(f, h, SUBSET D)
  BY <1>4 DEF AddsAnyhow
<1> QED BY <1>a, <1>5

(* A rearrangement of an array has the sum of the array.                   *)
LEMMA SumPermuted ==
  ASSUME NEW D, IsFiniteSet(D), NEW f \in [D -> Nat], NEW p \in [D -> D],
         \A j, k \in D : p[j] = p[k] => j = k
  PROVE  SumOf([k \in D |-> f[p[k]]]) = SumOf(f)
PROOF
<1>1. PICK h : /\ Adds(f, h, SUBSET D) /\ SumOf(f) = h[D]
               /\ AddsAnyhow(f, h, SUBSET D)
  BY AnyFirst
<1> DEFINE g == [k \in D |-> f[p[k]]]
           Places(U) == {p[k] : k \in U}
<1>0. \A U \in SUBSET D : Cardinality(U) \in Nat /\ (Cardinality(U) = 0 <=> U = {})
  BY FS_Subset, FS_EmptySet, FS_CardinalityType
<1>2. PICK e : Adds(g, e, SUBSET D) /\ SumOf(g) = e[D]
  <2>1. g \in [D -> Nat]
    OBVIOUS
  <2> HIDE DEF g
  <2> QED BY <2>1, SumUnfolds DEF SumOf
<1> DEFINE T == {n \in Nat : \A U \in SUBSET D : Cardinality(U) = n => e[U] = h[Places(U)]}
<1>3. 0 \in T
  <2>1. e[{}] = 0 /\ h[{}] = 0
    BY <1>1, <1>2 DEF Adds
  <2>2. Places({}) = {}
    OBVIOUS
  <2> HIDE DEF Places
  <2> QED BY <1>0, <2>1, <2>2
<1>4. ASSUME NEW n \in Nat, n \in T PROVE n + 1 \in T
  <2>1. SUFFICES ASSUME NEW U \in SUBSET D, Cardinality(U) = n + 1
                 PROVE  e[U] = h[Places(U)]
    <3> HIDE DEF Places
    <3> QED OBVIOUS
  <2> DEFINE x == CHOOSE y \in U : TRUE
             W == U \ {x}
  <2>2. U # {}
    BY <1>0, <2>1
  <2>3. x \in U /\ x \in D /\ W \in SUBSET D /\ Cardinality(W) = n
    BY <2>1, <2>2, Removed
  <2>4. e[U] = g[x] + e[W]
    BY <1>2, <2>2 DEF Adds
  <2> HIDE DEF x
  <2>5. e[W] = h[Places(W)]
    <3> HIDE DEF Places
    <3> QED BY <1>4, <2>3
  <2>6. /\ Places(U) \in SUBSET D /\ p[x] \in Places(U)
        /\ Places(W) = Places(U) \ {p[x]}
    BY <2>3
  <2>7. h[Places(U)] = f[p[x]] + h[Places(U) \ {p[x]}]
    <3> HIDE DEF Places
    <3> QED BY <1>1, <2>6 DEF AddsAnyhow
  <2>8. g[x] = f[p[x]]
    BY <2>3
  <2> HIDE DEF g, W, Places
  <2> QED BY <2>4, <2>5, <2>6, <2>7, <2>8
<1>5. e[D] = h[Places(D)]
  <2>1. Cardinality(D) \in T
    <3> HIDE DEF T
    <3> QED BY <1>0, <1>3, <1>4, NatSetInduction
  <2> HIDE DEF Places
  <2> QED BY <2>1
<1>6. Places(D) = D
  <2>1. p \in Injection(D, D)
    BY DEF Injection, IsInjective
  <2>2. p \in Surjection(D, D)
    BY <2>1, FS_Injection
  <2> QED BY <2>2 DEF Surjection
<1> QED BY <1>1, <1>2, <1>5, <1>6

-----------------------------------------------------------------------------
(* There are n latencies.                                                  *)
Size(n) ==
  /\ n \in 1 .. MaxCount /\ DOMAIN lats = 0 .. n - 1
  /\ measured \in [0 .. n - 1 -> 0 .. MaxLatency]

(* op_latencies is what was measured, in the order f.                      *)
Permuted(f, n) ==
  /\ f \in [0 .. n - 1 -> 0 .. n - 1]
  /\ \A j, k \in 0 .. n - 1 : f[j] = f[k] => j = k
  /\ lats = [k \in 0 .. n - 1 |-> measured[f[k]]]

Ascending(a) == \A j, k \in DOMAIN a : j <= k => a[j] <= a[k]

Percentiles == [q \in DOMAIN Quantiles |-> lats[Index(Count, Quantiles[q])]]

(* The array is the measured one rearranged; once it is sorted it ascends  *)
(* if compare is an order on it, and the report has been made from it.     *)
ReportInv ==
  /\ \E n \in 1 .. MaxCount : Size(n) /\ \E f : Permuted(f, n)
  /\ pc \in {"measured", "sorted", "printed"}
  /\ pc = "measured" => lats = measured
  /\ pc # "measured" /\ Comparable => Ascending(lats)
  /\ pc = "printed" => report = [percentiles |-> Percentiles, sum |-> SumOf(lats)]

(* Neighbours in order for compare make an ascending array.                *)
LEMMA Monotone ==
  ASSUME NEW n \in Nat, NEW a \in [0 .. n - 1 -> 0 .. MaxLatency], Sorted(a),
         \A j, k \in 0 .. n - 1 : a[j] - a[k] < Half
  PROVE  Ascending(a)
PROOF
<1>0. \A k \in 0 .. n - 1 : a[k] \in Nat /\ a[k] <= MaxLatency /\ k \in Nat /\ DOMAIN a = 0 .. n - 1
  BY BoundsAssumption
<1>1. ASSUME NEW k \in 0 .. n - 1, k + 1 \in 0 .. n - 1 PROVE a[k] <= a[k + 1]
  <2>1. Compare(a[k], a[k + 1]) <= 0
    BY <1>0, <1>1 DEF Sorted
  <2>2. a[k] \in Nat /\ a[k + 1] \in Nat /\ a[k] - a[k + 1] < Half /\ a[k + 1] - a[k] < Half
    <3>1. a[k] \in 0 .. MaxLatency /\ a[k + 1] \in 0 .. MaxLatency
      BY <1>1
    <3>2. a[k] - a[k + 1] < Half /\ a[k + 1] - a[k] < Half
      BY <1>1
    <3> QED BY <3>1, <3>2, BoundsAssumption
  <2>3. /\ Compare(a[k], a[k + 1]) < 0 <=> a[k] < a[k + 1]
        /\ Compare(a[k], a[k + 1]) = 0 <=> a[k] = a[k + 1]
    BY <2>2, CompareOrders
  <2>4. Compare(a[k], a[k + 1]) \in Int
    <3>1. (a[k] - a[k + 1]) \in Int /\ Half \in Nat /\ Word \in Nat \ {0}
      BY <2>2, HalfFacts
    <3>2. \A x \in Int : ((x + Half) % Word) - Half \in Int
      BY <3>1
    <3> QED BY <3>1, <3>2 DEF Compare, ToInt
  <2> QED BY <2>1, <2>2, <2>3, <2>4
<1> DEFINE T == {d \in Nat : \A j \in 0 .. n - 1 : j + d <= n - 1 => a[j] <= a[j + d]}
<1>2. 0 \in T
  BY <1>0
<1>3. ASSUME NEW d \in Nat, d \in T PROVE d + 1 \in T
  <2>1. SUFFICES ASSUME NEW j \in 0 .. n - 1, j + (d + 1) <= n - 1 PROVE a[j] <= a[j + (d + 1)]
    OBVIOUS
  <2>2. j + d \in 0 .. n - 1 /\ (j + d) + 1 \in 0 .. n - 1 /\ j + (d + 1) = (j + d) + 1 /\ j + d <= n - 1
    BY <2>1
  <2>3. a[j] <= a[j + d]
    BY <1>3, <2>2
  <2>4. a[j + d] <= a[(j + d) + 1]
    BY <1>1, <2>2
  <2> QED BY <1>0, <2>2, <2>3, <2>4
<1>4. \A d \in Nat : d \in T
  <2> HIDE DEF T
  <2> QED BY <1>2, <1>3, NatSetInduction
<1>5. ASSUME NEW j \in 0 .. n - 1, NEW k \in 0 .. n - 1, j <= k PROVE a[j] <= a[k]
  <2>1. k - j \in Nat /\ k = j + (k - j) /\ j + (k - j) <= n - 1
    BY <1>5
  <2> QED BY <1>4, <2>1
<1> QED BY <1>0, <1>5 DEF Ascending

(* ReportInv is inductive.                                                 *)
LEMMA ReportInvariant == Spec => []ReportInv
PROOF
<1>1. ASSUME Init PROVE ReportInv
  <2>1. PICK n \in 1 .. MaxCount : measured \in [0 .. n - 1 -> 0 .. MaxLatency]
    BY <1>1 DEF Init
  <2> DEFINE f == [k \in 0 .. n - 1 |-> k]
  <2>2. Size(n) /\ Permuted(f, n)
    BY <1>1, <2>1 DEF Init, Size, Permuted
  <2> HIDE DEF f
  <2>3. \E m \in 1 .. MaxCount : Size(m) /\ \E g : Permuted(g, m)
    BY <2>2
  <2> QED BY <1>1, <2>3 DEF Init, ReportInv
<1>2. ASSUME ReportInv, [Next]_vars PROVE ReportInv'
  <2>1. PICK n \in 1 .. MaxCount : Size(n) /\ \E f : Permuted(f, n)
    BY <1>2 DEF ReportInv
  <2>2. PICK f : Permuted(f, n)
    BY <2>1
  <2>3. CASE Sort
    <3>1. PICK a \in Rearrangements(lats) : Sorted(a) /\ lats' = a
      BY <2>3 DEF Sort
    <3>2. PICK g \in [0 .. n - 1 -> 0 .. n - 1] :
            /\ \A j, k \in 0 .. n - 1 : g[j] = g[k] => j = k
            /\ a = [k \in 0 .. n - 1 |-> lats[g[k]]]
      BY <2>1 DEF Rearrangements, Size
    <3>3. lats = measured /\ UNCHANGED measured
      BY <1>2, <2>3 DEF Sort, ReportInv
    <3>4. Size(n)' /\ Permuted(g, n)'
      BY <2>1, <3>1, <3>2, <3>3 DEF Size, Permuted
    <3>5. a \in [0 .. n - 1 -> 0 .. MaxLatency]
      BY <2>1, <3>2, <3>3 DEF Size
    <3>6. Comparable' => Ascending(lats)'
      <4>1. SUFFICES ASSUME Comparable' PROVE Ascending(lats)'
        OBVIOUS
      <4>2. \A j, k \in 0 .. n - 1 : measured[j] - measured[k] < Half
        BY <2>1, <3>3, <4>1 DEF Comparable, Size
      <4>3. \A j, k \in 0 .. n - 1 : a[j] - a[k] < Half
        BY <3>2, <3>3, <4>2
      <4>4. n \in Nat
        BY BoundsAssumption
      <4>5. Ascending(a)
        BY <3>1, <3>5, <4>3, <4>4, Monotone
      <4> QED BY <3>1, <4>5 DEF Ascending
    <3> QED BY <2>3, <3>4, <3>6 DEF Sort, ReportInv
  <2>4. CASE PrintReport
    <3>1. UNCHANGED <<measured, lats>> /\ pc = "sorted" /\ pc' = "printed"
      BY <2>4 DEF PrintReport
    <3>2. Size(n)' /\ Permuted(f, n)' /\ (Comparable' => Ascending(lats)')
      <4>1. Size(n)'
        BY <2>1, <3>1 DEF Size
      <4>2. Permuted(f, n)'
        BY <2>2, <3>1 DEF Permuted
      <4>3. Comparable' => Ascending(lats)'
        BY <1>2, <3>1 DEF Ascending, Comparable, ReportInv
      <4> QED BY <4>1, <4>2, <4>3
    <3>3. report' = [percentiles |-> Percentiles, sum |-> SumOf(lats)]
      BY <2>4, Zenon DEF PrintReport, Percentiles, SumOf
    <3>4. UNCHANGED <<Percentiles, SumOf(lats)>>
      <4>1. lats' = lats
        BY <3>1
      <4>2. Percentiles' = Percentiles
        BY <4>1 DEF Percentiles, Count
      <4>3. SumOf(lats)' = SumOf(lats)
        BY <4>1
      <4> QED BY <4>2, <4>3
    <3> QED BY <3>1, <3>2, <3>3, <3>4 DEF ReportInv
  <2>5. CASE UNCHANGED vars
    <3>1. UNCHANGED <<pc, measured, lats, report>>
      BY <2>5 DEF vars
    <3>2. /\ Size(n)' /\ Permuted(f, n)'
          /\ (Ascending(lats) => Ascending(lats)') /\ (Comparable' => Comparable)
      <4>1. Size(n)'
        BY <2>1, <3>1 DEF Size
      <4>2. Permuted(f, n)'
        BY <2>2, <3>1 DEF Permuted
      <4>3. (Ascending(lats) => Ascending(lats)') /\ (Comparable' => Comparable)
        BY <3>1 DEF Ascending, Comparable
      <4> QED BY <4>1, <4>2, <4>3
    <3>3. UNCHANGED <<Percentiles, SumOf(lats)>>
      <4>1. lats' = lats
        BY <3>1
      <4>2. Percentiles' = Percentiles
        BY <4>1 DEF Percentiles, Count
      <4>3. SumOf(lats)' = SumOf(lats)
        BY <4>1
      <4> QED BY <4>2, <4>3
    <3> QED BY <1>2, <3>1, <3>2, <3>3 DEF ReportInv
  <2> QED BY <1>2, <2>3, <2>4, <2>5 DEF Next
<1> QED BY <1>1, <1>2, PTL DEF Spec

(* The entry of a percentile is one of the n.                              *)
LEMMA CountIs ==
  ASSUME NEW n \in 1 .. MaxCount, Size(n)
  PROVE  /\ n \in Nat \ {0} /\ Count = n
         /\ \A q \in DOMAIN Quantiles : Index(Count, Quantiles[q]) \in 0 .. n - 1
PROOF
<1>1. n \in Nat \ {0}
  BY BoundsAssumption
<1>2. Cardinality(0 .. n - 1) = n
  BY <1>1, FS_Interval
<1>3. Count = n
  BY <1>2 DEF Count, Size
<1> QED BY <1>1, <1>3, IndexBound

(* The entries from lo to hi stand for as many different measurements.     *)
LEMMA RankCount ==
  ASSUME NEW n \in Nat \ {0}, NEW f \in [0 .. n - 1 -> 0 .. n - 1],
         \A j, k \in 0 .. n - 1 : f[j] = f[k] => j = k,
         NEW A \in SUBSET (0 .. n - 1), NEW lo \in 0 .. n - 1, NEW hi \in 0 .. n - 1,
         lo <= hi, \A k \in lo .. hi : f[k] \in A
  PROVE  Cardinality(A) \in Nat /\ Cardinality(A) >= hi - lo + 1
PROOF
<1> DEFINE g == [k \in lo .. hi |-> f[k]]
<1>1. g \in [lo .. hi -> A] /\ \A j, k \in lo .. hi : g[j] = g[k] => j = k
  OBVIOUS
<1>2. g \in Injection(lo .. hi, A)
  BY <1>1 DEF Injection, IsInjective
<1>3. IsFiniteSet(A)
  <2>1. IsFiniteSet(0 .. n - 1)
    BY FS_Interval
  <2> QED BY <2>1, FS_Subset
<1>4. Cardinality(lo .. hi) <= Cardinality(A)
  <2> HIDE DEF g
  <2> QED BY <1>2, <1>3, FS_Injection
<1>5. Cardinality(lo .. hi) = hi - lo + 1
  BY FS_Interval
<1> QED BY <1>3, <1>4, <1>5, FS_CardinalityType

(* In every run no two of whose latencies are half the values of an int    *)
(* apart (2.1 s in the code), each percentile printed has the rank it      *)
(* claims among the latencies measured, for every number of operations     *)
(* (main.c:309-312, 348-355).                                              *)
THEOREM PercentilesHaveRank == Spec => []RanksRight
PROOF
<1>1. ReportInv => RanksRight
  <2>1. SUFFICES ASSUME ReportInv, pc = "printed", Comparable, NEW q \in DOMAIN Quantiles
                 PROVE  LET v == report.percentiles[q]
                            rank == Index(Count, Quantiles[q])
                        IN  /\ Cardinality({k \in DOMAIN measured : measured[k] <= v}) > rank
                            /\ Cardinality({k \in DOMAIN measured : measured[k] >= v}) >= Count - rank
    BY DEF RanksRight
  <2>2. PICK n \in 1 .. MaxCount : Size(n) /\ \E f : Permuted(f, n)
    BY <2>1 DEF ReportInv
  <2>3. PICK f : Permuted(f, n)
    BY <2>2
  <2> DEFINE rank == Index(Count, Quantiles[q])
             v == lats[rank]
  <2>4. n \in Nat \ {0} /\ Count = n /\ rank \in 0 .. n - 1
    BY <2>2, CountIs
  <2>5. report.percentiles[q] = v
    <3>1. report.percentiles = Percentiles
      BY <2>1 DEF ReportInv
    <3> QED BY <3>1 DEF Percentiles
  <2> HIDE DEF rank
  <2>6. /\ DOMAIN measured = 0 .. n - 1 /\ DOMAIN lats = 0 .. n - 1
        /\ \A k \in 0 .. n - 1 : f[k] \in 0 .. n - 1 /\ lats[k] = measured[f[k]]
    BY <2>2, <2>3 DEF Size, Permuted
  <2>7. \A j, k \in 0 .. n - 1 : j <= k => lats[j] <= lats[k]
    BY <2>1, <2>6 DEF ReportInv, Ascending
  <2>8. f \in [0 .. n - 1 -> 0 .. n - 1] /\ \A j, k \in 0 .. n - 1 : f[j] = f[k] => j = k
    BY <2>3 DEF Permuted
  <2>a. \A k \in 0 .. n - 1 : lats[k] \in Nat
    <3>1. \A k \in 0 .. n - 1 : measured[k] \in Nat
      BY <2>2, BoundsAssumption DEF Size
    <3> QED BY <2>6, <3>1
  <2>9. Cardinality({k \in DOMAIN measured : measured[k] <= v}) > rank
    <3> DEFINE A == {k \in 0 .. n - 1 : measured[k] <= v}
    <3>1. \A k \in 0 .. rank : k \in 0 .. n - 1 /\ f[k] \in A
      BY <2>4, <2>6, <2>7
    <3>2. A \in SUBSET (0 .. n - 1) /\ 0 \in 0 .. n - 1 /\ 0 <= rank
      BY <2>4
    <3> HIDE DEF A, v
    <3>3. Cardinality(A) \in Nat /\ Cardinality(A) >= rank - 0 + 1
      BY <2>4, <2>8, <3>1, <3>2, RankCount
    <3>4. Cardinality(A) > rank
      BY <2>4, <3>3
    <3> QED BY <2>6, <3>4 DEF A
  <2>10. Cardinality({k \in DOMAIN measured : measured[k] >= v}) >= Count - rank
    <3> DEFINE A == {k \in 0 .. n - 1 : measured[k] >= v}
    <3>1. \A k \in rank .. n - 1 : k \in 0 .. n - 1 /\ f[k] \in A
      <4>1. \A k \in rank .. n - 1 : k \in 0 .. n - 1 /\ lats[k] >= lats[rank]
        BY <2>4, <2>7, <2>a
      <4> QED BY <2>6, <4>1
    <3>2. A \in SUBSET (0 .. n - 1) /\ n - 1 \in 0 .. n - 1 /\ rank <= n - 1
      BY <2>4
    <3> HIDE DEF A, v
    <3>3. Cardinality(A) \in Nat /\ Cardinality(A) >= (n - 1) - rank + 1
      BY <2>4, <2>8, <3>1, <3>2, RankCount
    <3>4. Cardinality(A) >= Count - rank
      BY <2>4, <3>3
    <3> QED BY <2>6, <3>4 DEF A
  <2> QED BY <2>5, <2>9, <2>10 DEF rank
<1> QED BY <1>1, ReportInvariant, PTL

(* However the comparison goes wrong, the sum behind the average is that   *)
(* of the latencies measured; and where it does not, it is no less than    *)
(* what the entries from any percentile upwards add up to (main.c:         *)
(* 348-358).                                                               *)
THEOREM SumAgreesWithPercentiles == Spec => []FiguresAgree
PROOF
<1>1. ASSUME ReportInv, pc = "printed" PROVE report.sum = SumOf(measured)
  <2>1. PICK n \in 1 .. MaxCount : Size(n) /\ \E f : Permuted(f, n)
    BY <1>1 DEF ReportInv
  <2>2. PICK f : Permuted(f, n)
    BY <2>1
  <2> DEFINE D == 0 .. n - 1
  <2>3. IsFiniteSet(D)
    <3>1. 0 \in Int /\ n - 1 \in Int
      BY BoundsAssumption
    <3> QED BY <3>1, FS_Interval
  <2>4. measured \in [D -> Nat]
    BY <2>1, BoundsAssumption DEF Size
  <2>5. f \in [D -> D] /\ \A j, k \in D : f[j] = f[k] => j = k
    BY <2>2 DEF Permuted
  <2>6. lats = [k \in D |-> measured[f[k]]]
    BY <2>2 DEF Permuted
  <2> HIDE DEF D
  <2>7. SumOf([k \in D |-> measured[f[k]]]) = SumOf(measured)
    BY <2>3, <2>4, <2>5, SumPermuted
  <2>8. report.sum = SumOf(lats)
    BY <1>1 DEF ReportInv
  <2> QED BY <2>6, <2>7, <2>8
<1>2. ReportInv => FiguresAgree
  <2>1. SUFFICES ASSUME ReportInv, pc = "printed", Comparable, NEW q \in DOMAIN Quantiles
                 PROVE  report.sum >= (Count - Index(Count, Quantiles[q])) * report.percentiles[q]
    BY <1>1 DEF FiguresAgree
  <2>2. PICK n \in 1 .. MaxCount : Size(n) /\ \E f : Permuted(f, n)
    BY <2>1 DEF ReportInv
  <2>3. PICK f : Permuted(f, n)
    BY <2>2
  <2> DEFINE rank == Index(Count, Quantiles[q])
             v == lats[rank]
             A == rank .. n - 1
  <2>4. n \in Nat \ {0} /\ Count = n /\ rank \in 0 .. n - 1
    BY <2>2, CountIs
  <2>5. report.percentiles[q] = v /\ report.sum = SumOf(lats)
    <3>1. report.percentiles = Percentiles /\ report.sum = SumOf(lats)
      BY <2>1 DEF ReportInv
    <3> QED BY <3>1 DEF Percentiles
  <2> HIDE DEF rank
  <2>6. lats \in [0 .. n - 1 -> Nat]
    <3>1. \A k \in 0 .. n - 1 : measured[k] \in Nat
      BY <2>2, BoundsAssumption DEF Size
    <3> QED BY <2>3, <3>1 DEF Permuted
  <2>7. \A k \in A : lats[k] >= v
    <3>1. \A j, k \in 0 .. n - 1 : j <= k => lats[j] <= lats[k]
      BY <2>1, <2>6 DEF ReportInv, Ascending
    <3> QED BY <2>4, <2>6, <3>1
  <2>8. IsFiniteSet(0 .. n - 1) /\ A \in SUBSET (0 .. n - 1) /\ v \in Nat
    <3>1. 0 \in Int /\ n - 1 \in Int
      BY <2>4
    <3>2. IsFiniteSet(0 .. n - 1)
      BY <3>1, FS_Interval
    <3> QED BY <2>4, <2>6, <3>2
  <2>9. Cardinality(A) = Count - rank
    BY <2>4, FS_Interval
  <2> HIDE DEF A, v
  <2>10. SumOf(lats) >= Cardinality(A) * v
    BY <2>6, <2>7, <2>8, SumBound DEF SumOf
  <2> QED BY <2>5, <2>9, <2>10 DEF rank
<1> QED BY <1>2, ReportInvariant, PTL

-----------------------------------------------------------------------------
(* The formulas of the model.                                              *)
LEMMA TermsAreNat ==
  ASSUME NEW a, NEW m, NEW r, NEW s, Parameters(a, m, r, s)
  PROVE  /\ memory_term(a, m) \in Nat /\ io_term(r, s) \in Nat
         /\ num_prefetches * memory_term(a, m) \in Nat
         /\ num_prefetches * io_term(r, s) \in Nat
         /\ num_prefetches * Base(a, m, r, s)
              = num_prefetches * memory_term(a, m) + num_prefetches * io_term(r, s)
<1>1. memory_term(a, m) \in Nat /\ io_term(r, s) \in Nat
  BY DEF Parameters, memory_term, io_term
<1>2. \A p \in Nat, x \in Nat, y \in Nat : p * x \in Nat /\ p * (x + y) = p * x + p * y
  OBVIOUS
<1>3. num_prefetches \in Nat
  BY DEF Parameters
<1>4. QED
  BY <1>1, <1>2, <1>3 DEF Base

LEMMA LimitIsNat ==
  ASSUME NEW a \in Nat, NEW l \in Nat
  PROVE  limit(a, l) \in Nat
BY DEF limit

(* The worst case is never faster than the best, and neither beats the     *)
(* plain sum (model.py:11-37: max taken over one term or over the sum).    *)
THEOREM BestNotSlower ==
  ASSUME NEW a, NEW m, NEW r, NEW s, Parameters(a, m, r, s), NEW l \in Nat
  PROVE  /\ num_prefetches * Base(a, m, r, s) <= Best(a, m, r, s, l)
         /\ Best(a, m, r, s, l) <= Worst(a, m, r, s, l)
<1>1. limit(a, l) \in Nat
  BY LimitIsNat DEF Parameters
<1>2. QED
  BY <1>1, TermsAreNat DEF Best, Worst, Larger

(* A longer latency never makes an operation faster in either case.        *)
THEOREM TimesRise ==
  ASSUME NEW a, NEW m, NEW r, NEW s, Parameters(a, m, r, s),
         NEW l \in Nat, NEW k \in Nat, l <= k
  PROVE  /\ Best(a, m, r, s, l) <= Best(a, m, r, s, k)
         /\ Worst(a, m, r, s, l) <= Worst(a, m, r, s, k)
<1>1. limit(a, l) <= limit(a, k)
  <2>1. \A x \in Nat : x * l <= x * k
    OBVIOUS
  <2>2. QED
    BY <2>1 DEF limit, Parameters
<1>2. limit(a, l) \in Nat /\ limit(a, k) \in Nat
  BY LimitIsNat DEF Parameters
<1>3. QED
  BY <1>1, <1>2, TermsAreNat DEF Best, Worst, Larger

(* Prefetching hides a latency wholly, in both cases, as long as all       *)
(* threads in flight take longer than it.                                  *)
THEOREM LatencyHidden ==
  ASSUME NEW a, NEW m, NEW r, NEW s, Parameters(a, m, r, s),
         NEW l \in Nat, l <= num_prefetches * (m + switch_time)
  PROVE  /\ Worst(a, m, r, s, l) = num_prefetches * Base(a, m, r, s)
         /\ Best(a, m, r, s, l) = num_prefetches * Base(a, m, r, s)
<1>1. limit(a, l) <= num_prefetches * memory_term(a, m)
  <2>1. \A x \in Nat, p \in Nat, t \in Nat : l <= p * t => x * l <= p * (x * t)
    <3>1. SUFFICES ASSUME NEW x \in Nat, NEW p \in Nat, NEW t \in Nat, l <= p * t
                   PROVE  x * l <= p * (x * t)
      OBVIOUS
    <3>2. \A y \in Nat : l <= y => x * l <= x * y
      OBVIOUS
    <3>3. p * t \in Nat /\ x * (p * t) = p * (x * t)
      OBVIOUS
    <3>4. QED
      BY <3>1, <3>2, <3>3
  <2>2. QED
    BY <2>1 DEF limit, memory_term, Parameters
<1>2. limit(a, l) \in Nat
  BY LimitIsNat DEF Parameters
<1>3. QED
  BY <1>1, <1>2, TermsAreNat DEF Best, Worst, Larger

(* In a figure whose first bar is DRAM, no bar of the worst case is higher *)
(* than the bar of the best case beside it, provided that the 100 ns drawn *)
(* for DRAM are hidden; each kind of bar is divided by its own first bar,  *)
(* so that without this the order may be the other way round (plot.py:     *)
(* 60-73).                                                                 *)
THEOREM BarsOrdered ==
  ASSUME NEW a, NEW m, NEW r, NEW s, Parameters(a, m, r, s), NEW l \in Nat,
         Plotted(0) <= num_prefetches * (m + switch_time)
  PROVE  NotHigher(Worst(a, m, r, s, Plotted(0)), Worst(a, m, r, s, Plotted(l)),
                   Best(a, m, r, s, Plotted(0)), Best(a, m, r, s, Plotted(l)))
<1> DEFINE dram == num_prefetches * Base(a, m, r, s)
           worst == Worst(a, m, r, s, Plotted(l))
           best == Best(a, m, r, s, Plotted(l))
<1>1. Plotted(0) \in Nat /\ Plotted(l) \in Nat
  BY DEF Plotted, Parameters
<1>2. Worst(a, m, r, s, Plotted(0)) = dram /\ Best(a, m, r, s, Plotted(0)) = dram
  BY <1>1, LatencyHidden
<1>3. best <= worst
  BY <1>1, BestNotSlower
<1>4. dram \in Nat
  BY TermsAreNat
<1>5. best \in Nat /\ worst \in Nat
  <2>1. limit(a, Plotted(l)) \in Nat
    BY <1>1, LimitIsNat DEF Parameters
  <2>2. /\ num_prefetches * memory_term(a, m) \in Nat
        /\ num_prefetches * io_term(r, s) \in Nat
    BY TermsAreNat
  <2>3. QED
    BY <1>4, <2>1, <2>2 DEF Best, Worst, Larger
<1>6. dram * best <= dram * worst
  <2> HIDE DEF dram, best, worst
  <2>1. QED
    BY <1>3, <1>4, <1>5
<1>7. QED
  BY <1>2, <1>6 DEF NotHigher

(* With the calibrated memory time the model has the time that was         *)
(* measured in DRAM, and so have the first bars of both cases as long as   *)
(* the 100 ns are hidden (microbench.ipynb:51-63).                         *)
THEOREM CalibrationExact ==
  ASSUME NEW a, NEW m, NEW r, NEW s, NEW d \in Int, NEW o \in Int,
         Parameters(a, m, r, s), Parameters(a, m + o, r, s),
         a * o = Offsets(a, m, r, s, d),
         Plotted(0) <= num_prefetches * (m + o + switch_time)
  PROVE  /\ Base(a, m + o, r, s) = d
         /\ Worst(a, m + o, r, s, Plotted(0)) = num_prefetches * d
         /\ Best(a, m + o, r, s, Plotted(0)) = num_prefetches * d
<1>1. memory_term(a, m + o) = memory_term(a, m) + a * o
  <2>1. \A x \in Nat, y \in Int, z \in Int : x * (y + z) = x * y + x * z
    OBVIOUS
  <2>2. a \in Nat /\ m + switch_time \in Int /\ (m + o) + switch_time = (m + switch_time) + o
    BY DEF Parameters
  <2>3. QED
    BY <2>1, <2>2 DEF memory_term
<1>2. Base(a, m + o, r, s) = d
  <2>1. memory_term(a, m) \in Nat /\ io_term(r, s) \in Nat
    BY TermsAreNat
  <2>2. memory_term(a, m + o) \in Nat
    BY TermsAreNat
  <2>3. QED
    BY <1>1, <2>1, <2>2 DEF Base, Offsets
<1>3. Plotted(0) \in Nat
  BY DEF Plotted, Parameters
<1>4. QED
  BY <1>2, <1>3, LatencyHidden
=============================================================================
