------------------------- MODULE BatchPipelineProofs -------------------------
(***************************************************************************)
(* Proofs about BatchPipeline for every list of stages, every number of    *)
(* runs and every way the benchmark's output is cut.                       *)
(*                                                                         *)
(* The lines of a run have nine pieces, so the pieces a benchmark prints   *)
(* can be counted: piece q is PieceAt(q), and a line begins at piece       *)
(* FirstOf(run, kind).  A log shows the first n of them in order, with     *)
(* messages between them (Streams), and the buffer holds those that follow *)
(* (StreamInv); what the benchmark leaves behind is such a log (LogInv).   *)
(* parse_output reads a line where its first two pieces stand side by side *)
(* (MatchesIs), and a message that parts them tears the run (TornAt); so a *)
(* record takes every line of its run unless that run is torn (HeldIs,     *)
(* RecordIs).  A message tears one run only, so there are no more torn     *)
(* records than messages (TornCount).                                      *)
(***************************************************************************)
EXTENDS BatchPipeline, FunctionTheorems, FiniteSetTheorems, TLAPS

(* Counting the elements up to one of them is strictly monotonic.          *)
LEMMA BelowInj ==
  ASSUME NEW S \in SUBSET Nat, IsFiniteSet(S)
  PROVE  /\ Cardinality(S) \in Nat
         /\ \A j \in S : Cardinality({i \in S : i <= j}) \in 1 .. Cardinality(S)
         /\ \A i, j \in S : i < j => Cardinality({k \in S : k <= i}) < Cardinality({k \in S : k <= j})
PROOF
<1> DEFINE U(j) == {i \in S : i <= j}
<1>1. Cardinality(S) \in Nat
  BY FS_CardinalityType
<1>2. ASSUME NEW j \in S
      PROVE IsFiniteSet(U(j)) /\ Cardinality(U(j)) \in Nat /\ Cardinality(U(j)) <= Cardinality(S)
            /\ Cardinality(U(j)) # 0
  <2>1. U(j) \in SUBSET S /\ j \in U(j)
    OBVIOUS
  <2> HIDE DEF U
  <2>2. IsFiniteSet(U(j)) /\ Cardinality(U(j)) <= Cardinality(S)
    BY <2>1, FS_Subset
  <2>3. Cardinality(U(j)) \in Nat
    BY <2>2, FS_CardinalityType
  <2>4. Cardinality(U(j)) # 0
    BY <2>1, <2>2, FS_EmptySet
  <2> QED BY <2>2, <2>3, <2>4
<1>3. ASSUME NEW j \in S PROVE Cardinality(U(j)) \in 1 .. Cardinality(S)
  <2> HIDE DEF U
  <2>1. Cardinality(U(j)) \in Nat /\ Cardinality(U(j)) <= Cardinality(S) /\ Cardinality(U(j)) # 0
    BY <1>2
  <2> QED BY <1>1, <2>1
<1>4. ASSUME NEW i \in S, NEW j \in S, i < j PROVE Cardinality(U(i)) < Cardinality(U(j))
  <2>1. U(i) \in SUBSET U(j) /\ j \in U(j) /\ j \notin U(i)
    <3>1. \A x \in Nat : x <= i => x <= j
      BY <1>4
    <3>2. j <= j /\ ~(j <= i)
      BY <1>4
    <3> QED BY <3>1, <3>2
  <2>2. U(i) # U(j)
    BY <2>1
  <2> HIDE DEF U
  <2>3. Cardinality(U(i)) <= Cardinality(U(j)) /\ Cardinality(U(i)) # Cardinality(U(j))
    BY <1>2, <2>1, <2>2, FS_Subset
  <2>4. Cardinality(U(i)) \in Nat /\ Cardinality(U(j)) \in Nat
    BY <1>2
  <2> QED BY <2>3, <2>4
<1> QED BY <1>1, <1>3, <1>4

(* A finite set of naturals can be listed in ascending order.              *)
LEMMA Enumerated ==
  ASSUME NEW S \in SUBSET Nat, IsFiniteSet(S)
  PROVE  \E e \in [1 .. Cardinality(S) -> S] :
           \A r, s \in 1 .. Cardinality(S) : r < s => e[r] < e[s]
PROOF
<1> DEFINE N == Cardinality(S)
           f == [j \in S |-> Cardinality({i \in S : i <= j})]
           e == [r \in 1 .. N |-> CHOOSE j \in S : f[j] = r]
<1>1. N \in Nat /\ f \in [S -> 1 .. N] /\ \A i, j \in S : i < j => f[i] < f[j]
  BY BelowInj
<1>2. \A i, j \in S : f[i] = f[j] => i = j
  <2> HIDE DEF f, N
  <2>1. \A i, j \in S : i < j \/ j < i \/ i = j
    OBVIOUS
  <2>2. \A i \in S : f[i] \in Nat
    BY <1>1
  <2> QED BY <1>1, <2>1, <2>2
<1>3. f \in Injection(S, 1 .. N)
  <2> HIDE DEF f, N
  <2>1. DOMAIN f = S
    BY <1>1
  <2> QED BY <1>1, <1>2, <2>1 DEF Injection, IsInjective
<1>4. IsFiniteSet(1 .. N) /\ Cardinality(1 .. N) = N
  <2> HIDE DEF N
  <2> QED BY <1>1, FS_Interval
<1>5. f \in Surjection(S, 1 .. N)
  <2> HIDE DEF f
  <2>1. Cardinality(S) = Cardinality(1 .. N)
    BY <1>4
  <2> HIDE DEF N
  <2> QED BY <1>3, <1>4, <2>1, FS_Injection
<1>6. \A r \in 1 .. N : \E j \in S : f[j] = r
  <2> HIDE DEF f, N
  <2> QED BY <1>5, Fun_SurjectionProperties
<1>7. e \in [1 .. N -> S] /\ \A r \in 1 .. N : f[e[r]] = r
  <2> HIDE DEF f, N
  <2> QED BY <1>6
<1>8. ASSUME NEW r \in 1 .. N, NEW s \in 1 .. N, r < s PROVE e[r] < e[s]
  <2> HIDE DEF e, f, N
  <2>1. e[r] \in S /\ e[s] \in S /\ f[e[r]] = r /\ f[e[s]] = s
    BY <1>7
  <2>2. CASE e[r] = e[s]
    BY <1>8, <2>1, <2>2
  <2>3. CASE e[s] < e[r]
    <3>1. s < r
      BY <1>1, <2>1, <2>3
    <3> QED BY <1>1, <1>8, <3>1
  <2>4. e[r] \in Nat /\ e[s] \in Nat
    BY <2>1
  <2> QED BY <2>2, <2>3, <2>4
<1> HIDE DEF e, f
<1> QED BY <1>7, <1>8

(* Such a list leaves nothing out.                                         *)
LEMMA EnumerationCovers ==
  ASSUME NEW S \in SUBSET Nat, IsFiniteSet(S), NEW e \in [1 .. Cardinality(S) -> S],
         \A r, s \in 1 .. Cardinality(S) : r < s => e[r] < e[s]
  PROVE  \A j \in S : \E r \in 1 .. Cardinality(S) : e[r] = j
PROOF
<1>1. PICK n \in Nat : n = Cardinality(S)
  BY FS_CardinalityType
<1>2. e \in [1 .. n -> S] /\ \A r, s \in 1 .. n : r < s => e[r] < e[s]
  BY <1>1
<1>3. ASSUME NEW r \in 1 .. n, NEW s \in 1 .. n, e[r] = e[s] PROVE r = s
  <2>1. r < s \/ s < r \/ r = s
    OBVIOUS
  <2>2. e[r] \in Nat /\ e[s] \in Nat
    BY <1>2
  <2> QED BY <1>2, <1>3, <2>1, <2>2
<1>4. e \in Injection(1 .. n, S)
  <2>1. DOMAIN e = 1 .. n
    BY <1>2
  <2> QED BY <1>2, <1>3, <2>1 DEF Injection, IsInjective
<1>5. Cardinality(1 .. n) = Cardinality(S)
  BY <1>1, FS_Interval
<1>6. e \in Surjection(1 .. n, S)
  BY <1>4, <1>5, FS_Injection
<1> QED BY <1>1, <1>6, Fun_SurjectionProperties

(* Nonempty finite sets of naturals have a greatest element.               *)
LEMMA MaxExists ==
  ASSUME NEW S \in SUBSET Nat, IsFiniteSet(S), S # {}
  PROVE  Max(S) \in S /\ \A x \in S : x <= Max(S)
PROOF
<1>1. PICK n \in Nat : n = Cardinality(S)
  BY FS_CardinalityType
<1>2. PICK e \in [1 .. n -> S] : \A r, s \in 1 .. n : r < s => e[r] < e[s]
  BY <1>1, Enumerated
<1>3. \A j \in S : \E r \in 1 .. n : e[r] = j
  BY <1>1, <1>2, EnumerationCovers
<1>4. n \in 1 .. n
  <2>1. n # 0
    BY <1>1, FS_EmptySet
  <2> QED BY <2>1
<1>5. e[n] \in S /\ \A x \in S : e[n] >= x
  <2>1. e[n] \in S
    BY <1>2, <1>4
  <2>2. ASSUME NEW x \in S PROVE e[n] >= x
    <3>1. PICK r \in 1 .. n : e[r] = x
      BY <1>3
    <3>2. r = n \/ e[r] < e[n]
      BY <1>2, <1>4, <3>1
    <3>3. x \in Nat /\ e[n] \in Nat
      BY <2>1
    <3> QED BY <3>1, <3>2, <3>3
  <2> QED BY <2>1, <2>2
<1>6. PICK m : m = CHOOSE x \in S : \A y \in S : x >= y
  OBVIOUS
<1>7. m \in S /\ \A y \in S : m >= y
  BY <1>5, <1>6
<1>8. \A y \in S : y <= m
  <2>1. m \in Nat
    BY <1>7
  <2> QED BY <1>7, <2>1
<1> QED BY <1>6, <1>7, <1>8 DEF Max

-----------------------------------------------------------------------------
(* The pieces of a transcript, one after the other: nine to a run.  Piece  *)
(* q is of this kind, this part and this run; FirstOf is the place of the  *)
(* first piece of a line, Size the number of pieces of p lines.            *)
KindAt(q) == IF (q - 1) % 9 < 6 THEN ((q - 1) % 9) \div 2 + 1 ELSE 4
PartAt(q) == IF (q - 1) % 9 < 6 THEN (((q - 1) % 9) % 2) + 1 ELSE ((q - 1) % 9) - 5
RunAt(q) == (q - 1) \div 9 + 1
PieceAt(q) == [line |-> Line(Kinds[KindAt(q)], RunAt(q)), part |-> PartAt(q)]
FirstOf(r, k) == 9 * (r - 1) + 2 * k - 1
Size(p) == 9 * (p \div 4) + 2 * (p % 4)

(* The pieces a log is made of.                                            *)
KindSet == {"param", "elapsed", "op", "peeks", "message"}
Piece == [line : [kind : KindSet, run : Nat], part : 0 .. 3]

(* The four kinds of lines differ, and none is a message.                  *)
LEMMA KindFacts ==
  /\ Kinds[1] = "param" /\ Kinds[2] = "elapsed" /\ Kinds[3] = "op" /\ Kinds[4] = "peeks"
  /\ \A k \in 1 .. 4 : Kinds[k] \in KindSet /\ Kinds[k] # "message"
  /\ \A j, k \in 1 .. 4 : Kinds[j] = Kinds[k] => j = k
PROOF
<1>1. Kinds[1] = "param" /\ Kinds[2] = "elapsed" /\ Kinds[3] = "op" /\ Kinds[4] = "peeks"
  BY DEF Kinds
<1>2. \A k \in 1 .. 4 : k = 1 \/ k = 2 \/ k = 3 \/ k = 4
  OBVIOUS
<1>3. \A k \in 1 .. 4 : Kinds[k] \in KindSet /\ Kinds[k] # "message"
  BY <1>1, <1>2 DEF KindSet
<1>4. \A j, k \in 1 .. 4 : Kinds[j] = Kinds[k] => j = k
  BY <1>1, <1>2
<1> QED BY <1>1, <1>3, <1>4

(* A piece that is a first part is the first piece of its line.            *)
LEMMA Places ==
  ASSUME NEW q \in Nat \ {0}
  PROVE  /\ KindAt(q) \in 1 .. 4 /\ PartAt(q) \in 1 .. 3 /\ RunAt(q) \in Nat \ {0}
         /\ PartAt(q) = 1 => q = FirstOf(RunAt(q), KindAt(q))
PROOF
<1>1. PICK r, o : r = (q - 1) \div 9 /\ o = (q - 1) % 9
  OBVIOUS
<1>2. r \in Nat /\ o \in 0 .. 8 /\ q = 9 * r + o + 1
  BY <1>1
<1>3. /\ KindAt(q) = (IF o < 6 THEN o \div 2 + 1 ELSE 4)
      /\ PartAt(q) = (IF o < 6 THEN (o % 2) + 1 ELSE o - 5)
      /\ RunAt(q) = r + 1
  BY <1>1 DEF KindAt, PartAt, RunAt
<1>4. PICK h, m : h = o \div 2 /\ m = o % 2
  OBVIOUS
<1>5. h \in 0 .. 4 /\ m \in 0 .. 1 /\ o = 2 * h + m
  BY <1>2, <1>4
<1> QED BY <1>2, <1>3, <1>4, <1>5 DEF FirstOf

(* The parts of a line follow its first piece.                             *)
LEMMA Firsts ==
  ASSUME NEW r \in Nat \ {0}, NEW k \in 1 .. 4
  PROVE  LET q == FirstOf(r, k)
         IN  /\ q \in Nat \ {0}
             /\ RunAt(q) = r /\ KindAt(q) = k /\ PartAt(q) = 1
             /\ RunAt(q + 1) = r /\ KindAt(q + 1) = k /\ PartAt(q + 1) = 2
             /\ k = 4 => RunAt(q + 2) = r /\ KindAt(q + 2) = k /\ PartAt(q + 2) = 3
PROOF
<1> DEFINE q == FirstOf(r, k)
<1>1. PICK s \in Nat : s = r - 1
  OBVIOUS
<1>2. q = 9 * s + (2 * k - 2) + 1 /\ q \in Nat \ {0}
  BY <1>1 DEF FirstOf
<1> HIDE DEF q
<1>a. PICK u, v \in Nat : u = q + 1 /\ v = q + 2
  BY <1>2
<1>3. /\ (q - 1) \div 9 = s /\ (q - 1) % 9 = 2 * k - 2
      /\ (u - 1) \div 9 = s /\ (u - 1) % 9 = 2 * k - 1
      /\ k = 4 => (v - 1) \div 9 = s /\ (v - 1) % 9 = 8
  BY <1>2, <1>a
<1>4. /\ RunAt(q) = r
      /\ RunAt(u) = r
      /\ k = 4 => RunAt(v) = r
  BY <1>1, <1>3 DEF RunAt
<1>5. k = 1 \/ k = 2 \/ k = 3 \/ k = 4
  OBVIOUS
<1>6. KindAt(q) = k /\ PartAt(q) = 1
  BY <1>3, <1>5 DEF KindAt, PartAt
<1>7. KindAt(u) = k /\ PartAt(u) = 2
  BY <1>3, <1>5 DEF KindAt, PartAt
<1>8. k = 4 => KindAt(v) = k /\ PartAt(v) = 3
  BY <1>3 DEF KindAt, PartAt
<1> QED BY <1>2, <1>a, <1>4, <1>6, <1>7, <1>8 DEF q

-----------------------------------------------------------------------------
(* Part e + 1 of the line that begins at place j follows.                  *)
Follows(l, j, e) == j + e <= Len(l) /\ l[j + e].line = l[j].line /\ l[j + e].part = e + 1

(* How many elements the sets of lengths have.                             *)
LEMMA Small ==
  /\ Cardinality({}) = 0 /\ Cardinality({0}) = 1 /\ Cardinality({0, 1}) = 2
  /\ Cardinality({0, 1, 2}) = 3
PROOF
<1>1. Cardinality({}) = 0
  BY FS_EmptySet
<1>2. 0 .. 0 = {0} /\ 0 .. 1 = {0, 1} /\ 0 .. 2 = {0, 1, 2}
  OBVIOUS
<1>3. Cardinality(0 .. 0) = 1 /\ Cardinality(0 .. 1) = 2 /\ Cardinality(0 .. 2) = 3
  <2>1. \A n \in Nat : Cardinality(0 .. n) = n + 1
    <3>1. ASSUME NEW n \in Nat PROVE Cardinality(0 .. n) = n + 1
      <4>1. 0 \in Int /\ n \in Int /\ ~(0 > n)
        OBVIOUS
      <4>2. Cardinality(0 .. n) = n - 0 + 1
        BY <4>1, FS_Interval
      <4> QED BY <4>2
    <3> QED BY <3>1
  <2>2. 0 \in Nat /\ 1 \in Nat /\ 2 \in Nat /\ 0 + 1 = 1 /\ 1 + 1 = 2 /\ 2 + 1 = 3
    OBVIOUS
  <2>3. Cardinality(0 .. 0) = 0 + 1 /\ Cardinality(0 .. 1) = 1 + 1 /\ Cardinality(0 .. 2) = 2 + 1
    BY <2>1, <2>2, Zenon
  <2> QED BY <2>2, <2>3
<1> QED BY <1>1, <1>2, <1>3

(* Extent counts the parts that follow each other.                         *)
LEMMA ExtentIs ==
  ASSUME NEW l \in Seq(Piece), NEW j \in 1 .. Len(l)
  PROVE  /\ Extent(l, j) >= 2 <=> Follows(l, j, 0) /\ Follows(l, j, 1)
         /\ Extent(l, j) >= 3 <=> Follows(l, j, 0) /\ Follows(l, j, 1) /\ Follows(l, j, 2)
         /\ Extent(l, j) \in 0 .. 3
PROOF
<1> DEFINE OK(d) == j + d <= Len(l) /\ \A e \in 0 .. d : l[j + e].line = l[j].line /\ l[j + e].part = e + 1
           E == {d \in 0 .. 2 : OK(d)}
<1>0. Len(l) \in Nat /\ j \in Nat
  OBVIOUS
<1>1. /\ OK(0) <=> Follows(l, j, 0)
      /\ OK(1) <=> Follows(l, j, 0) /\ Follows(l, j, 1)
      /\ OK(2) <=> Follows(l, j, 0) /\ Follows(l, j, 1) /\ Follows(l, j, 2)
  <2>1. 0 .. 0 = {0} /\ 0 .. 1 = {0, 1} /\ 0 .. 2 = {0, 1, 2}
    OBVIOUS
  <2>2. (j + 1 <= Len(l) => j + 0 <= Len(l)) /\ (j + 2 <= Len(l) => j + 1 <= Len(l))
    BY <1>0
  <2>3. OK(0) <=> Follows(l, j, 0)
    BY <2>1, Zenon DEF Follows
  <2>4. OK(1) <=> Follows(l, j, 0) /\ Follows(l, j, 1)
    BY <2>1, <2>2, Zenon DEF Follows
  <2>5. OK(2) <=> Follows(l, j, 0) /\ Follows(l, j, 1) /\ Follows(l, j, 2)
    BY <2>1, <2>2, Zenon DEF Follows
  <2> QED BY <2>3, <2>4, <2>5
<1>2. Extent(l, j) = Cardinality(E)
  BY DEF Extent
<1>3. 0 .. 2 = {0, 1, 2}
  OBVIOUS
<1>4. CASE ~OK(0)
  <2>1. E = {}
    BY <1>1, <1>3, <1>4, Zenon
  <2>2. Extent(l, j) = 0
    BY <1>2, <2>1, Small
  <2> QED BY <1>1, <1>4, <2>2
<1>5. CASE OK(0) /\ ~OK(1)
  <2>1. E = {0}
    BY <1>1, <1>3, <1>5, Zenon
  <2>2. Extent(l, j) = 1
    BY <1>2, <2>1, Small
  <2> QED BY <1>1, <1>5, <2>2
<1>6. CASE OK(1) /\ ~OK(2)
  <2>1. E = {0, 1}
    BY <1>1, <1>3, <1>6, Zenon
  <2>2. Extent(l, j) = 2
    BY <1>2, <2>1, Small
  <2> QED BY <1>1, <1>6, <2>2
<1>7. CASE OK(2)
  <2>1. E = {0, 1, 2}
    BY <1>1, <1>3, <1>7, Zenon
  <2>2. Extent(l, j) = 3
    BY <1>2, <2>1, Small
  <2> QED BY <1>1, <1>7, <2>2
<1> QED BY <1>1, <1>4, <1>5, <1>6, <1>7

-----------------------------------------------------------------------------
(* A log shows the first n pieces in order, at places p, and messages      *)
(* between them.                                                           *)
Streams(l, n, p) ==
  /\ l \in Seq(Piece) /\ n \in Nat /\ p \in [1 .. n -> 1 .. Len(l)]
  /\ \A q, u \in 1 .. n : q < u => p[q] < p[u]
  /\ \A q \in 1 .. n : l[p[q]] = PieceAt(q)
  /\ \A j \in 1 .. Len(l) : l[j] = Message \/ \E q \in 1 .. n : j = p[q]

(* A piece and its fields.                                                 *)
LEMMA PieceIs ==
  ASSUME NEW q \in Nat \ {0}
  PROVE  /\ PieceAt(q) \in Piece /\ PieceAt(q).line = Line(Kinds[KindAt(q)], RunAt(q))
         /\ PieceAt(q).line.kind = Kinds[KindAt(q)] /\ PieceAt(q).line.run = RunAt(q)
         /\ PieceAt(q).part = PartAt(q)
PROOF
<1>1. KindAt(q) \in 1 .. 4 /\ PartAt(q) \in 0 .. 3 /\ RunAt(q) \in Nat
  BY Places
<1>2. Kinds[KindAt(q)] \in KindSet
  BY <1>1, KindFacts
<1>3. Line(Kinds[KindAt(q)], RunAt(q)) \in [kind : KindSet, run : Nat]
  BY <1>1, <1>2 DEF Line
<1> QED BY <1>1, <1>3 DEF PieceAt, Piece, Line

(* The message is a piece of no line.                                      *)
LEMMA MessageIs ==
  Message \in Piece /\ Message.line.kind = "message" /\ Message.part = 0
  BY DEF Message, Piece, Line, KindSet

(* Behind a piece comes the next one, or a message, or the end.            *)
LEMMA Behind ==
  ASSUME NEW l, NEW n, NEW p, Streams(l, n, p), NEW q \in 1 .. n
  PROVE  /\ p[q] \in 1 .. Len(l) /\ Len(l) \in Nat
         /\ q + 1 \in 1 .. n => p[q] + 1 <= Len(l)
         /\ \A u \in 1 .. n : p[q] + 1 = p[u] => u = q + 1
         /\ p[q] + 1 <= Len(l) =>
              l[p[q] + 1] = Message \/ (q + 1 \in 1 .. n /\ p[q + 1] = p[q] + 1)
PROOF
<1>1. l \in Seq(Piece) /\ Len(l) \in Nat /\ n \in Nat /\ p \in [1 .. n -> 1 .. Len(l)]
  BY DEF Streams
<1>2. \A x, y \in 1 .. n : x < y => p[x] < p[y]
  BY DEF Streams
<1>3. \A x \in 1 .. n : p[x] \in 1 .. Len(l) /\ p[x] \in Int
  BY <1>1
<1>4. q + 1 \in 1 .. n => p[q] + 1 <= Len(l)
  <2>1. q + 1 \in 1 .. n => p[q] < p[q + 1]
    BY <1>2
  <2> QED BY <1>1, <1>3, <2>1
<1>5. ASSUME NEW u \in 1 .. n, p[q] + 1 = p[u] PROVE u = q + 1
  <2>1. q < u
    <3>1. u < q => p[u] < p[q]
      BY <1>2
    <3>2. u # q
      BY <1>3, <1>5
    <3> QED BY <1>3, <1>5, <3>1, <3>2
  <2>2. ~(q + 1 < u)
    <3>1. SUFFICES ASSUME q + 1 < u PROVE FALSE
      OBVIOUS
    <3>2. PICK v \in 1 .. n : v = q + 1
      BY <1>1, <3>1
    <3>3. p[q] < p[v] /\ p[v] < p[u]
      <4>1. q < v /\ v < u
        BY <3>1, <3>2
      <4> QED BY <1>2, <4>1
    <3>4. p[q] \in Int /\ p[v] \in Int /\ p[u] \in Int
      BY <1>3
    <3> QED BY <1>5, <3>3, <3>4
  <2> QED BY <2>1, <2>2
<1>6. ASSUME p[q] + 1 <= Len(l), l[p[q] + 1] # Message
      PROVE  q + 1 \in 1 .. n /\ p[q + 1] = p[q] + 1
  <2>1. PICK j \in 1 .. Len(l) : j = p[q] + 1
    BY <1>1, <1>3, <1>6
  <2>2. PICK u \in 1 .. n : j = p[u]
    BY <1>6, <2>1 DEF Streams
  <2>3. u = q + 1
    BY <1>5, <2>1, <2>2
  <2> QED BY <2>1, <2>2, <2>3
<1> QED BY <1>1, <1>3, <1>4, <1>5, <1>6

(* A message behind a part that is not the last of its line tears the run. *)
LEMMA TornAt ==
  ASSUME NEW l, NEW n, NEW p, Streams(l, n, p), NEW q \in 1 .. n,
         PartAt(q) < NumParts(Kinds[KindAt(q)]),
         p[q] + 1 <= Len(l), ~(q + 1 \in 1 .. n /\ p[q + 1] = p[q] + 1)
  PROVE  Torn(l, RunAt(q))
PROOF
<1>1. p[q] \in 1 .. Len(l) /\ Len(l) \in Nat /\ l[p[q] + 1] = Message
  BY Behind
<1>2. l[p[q]] = PieceAt(q) /\ q \in Nat \ {0}
  BY DEF Streams
<1>3. PICK i \in 1 .. Len(l) - 1 : i = p[q]
  BY <1>1
<1>4. l[i].line.run = RunAt(q) /\ l[i].line.kind = Kinds[KindAt(q)] /\ l[i].part = PartAt(q)
  BY <1>2, <1>3, PieceIs
<1> QED BY <1>1, <1>3, <1>4 DEF Torn

(* Piece j of the log begins line k of run r, and the next piece of that   *)
(* line follows.                                                           *)
Reads(l, n, p, j, k, r) ==
  /\ FirstOf(r, k) \in 1 .. n /\ FirstOf(r, k) + 1 \in 1 .. n
  /\ j = p[FirstOf(r, k)] /\ p[FirstOf(r, k) + 1] = j + 1
  /\ l[j].line.run = r

(* A line is read where its first two pieces follow each other.            *)
LEMMA MatchesIs ==
  ASSUME NEW l, NEW n, NEW p, Streams(l, n, p), NEW j \in 1 .. Len(l), NEW k \in 1 .. 4
  PROVE  /\ Matches(l, j, Kinds[k]) =>
              \E r \in Nat \ {0} : Reads(l, n, p, j, k, r)
         /\ \A r \in Nat \ {0} :
              FirstOf(r, k) + 1 \in 1 .. n /\ j = p[FirstOf(r, k)] /\ p[FirstOf(r, k) + 1] = j + 1
                => Matches(l, j, Kinds[k])
PROOF
<1>1. l \in Seq(Piece) /\ Len(l) \in Nat /\ n \in Nat
  BY DEF Streams
<1>2. ASSUME Matches(l, j, Kinds[k])
      PROVE  \E r \in Nat \ {0} : Reads(l, n, p, j, k, r)
  <2>1. l[j].line.kind = Kinds[k] /\ l[j].part = 1 /\ Follows(l, j, 1)
    BY <1>1, <1>2, ExtentIs DEF Matches
  <2>2. PICK q \in 1 .. n : j = p[q]
    BY <2>1, MessageIs DEF Streams
  <2>3. l[j] = PieceAt(q) /\ q \in Nat \ {0}
    BY <2>2 DEF Streams
  <2>4. PICK r \in Nat \ {0} : r = RunAt(q)
    BY <2>3, Places
  <2>5. KindAt(q) \in 1 .. 4 /\ PartAt(q) = 1 /\ Kinds[KindAt(q)] = Kinds[k]
    BY <2>1, <2>3, PieceIs, Places
  <2>6. KindAt(q) = k
    BY <2>5, KindFacts
  <2>7. q = FirstOf(r, k)
    BY <2>3, <2>4, <2>5, <2>6, Places
  <2>8. q + 1 \in 1 .. n /\ p[q + 1] = j + 1
    <3>1. j + 1 <= Len(l) /\ l[j + 1].part = 1 + 1
      BY <2>1 DEF Follows
    <3>2. l[j + 1] # Message
      BY <3>1, MessageIs
    <3> QED BY <2>2, <3>1, <3>2, Behind
  <2>9. l[j].line.run = r
    BY <2>3, <2>4, PieceIs
  <2> QED BY <2>2, <2>7, <2>8, <2>9 DEF Reads
<1>3. ASSUME NEW r \in Nat \ {0}, FirstOf(r, k) + 1 \in 1 .. n,
             j = p[FirstOf(r, k)], p[FirstOf(r, k) + 1] = j + 1
      PROVE  Matches(l, j, Kinds[k])
  <2>1. PICK q, u \in Nat \ {0} : q = FirstOf(r, k) /\ u = q + 1 /\ q \in 1 .. n /\ u \in 1 .. n
    <3>1. PICK q \in Nat \ {0} : q = FirstOf(r, k)
      BY Firsts
    <3>2. q + 1 \in Nat \ {0} /\ q \in 1 .. n /\ q + 1 \in 1 .. n
      BY <1>1, <1>3, <3>1
    <3> QED BY <3>1, <3>2
  <2>2. RunAt(q) = r /\ KindAt(q) = k /\ PartAt(q) = 1 /\ RunAt(u) = r /\ KindAt(u) = k /\ PartAt(u) = 2
    BY <2>1, Firsts
  <2>3. j = p[q] /\ j + 1 = p[u]
    BY <1>3, <2>1
  <2>4. l[j] = PieceAt(q) /\ l[j + 1] = PieceAt(u) /\ j + 1 <= Len(l)
    <3>1. p[u] \in 1 .. Len(l)
      BY <2>1, Behind
    <3> QED BY <1>1, <2>1, <2>3, <3>1 DEF Streams
  <2>5. l[j].line = l[j + 1].line /\ l[j].part = 1 /\ l[j + 1].part = 2 /\ l[j].line.kind = Kinds[k]
    BY <2>2, <2>4, PieceIs
  <2>6. Follows(l, j, 0)
    <3>1. j + 0 = j /\ 0 + 1 = 1 /\ j <= Len(l)
      OBVIOUS
    <3> QED BY <2>5, <3>1, Zenon DEF Follows
  <2>7. Follows(l, j, 1)
    <3>1. 1 + 1 = 2
      OBVIOUS
    <3> QED BY <2>4, <2>5, <3>1, Zenon DEF Follows
  <2>8. Extent(l, j) >= 2
    BY <1>1, <2>6, <2>7, ExtentIs
  <2> QED BY <2>5, <2>8 DEF Matches
<1> QED BY <1>2, <1>3

-----------------------------------------------------------------------------
(* What parse_output makes a record of (batch.py:88-111).                  *)
Record == [stage : Nat, param : Nat, elapsed : Nat, op : Nat, peeks : Nat, cut : BOOLEAN]

(* The places where a line is read are finitely many.                      *)
LEMMA FindsFinite ==
  ASSUME NEW l \in Seq(Piece), NEW kind
  PROVE  Finds(l, kind) \in SUBSET Nat /\ IsFiniteSet(Finds(l, kind))
PROOF
<1>1. Len(l) \in Nat
  OBVIOUS
<1>2. IsFiniteSet(1 .. Len(l))
  BY <1>1, FS_Interval
<1>3. Finds(l, kind) \in SUBSET (1 .. Len(l))
  BY DEF Finds
<1>4. 1 .. Len(l) \subseteq Nat
  OBVIOUS
<1> QED BY <1>2, <1>3, <1>4, FS_Subset

(* A variable of parse_output holds a run, or nothing.                     *)
LEMMA HeldType ==
  ASSUME NEW l \in Seq(Piece), NEW kind, NEW j
  PROVE  Held(l, kind, j) \in Nat
PROOF
<1>1. PICK before : before = {i \in Finds(l, kind) : i < j}
  OBVIOUS
<1>2. CASE before = {}
  BY <1>1, <1>2 DEF Held, NoRun
<1>3. CASE before # {}
  <2>1. before \in SUBSET Finds(l, kind)
    BY <1>1
  <2>2. before \in SUBSET Nat /\ IsFiniteSet(before)
    BY <2>1, FindsFinite, FS_Subset
  <2>3. Max(before) \in before
    BY <1>3, <2>2, MaxExists
  <2>4. Max(before) \in 1 .. Len(l)
    BY <2>1, <2>3 DEF Finds
  <2>5. l[Max(before)].line.run \in Nat
    <3>1. l[Max(before)] \in Piece
      BY <2>4
    <3> QED BY <3>1 DEF Piece
  <2> QED BY <1>1, <1>3, <2>5 DEF Held
<1> QED BY <1>2, <1>3

(* A line that is whole is held when the last line of its run is read.     *)
LEMMA HeldIs ==
  ASSUME NEW l, NEW n, NEW p, Streams(l, n, p), NEW r \in Nat \ {0}, NEW k \in 1 .. 3,
         FirstOf(r, 4) \in 1 .. n, p[FirstOf(r, k) + 1] = p[FirstOf(r, k)] + 1
  PROVE  Held(l, Kinds[k], p[FirstOf(r, 4)]) = r
PROOF
<1> DEFINE before == {x \in Finds(l, Kinds[k]) : x < p[FirstOf(r, 4)]}
<1>1. l \in Seq(Piece) /\ Len(l) \in Nat /\ n \in Nat /\ k \in 1 .. 4
      /\ \A q, u \in 1 .. n : q < u => p[q] < p[u]
  BY DEF Streams
<1>2. PICK a, b \in 1 .. n : /\ a = FirstOf(r, k) /\ b = FirstOf(r, 4) /\ a < b /\ a + 1 \in 1 .. n
                             /\ a = 9 * (r - 1) + 2 * k - 1 /\ b = 9 * (r - 1) + 7
  <2>1. PICK a, b \in Nat \ {0} : a = FirstOf(r, k) /\ b = FirstOf(r, 4)
    <3>1. 4 \in 1 .. 4
      OBVIOUS
    <3> QED BY <1>1, <3>1, Firsts
  <2>2. a = 9 * (r - 1) + 2 * k - 1 /\ b = 9 * (r - 1) + 7
    BY <2>1 DEF FirstOf
  <2>3. a + 2 <= b /\ b \in 1 .. n
    BY <2>1, <2>2
  <2>4. a \in 1 .. n /\ a + 1 \in 1 .. n /\ a < b
    BY <1>1, <2>1, <2>3
  <2> QED BY <2>1, <2>2, <2>3, <2>4
<1>3. PICK i, j : i = p[a] /\ j = p[b]
  OBVIOUS
<1>4. i \in 1 .. Len(l) /\ p[a + 1] = i + 1 /\ i < j /\ j \in 1 .. Len(l)
  <2>1. i \in 1 .. Len(l) /\ j \in 1 .. Len(l)
    BY <1>2, <1>3, Behind
  <2> QED BY <1>1, <1>2, <1>3, <2>1
<1>5. Matches(l, i, Kinds[k])
  <2>1. FirstOf(r, k) + 1 \in 1 .. n /\ i = p[FirstOf(r, k)] /\ p[FirstOf(r, k) + 1] = i + 1
    BY <1>2, <1>3, <1>4
  <2> QED BY <1>1, <1>4, <2>1, MatchesIs
<1>6. i \in before
  BY <1>2, <1>3, <1>4, <1>5 DEF Finds
<1>7. PICK m : m = Max(before)
  OBVIOUS
<1>8. m \in before /\ i <= m
  <2>1. before \in SUBSET Finds(l, Kinds[k])
    OBVIOUS
  <2> HIDE DEF before
  <2>2. before \in SUBSET Nat /\ IsFiniteSet(before) /\ before # {}
    BY <1>1, <1>6, <2>1, FindsFinite, FS_Subset
  <2> QED BY <1>6, <1>7, <2>2, MaxExists
<1>9. m \in 1 .. Len(l) /\ Matches(l, m, Kinds[k]) /\ m < j
  BY <1>2, <1>3, <1>8 DEF Finds
<1>10. PICK s \in Nat \ {0} : FirstOf(s, k) \in 1 .. n /\ m = p[FirstOf(s, k)] /\ l[m].line.run = s
  <2>1. k \in 1 .. 4
    OBVIOUS
  <2>2. PICK s \in Nat \ {0} : Reads(l, n, p, m, k, s)
    BY <1>9, <2>1, MatchesIs
  <2> QED BY <2>2 DEF Reads
<1>11. s = r
  <2>1. PICK c \in 1 .. n : c = FirstOf(s, k) /\ c = 9 * (s - 1) + 2 * k - 1 /\ m = p[c]
    BY <1>10 DEF FirstOf
  <2>2. ~(c < a) /\ ~(b < c) /\ b # c
    <3>1. i \in Int /\ m \in Int /\ j \in Int
      BY <1>4, <1>9
    <3>2. ~(p[c] < p[a]) /\ ~(p[b] < p[c]) /\ p[b] # p[c]
      BY <1>3, <1>8, <1>9, <2>1, <3>1
    <3> QED BY <1>1, <3>2
  <2>3. a <= c /\ c < b
    BY <1>1, <2>2
  <2> QED BY <1>2, <2>1, <2>3
<1>12. Held(l, Kinds[k], p[FirstOf(r, 4)]) = l[Max(before)].line.run
  BY <1>6 DEF Held
<1> QED BY <1>7, <1>10, <1>11, <1>12

(* The record of a line with polls per I/O: its other figures are of the   *)
(* same run unless a message tears that run; its number is whole unless a  *)
(* message or the end of the log cuts it.                                  *)
LEMMA RecordIs ==
  ASSUME NEW l, NEW n, NEW p, Streams(l, n, p), stage \in Nat, NEW j \in Finds(l, "peeks")
  PROVE  /\ RecordAt(l, j) \in Record /\ RecordAt(l, j).stage = stage
         /\ \E r \in Nat \ {0} :
              /\ FirstOf(r, 4) \in 1 .. n /\ j = p[FirstOf(r, 4)] /\ RecordAt(l, j).peeks = r
              /\ OfOneRun(RecordAt(l, j)) \/ Torn(l, r)
              /\ RecordAt(l, j).cut =>
                   Torn(l, r) \/ (AtEnd(l, RecordAt(l, j)) /\ n = FirstOf(r, 4) + 1)
PROOF
<1>1. l \in Seq(Piece) /\ Len(l) \in Nat /\ n \in Nat
  BY DEF Streams
<1>2. j \in 1 .. Len(l) /\ Matches(l, j, Kinds[4]) /\ 4 \in 1 .. 4
  BY KindFacts DEF Finds
<1>3. PICK r \in Nat \ {0} : /\ FirstOf(r, 4) \in 1 .. n /\ FirstOf(r, 4) + 1 \in 1 .. n
                             /\ j = p[FirstOf(r, 4)] /\ p[FirstOf(r, 4) + 1] = j + 1
                             /\ l[j].line.run = r
  BY <1>2, MatchesIs DEF Reads
<1>4. PICK m, e, o : m = Held(l, "param", j) /\ e = Held(l, "elapsed", j) /\ o = Held(l, "op", j)
  OBVIOUS
<1>5. PICK x \in BOOLEAN : x = (Extent(l, j) < 3)
  <2>1. (Extent(l, j) < 3) \in BOOLEAN
    OBVIOUS
  <2> QED BY <2>1, Zenon
<1>6. RecordAt(l, j) = [stage |-> stage, param |-> m, elapsed |-> e, op |-> o,
                        peeks |-> r, cut |-> x]
  BY <1>3, <1>4, <1>5 DEF RecordAt
<1>7. m \in Nat /\ e \in Nat /\ o \in Nat
  BY <1>1, <1>4, HeldType
<1>8. RecordAt(l, j) \in Record /\ RecordAt(l, j).stage = stage /\ RecordAt(l, j).peeks = r
      /\ RecordAt(l, j).cut = x
  BY <1>6, <1>7 DEF Record
<1>9. ASSUME ~Torn(l, r), NEW k \in 1 .. 3 PROVE Held(l, Kinds[k], j) = r
  <2>1. PICK q \in Nat \ {0} : q = FirstOf(r, k) /\ q + 2 <= FirstOf(r, 4)
    <3>1. k \in 1 .. 4 /\ FirstOf(r, k) + 2 <= FirstOf(r, 4)
      BY DEF FirstOf
    <3> QED BY <3>1, Firsts
  <2>2. q \in 1 .. n /\ q + 1 \in 1 .. n
    BY <1>1, <1>3, <2>1
  <2>3. RunAt(q) = r /\ KindAt(q) = k /\ PartAt(q) = 1
    <3>1. k \in 1 .. 4
      OBVIOUS
    <3> QED BY <2>1, <3>1, Firsts
  <2>4. PartAt(q) < NumParts(Kinds[KindAt(q)])
    BY <2>3 DEF NumParts
  <2>5. p[q] + 1 <= Len(l)
    BY <2>2, Behind
  <2>6. p[q + 1] = p[q] + 1
    BY <1>9, <2>2, <2>3, <2>4, <2>5, TornAt
  <2> QED BY <1>3, <2>1, <2>6, HeldIs
<1>10. ASSUME ~Torn(l, r) PROVE OfOneRun(RecordAt(l, j))
  <2>1. 1 \in 1 .. 3 /\ 2 \in 1 .. 3 /\ 3 \in 1 .. 3
    OBVIOUS
  <2>2. Held(l, Kinds[1], j) = r /\ Held(l, Kinds[2], j) = r /\ Held(l, Kinds[3], j) = r
    BY <1>9, <1>10, <2>1
  <2>3. m = r /\ e = r /\ o = r
    BY <1>4, <2>2, KindFacts
  <2> QED BY <1>6, <2>3 DEF OfOneRun
<1>11. ASSUME x, ~Torn(l, r) PROVE AtEnd(l, RecordAt(l, j)) /\ n = FirstOf(r, 4) + 1
  <2>1. PICK q, u, v \in Nat \ {0} : q = FirstOf(r, 4) /\ u = q + 1 /\ v = q + 2
    <3>1. PICK q \in Nat \ {0} : q = FirstOf(r, 4)
      BY <1>2, Firsts
    <3>2. q + 1 \in Nat \ {0} /\ q + 2 \in Nat \ {0}
      OBVIOUS
    <3> QED BY <3>1, <3>2
  <2>2. /\ RunAt(q) = r /\ KindAt(q) = 4 /\ PartAt(q) = 1
        /\ RunAt(u) = r /\ KindAt(u) = 4 /\ PartAt(u) = 2
        /\ RunAt(v) = r /\ KindAt(v) = 4 /\ PartAt(v) = 3
    BY <1>2, <2>1, Firsts
  <2>3. q \in 1 .. n /\ u \in 1 .. n /\ j = p[q] /\ j + 1 = p[u] /\ v = u + 1
    BY <1>3, <2>1
  <2>4. l[j] = PieceAt(q) /\ l[j + 1] = PieceAt(u)
    BY <2>3 DEF Streams
  <2>5. j + 1 \in 1 .. Len(l)
    BY <2>3, Behind
  <2>6. PartAt(u) < NumParts(Kinds[KindAt(u)])
    BY <2>2, KindFacts DEF NumParts
  <2>7. ASSUME j + 2 <= Len(l) PROVE FALSE
    <3>1. p[u] + 1 <= Len(l)
      BY <1>1, <1>2, <2>3, <2>7
    <3>2. v \in 1 .. n /\ p[v] = j + 2
      <4>1. u + 1 \in 1 .. n /\ p[u + 1] = p[u] + 1
        BY <1>11, <2>2, <2>3, <2>6, <3>1, TornAt
      <4> QED BY <1>2, <2>3, <4>1
    <3>3. l[j + 2] = PieceAt(v)
      BY <3>2 DEF Streams
    <3>4. /\ l[j + 1].line = l[j].line /\ l[j + 2].line = l[j].line
          /\ l[j].part = 1 /\ l[j + 1].part = 2 /\ l[j + 2].part = 3
      BY <2>2, <2>4, <3>3, PieceIs
    <3>5. Follows(l, j, 0) /\ Follows(l, j, 1) /\ Follows(l, j, 2)
      <4>1. j + 0 = j /\ 0 + 1 = 1 /\ 1 + 1 = 2 /\ 2 + 1 = 3 /\ j <= Len(l) /\ j + 1 <= Len(l)
        BY <1>2, <2>5
      <4> QED BY <2>7, <3>4, <4>1, Zenon DEF Follows
    <3>6. Extent(l, j) >= 3 /\ Extent(l, j) \in 0 .. 3
      BY <1>1, <1>2, <3>5, ExtentIs
    <3>7. ~(Extent(l, j) < 3)
      BY <3>6
    <3> QED BY <1>5, <1>11, <3>7
  <2>8. Len(l) = j + 1
    BY <1>1, <1>2, <2>5, <2>7
  <2>9. n = u
    <3>1. v \notin 1 .. n
      <4>1. v \in 1 .. n => p[u] + 1 <= Len(l)
        BY <2>3, Behind
      <4> QED BY <1>2, <2>3, <2>8, <4>1
    <3> QED BY <1>1, <2>1, <2>3, <3>1
  <2>10. AtEnd(l, RecordAt(l, j))
    <3>1. l[Len(l)].line = Line(Kinds[4], r)
      BY <2>2, <2>4, <2>8, PieceIs
    <3> QED BY <1>8, <3>1, KindFacts DEF AtEnd
  <2> QED BY <2>1, <2>9, <2>10
<1>12. /\ OfOneRun(RecordAt(l, j)) \/ Torn(l, r)
       /\ RecordAt(l, j).cut =>
            Torn(l, r) \/ (AtEnd(l, RecordAt(l, j)) /\ n = FirstOf(r, 4) + 1)
  BY <1>8, <1>10, <1>11
<1> QED BY <1>3, <1>8, <1>12

-----------------------------------------------------------------------------
(* The runs are in the order of their last lines.                          *)
LEMMA RunsAscend ==
  ASSUME NEW l, NEW n, NEW p, Streams(l, n, p), stage \in Nat,
         NEW i \in Finds(l, "peeks"), NEW j \in Finds(l, "peeks"), i < j
  PROVE  RecordAt(l, i).peeks < RecordAt(l, j).peeks
PROOF
<1>1. PICK r \in Nat \ {0} : FirstOf(r, 4) \in 1 .. n /\ i = p[FirstOf(r, 4)] /\ RecordAt(l, i).peeks = r
  BY RecordIs
<1>2. PICK s \in Nat \ {0} : FirstOf(s, 4) \in 1 .. n /\ j = p[FirstOf(s, 4)] /\ RecordAt(l, j).peeks = s
  BY RecordIs
<1>3. PICK a, b \in 1 .. n : a = FirstOf(r, 4) /\ b = FirstOf(s, 4)
  BY <1>1, <1>2
<1>4. i \in Nat /\ j \in Nat
  BY DEF Finds
<1>5. ~(b < a) /\ a # b
  <2>1. b < a => p[b] < p[a]
    BY DEF Streams
  <2> QED BY <1>1, <1>2, <1>3, <1>4, <2>1
<1>6. a < b
  BY <1>5
<1>7. r < s
  BY <1>3, <1>6 DEF FirstOf
<1> QED BY <1>1, <1>2, <1>7

(* What parse_output returns.                                              *)
LEMMA ReadIs ==
  ASSUME NEW l, NEW n, NEW p, Streams(l, n, p), stage \in Nat,
         NEW m, m = Cardinality(Finds(l, "peeks")), NEW read, read = parse_output(l)
  PROVE  /\ m \in Nat /\ read \in Seq(Record) /\ Len(read) = m
         /\ \A i \in 1 .. m : read[i].stage = stage
         /\ \A i, j \in 1 .. m : i < j => read[i].peeks < read[j].peeks
         /\ \A i \in 1 .. m : /\ OfOneRun(read[i]) \/ Torn(l, read[i].peeks)
                              /\ read[i].cut => Torn(l, read[i].peeks) \/ AtEnd(l, read[i])
         /\ \E e \in [1 .. m -> Finds(l, "peeks")] : \A i \in 1 .. m : read[i] = RecordAt(l, e[i])
PROOF
<1> DEFINE F == Finds(l, "peeks")
           ends == CHOOSE e \in [1 .. m -> F] : \A i, j \in 1 .. m : i < j => e[i] < e[j]
<1>1. l \in Seq(Piece)
  BY DEF Streams
<1>2. F \in SUBSET Nat /\ IsFiniteSet(F)
  BY <1>1, FindsFinite
<1>3. m \in Nat
  BY <1>2, FS_CardinalityType
<1>4. ends \in [1 .. m -> F] /\ \A i, j \in 1 .. m : i < j => ends[i] < ends[j]
  <2>1. \E e \in [1 .. m -> F] : \A i, j \in 1 .. m : i < j => e[i] < e[j]
    <3>1. m = Cardinality(F)
      OBVIOUS
    <3> HIDE DEF F
    <3> QED BY <1>2, <3>1, Enumerated
  <2> HIDE DEF F
  <2> QED BY <2>1
<1>5. read = [i \in 1 .. m |-> RecordAt(l, ends[i])]
  BY DEF parse_output
<1>6. PICK e : e = ends
  OBVIOUS
<1> HIDE DEF ends
<1>7. /\ e \in [1 .. m -> F]
      /\ \A i, j \in 1 .. m : i < j => e[i] < e[j]
      /\ \A i \in 1 .. m : read[i] = RecordAt(l, e[i])
      /\ DOMAIN read = 1 .. m
  BY <1>4, <1>5, <1>6
<1>8. ASSUME NEW i \in 1 .. m
      PROVE  /\ e[i] \in F /\ read[i] \in Record /\ read[i].stage = stage
             /\ OfOneRun(read[i]) \/ Torn(l, read[i].peeks)
             /\ read[i].cut => Torn(l, read[i].peeks) \/ AtEnd(l, read[i])
  <2>1. e[i] \in F
    BY <1>7
  <2> QED BY <1>7, <2>1, RecordIs
<1>9. read \in Seq(Record) /\ Len(read) = m
  <2>1. read = [i \in 1 .. m |-> read[i]]
    BY <1>5
  <2> HIDE DEF F
  <2>2. read \in [1 .. m -> Record]
    BY <1>8, <2>1
  <2> QED BY <1>3, <2>2
<1>10. ASSUME NEW i \in 1 .. m, NEW j \in 1 .. m, i < j PROVE read[i].peeks < read[j].peeks
  BY <1>7, <1>8, <1>10, RunsAscend
<1> QED BY <1>3, <1>7, <1>8, <1>9, <1>10

(* Records of different runs that messages have torn are no more than the  *)
(* messages.                                                               *)
LEMMA TornCount ==
  ASSUME NEW l \in Seq(Piece), NEW records \in Seq(Record), NEW X \in SUBSET (1 .. Len(records)),
         \A i, j \in X : i < j => records[i].peeks < records[j].peeks,
         \A i \in X : Torn(l, records[i].peeks)
  PROVE  Cardinality(X) <= Cardinality(Messages(l))
PROOF
<1> DEFINE Tears(x, run) == /\ l[x].line.run = run /\ l[x].part < NumParts(l[x].line.kind)
                            /\ l[x + 1] = Message
           g == [i \in X |-> 1 + CHOOSE x \in 1 .. Len(l) - 1 : Tears(x, records[i].peeks)]
<1>1. Len(l) \in Nat /\ Len(records) \in Nat
  OBVIOUS
<1>2. IsFiniteSet(Messages(l))
  <2>1. Messages(l) \in SUBSET (1 .. Len(l)) /\ IsFiniteSet(1 .. Len(l))
    BY <1>1, FS_Interval DEF Messages
  <2> QED BY <2>1, FS_Subset
<1>3. ASSUME NEW i \in X
      PROVE  \E x \in 1 .. Len(l) - 1 : /\ g[i] = x + 1 /\ x + 1 \in Messages(l)
                                        /\ l[x].line.run = records[i].peeks
  <2>1. \E x \in 1 .. Len(l) - 1 : Tears(x, records[i].peeks)
    BY DEF Torn
  <2>2. PICK x : x = CHOOSE y \in 1 .. Len(l) - 1 : Tears(y, records[i].peeks)
    OBVIOUS
  <2>3. g[i] = 1 + x
    BY <2>2
  <2> HIDE DEF g
  <2>4. x \in 1 .. Len(l) - 1 /\ Tears(x, records[i].peeks)
    <3> HIDE DEF Tears
    <3> QED BY <2>1, <2>2
  <2>5. x + 1 \in 1 .. Len(l) /\ l[x + 1] = Message /\ g[i] = x + 1
    BY <1>1, <2>3, <2>4
  <2> QED BY <2>4, <2>5 DEF Messages
<1>4. g \in [X -> Messages(l)]
  <2>1. \A i \in X : g[i] \in Messages(l)
    BY <1>3
  <2>2. g = [i \in X |-> g[i]]
    OBVIOUS
  <2> HIDE DEF g
  <2> QED BY <2>1, <2>2
<1>5. ASSUME NEW i \in X, NEW j \in X, g[i] = g[j] PROVE i = j
  <2> HIDE DEF g
  <2>1. records[i].peeks = records[j].peeks
    <3>1. PICK x \in 1 .. Len(l) - 1 : g[i] = x + 1 /\ l[x].line.run = records[i].peeks
      BY <1>3
    <3>2. PICK y \in 1 .. Len(l) - 1 : g[j] = y + 1 /\ l[y].line.run = records[j].peeks
      BY <1>3
    <3>3. x = y
      <4>1. x \in Int /\ y \in Int
        BY <1>1
      <4>2. x + 1 = y + 1
        BY <1>5, <3>1, <3>2, Zenon
      <4> QED BY <4>1, <4>2
    <3> QED BY <3>1, <3>2, <3>3
  <2>2. records[i].peeks \in Nat /\ records[j].peeks \in Nat
    <3>1. records[i] \in Record /\ records[j] \in Record
      OBVIOUS
    <3> QED BY <3>1 DEF Record
  <2>3. ~(i < j) /\ ~(j < i)
    BY <2>1, <2>2
  <2>4. i \in Int /\ j \in Int
    BY <1>1
  <2> QED BY <2>3, <2>4
<1>6. g \in Injection(X, Messages(l))
  <2> HIDE DEF g
  <2>1. DOMAIN g = X
    BY <1>4
  <2> QED BY <1>4, <1>5, <2>1 DEF Injection, IsInjective
<1> HIDE DEF g
<1> QED BY <1>2, <1>6, FS_Injection

-----------------------------------------------------------------------------
(* A log with all the lines of R runs makes R records, none cut short.     *)
LEMMA AllRead ==
  ASSUME NEW l, NEW n, NEW p, Streams(l, n, p), stage \in Nat, Messages(l) = {},
         NEW R \in Nat, n = 9 * R, NEW read, read = parse_output(l)
  PROVE  Len(read) = R /\ \A i \in 1 .. R : ~read[i].cut
PROOF
<1> DEFINE F == Finds(l, "peeks")
           g == [r \in 1 .. R |-> p[FirstOf(r, 4)]]
<1>1. l \in Seq(Piece) /\ Len(l) \in Nat /\ 4 \in 1 .. 4 /\ Kinds[4] = "peeks"
  BY KindFacts DEF Streams
<1>2. \A i \in 1 .. Len(l) : l[i] # Message
  BY DEF Messages
<1>3. ASSUME NEW run, Torn(l, run) PROVE FALSE
  <2>1. PICK i \in 1 .. Len(l) - 1 : l[i + 1] = Message
    BY <1>3 DEF Torn
  <2>2. i + 1 \in 1 .. Len(l)
    BY <1>1
  <2> QED BY <1>2, <2>1, <2>2
<1>4. ASSUME NEW r \in 1 .. R
      PROVE  FirstOf(r, 4) = 9 * (r - 1) + 7 /\ FirstOf(r, 4) \in 1 .. n /\ g[r] \in F
  <2>1. PICK q \in 1 .. n : q = FirstOf(r, 4) /\ q = 9 * (r - 1) + 7 /\ q + 1 \in 1 .. n
    <3>1. FirstOf(r, 4) = 9 * (r - 1) + 7
      BY DEF FirstOf
    <3>2. 9 * (r - 1) + 7 \in 1 .. n /\ 9 * (r - 1) + 8 \in 1 .. n
      OBVIOUS
    <3> QED BY <3>1, <3>2
  <2>2. PICK j \in 1 .. Len(l) : j = p[q] /\ j + 1 <= Len(l)
    BY <2>1, Behind
  <2>3. p[q + 1] = j + 1
    <3>1. j + 1 \in 1 .. Len(l)
      BY <1>1, <2>2
    <3>2. l[j + 1] # Message
      BY <1>2, <3>1
    <3> QED BY <2>2, <3>2, Behind
  <2>4. Matches(l, j, Kinds[4])
    <3>1. r \in Nat \ {0} /\ FirstOf(r, 4) + 1 \in 1 .. n /\ j = p[FirstOf(r, 4)]
          /\ p[FirstOf(r, 4) + 1] = j + 1
      BY <2>1, <2>2, <2>3
    <3> QED BY <1>1, <3>1, MatchesIs
  <2>5. j \in F
    BY <1>1, <2>2, <2>4 DEF Finds
  <2> QED BY <2>1, <2>2, <2>5
<1>5. ASSUME NEW j \in F PROVE \E r \in 1 .. R : j = p[FirstOf(r, 4)]
  <2>1. PICK r \in Nat \ {0} : FirstOf(r, 4) \in 1 .. n /\ j = p[FirstOf(r, 4)]
    BY RecordIs
  <2>2. r \in 1 .. R
    <3>1. FirstOf(r, 4) = 9 * (r - 1) + 7
      BY DEF FirstOf
    <3> QED BY <2>1, <3>1
  <2> QED BY <2>1, <2>2
<1>6. g \in Bijection(1 .. R, F)
  <2>1. g \in [1 .. R -> F]
    BY <1>4
  <2>2. ASSUME NEW r \in 1 .. R, NEW s \in 1 .. R, g[r] = g[s] PROVE r = s
    <3>1. PICK a, b \in 1 .. n : /\ a = FirstOf(r, 4) /\ b = FirstOf(s, 4)
                                 /\ a = 9 * (r - 1) + 7 /\ b = 9 * (s - 1) + 7
      BY <1>4
    <3>2. p[a] = p[b] /\ p[a] \in Int /\ p[b] \in Int
      <4>1. p[a] \in 1 .. Len(l) /\ p[b] \in 1 .. Len(l)
        BY Behind
      <4> QED BY <1>1, <2>2, <3>1, <4>1
    <3>3. ~(a < b) /\ ~(b < a)
      <4>1. (a < b => p[a] < p[b]) /\ (b < a => p[b] < p[a])
        BY DEF Streams
      <4> QED BY <3>2, <4>1
    <3>4. a = b
      BY <3>3
    <3> QED BY <3>1, <3>4
  <2>3. \A j \in F : \E r \in 1 .. R : g[r] = j
    <3>1. \A r \in 1 .. R : g[r] = p[FirstOf(r, 4)]
      OBVIOUS
    <3> HIDE DEF F, g
    <3> QED BY <1>5, <3>1
  <2> HIDE DEF F, g
  <2>4. DOMAIN g = 1 .. R
    BY <2>1
  <2>5. g \in Injection(1 .. R, F)
    BY <2>1, <2>2, <2>4 DEF Injection, IsInjective
  <2>6. g \in Surjection(1 .. R, F)
    BY <2>1, <2>3, <2>4 DEF Surjection
  <2> QED BY <2>5, <2>6 DEF Bijection
<1>7. Cardinality(F) = R
  <2> HIDE DEF F, g
  <2>2. ExistsBijection(1 .. R, F)
    BY <1>6 DEF ExistsBijection
  <2> QED BY <2>2, FS_CountingElements
<1>8. PICK m : m = Cardinality(F)
  OBVIOUS
<1>9. m = R /\ Len(read) = m
  BY <1>7, <1>8, ReadIs
<1>10. PICK e \in [1 .. m -> F] : \A i \in 1 .. m : read[i] = RecordAt(l, e[i])
  BY <1>8, ReadIs
<1>11. ASSUME NEW i \in 1 .. R, read[i].cut PROVE FALSE
  <2>1. e[i] \in F /\ read[i] = RecordAt(l, e[i])
    BY <1>9, <1>10
  <2>2. PICK r \in Nat \ {0} : n = FirstOf(r, 4) + 1
    BY <1>3, <1>11, <2>1, RecordIs
  <2>3. n = 9 * (r - 1) + 8
    BY <2>2 DEF FirstOf
  <2> QED BY <2>3
<1> QED BY <1>9, <1>11

(* The pieces of the line that is printed next.                            *)
LEMMA PiecesAre ==
  ASSUME NEW p \in Nat, NEW ln, ln = Line(Kinds[(p % 4) + 1], p \div 4 + 1)
  PROVE  /\ Pieces(ln) \in Seq(Piece) /\ Len(Pieces(ln)) \in 2 .. 3
         /\ Size(p) \in Nat /\ Size(p + 1) = Size(p) + Len(Pieces(ln))
         /\ \A k \in 1 .. Len(Pieces(ln)) : Pieces(ln)[k] = PieceAt(Size(p) + k)
PROOF
<1>1. PICK x, y \in Nat : x = p \div 4 /\ y = p % 4 /\ y <= 3 /\ p = 4 * x + y
  BY SMT
<1>2. PICK r \in Nat \ {0}, k \in 1 .. 4 : r = x + 1 /\ k = y + 1
  <2>1. x + 1 \in Nat \ {0} /\ y + 1 \in 1 .. 4
    BY <1>1
  <2> QED BY <2>1
<1>3. ln = Line(Kinds[k], r)
  BY <1>1, <1>2
<1>4. Size(p) = 9 * x + 2 * y /\ Size(p) \in Nat
  BY <1>1 DEF Size
<1>5. Size(p + 1) = Size(p) + (IF k = 4 THEN 3 ELSE 2)
  <2>1. (p + 1) \div 4 = (IF k = 4 THEN x + 1 ELSE x) /\ (p + 1) % 4 = (IF k = 4 THEN 0 ELSE y + 1)
    BY <1>1, <1>2
  <2> QED BY <1>1, <1>2, <1>4, <2>1 DEF Size
<1>6. ln.kind = Kinds[k]
  BY <1>3 DEF Line
<1>7. NumParts(ln.kind) = (IF k = 4 THEN 3 ELSE 2)
  BY <1>6, KindFacts DEF NumParts
<1>8. PICK n \in 2 .. 3 : n = (IF k = 4 THEN 3 ELSE 2)
  <2>1. (IF k = 4 THEN 3 ELSE 2) \in 2 .. 3
    OBVIOUS
  <2> QED BY <2>1
<1>9. Pieces(ln) = [i \in 1 .. n |-> [line |-> ln, part |-> i]]
  BY <1>7, <1>8 DEF Pieces
<1>10. PICK q \in Nat \ {0} : q = FirstOf(r, k) /\ q = Size(p) + 1
  <2>1. FirstOf(r, k) = Size(p) + 1
    BY <1>1, <1>2, <1>4 DEF FirstOf
  <2>2. Size(p) + 1 \in Nat \ {0}
    BY <1>4
  <2> QED BY <2>1, <2>2
<1>11. /\ PieceAt(q) = [line |-> ln, part |-> 1]
       /\ PieceAt(q + 1) = [line |-> ln, part |-> 2]
       /\ k = 4 => PieceAt(q + 2) = [line |-> ln, part |-> 3]
  <2>1. /\ RunAt(q) = r /\ KindAt(q) = k /\ PartAt(q) = 1
        /\ RunAt(q + 1) = r /\ KindAt(q + 1) = k /\ PartAt(q + 1) = 2
        /\ k = 4 => RunAt(q + 2) = r /\ KindAt(q + 2) = k /\ PartAt(q + 2) = 3
    <3>1. q = FirstOf(r, k)
      BY <1>10
    <3> QED BY <3>1, Firsts, Zenon
  <2> QED BY <1>3, <2>1 DEF PieceAt
<1>12. ASSUME NEW i \in 1 .. n PROVE [line |-> ln, part |-> i] = PieceAt(Size(p) + i)
  <2>1. i = 1 \/ i = 2 \/ (i = 3 /\ k = 4)
    BY <1>8
  <2>2. CASE i = 1
    BY <1>10, <1>11, <2>2
  <2>3. CASE i = 2
    <3>1. Size(p) + 2 = q + 1
      BY <1>4, <1>10
    <3> QED BY <1>11, <2>3, <3>1
  <2>4. CASE i = 3 /\ k = 4
    <3>1. Size(p) + 3 = q + 2
      BY <1>4, <1>10
    <3> QED BY <1>11, <2>4, <3>1
  <2> QED BY <2>1, <2>2, <2>3, <2>4
<1>13. ASSUME NEW i \in 1 .. n PROVE PieceAt(Size(p) + i) \in Piece
  <2>1. Size(p) + i \in Nat \ {0}
    BY <1>4
  <2> QED BY <2>1, PieceIs
<1>14. Pieces(ln) \in [1 .. n -> Piece]
  <2>1. \A i \in 1 .. n : [line |-> ln, part |-> i] \in Piece
    BY <1>12, <1>13
  <2> QED BY <1>9, <2>1, Zenon
<1>15. Pieces(ln) \in Seq(Piece) /\ Len(Pieces(ln)) = n
  BY <1>8, <1>14
<1> QED BY <1>4, <1>5, <1>8, <1>9, <1>12, <1>15

-----------------------------------------------------------------------------
(* The current stage is one of the stages.                                 *)
StageInv == stage \in 1 .. Len(Stages)

(* The first n pieces printed are in the log, at places p, and the others  *)
(* in the buffer.                                                          *)
Printed(n, p) ==
  /\ Streams(log, n, p) /\ n + Len(buffer) = Size(position)
  /\ \A q \in 1 .. Len(buffer) : buffer[q] = PieceAt(n + q)

(* What is in the log and in the buffer are the pieces of the lines        *)
(* printed so far.                                                         *)
StreamInv ==
  pc = "running" =>
    /\ position \in 0 .. Len(Lines) /\ buffer \in Seq(Piece)
    /\ \E n \in Nat : \E p : Printed(n, p)

(* The log that is parsed shows some of these pieces; if all lines are     *)
(* printed and none was lost, all of them.                                 *)
LogInv ==
  pc \in {"parse", "dump"} =>
    \E n \in Nat : \E p :
      /\ Streams(log, n, p)
      /\ position = Len(Lines) /\ buffer = << >> => n = 9 * Stages[stage].runs

(* The benchmark has printed everything, nothing is lost and no message is *)
(* in the log.                                                             *)
Whole == position = Len(Lines) /\ buffer = << >> /\ Messages(log) = {}

(* Runs of a stage ascend.                                                 *)
Ordered(records) ==
  \A i, j \in 1 .. Len(records) :
    i < j /\ records[i].stage = records[j].stage => records[i].peeks < records[j].peeks

(* The records of earlier stages come first, then those of this one.       *)
OfThisStage(records) ==
  \E n \in 0 .. Len(records) :
    /\ \A i \in 1 .. n : records[i].stage < stage
    /\ \A i \in n + 1 .. Len(records) : /\ records[i].stage = stage
                                        /\ Whole => ~records[i].cut
    /\ Whole => Len(records) = n + Stages[stage].runs

(* No more records of this stage are spoilt than there are messages.       *)
FewSpoilt(records) ==
  Cardinality({r \in 1 .. Len(records) : records[r].stage = stage /\ Spoilt(log, records[r])})
    <= Cardinality(Messages(log))

(* The results so far, in each phase of a stage.                           *)
ResultsInv ==
  /\ results \in Seq(Record) /\ Ordered(results)
  /\ pc \in {"stage", "running", "parse"} =>
       \A i \in 1 .. Len(results) : results[i].stage < stage
  /\ pc = "dump" => OfThisStage(results) /\ FewSpoilt(results)

(* A file that exists belongs to an earlier stage, and no stage to come    *)
(* writes it; without a log directory nothing has been written.            *)
JsonInv ==
  /\ pc \in {"stage", "running", "parse", "dump"} => logDir
  /\ ~logDir => DOMAIN json = {}
  /\ pc \in {"stage", "running", "parse", "dump"} =>
       \A f \in DOMAIN json : \E s \in 1 .. stage - 1 :
         Stages[s].out = f /\ Stages[s + 1].out # f

(* The inductive invariant.                                                *)
BatchInv == StageInv /\ StreamInv /\ LogInv /\ ResultsInv /\ JsonInv

-----------------------------------------------------------------------------
(* Further pieces make a log longer.                                       *)
LEMMA Extended ==
  ASSUME NEW a, NEW n, NEW p, Streams(a, n, p), NEW b \in Seq(Piece),
         \A q \in 1 .. Len(b) : b[q] = PieceAt(n + q), NEW l, l = a \o b
  PROVE  \E z : Streams(l, n + Len(b), z)
PROOF
<1>1. PICK x, y \in Nat : x = Len(a) /\ y = Len(b)
  BY DEF Streams
<1>2. /\ a \in Seq(Piece) /\ n \in Nat /\ p \in [1 .. n -> 1 .. x]
      /\ \A q, u \in 1 .. n : q < u => p[q] < p[u]
      /\ \A q \in 1 .. n : a[p[q]] = PieceAt(q)
      /\ \A j \in 1 .. x : a[j] = Message \/ \E q \in 1 .. n : j = p[q]
  BY <1>1 DEF Streams
<1>3. /\ l \in Seq(Piece) /\ Len(l) = x + y
      /\ \A j \in 1 .. x : l[j] = a[j]
  BY <1>1, <1>2
<1>4. ASSUME NEW q \in 1 .. y PROVE l[x + q] = PieceAt(n + q)
  <2>1. x + q \in 1 .. x + y /\ x + q > x /\ (x + q) - x = q
    OBVIOUS
  <2>2. l[x + q] = b[q]
    BY <1>1, <1>2, <2>1
  <2> QED BY <1>1, <2>2
<1>5. PICK z : z = [q \in 1 .. n + y |-> IF q <= n THEN p[q] ELSE x + (q - n)]
  OBVIOUS
<1>6. /\ DOMAIN z = 1 .. n + y
      /\ \A q \in 1 .. n : z[q] = p[q] /\ p[q] \in 1 .. x
      /\ \A q \in 1 .. y : n + q \in 1 .. n + y /\ z[n + q] = x + q
  <2>1. DOMAIN z = 1 .. n + y
    BY <1>5
  <2>2. \A q \in 1 .. n : z[q] = p[q] /\ p[q] \in 1 .. x
    BY <1>2, <1>5
  <2>3. ASSUME NEW q \in 1 .. y PROVE n + q \in 1 .. n + y /\ z[n + q] = x + q
    <3>1. n + q \in 1 .. n + y /\ ~(n + q <= n) /\ (n + q) - n = q
      BY <1>2
    <3> QED BY <1>5, <3>1
  <2> QED BY <2>1, <2>2, <2>3
<1>7. ASSUME NEW q \in 1 .. n + y
      PROVE  q \in 1 .. n \/ \E i \in 1 .. y : q = n + i
  <2>1. q \in 1 .. n \/ (q - n \in 1 .. y /\ q = n + (q - n))
    BY <1>2
  <2> QED BY <2>1
<1>8. ASSUME NEW q \in 1 .. n + y PROVE z[q] \in 1 .. x + y /\ l[z[q]] = PieceAt(q)
  <2>1. CASE q \in 1 .. n
    <3>1. z[q] = p[q] /\ p[q] \in 1 .. x
      BY <1>6, <2>1
    <3>2. l[p[q]] = a[p[q]] /\ a[p[q]] = PieceAt(q)
      BY <1>2, <1>3, <2>1, <3>1
    <3>3. p[q] \in 1 .. x + y
      BY <3>1
    <3> QED BY <3>1, <3>2, <3>3
  <2>2. CASE \E i \in 1 .. y : q = n + i
    <3>1. PICK i \in 1 .. y : q = n + i
      BY <2>2
    <3>2. z[q] = x + i /\ x + i \in 1 .. x + y
      BY <1>6, <3>1
    <3> QED BY <1>4, <3>1, <3>2
  <2> QED BY <1>7, <2>1, <2>2
<1>9. ASSUME NEW q \in 1 .. n + y, NEW u \in 1 .. n + y, q < u PROVE z[q] < z[u]
  <2>1. CASE q \in 1 .. n /\ u \in 1 .. n
    BY <1>2, <1>6, <1>9, <2>1
  <2>2. CASE u \notin 1 .. n
    <3>1. PICK i \in 1 .. y : u = n + i
      BY <1>7, <2>2
    <3>2. z[u] = x + i
      BY <1>6, <3>1
    <3>3. CASE q \in 1 .. n
      <4>1. z[q] \in 1 .. x
        BY <1>6, <3>3
      <4> QED BY <3>2, <4>1
    <3>4. CASE q \notin 1 .. n
      <4>1. PICK k \in 1 .. y : q = n + k
        BY <1>7, <3>4
      <4>2. z[q] = x + k /\ k < i
        BY <1>2, <1>6, <1>9, <3>1, <4>1
      <4> QED BY <3>2, <4>2
    <3> QED BY <3>3, <3>4
  <2>3. CASE q \notin 1 .. n /\ u \in 1 .. n
    BY <1>2, <1>9, <2>3
  <2> QED BY <2>1, <2>2, <2>3
<1>10. ASSUME NEW j \in 1 .. x + y PROVE l[j] = Message \/ \E q \in 1 .. n + y : j = z[q]
  <2>1. CASE j <= x
    <3>1. j \in 1 .. x
      BY <2>1
    <3>2. l[j] = a[j]
      BY <1>3, <3>1
    <3>3. ASSUME a[j] # Message PROVE \E q \in 1 .. n + y : j = z[q]
      <4>1. PICK q \in 1 .. n : j = p[q]
        BY <1>2, <3>1, <3>3
      <4>2. j = z[q] /\ q \in 1 .. n + y
        BY <1>2, <1>6, <4>1
      <4> QED BY <4>2
    <3> QED BY <3>2, <3>3
  <2>2. CASE j > x
    <3>1. PICK i \in 1 .. y : j = x + i
      <4>1. j - x \in 1 .. y /\ j = x + (j - x)
        BY <2>2
      <4> QED BY <4>1
    <3>2. j = z[n + i] /\ n + i \in 1 .. n + y
      BY <1>6, <3>1
    <3> QED BY <3>2
  <2>3. j <= x \/ j > x
    OBVIOUS
  <2> QED BY <2>1, <2>2, <2>3, Zenon
<1>11. z \in [1 .. n + y -> 1 .. x + y]
  <2>1. z = [q \in 1 .. n + y |-> z[q]]
    BY <1>5
  <2> QED BY <1>8, <2>1
<1>12. n + y \in Nat /\ n + Len(b) = n + y
  BY <1>1, <1>2
<1>13. Streams(l, n + y, z)
  BY <1>3, <1>8, <1>9, <1>10, <1>11, <1>12 DEF Streams
<1> QED BY <1>12, <1>13

(* A message at the end shifts nothing.                                    *)
LEMMA Noted ==
  ASSUME NEW a, NEW n, NEW p, Streams(a, n, p), NEW l, l = Append(a, Message)
  PROVE  Streams(l, n, p)
PROOF
<1>1. PICK x \in Nat : x = Len(a)
  BY DEF Streams
<1>2. /\ a \in Seq(Piece) /\ n \in Nat /\ p \in [1 .. n -> 1 .. x]
      /\ \A q, u \in 1 .. n : q < u => p[q] < p[u]
      /\ \A q \in 1 .. n : a[p[q]] = PieceAt(q)
      /\ \A j \in 1 .. x : a[j] = Message \/ \E q \in 1 .. n : j = p[q]
  BY <1>1 DEF Streams
<1>3. /\ l \in Seq(Piece) /\ Len(l) = x + 1 /\ l[x + 1] = Message
      /\ \A j \in 1 .. x : l[j] = a[j]
  BY <1>1, <1>2, MessageIs
<1>4. p \in [1 .. n -> 1 .. x + 1] /\ \A q \in 1 .. n : p[q] \in 1 .. x
  <2>1. \A j \in 1 .. x : j \in 1 .. x + 1
    OBVIOUS
  <2> QED BY <1>2, <2>1
<1>5. \A q \in 1 .. n : l[p[q]] = PieceAt(q)
  BY <1>2, <1>3, <1>4
<1>6. ASSUME NEW j \in 1 .. x + 1 PROVE l[j] = Message \/ \E q \in 1 .. n : j = p[q]
  <2>1. j \in 1 .. x \/ j = x + 1
    OBVIOUS
  <2> QED BY <1>2, <1>3, <2>1
<1> QED BY <1>2, <1>3, <1>4, <1>5, <1>6 DEF Streams

(* An empty log shows nothing.                                             *)
LEMMA Fresh == \E p : Streams(<< >>, 0, p)
PROOF
<1>1. PICK p : p = [q \in {} |-> 1]
  OBVIOUS
<1>2. 1 .. 0 = {} /\ Len(<< >>) = 0 /\ << >> \in Seq(Piece)
  OBVIOUS
<1>3. p \in [{} -> {}]
  BY <1>1
<1>4. p \in [1 .. 0 -> 1 .. Len(<< >>)]
  BY <1>2, <1>3, Zenon
<1>5. \A q \in 1 .. 0 : FALSE
  BY <1>2, Zenon
<1>6. \A q \in 1 .. Len(<< >>) : FALSE
  BY <1>2, Zenon
<1>7. 0 \in Nat
  OBVIOUS
<1>8. Streams(<< >>, 0, p)
  BY <1>2, <1>4, <1>5, <1>6, <1>7, Zenon DEF Streams
<1> QED BY <1>8

(* The transcript of a stage, and its size in pieces.                      *)
LEMMA LinesAre ==
  ASSUME StageInv
  PROVE  /\ Stages[stage].runs \in Nat \ {0}
         /\ Len(Lines) = 4 * Stages[stage].runs /\ Len(Lines) \in Nat
         /\ \A p \in 0 .. Len(Lines) - 1 : Lines[p + 1] = Line(Kinds[(p % 4) + 1], p \div 4 + 1)
         /\ Size(Len(Lines)) = 9 * Stages[stage].runs
PROOF
<1>1. PICK R \in Nat \ {0} : R = Stages[stage].runs
  BY StagesAssumption DEF StageInv
<1>2. 4 * R \in Nat /\ (4 * R) \div 4 = R /\ (4 * R) % 4 = 0
  OBVIOUS
<1>3. Lines = [k \in 1 .. 4 * R |-> Line(Kinds[((k - 1) % 4) + 1], (k - 1) \div 4 + 1)]
  BY <1>1 DEF Lines, Transcript
<1>4. DOMAIN Lines = 1 .. 4 * R
  BY <1>3, Zenon
<1>5. Len(Lines) = 4 * R
  <2> DEFINE u == [k \in 1 .. 4 * R |-> Line(Kinds[((k - 1) % 4) + 1], (k - 1) \div 4 + 1)]
  <2> HIDE DEF u
  <2>1. PICK N \in Nat : N = 4 * R
    BY <1>2
  <2>2. DOMAIN Lines = 1 .. N
    BY <1>4, <2>1
  <2> QED BY <2>1, <2>2
<1>6. ASSUME NEW p \in 0 .. 4 * R - 1
      PROVE  Lines[p + 1] = Line(Kinds[(p % 4) + 1], p \div 4 + 1)
  <2>1. PICK k \in 1 .. 4 * R : k = p + 1 /\ k - 1 = p
    BY <1>2
  <2>2. Lines[k] = Line(Kinds[((k - 1) % 4) + 1], (k - 1) \div 4 + 1)
    BY <1>3, Zenon
  <2> QED BY <2>1, <2>2
<1> QED BY <1>1, <1>2, <1>5, <1>6 DEF Size

-----------------------------------------------------------------------------
(* The results with the records of the log that is parsed.                 *)
LEMMA Parsed ==
  ASSUME BatchInv, pc = "parse", NEW res, res = results \o parse_output(log)
  PROVE  /\ res \in Seq(Record) /\ Ordered(res) /\ OfThisStage(res) /\ FewSpoilt(res)
PROOF
<1>1. PICK c \in Nat : \E p :
        /\ Streams(log, c, p)
        /\ position = Len(Lines) /\ buffer = << >> => c = 9 * Stages[stage].runs
  BY DEF BatchInv, LogInv
<1>a. PICK p : Streams(log, c, p)
  BY <1>1
<1>2. stage \in Nat /\ log \in Seq(Piece)
  BY <1>a, StagesAssumption DEF BatchInv, StageInv, Streams
<1>3. PICK read : read = parse_output(log)
  OBVIOUS
<1>4. PICK m : m = Cardinality(Finds(log, "peeks"))
  OBVIOUS
<1>5. /\ m \in Nat /\ read \in Seq(Record) /\ Len(read) = m
      /\ \A i \in 1 .. m : read[i].stage = stage
      /\ \A i, j \in 1 .. m : i < j => read[i].peeks < read[j].peeks
      /\ \A i \in 1 .. m : /\ OfOneRun(read[i]) \/ Torn(log, read[i].peeks)
                           /\ read[i].cut => Torn(log, read[i].peeks) \/ AtEnd(log, read[i])
  BY <1>a, <1>2, <1>3, <1>4, ReadIs
<1>6. PICK n \in Nat : n = Len(results)
  BY DEF BatchInv, ResultsInv
<1>7. /\ results \in Seq(Record) /\ Ordered(results)
      /\ \A i \in 1 .. n : results[i].stage < stage
  BY <1>6 DEF BatchInv, ResultsInv
<1>8. /\ res \in Seq(Record) /\ Len(res) = n + m
      /\ \A i \in 1 .. n : res[i] = results[i]
      /\ \A i \in 1 .. m : res[n + i] = read[i]
  <2>1. res = results \o read
    BY <1>3
  <2>2. results \in Seq(Record) /\ read \in Seq(Record) /\ n = Len(results) /\ m = Len(read)
    BY <1>5, <1>6, <1>7
  <2>3. res \in Seq(Record) /\ Len(res) = n + m
    BY <2>1, <2>2
  <2>4. \A i \in 1 .. n : res[i] = results[i]
    BY <2>1, <2>2, <1>5
  <2>5. ASSUME NEW i \in 1 .. m PROVE res[n + i] = read[i]
    <3>1. n + i \in 1 .. n + m /\ n + i > n /\ (n + i) - n = i
      BY <1>5
    <3> QED BY <2>1, <2>2, <3>1
  <2> QED BY <2>3, <2>4, <2>5
<1>9. ASSUME NEW i \in 1 .. n + m
      PROVE  \/ i \in 1 .. n /\ res[i] = results[i] /\ res[i].stage < stage
             \/ \E k \in 1 .. m : i = n + k /\ res[i] = read[k] /\ res[i].stage = stage
  <2>1. CASE i <= n
    <3>1. i \in 1 .. n
      BY <1>6, <2>1
    <3> QED BY <1>7, <1>8, <3>1
  <2>2. CASE i > n
    <3>1. PICK k \in 1 .. m : i = n + k
      <4>1. i - n \in 1 .. m /\ i = n + (i - n)
        BY <1>5, <1>6, <2>2
      <4> QED BY <4>1
    <3> QED BY <1>5, <1>8, <3>1
  <2>3. i \in Int
    BY <1>5
  <2>4. i <= n \/ i > n
    BY <2>3
  <2> QED BY <2>1, <2>2, <2>4
<1>10. ASSUME NEW i \in 1 .. n + m, NEW j \in 1 .. n + m, i < j, res[i].stage = res[j].stage
       PROVE  res[i].peeks < res[j].peeks
  <2>1. CASE i \in 1 .. n
    <3>1. res[j].stage # stage
      <4>1. results[i] \in Record /\ res[i] = results[i] /\ results[i].stage < stage
        BY <1>6, <1>7, <1>8, <2>1
      <4>2. results[i].stage \in Nat
        BY <4>1 DEF Record
      <4>3. results[i].stage # stage
        BY <1>2, <4>1, <4>2
      <4> QED BY <1>10, <4>1, <4>3
    <3>2. j \in 1 .. n /\ res[j] = results[j] /\ res[i] = results[i]
      BY <1>8, <1>9, <2>1, <3>1
    <3> QED BY <1>6, <1>7, <1>10, <2>1, <3>2 DEF Ordered
  <2>2. CASE i \notin 1 .. n
    <3>1. PICK k \in 1 .. m : i = n + k /\ res[i] = read[k]
      BY <1>9, <2>2
    <3>2. j \notin 1 .. n
      BY <1>5, <1>6, <1>10, <3>1
    <3>3. PICK q \in 1 .. m : j = n + q /\ res[j] = read[q]
      BY <1>9, <3>2
    <3>4. k < q
      BY <1>5, <1>6, <1>10, <3>1, <3>3
    <3> QED BY <1>5, <3>1, <3>3, <3>4
  <2> QED BY <2>1, <2>2
<1>11. FewSpoilt(res)
  <2>1. PICK X : X = {r \in 1 .. Len(res) : res[r].stage = stage /\ Spoilt(log, res[r])}
    OBVIOUS
  <2>2. ASSUME NEW i \in X PROVE i \in 1 .. n + m /\ Torn(log, res[i].peeks) /\ res[i].stage = stage
    <3>1. i \in 1 .. n + m /\ res[i].stage = stage /\ Spoilt(log, res[i])
      BY <1>8, <2>1
    <3>2. i \notin 1 .. n
      <4>1. SUFFICES ASSUME i \in 1 .. n PROVE FALSE
        OBVIOUS
      <4>2. res[i] = results[i] /\ results[i] \in Record /\ results[i].stage < stage
        BY <1>6, <1>7, <1>8, <4>1
      <4>3. results[i].stage \in Nat
        BY <4>2 DEF Record
      <4> QED BY <1>2, <3>1, <4>2, <4>3
    <3>3. PICK q \in 1 .. m : res[i] = read[q]
      BY <1>9, <3>1, <3>2
    <3>4. Spoilt(log, read[q]) => Torn(log, read[q].peeks)
      BY <1>5 DEF Spoilt
    <3> QED BY <3>1, <3>3, <3>4
  <2>3. X \in SUBSET (1 .. Len(res))
    BY <2>1
  <2>4. ASSUME NEW i \in X, NEW j \in X, i < j PROVE res[i].peeks < res[j].peeks
    BY <1>10, <2>2, <2>4
  <2>5. Cardinality(X) <= Cardinality(Messages(log))
    BY <1>2, <1>8, <2>2, <2>3, <2>4, TornCount
  <2> QED BY <2>1, <2>5 DEF FewSpoilt
<1>12. ASSUME Whole PROVE m = Stages[stage].runs /\ \A i \in 1 .. m : ~read[i].cut
  <2>1. Messages(log) = {}
    BY <1>12 DEF Whole
  <2>2. PICK w : Streams(log, c, w) /\ c = 9 * Stages[stage].runs
    BY <1>1, <1>12 DEF Whole
  <2>3. PICK R \in Nat : R = Stages[stage].runs
    BY LinesAre DEF BatchInv
  <2>4. c = 9 * R
    BY <2>2, <2>3
  <2>5. Len(read) = R /\ \A i \in 1 .. R : ~read[i].cut
    BY <1>2, <1>3, <2>1, <2>2, <2>4, AllRead
  <2> QED BY <1>5, <2>3, <2>5
<1>13. OfThisStage(res)
  <2>1. n \in 0 .. Len(res)
    BY <1>5, <1>6, <1>8
  <2>2. \A i \in 1 .. n : res[i].stage < stage
    BY <1>7, <1>8
  <2>3. ASSUME NEW i \in n + 1 .. Len(res) PROVE res[i].stage = stage /\ (Whole => ~res[i].cut)
    <3>1. i \in 1 .. n + m /\ i \notin 1 .. n
      BY <1>5, <1>6, <1>8, <2>3
    <3>2. PICK k \in 1 .. m : res[i] = read[k] /\ res[i].stage = stage
      BY <1>9, <3>1
    <3> QED BY <1>12, <3>2
  <2>4. Whole => Len(res) = n + Stages[stage].runs
    BY <1>8, <1>12
  <2> QED BY <2>1, <2>2, <2>3, <2>4 DEF OfThisStage
<1> QED BY <1>8, <1>10, <1>11, <1>13 DEF Ordered

-----------------------------------------------------------------------------
(* batch.py starts with the invariant.                                     *)
LEMMA InitInv ==
  ASSUME Init PROVE BatchInv
PROOF
<1>1. StageInv
  BY StagesAssumption DEF Init, StageInv
<1>2. StreamInv /\ LogInv
  BY DEF Init, StreamInv, LogInv
<1>3. ResultsInv
  BY DEF Init, ResultsInv, Ordered
<1>4. JsonInv
  <2>1. DOMAIN json = {}
    BY DEF Init
  <2> QED BY <2>1 DEF Init, JsonInv
<1> QED BY <1>1, <1>2, <1>3, <1>4 DEF BatchInv

(* batch.py stays within its stages (batch.py:171-221).                    *)
LEMMA StageStep ==
  ASSUME BatchInv, [Next]_vars PROVE StageInv'
PROOF
<1>1. stage \in 1 .. Len(Stages) /\ Len(Stages) \in Nat /\ 1 \in 1 .. Len(Stages)
  BY StagesAssumption DEF BatchInv, StageInv
<1>2. stage' = stage \/ stage' = 1 \/ (stage' = stage + 1 /\ stage # Len(Stages))
  BY DEF Next, Start, Spawn, Parse, Dump, PrintLine, Flush, ScriptWarns, Returns, ExitsWithMessage,
         Killed, Interrupt, StartAgain, LoadNotebook, vars, benchVars
<1>3. stage' \in 1 .. Len(Stages)
  BY <1>1, <1>2
<1> QED BY <1>3 DEF StageInv

(* Printing puts pieces in the buffer, flushing moves them to the log, a   *)
(* message goes between them; the order stays (batch.py:145).              *)
LEMMA StreamStep ==
  ASSUME BatchInv, [Next]_vars PROVE StreamInv'
PROOF
<1> SUFFICES ASSUME pc' = "running"
             PROVE  StreamInv'
  BY DEF StreamInv
<1>1. StageInv
  BY DEF BatchInv
<1>2. Len(Lines) \in Nat
  BY <1>1, LinesAre
<1>3. CASE Spawn
  <2>1. position' = 0 /\ buffer' = << >> /\ log' = << >> /\ stage' = stage
    BY <1>3 DEF Spawn
  <2>2. Size(0) = 0 /\ 0 \in Nat /\ Len(<< >>) = 0
    BY DEF Size
  <2>3. Len(Lines)' = Len(Lines)
    BY <2>1 DEF Lines
  <2>4. PICK p : Streams(<< >>, 0, p)
    BY Fresh
  <2>5. Printed(0, p)'
    BY <2>1, <2>2, <2>4 DEF Printed
  <2>6. position' \in 0 .. Len(Lines)' /\ buffer' \in Seq(Piece)
    BY <1>2, <2>1, <2>3
  <2> QED BY <2>2, <2>5, <2>6 DEF StreamInv
<1>4. CASE PrintLine
  <2>1. /\ pc = "running" /\ position < Len(Lines) /\ position' = position + 1
        /\ buffer' = buffer \o Pieces(Lines[position']) /\ log' = log /\ stage' = stage
    BY <1>4 DEF PrintLine
  <2>2. position \in 0 .. Len(Lines) /\ buffer \in Seq(Piece) /\ Len(buffer) \in Nat
    BY <2>1 DEF BatchInv, StreamInv
  <2>b. PICK x \in Nat : \E p : Printed(x, p)
    BY <2>1 DEF BatchInv, StreamInv
  <2>c. PICK z : Printed(x, z)
    BY <2>b
  <2>a. /\ Streams(log, x, z) /\ x + Len(buffer) = Size(position)
        /\ \A q \in 1 .. Len(buffer) : buffer[q] = PieceAt(x + q)
    BY <2>c DEF Printed
  <2>3. PICK p \in Nat : p = position /\ p \in 0 .. Len(Lines) - 1 /\ p + 1 = position'
    BY <1>2, <2>1, <2>2
  <2>4. PICK ln : ln = Lines[p + 1]
    OBVIOUS
  <2>5. ln = Line(Kinds[(p % 4) + 1], p \div 4 + 1)
    BY <1>1, <2>3, <2>4, LinesAre
  <2>6. PICK b : b = Pieces(ln)
    OBVIOUS
  <2>7. /\ b \in Seq(Piece) /\ Len(b) \in 2 .. 3 /\ Size(p) \in Nat /\ Size(p + 1) = Size(p) + Len(b)
        /\ \A k \in 1 .. Len(b) : b[k] = PieceAt(Size(p) + k)
    BY <2>5, <2>6, PiecesAre
  <2>8. buffer' = buffer \o b /\ x + Len(buffer) = Size(p)
    BY <2>1, <2>a, <2>3, <2>4, <2>6
  <2>9. PICK y, w \in Nat : y = Len(buffer) /\ w = Len(b)
    BY <2>2, <2>7
  <2>10. buffer' \in Seq(Piece) /\ Len(buffer') = y + w
    BY <2>2, <2>7, <2>8, <2>9
  <2>11. ASSUME NEW q \in 1 .. y + w PROVE buffer'[q] = PieceAt(x + q)
    <3>1. CASE q <= y
      <4>1. q \in 1 .. Len(buffer)
        BY <2>9, <3>1
      <4>2. buffer'[q] = buffer[q]
        BY <2>2, <2>7, <2>8, <4>1
      <4> QED BY <2>a, <2>9, <4>1, <4>2
    <3>2. CASE q > y
      <4>1. PICK k \in 1 .. w : y + k = q
        <5>1. q - y \in 1 .. w /\ y + (q - y) = q
          BY <2>9, <3>2
        <5> QED BY <5>1
      <4>2. buffer'[q] = b[k]
        <5>1. q \in 1 .. y + w /\ q > y /\ q - y = k
          BY <3>2, <4>1
        <5> QED BY <2>2, <2>7, <2>8, <2>9, <5>1
      <4>3. Size(p) + k = x + q
        <5>1. k \in Nat /\ x + y = Size(p)
          BY <2>8, <2>9, <4>1
        <5> QED BY <4>1, <5>1
      <4> QED BY <2>7, <2>9, <4>1, <4>2, <4>3
    <3>3. q <= y \/ q > y
      BY <2>9
    <3> QED BY <3>1, <3>2, <3>3
  <2>12. x + Len(buffer') = Size(position')
    BY <2>3, <2>7, <2>8, <2>9, <2>10
  <2>13. position' \in 0 .. Len(Lines)'
    BY <1>2, <2>1, <2>3 DEF Lines
  <2>14. Streams(log', x, z)
    BY <2>1, <2>a
  <2>15. \A q \in 1 .. Len(buffer') : buffer'[q] = PieceAt(x + q)
    BY <2>10, <2>11
  <2>16. Printed(x, z)'
    BY <2>12, <2>14, <2>15 DEF Printed
  <2> QED BY <2>10, <2>13, <2>16 DEF StreamInv
<1>5. CASE Flush
  <2>1. PICK k \in 1 .. Len(buffer) :
          /\ pc = "running" /\ position' = position /\ stage' = stage
          /\ log' = log \o SubSeq(buffer, 1, k)
          /\ buffer' = SubSeq(buffer, k + 1, Len(buffer))
    BY <1>5 DEF Flush
  <2>2. position \in 0 .. Len(Lines) /\ buffer \in Seq(Piece) /\ Len(buffer) \in Nat
    BY <2>1 DEF BatchInv, StreamInv
  <2>b. PICK x \in Nat : \E p : Printed(x, p)
    BY <2>1 DEF BatchInv, StreamInv
  <2>c. PICK z : Printed(x, z)
    BY <2>b
  <2>a. /\ Streams(log, x, z) /\ x + Len(buffer) = Size(position)
        /\ \A q \in 1 .. Len(buffer) : buffer[q] = PieceAt(x + q)
    BY <2>c DEF Printed
  <2>3. PICK y \in Nat : y = Len(buffer) /\ k \in 1 .. y
    BY <2>2
  <2>4. PICK a, c : a = SubSeq(buffer, 1, k) /\ c = SubSeq(buffer, k + 1, Len(buffer))
    OBVIOUS
  <2>5. a \in Seq(Piece) /\ Len(a) = k /\ \A q \in 1 .. k : a[q] = buffer[q]
    BY <2>2, <2>3, <2>4
  <2>6. c \in Seq(Piece) /\ Len(c) = y - k /\ \A q \in 1 .. y - k : c[q] = buffer[k + q]
    BY <2>2, <2>3, <2>4
  <2>7. ASSUME NEW q \in 1 .. Len(a) PROVE a[q] = PieceAt(x + q)
    <3>1. q \in 1 .. k /\ q \in 1 .. Len(buffer)
      BY <2>3, <2>5
    <3> QED BY <2>a, <2>5, <3>1
  <2>8. PICK p : Streams(log', x + k, p)
    <3>1. log' = log \o a
      BY <2>1, <2>4
    <3>2. \E p : Streams(log', x + Len(a), p)
      BY <2>a, <2>5, <2>7, <3>1, Extended
    <3> QED BY <2>5, <3>2
  <2>9. ASSUME NEW q \in 1 .. y - k PROVE c[q] = PieceAt((x + k) + q)
    <3>1. PICK i \in 1 .. y : i = k + q /\ x + i = (x + k) + q
      <4>1. k + q \in 1 .. y /\ x + (k + q) = (x + k) + q
        BY <2>3
      <4> QED BY <4>1
    <3> QED BY <2>a, <2>3, <2>6, <3>1
  <2>10. (x + k) + Len(buffer') = Size(position') /\ x + k \in Nat
    <3>1. (x + k) + (y - k) = x + y /\ x + k \in Nat
      BY <2>3
    <3> QED BY <2>1, <2>a, <2>3, <2>4, <2>6, <3>1
  <2>11. position' \in 0 .. Len(Lines)'
    BY <2>1, <2>2 DEF Lines
  <2>12. buffer' = c
    BY <2>1, <2>4
  <2>13. buffer' \in Seq(Piece) /\ \A q \in 1 .. Len(buffer') : buffer'[q] = PieceAt((x + k) + q)
    BY <2>6, <2>9, <2>12
  <2>14. Printed(x + k, p)'
    BY <2>8, <2>10, <2>13 DEF Printed
  <2> QED BY <2>10, <2>11, <2>13, <2>14 DEF StreamInv
<1>6. CASE ScriptWarns
  <2>1. /\ pc = "running" /\ log' = Append(log, Message)
        /\ UNCHANGED <<stage, position, buffer>>
    BY <1>6 DEF ScriptWarns
  <2>2. position \in 0 .. Len(Lines) /\ buffer \in Seq(Piece) /\ Len(buffer) \in Nat
    BY <2>1 DEF BatchInv, StreamInv
  <2>b. PICK x \in Nat : \E p : Printed(x, p)
    BY <2>1 DEF BatchInv, StreamInv
  <2>c. PICK z : Printed(x, z)
    BY <2>b
  <2>3. /\ Streams(log, x, z) /\ x + Len(buffer) = Size(position)
        /\ \A q \in 1 .. Len(buffer) : buffer[q] = PieceAt(x + q)
    BY <2>c DEF Printed
  <2>4. Streams(log', x, z)
    BY <2>1, <2>3, Noted
  <2>5. position' \in 0 .. Len(Lines)'
    BY <2>1, <2>2 DEF Lines
  <2>6. Printed(x, z)'
    BY <2>1, <2>3, <2>4 DEF Printed
  <2> QED BY <2>1, <2>2, <2>5, <2>6 DEF StreamInv
<1>7. CASE UNCHANGED <<pc, stage, position, buffer, log>>
  BY <1>7 DEF BatchInv, StreamInv, Printed, Lines
<1>8. Spawn \/ PrintLine \/ Flush \/ ScriptWarns \/ UNCHANGED <<pc, stage, position, buffer, log>>
  <2>1. ASSUME Start \/ Parse \/ Dump \/ Returns \/ ExitsWithMessage \/ Killed \/ Interrupt \/ StartAgain
        PROVE  FALSE
    BY <2>1 DEF Start, Parse, Dump, Returns, ExitsWithMessage, Killed, Interrupt, StartAgain
  <2>2. ASSUME LoadNotebook \/ UNCHANGED vars PROVE UNCHANGED <<pc, stage, position, buffer, log>>
    BY <2>2 DEF LoadNotebook, vars, benchVars
  <2> QED BY <2>1, <2>2 DEF Next
<1> QED BY <1>3, <1>4, <1>5, <1>6, <1>7, <1>8

(* The ways a benchmark ends: it returns, it is killed, or a message gets  *)
(* in (batch.py:145-157).                                                  *)
LEMMA LogStep ==
  ASSUME BatchInv, [Next]_vars PROVE LogInv'
PROOF
<1> SUFFICES ASSUME pc' \in {"parse", "dump"}
             PROVE  \E n \in Nat : \E p :
                      /\ Streams(log', n, p)
                      /\ position' = Len(Lines)' /\ buffer' = << >> => n = 9 * Stages[stage'].runs
  BY DEF LogInv
<1>1. StageInv
  BY DEF BatchInv
<1>2. PICK R \in Nat \ {0} : /\ R = Stages[stage].runs /\ Len(Lines) = 4 * R
                             /\ Size(Len(Lines)) = 9 * R
  BY <1>1, LinesAre
<1>3. ASSUME pc = "running"
      PROVE  buffer \in Seq(Piece) /\ \E n \in Nat : \E p : Printed(n, p)
  BY <1>3 DEF BatchInv, StreamInv
<1>4. CASE Returns \/ ExitsWithMessage
  <2>1. /\ pc = "running" /\ (log' = log \o buffer \/ log' = Append(log, Message) \o buffer)
        /\ position' = position /\ stage' = stage
    BY <1>4 DEF Returns, ExitsWithMessage
  <2>a. PICK n \in Nat : \E p : Printed(n, p)
    BY <1>3, <2>1
  <2>b. PICK p : Printed(n, p)
    BY <2>a
  <2>2. /\ Streams(log, n, p) /\ n + Len(buffer) = Size(position) /\ buffer \in Seq(Piece)
        /\ \A q \in 1 .. Len(buffer) : buffer[q] = PieceAt(n + q)
    BY <1>3, <2>1, <2>b DEF Printed
  <2>3. Streams(Append(log, Message), n, p)
    BY <2>2, Noted
  <2>4. PICK z : Streams(log', n + Len(buffer), z)
    BY <2>1, <2>2, <2>3, Extended
  <2>5. n + Len(buffer) \in Nat
    BY <2>2
  <2>6. position' = Len(Lines)' => n + Len(buffer) = 9 * Stages[stage'].runs
    BY <1>2, <2>1, <2>2 DEF Lines
  <2> QED BY <2>4, <2>5, <2>6
<1>5. CASE Killed
  <2>1. pc = "running" /\ UNCHANGED <<log, position, stage, buffer>>
    BY <1>5 DEF Killed, benchVars
  <2>a. PICK n \in Nat : \E p : Printed(n, p)
    BY <1>3, <2>1
  <2>b. PICK p : Printed(n, p)
    BY <2>a
  <2>2. /\ Streams(log, n, p) /\ n + Len(buffer) = Size(position) /\ buffer \in Seq(Piece)
        /\ \A q \in 1 .. Len(buffer) : buffer[q] = PieceAt(n + q)
    BY <1>3, <2>1, <2>b DEF Printed
  <2>3. position' = Len(Lines)' /\ buffer' = << >> => n = 9 * Stages[stage'].runs
    BY <1>2, <2>1, <2>2 DEF Lines
  <2> QED BY <2>1, <2>2, <2>3
<1>6. CASE Parse \/ UNCHANGED <<pc, stage, position, buffer, log>>
  <2>1. pc \in {"parse", "dump"} /\ UNCHANGED <<stage, position, buffer, log>>
    BY <1>6 DEF Parse, benchVars
  <2>2. Len(Lines)' = Len(Lines)
    BY <2>1 DEF Lines
  <2>3. LogInv
    BY DEF BatchInv
  <2> QED BY <2>1, <2>2, <2>3 DEF LogInv
<1>7. \/ Returns \/ ExitsWithMessage \/ Killed
      \/ Parse \/ UNCHANGED <<pc, stage, position, buffer, log>>
  <2>1. ASSUME Start \/ Spawn \/ Dump \/ PrintLine \/ Flush \/ ScriptWarns \/ Interrupt \/ StartAgain
        PROVE  FALSE
    BY <2>1 DEF Start, Spawn, Dump, PrintLine, Flush, ScriptWarns, Interrupt, StartAgain
  <2>2. ASSUME LoadNotebook \/ UNCHANGED vars PROVE UNCHANGED <<pc, stage, position, buffer, log>>
    BY <2>2 DEF LoadNotebook, vars, benchVars
  <2> QED BY <2>1, <2>2 DEF Next
<1> QED BY <1>4, <1>5, <1>6, <1>7

(* Parsing appends the records of a new stage (Parsed), dumping goes on to *)
(* the next stage.                                                         *)
LEMMA ResultsStep ==
  ASSUME BatchInv, [Next]_vars PROVE ResultsInv'
PROOF
<1>1. /\ results \in Seq(Record) /\ Ordered(results)
      /\ pc \in {"stage", "running", "parse"} =>
           \A i \in 1 .. Len(results) : results[i].stage < stage
      /\ pc = "dump" => OfThisStage(results) /\ FewSpoilt(results)
  BY DEF BatchInv, ResultsInv
<1>2. stage \in Nat
  BY StagesAssumption DEF BatchInv, StageInv
<1>3. CASE Start
  <2>1. results' = << >> /\ pc' # "dump"
    BY <1>3 DEF Start
  <2> QED BY <2>1 DEF ResultsInv, Ordered
<1>4. CASE Parse
  <2>1. CASE pc' = "died"
    <3>1. results' = results
      BY <1>4, <2>1 DEF Parse
    <3>2. Ordered(results)'
      BY <1>1, <3>1 DEF Ordered
    <3> QED BY <1>1, <2>1, <3>1, <3>2 DEF ResultsInv
  <2>2. CASE pc' # "died"
    <3>1. /\ pc = "parse" /\ pc' = "dump" /\ results' = results \o parse_output(log)
          /\ UNCHANGED <<stage, position, buffer, log>>
      BY <1>4, <2>2 DEF Parse, benchVars
    <3>2. PICK res : res = results \o parse_output(log)
      OBVIOUS
    <3>3. res \in Seq(Record) /\ Ordered(res) /\ OfThisStage(res) /\ FewSpoilt(res)
      BY <3>1, <3>2, Parsed
    <3>4. results' = res
      BY <3>1, <3>2
    <3>5. Ordered(results)'
      BY <3>3, <3>4 DEF Ordered
    <3>6. Whole' <=> Whole
      BY <3>1 DEF Whole, Lines
    <3>7. OfThisStage(results)'
      BY <3>1, <3>3, <3>4, <3>6 DEF OfThisStage
    <3>8. FewSpoilt(results)'
      BY <3>1, <3>3, <3>4 DEF FewSpoilt
    <3> QED BY <3>1, <3>3, <3>4, <3>5, <3>7, <3>8 DEF ResultsInv
  <2> QED BY <2>1, <2>2
<1>5. CASE Dump
  <2>1. pc = "dump" /\ pc' \in {"stage", "done"}
    BY <1>5 DEF Dump
  <2>2. CASE results' = << >>
    BY <2>1, <2>2 DEF ResultsInv, Ordered
  <2>3. CASE results' = results
    <3>1. Ordered(results)'
      BY <1>1, <2>3 DEF Ordered
    <3>2. ASSUME pc' = "stage", NEW i \in 1 .. Len(results) PROVE results[i].stage < stage'
      <4>1. stage' = stage + 1
        BY <1>5, <3>2 DEF Dump
      <4>2. PICK n \in 0 .. Len(results) :
              /\ \A j \in 1 .. n : results[j].stage < stage
              /\ \A j \in n + 1 .. Len(results) : /\ results[j].stage = stage
                                                  /\ Whole => ~results[j].cut
              /\ Whole => Len(results) = n + Stages[stage].runs
        <5>1. OfThisStage(results)
          BY <1>1, <2>1
        <5> QED BY <5>1 DEF OfThisStage
      <4>3. i \in 1 .. n \/ i \in n + 1 .. Len(results)
        BY <1>1, <4>2
      <4>4. results[i].stage \in Nat
        <5>1. results[i] \in Record
          BY <1>1
        <5> QED BY <5>1 DEF Record
      <4>5. results[i].stage < stage \/ results[i].stage = stage
        BY <4>2, <4>3, Zenon
      <4> QED BY <1>2, <4>1, <4>4, <4>5
    <3> QED BY <1>1, <2>1, <2>3, <3>1, <3>2 DEF ResultsInv
  <2> QED BY <1>5, <2>2, <2>3 DEF Dump
<1>6. CASE /\ UNCHANGED <<stage, results>>
           /\ pc \in {"stage", "running"} \/ pc' \notin {"stage", "running", "parse", "dump"}
           /\ pc' # "dump"
  <2>1. Ordered(results)'
    BY <1>1, <1>6 DEF Ordered
  <2> QED BY <1>1, <1>6, <2>1 DEF ResultsInv
<1>7. CASE UNCHANGED <<pc, stage, position, buffer, log, results>>
  <2>1. Ordered(results)'
    BY <1>1, <1>7 DEF Ordered
  <2>2. Whole' <=> Whole
    BY <1>7 DEF Whole, Lines
  <2>3. OfThisStage(results) => OfThisStage(results)'
    BY <1>7, <2>2 DEF OfThisStage
  <2>4. FewSpoilt(results) => FewSpoilt(results)'
    BY <1>7 DEF FewSpoilt
  <2> QED BY <1>1, <1>7, <2>1, <2>3, <2>4 DEF ResultsInv
<1>8. ASSUME Spawn \/ PrintLine \/ Flush \/ ScriptWarns \/ Returns \/ ExitsWithMessage \/ Killed
      PROVE  UNCHANGED <<stage, results>> /\ pc \in {"stage", "running"} /\ pc' # "dump"
  BY <1>8 DEF Spawn, PrintLine, Flush, ScriptWarns, Returns, ExitsWithMessage, Killed
<1>9. ASSUME Interrupt \/ StartAgain
      PROVE  UNCHANGED <<stage, results>> /\ pc' \notin {"stage", "running", "parse", "dump"}
  BY <1>9 DEF Interrupt, StartAgain
<1>10. ASSUME LoadNotebook \/ UNCHANGED vars
       PROVE  UNCHANGED <<pc, stage, position, buffer, log, results>>
  BY <1>10 DEF LoadNotebook, vars, benchVars
<1> QED BY <1>3, <1>4, <1>5, <1>6, <1>7, <1>8, <1>9, <1>10 DEF Next

(* Writing the file of the current stage adds it to the others.            *)
LEMMA WrittenIs ==
  ASSUME NEW b
  PROVE  /\ DOMAIN Written(b) = DOMAIN json \cup {Stages[stage].out}
         /\ \A f \in DOMAIN json : f # Stages[stage].out => Written(b)[f] = json[f]
  BY DEF Written

(* A file is written once, at the last of its stages, and no other stage   *)
(* writes it (batch.py:171-221).                                           *)
LEMMA JsonStep ==
  ASSUME BatchInv, [Next]_vars
  PROVE  /\ JsonInv'
         /\ \A f \in DOMAIN json : f \in DOMAIN json' /\ json'[f] = json[f]
PROOF
<1>1. /\ pc \in {"stage", "running", "parse", "dump"} => logDir
      /\ ~logDir => DOMAIN json = {}
      /\ pc \in {"stage", "running", "parse", "dump"} =>
           \A f \in DOMAIN json : \E s \in 1 .. stage - 1 :
             Stages[s].out = f /\ Stages[s + 1].out # f
  BY DEF BatchInv, JsonInv
<1>2. stage \in 1 .. Len(Stages) /\ Len(Stages) \in Nat
  BY StagesAssumption DEF BatchInv, StageInv
<1>3. CASE Start
  <2>1. json' = json /\ (~logDir' => ~logDir)
    BY <1>3 DEF Start
  <2>2. pc' \in {"stage", "running", "parse", "dump"} => logDir' /\ DOMAIN json = {}
    BY <1>1, <1>3 DEF Start
  <2>3. JsonInv'
    BY <1>1, <2>1, <2>2 DEF JsonInv
  <2> QED BY <2>1, <2>3
<1>4. ASSUME pc = "dump", NEW f \in DOMAIN json PROVE f # Stages[stage].out
  <2>1. PICK s \in 1 .. stage - 1 : Stages[s].out = f /\ Stages[s + 1].out # f
    BY <1>1, <1>4
  <2>2. PICK u \in Nat : u = s + 1 /\ u \in s .. stage
    <3>1. s + 1 \in Nat /\ s + 1 \in s .. stage
      BY <1>2, <2>1
    <3> QED BY <3>1
  <2>3. s \in 1 .. Len(Stages)
    BY <1>2, <2>1
  <2> QED BY <1>2, <2>1, <2>2, <2>3, StagesAssumption
<1>5. ASSUME pc = "dump", NEW b, json' = Written(b)
      PROVE  \A f \in DOMAIN json : f \in DOMAIN json' /\ json'[f] = json[f]
  BY <1>4, <1>5, WrittenIs
<1>6. CASE Dump
  <2>1. pc = "dump" /\ logDir /\ logDir' = logDir
    BY <1>1, <1>6 DEF Dump
  <2>2. CASE LastOfFile
    <3>1. json' = Written(TRUE)
      BY <1>6, <2>2 DEF Dump
    <3>2. DOMAIN json' = DOMAIN json \cup {Stages[stage].out}
      BY <3>1, WrittenIs
    <3>3. \A f \in DOMAIN json : f \in DOMAIN json' /\ json'[f] = json[f]
      BY <1>5, <2>1, <3>1
    <3>4. ASSUME pc' = "stage", NEW f \in DOMAIN json'
          PROVE  \E s \in 1 .. stage' - 1 : Stages[s].out = f /\ Stages[s + 1].out # f
      <4>1. stage' = stage + 1 /\ stage < Len(Stages) /\ stage' - 1 = stage
        BY <1>2, <1>6, <3>4 DEF Dump
      <4>2. CASE f = Stages[stage].out
        <5>1. Stages[stage + 1].out # f
          BY <2>2, <4>1, <4>2 DEF LastOfFile
        <5>2. stage \in 1 .. stage' - 1
          BY <1>2, <4>1
        <5> QED BY <4>2, <5>1, <5>2
      <4>3. CASE f # Stages[stage].out
        <5>1. f \in DOMAIN json
          BY <3>2, <4>3
        <5>2. PICK s \in 1 .. stage - 1 : Stages[s].out = f /\ Stages[s + 1].out # f
          BY <1>1, <2>1, <5>1
        <5>3. s \in 1 .. stage' - 1
          BY <1>2, <4>1
        <5> QED BY <5>2, <5>3
      <4> QED BY <4>2, <4>3
    <3>5. pc' \in {"stage", "done"}
      BY <1>6 DEF Dump
    <3>6. JsonInv'
      BY <2>1, <3>4, <3>5 DEF JsonInv
    <3> QED BY <3>3, <3>6
  <2>3. CASE ~LastOfFile
    <3>1. json' = json /\ stage' = stage + 1
      <4>1. stage # Len(Stages)
        BY <1>2, <2>3 DEF LastOfFile
      <4> QED BY <1>6, <2>3, <4>1 DEF Dump
    <3>2. 1 .. stage - 1 \subseteq 1 .. stage' - 1
      BY <1>2, <3>1
    <3>3. \A f \in DOMAIN json : \E s \in 1 .. stage' - 1 :
             Stages[s].out = f /\ Stages[s + 1].out # f
      BY <1>1, <2>1, <3>2
    <3> QED BY <2>1, <3>1, <3>3 DEF JsonInv
  <2> QED BY <2>2, <2>3
<1>7. CASE Interrupt
  <2>1. pc \in {"stage", "running", "parse", "dump"} /\ pc' = "stopped" /\ logDir' = logDir
    BY <1>7 DEF Interrupt
  <2>2. JsonInv'
    BY <1>1, <2>1 DEF JsonInv
  <2>3. json' = json \/ (pc = "dump" /\ json' = Written(FALSE))
    BY <1>7 DEF Interrupt
  <2> QED BY <1>5, <2>2, <2>3
<1>8. CASE /\ UNCHANGED <<logDir, stage, json>>
           /\ pc \in {"stage", "running", "parse", "dump"}
                \/ pc' \notin {"stage", "running", "parse", "dump"}
  BY <1>1, <1>8 DEF JsonInv
<1>9. ASSUME Spawn \/ Parse \/ PrintLine \/ Flush \/ ScriptWarns \/ Returns \/ ExitsWithMessage \/ Killed
      PROVE  UNCHANGED <<logDir, stage, json>> /\ pc \in {"stage", "running", "parse", "dump"}
  BY <1>9 DEF Spawn, Parse, PrintLine, Flush, ScriptWarns, Returns, ExitsWithMessage, Killed
<1>10. ASSUME StartAgain
      PROVE  UNCHANGED <<logDir, stage, json>>
             /\ pc' \notin {"stage", "running", "parse", "dump"}
  BY <1>10 DEF StartAgain
<1>11. ASSUME LoadNotebook \/ UNCHANGED vars PROVE UNCHANGED <<pc, logDir, stage, json>>
  BY <1>11 DEF LoadNotebook, vars
<1>12. CASE UNCHANGED <<pc, logDir, stage, json>>
  BY <1>1, <1>12 DEF JsonInv
<1> QED BY <1>3, <1>6, <1>7, <1>8, <1>9, <1>10, <1>11, <1>12 DEF Next

(* The invariant holds in every state.                                     *)
LEMMA BatchInvariant == Spec => []BatchInv
PROOF
<1>1. Init => BatchInv
  BY InitInv
<1>2. BatchInv /\ [Next]_vars => BatchInv'
  BY StageStep, StreamStep, LogStep, ResultsStep, JsonStep DEF BatchInv
<1> QED BY <1>1, <1>2, PTL DEF Spec

-----------------------------------------------------------------------------
(* However the benchmark ends and wherever its output is cut, the runs of  *)
(* a stage appear in the results in order and at most once                 *)
(* (batch.py:55-111).                                                      *)
THEOREM RunsAppearInOrder == Spec => []RunsInOrder
PROOF
<1>1. ASSUME BatchInv PROVE RunsInOrder
  <2>1. results \in Seq(Record) /\ Ordered(results)
    BY <1>1 DEF BatchInv, ResultsInv
  <2>2. ASSUME NEW r \in 1 .. Len(results) - 1, results[r].stage = results[r + 1].stage
        PROVE  results[r].peeks < results[r + 1].peeks
    <3>1. r \in 1 .. Len(results) /\ r + 1 \in 1 .. Len(results) /\ r < r + 1
      BY <2>1
    <3> QED BY <2>1, <2>2, <3>1 DEF Ordered
  <2> QED BY <2>2 DEF RunsInOrder
<1>2. BatchInv => RunsInOrder
  BY <1>1
<1> QED BY <1>2, BatchInvariant, PTL

(* For any number of runs and of messages, a message that lands in the     *)
(* middle of the log spoils at most one record of its stage                *)
(* (batch.py:52-113, 145).                                                 *)
THEOREM OneRecordIsSpoilt == Spec => []OneSpoiltRecord
PROOF
<1>1. BatchInv => OneSpoiltRecord
  BY DEF BatchInv, ResultsInv, FewSpoilt, OneSpoiltRecord
<1> QED BY <1>1, BatchInvariant, PTL

(* A record mixes runs only if a message stands in one of the lines of its *)
(* own run, and its number is cut short only by such a message or by the   *)
(* end of the log (batch.py:52-113).                                       *)
THEOREM RecordsAreOfOneRun == Spec => []RecordsOfOneRun
PROOF
<1>1. ASSUME BatchInv, pc = "parse", NEW read, read = parse_output(log), NEW r \in 1 .. Len(read)
      PROVE  /\ OfOneRun(read[r]) \/ Torn(log, read[r].peeks)
             /\ read[r].cut => Torn(log, read[r].peeks) \/ AtEnd(log, read[r])
  <2>1. PICK n \in Nat : \E p : Streams(log, n, p)
    BY <1>1 DEF BatchInv, LogInv
  <2>2. PICK p : Streams(log, n, p)
    BY <2>1
  <2>3. stage \in Nat
    BY <1>1, StagesAssumption DEF BatchInv, StageInv
  <2>4. PICK m : m = Cardinality(Finds(log, "peeks"))
    OBVIOUS
  <2>5. Len(read) = m /\ \A i \in 1 .. m : /\ OfOneRun(read[i]) \/ Torn(log, read[i].peeks)
                                           /\ read[i].cut => Torn(log, read[i].peeks) \/ AtEnd(log, read[i])
    BY <1>1, <2>2, <2>3, <2>4, ReadIs
  <2> QED BY <2>5
<1>2. BatchInv => RecordsOfOneRun
  BY <1>1 DEF RecordsOfOneRun
<1> QED BY <1>2, BatchInvariant, PTL

(* A benchmark that returns has all its runs in the results, with whole    *)
(* numbers, however its output was cut into pieces (batch.py:145-157).     *)
THEOREM ReturnedRunsAreRecorded == Spec => []AllRunsRecorded
PROOF
<1>1. ASSUME BatchInv, pc = "dump", position = Len(Lines), buffer = << >>, Messages(log) = {}
      PROVE  Cardinality({r \in 1 .. Len(results) : results[r].stage = stage /\ ~results[r].cut})
               = Stages[stage].runs
  <2>0. PICK n \in 0 .. Len(results) :
          /\ \A i \in 1 .. n : results[i].stage < stage
          /\ \A i \in n + 1 .. Len(results) : /\ results[i].stage = stage
                                              /\ Whole => ~results[i].cut
          /\ Whole => Len(results) = n + Stages[stage].runs
    <3>1. OfThisStage(results)
      BY <1>1 DEF BatchInv, ResultsInv
    <3> QED BY <3>1 DEF OfThisStage
  <2>1. /\ \A i \in 1 .. n : results[i].stage < stage
        /\ \A i \in n + 1 .. Len(results) : results[i].stage = stage /\ ~results[i].cut
        /\ Len(results) = n + Stages[stage].runs
    <3>1. Whole
      BY <1>1 DEF Whole
    <3> QED BY <2>0, <3>1, Zenon
  <2>2. stage \in Nat /\ results \in Seq(Record) /\ Len(results) \in Nat
    BY <1>1, StagesAssumption DEF BatchInv, StageInv, ResultsInv
  <2>3. PICK R \in Nat : R = Stages[stage].runs
    BY <1>1, LinesAre DEF BatchInv
  <2>4. ASSUME NEW i \in 1 .. n PROVE results[i].stage # stage
    <3>1. results[i] \in Record
      BY <2>1, <2>2
    <3>2. results[i].stage \in Nat /\ results[i].stage < stage
      BY <2>1, <3>1 DEF Record
    <3> QED BY <2>2, <3>2
  <2>5. ASSUME NEW i \in 1 .. Len(results) PROVE i \in 1 .. n \/ i \in n + 1 .. Len(results)
    BY <2>1, <2>2
  <2>6. ASSUME NEW i \in n + 1 .. Len(results) PROVE i \in 1 .. Len(results)
    BY <2>1, <2>2
  <2>7. {r \in 1 .. Len(results) : results[r].stage = stage /\ ~results[r].cut}
          = n + 1 .. Len(results)
    BY <2>1, <2>4, <2>5, <2>6
  <2>8. Cardinality(n + 1 .. Len(results)) = R
    <3>1. PICK a, b \in Int : a = n + 1 /\ b = n + R /\ b = Len(results)
      <4>1. n + 1 \in Int /\ n + R \in Int /\ n + R = Len(results)
        BY <2>1, <2>2, <2>3
      <4> QED BY <4>1
    <3>2. Cardinality(a .. b) = IF a > b THEN 0 ELSE b - a + 1
      BY FS_Interval
    <3>3. n \in Nat
      BY <2>1
    <3> QED BY <2>3, <3>1, <3>2, <3>3
  <2> QED BY <2>3, <2>7, <2>8
<1>2. BatchInv => AllRunsRecorded
  BY <1>1 DEF AllRunsRecorded
<1> QED BY <1>2, BatchInvariant, PTL

(* No stage and no later start of batch.py replaces a file with results    *)
(* (batch.py:167-168, 177-221).                                            *)
THEOREM FilesAreKept == Spec => ResultsKept
PROOF
<1>1. BatchInv /\ [Next]_vars => [\A f \in DOMAIN json : f \in DOMAIN json' /\ json'[f] = json[f]]_vars
  BY JsonStep
<1> QED BY <1>1, BatchInvariant, PTL DEF Spec, ResultsKept
=============================================================================
