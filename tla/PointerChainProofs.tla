------------------------- MODULE PointerChainProofs -------------------------
(***************************************************************************)
(* Proofs about PointerChain for every chain size, byte base, number of    *)
(* chases and file geometry.                                               *)
(*                                                                         *)
(* The argument: idx is a permutation of 1 .. Size-1, so the places        *)
(* At(0) .. At(Size-1) name every item once; the chain links place k to    *)
(* place k+1 and the last place to the first; a walk of c links from place *)
(* s has therefore loaded the c places that follow s around the ring.      *)
(***************************************************************************)
EXTENDS PointerChain, TLAPS

(* The item at the k-th place of the ring: item 0, then idx in order.      *)
At(k) == IF k = 0 THEN 0 ELSE idx[k - 1]

Wrap(k) == IF k < Size THEN k ELSE k - Size

Permutation ==
  /\ idx \in [Slot -> 1 .. Size - 1]
  /\ \A a, b \in Slot : idx[a] = idx[b] => a = b
  /\ \A v \in 1 .. Size - 1 : \E a \in Slot : idx[a] = v

(* While the shuffle runs, a number that has not left the unshuffled front *)
(* is still at its own place, and the shuffled back holds strangers only.  *)
FrontAtHome ==
  /\ i \in Slot
  /\ \A m, k \in 0 .. i : idx[m] = k + 1 => m = k
  /\ \A s \in Slot : s > i => idx[s] # s + 1
  /\ i = 0 /\ Size > 2 => idx[0] # 1

LinkedTo(n) == \A k \in 0 .. n - 1 : chain[At(k)] = Store(At(Wrap(k + 1)))

Walked ==
  \E s \in Node : /\ start = At(s)
                  /\ p = At(Wrap(s + count))
                  /\ used = {At(Wrap(s + c)) : c \in 0 .. count - 1}

Shape ==
  /\ pc # "fill" => Permutation
  /\ pc = "shuffle" => FrontAtHome
  /\ pc = "link" => i \in 1 .. Size - 1 /\ LinkedTo(i)
  /\ Built => LinkedTo(Size)

Walk ==
  IF Built THEN Walked
           ELSE count = 0 /\ todo = 0 /\ start = 0 /\ p = 0 /\ used = {}

IInv == TypeOK /\ Shape /\ ShuffleMovesAll /\ Walk

-----------------------------------------------------------------------------
LEMMA ModType ==
  ASSUME NEW m \in Nat \ {0}, NEW v \in Nat
  PROVE  v % m \in 0 .. m - 1
  OBVIOUS

(* The or of a byte with zero is the byte: its eight bits add up to it.    *)
LEMMA OrZero ==
  ASSUME NEW x \in 0 .. 255
  PROVE  Or(x, 0) = x /\ Or(0, x) = x
PROOF
<1> DEFINE Bit(t) == IF (x \div t) % 2 = 1 THEN t ELSE 0
<1>1. \A t \in {1, 2, 4, 8, 16, 32, 64, 128} : (0 \div t) % 2 = 0
  OBVIOUS
<1>2. /\ Or(x, 0) = Bit(1) + Bit(2) + Bit(4) + Bit(8) + Bit(16) + Bit(32) + Bit(64) + Bit(128)
      /\ Or(0, x) = Bit(1) + Bit(2) + Bit(4) + Bit(8) + Bit(16) + Bit(32) + Bit(64) + Bit(128)
  BY <1>1 DEF Or
<1>3. Bit(1) + Bit(2) + Bit(4) + Bit(8) + Bit(16) + Bit(32) + Bit(64) + Bit(128) = x
  OBVIOUS
<1> QED BY <1>2, <1>3

(* A division by the base leaves a quotient and a byte.                    *)
LEMMA Divided ==
  ASSUME NEW x \in Nat
  PROVE  /\ x \div Base \in Nat /\ x % Base \in 0 .. Base - 1
         /\ (x \div Base) * Base + (x % Base) = x
PROOF
<1>1. ASSUME NEW m \in Nat \ {0}
      PROVE  x \div m \in Nat /\ x % m \in 0 .. m - 1 /\ m * (x \div m) + (x % m) = x
  <2>1. x % m \in 0 .. m - 1
    BY ModType
  <2>2. x \div m \in Nat
    OBVIOUS
  <2>3. m * (x \div m) + (x % m) = x
    OBVIOUS
  <2> QED BY <2>1, <2>2, <2>3
<1>2. Base \in Nat \ {0}
  BY BaseAssumption
<1>3. /\ x \div Base \in Nat /\ x % Base \in 0 .. Base - 1
      /\ Base * (x \div Base) + (x % Base) = x
  BY <1>1, <1>2
<1>4. Base * (x \div Base) = (x \div Base) * Base
  BY <1>2, <1>3
<1> QED BY <1>3, <1>4

(* ... and takes one power of the base from what bounds the number.        *)
LEMMA QuotientBelow ==
  ASSUME NEW x \in Nat, NEW m \in Nat, x < m * Base
  PROVE  x \div Base < m
PROOF
<1>1. Base \in Nat \ {0}
  BY BaseAssumption
<1>2. /\ x \div Base \in Nat /\ x % Base \in 0 .. Base - 1
      /\ (x \div Base) * Base + (x % Base) = x
  BY Divided
<1>3. SUFFICES ASSUME x \div Base >= m PROVE FALSE
  BY <1>2
<1>4. (x \div Base) * Base >= m * Base
  BY <1>1, <1>2, <1>3
<1> QED BY <1>1, <1>2, <1>4

(* The eight bytes of an item number are bytes, and give the number back.  *)
LEMMA NumberOfBytes ==
  ASSUME NEW v \in Node
  PROVE  /\ \A b \in Lane : Bytes(v)[b] \in 0 .. 255
         /\ Number(Bytes(v)) = v
PROOF
<1> DEFINE q6 == v \div Base
           q5 == q6 \div Base
           q4 == q5 \div Base
           q3 == q4 \div Base
           q2 == q3 \div Base
           q1 == q2 \div Base
           q0 == q1 \div Base
<1>1. v \in Nat /\ Base \in Nat \ {0} /\ Base <= 256
  BY SizeAssumption, BaseAssumption DEF Node
<1>2. q6 \in Nat /\ v = q6 * Base + (v % Base) /\ v % Base \in 0 .. Base - 1
  BY <1>1, Divided
<1>3. q5 \in Nat /\ q6 = q5 * Base + (q6 % Base) /\ q6 % Base \in 0 .. Base - 1
  BY <1>2, Divided
<1>4. q4 \in Nat /\ q5 = q4 * Base + (q5 % Base) /\ q5 % Base \in 0 .. Base - 1
  BY <1>3, Divided
<1>5. q3 \in Nat /\ q4 = q3 * Base + (q4 % Base) /\ q4 % Base \in 0 .. Base - 1
  BY <1>4, Divided
<1>6. q2 \in Nat /\ q3 = q2 * Base + (q3 % Base) /\ q3 % Base \in 0 .. Base - 1
  BY <1>5, Divided
<1>7. q1 \in Nat /\ q2 = q1 * Base + (q2 % Base) /\ q2 % Base \in 0 .. Base - 1
  BY <1>6, Divided
<1>8. q0 \in Nat /\ q1 = q0 * Base + (q1 % Base) /\ q1 % Base \in 0 .. Base - 1
  BY <1>7, Divided
<1>9. q0 % Base = q0 /\ q0 \in 0 .. Base - 1
  <2> DEFINE B2 == Base * Base
             B3 == B2 * Base
             B4 == B3 * Base
             B5 == B4 * Base
             B6 == B5 * Base
             B7 == B6 * Base
  <2>1. B2 \in Nat
    BY <1>1
  <2>2. B3 \in Nat
    BY <1>1, <2>1
  <2>3. B4 \in Nat
    BY <1>1, <2>2
  <2>4. B5 \in Nat
    BY <1>1, <2>3
  <2>5. B6 \in Nat
    BY <1>1, <2>4
  <2>6. B7 \in Nat
    BY <1>1, <2>5
  <2>7. Square * Square * Square * Square = B7 * Base
    BY <1>1 DEF Square
  <2>8. v < B7 * Base
    BY <1>1, <2>6, <2>7, SizeAssumption, BaseAssumption DEF Node
  <2> HIDE DEF B7
  <2>9. q6 < B7
    BY <1>1, <2>6, <2>8, QuotientBelow
  <2> USE DEF B7
  <2> HIDE DEF B6, q6
  <2>10. q5 < B6
    BY <1>2, <2>5, <2>9, QuotientBelow
  <2> USE DEF B6
  <2> HIDE DEF B5, q5
  <2>11. q4 < B5
    BY <1>3, <2>4, <2>10, QuotientBelow
  <2> USE DEF B5
  <2> HIDE DEF B4, q4
  <2>12. q3 < B4
    BY <1>4, <2>3, <2>11, QuotientBelow
  <2> USE DEF B4
  <2> HIDE DEF B3, q3
  <2>13. q2 < B3
    BY <1>5, <2>2, <2>12, QuotientBelow
  <2> USE DEF B3
  <2> HIDE DEF B2, q2
  <2>14. q1 < B2
    BY <1>6, <2>1, <2>13, QuotientBelow
  <2> USE DEF B2
  <2> HIDE DEF q1
  <2>15. q0 < Base
    BY <1>1, <1>7, <2>14, QuotientBelow
  <2> HIDE DEF q0
  <2> QED BY <1>1, <1>8, <2>15
<1>10. /\ Bytes(v)[0] = q0 % Base /\ Bytes(v)[1] = q1 % Base
       /\ Bytes(v)[2] = q2 % Base /\ Bytes(v)[3] = q3 % Base
       /\ Bytes(v)[4] = q4 % Base /\ Bytes(v)[5] = q5 % Base
       /\ Bytes(v)[6] = q6 % Base /\ Bytes(v)[7] = v % Base
  BY DEF Bytes, Lane
<1> HIDE DEF q0, q1, q2, q3, q4, q5, q6
<1>11. \A b \in Lane : b \in {0, 1, 2, 3, 4, 5, 6, 7}
  BY DEF Lane
<1>12. \A n \in 0 .. Base - 1 : n \in 0 .. 255
  BY <1>1
<1>13. /\ Bytes(v)[0] \in 0 .. 255 /\ Bytes(v)[1] \in 0 .. 255
       /\ Bytes(v)[2] \in 0 .. 255 /\ Bytes(v)[3] \in 0 .. 255
  BY <1>12, <1>5, <1>6, <1>7, <1>8, <1>9, <1>10
<1>14. /\ Bytes(v)[4] \in 0 .. 255 /\ Bytes(v)[5] \in 0 .. 255
       /\ Bytes(v)[6] \in 0 .. 255 /\ Bytes(v)[7] \in 0 .. 255
  BY <1>12, <1>2, <1>3, <1>4, <1>5, <1>10
<1>15. \A b \in Lane : Bytes(v)[b] \in 0 .. 255
  BY <1>11, <1>13, <1>14
<1>16. Number(Bytes(v)) = ((((((q0 * Base + (q1 % Base)) * Base + (q2 % Base)) * Base
            + (q3 % Base)) * Base + (q4 % Base)) * Base + (q5 % Base)) * Base
            + (q6 % Base)) * Base + (v % Base)
  <2>1. Number(Bytes(v)) = ((((((Bytes(v)[0] * Base + Bytes(v)[1]) * Base + Bytes(v)[2])
            * Base + Bytes(v)[3]) * Base + Bytes(v)[4]) * Base + Bytes(v)[5]) * Base
            + Bytes(v)[6]) * Base + Bytes(v)[7]
    BY DEF Number
  <2> QED BY <1>9, <1>10, <2>1, Zenon
<1>17. Number(Bytes(v)) = v
  BY <1>2, <1>3, <1>4, <1>5, <1>6, <1>7, <1>8, <1>16, Zenon
<1> QED BY <1>15, <1>17

(* A stored item number has eight words of eight bytes, and loading it     *)
(* gives the number back: the masks of store lose nothing, and | puts the  *)
(* bytes together again (chain.c:10-25).                                   *)
LEMMA LoadStore ==
  ASSUME NEW v \in Node
  PROVE  Store(v) \in [Lane -> [Lane -> Int]] /\ Load(Store(v)) = v
PROOF
<1>1. \A b \in Lane : Bytes(v)[b] \in 0 .. 255
  BY NumberOfBytes
<1>2. \A k, b \in Lane : Store(v)[k][b] = IF b = k THEN Bytes(v)[b] ELSE 0
  BY DEF Store, Mask
<1>3. Store(v) \in [Lane -> [Lane -> Int]]
  BY <1>1 DEF Store
<1>4. Or(0, 0) = 0
  BY OrZero
<1> DEFINE S(k, b) == Store(v)[k][b]
           Joined(b) == Or(Or(Or(S(0, b), S(1, b)), Or(S(2, b), S(3, b))),
                           Or(Or(S(4, b), S(5, b)), Or(S(6, b), S(7, b))))
<1>5. ASSUME NEW b \in Lane PROVE Joined(b) = Bytes(v)[b]
  <2>1. Or(Bytes(v)[b], 0) = Bytes(v)[b] /\ Or(0, Bytes(v)[b]) = Bytes(v)[b]
    BY <1>1, OrZero
  <2>2. \A k \in {0, 1, 2, 3, 4, 5, 6, 7} : S(k, b) = IF b = k THEN Bytes(v)[b] ELSE 0
    BY <1>2 DEF Lane
  <2>3. b \in {0, 1, 2, 3, 4, 5, 6, 7}
    BY DEF Lane
  <2> QED BY <1>4, <2>1, <2>2, <2>3
<1>6. Load(Store(v)) = Number([b \in Lane |-> Joined(b)])
  BY DEF Load
<1>7. [b \in Lane |-> Joined(b)] = [b \in Lane |-> Bytes(v)[b]]
  BY <1>5
<1>8. [b \in Lane |-> Bytes(v)[b]] = Bytes(v)
  BY DEF Bytes
<1> QED BY <1>3, <1>6, <1>7, <1>8, NumberOfBytes

-----------------------------------------------------------------------------
(* The places of a permutation are the items, each once.                   *)
LEMMA PlacesAreItems ==
  ASSUME Permutation
  PROVE  /\ \A k \in Node : At(k) \in Node
         /\ \A k, m \in Node : At(k) = At(m) => k = m
         /\ \A n \in Node : \E k \in Node : At(k) = n
PROOF
<1>1. \A k \in Node : k # 0 => k - 1 \in Slot /\ idx[k - 1] \in 1 .. Size - 1
  BY SizeAssumption DEF Permutation, Node, Slot
<1>2. \A k \in Node : At(k) \in Node
  BY <1>1, SizeAssumption DEF At, Node
<1>3. ASSUME NEW k \in Node, NEW m \in Node, At(k) = At(m)
      PROVE  k = m
  <2>1. CASE k = 0
    BY <1>1, <1>3, <2>1, SizeAssumption DEF At, Node
  <2>2. CASE m = 0
    BY <1>1, <1>3, <2>2, SizeAssumption DEF At, Node
  <2>3. CASE k # 0 /\ m # 0
    <3>1. idx[k - 1] = idx[m - 1]
      BY <1>3, <2>3 DEF At
    <3>2. k - 1 = m - 1
      BY <1>1, <2>3, <3>1 DEF Permutation
    <3> QED BY <3>2, SizeAssumption DEF Node
  <2> QED BY <2>1, <2>2, <2>3
<1>4. ASSUME NEW n \in Node
      PROVE  \E k \in Node : At(k) = n
  <2>1. CASE n = 0
    <3>1. 0 \in Node /\ At(0) = 0
      BY SizeAssumption DEF At, Node
    <3> QED BY <2>1, <3>1
  <2>2. CASE n # 0
    <3>1. n \in 1 .. Size - 1
      BY <2>2, SizeAssumption DEF Node
    <3>2. PICK a \in Slot : idx[a] = n
      BY <3>1 DEF Permutation
    <3>3. a + 1 \in Node /\ a + 1 # 0 /\ (a + 1) - 1 = a
      BY <3>2, SizeAssumption DEF Node, Slot
    <3>4. At(a + 1) = n
      BY <3>2, <3>3 DEF At
    <3> QED BY <3>3, <3>4
  <2> QED BY <2>1, <2>2
<1> QED BY <1>2, <1>3, <1>4

LEMMA WrapType ==
  ASSUME NEW k \in 0 .. 2 * Size - 1
  PROVE  Wrap(k) \in Node
  BY SizeAssumption DEF Wrap, Node

(* Loading from a place of the finished ring gives the next place.         *)
LEMMA FollowLink ==
  ASSUME TypeOK, Permutation, LinkedTo(Size), NEW k \in Node
  PROVE  Load(chain[At(k)]) = At(Wrap(k + 1))
PROOF
<1>1. Wrap(k + 1) \in Node
  BY SizeAssumption, WrapType DEF Node
<1>2. At(Wrap(k + 1)) \in Node
  BY <1>1, PlacesAreItems
<1>3. chain[At(k)] = Store(At(Wrap(k + 1)))
  BY DEF LinkedTo, Node
<1> QED BY <1>2, <1>3, LoadStore

(* Swapping two places keeps a permutation a permutation.                  *)
LEMMA SwapPermutes ==
  ASSUME Permutation, NEW a \in Slot, NEW b \in Slot, idx' = Swap(idx, a, b)
  PROVE  Permutation'
PROOF
<1> DEFINE Other(s) == IF s = a THEN b ELSE IF s = b THEN a ELSE s
<1>1. /\ \A s \in Slot : Other(s) \in Slot
      /\ \A s, t \in Slot : Other(s) = Other(t) => s = t
      /\ \A s \in Slot : Other(Other(s)) = s
  OBVIOUS
<1>2. idx' \in [Slot -> 1 .. Size - 1]
  BY DEF Permutation, Swap
<1>3. \A s \in Slot : idx'[s] = idx[Other(s)]
  BY DEF Permutation, Swap
<1> HIDE DEF Other
<1>4. \A s, t \in Slot : idx'[s] = idx'[t] => s = t
  BY <1>1, <1>3 DEF Permutation
<1>5. ASSUME NEW v \in 1 .. Size - 1
      PROVE  \E s \in Slot : idx'[s] = v
  <2>1. PICK s \in Slot : idx[s] = v
    BY DEF Permutation
  <2> QED BY <1>1, <1>3, <2>1
<1> QED BY <1>2, <1>4, <1>5 DEF Permutation

-----------------------------------------------------------------------------
LEMMA InitIInv == Init => IInv
PROOF
<1> SUFFICES ASSUME Init PROVE IInv
  OBVIOUS
<1>1. ZeroItem \in [Lane -> [Lane -> Int]]
  BY DEF ZeroItem
<1>2. 0 \in Node /\ 0 \in 0 .. Size - 1 /\ 0 \in 0 .. Size
  BY SizeAssumption DEF Node
<1>3. TypeOK
  BY <1>1, <1>2 DEF Init, TypeOK
<1>4. Shape /\ ShuffleMovesAll /\ Walk
  BY DEF Init, Shape, ShuffleMovesAll, Walk, Built
<1> QED BY <1>3, <1>4 DEF IInv

LEMMA FillStep == IInv /\ Fill => IInv'
PROOF
<1> SUFFICES ASSUME IInv, Fill PROVE IInv'
  OBVIOUS
<1>0. TypeOK /\ Walk
  BY DEF IInv
<1>1. /\ idx' = [s \in Slot |-> s + 1] /\ i' = Size - 2 /\ pc' = "shuffle"
      /\ UNCHANGED <<chain, p, start, todo, count, used>>
  BY DEF Fill
<1>2. \A s \in Slot : idx'[s] = s + 1 /\ s + 1 \in 1 .. Size - 1
  BY <1>1, SizeAssumption DEF Slot
<1>3. Permutation'
  <2>1. idx' \in [Slot -> 1 .. Size - 1]
    BY <1>1, <1>2
  <2>2. \A a, b \in Slot : idx'[a] = idx'[b] => a = b
    BY <1>2, SizeAssumption DEF Slot
  <2>3. ASSUME NEW v \in 1 .. Size - 1
        PROVE  \E a \in Slot : idx'[a] = v
    <3>1. v - 1 \in Slot
      BY SizeAssumption DEF Slot
    <3>2. idx'[v - 1] = v
      BY <1>2, <3>1
    <3> QED BY <3>1, <3>2
  <2> QED BY <2>1, <2>2, <2>3 DEF Permutation
<1>4. FrontAtHome'
  BY <1>1, <1>2, SizeAssumption DEF FrontAtHome, Slot
<1>5. TypeOK'
  <2>1. idx' \in [Slot -> Node]
    BY <1>1, SizeAssumption DEF Slot, Node
  <2>2. i' \in 0 .. Size - 1
    BY <1>1, SizeAssumption
  <2> QED BY <1>0, <1>1, <2>1, <2>2 DEF TypeOK
<1>6. Shape' /\ ShuffleMovesAll'
  BY <1>1, <1>3, <1>4 DEF Shape, ShuffleMovesAll, Built
<1>7. Walk'
  BY <1>0, <1>1 DEF Walk, Built, Fill
<1> QED BY <1>5, <1>6, <1>7 DEF IInv

LEMMA ShuffleStep == IInv /\ Shuffle => IInv'
PROOF
<1> SUFFICES ASSUME IInv, Shuffle PROVE IInv'
  OBVIOUS
<1>0. TypeOK /\ Permutation /\ FrontAtHome /\ Walk
  BY DEF IInv, Shape, Shuffle
<1>1. PICK j \in 0 .. i - 1 : idx' = Swap(idx, i, j)
  BY DEF Shuffle
<1>2. /\ pc = "shuffle" /\ i \in Slot /\ j \in Slot /\ i > 0 /\ j < i /\ i' = i - 1
      /\ UNCHANGED <<pc, chain, p, start, todo, count, used>>
  BY <1>0, <1>1, SizeAssumption DEF Shuffle, FrontAtHome, Slot
<1>3. Permutation'
  BY <1>0, <1>1, <1>2, SwapPermutes
<1>4. /\ idx'[i] = idx[j] /\ idx'[j] = idx[i]
      /\ \A s \in Slot : s # i /\ s # j => idx'[s] = idx[s]
  BY <1>0, <1>1, <1>2 DEF Swap, Permutation
<1>5. FrontAtHome'
  <2>0. i' \in Slot
    BY <1>2, SizeAssumption DEF Slot
  <2>1. ASSUME NEW m \in 0 .. i', NEW k \in 0 .. i', idx'[m] = k + 1
        PROVE  m = k
    <3>1. /\ m \in 0 .. i /\ k \in 0 .. i /\ m # i /\ k # i /\ m \in Slot
          /\ i \in 0 .. i
      BY <1>2, SizeAssumption DEF Slot
    <3>2. m # j
      BY <1>0, <1>4, <2>1, <3>1 DEF FrontAtHome
    <3>3. idx[m] = k + 1
      BY <1>4, <2>1, <3>1, <3>2
    <3> QED BY <1>0, <3>1, <3>3 DEF FrontAtHome
  <2>2. ASSUME NEW s \in Slot, s > i'
        PROVE  idx'[s] # s + 1
    <3>0. i \in 0 .. i /\ j \in 0 .. i /\ j # i
      BY <1>2, SizeAssumption DEF Slot
    <3>1. CASE s = i
      BY <1>0, <1>4, <3>0, <3>1 DEF FrontAtHome
    <3>2. CASE s # i
      <4>1. s > i /\ s # j
        BY <1>2, <2>2, <3>2, SizeAssumption DEF Slot
      <4> QED BY <1>0, <1>4, <3>2, <4>1 DEF FrontAtHome
    <3> QED BY <3>1, <3>2
  <2>3. ASSUME i' = 0
        PROVE  idx'[0] # 1
    <3>1. i = 1 /\ j = 0
      BY <1>2, <2>3, SizeAssumption DEF Slot
    <3>2. idx[1] # 0 + 1
      BY <1>0, <3>1 DEF FrontAtHome
    <3> QED BY <1>4, <3>1, <3>2
  <2> QED BY <2>0, <2>1, <2>2, <2>3 DEF FrontAtHome
<1>6. TypeOK'
  <2>1. idx' \in [Slot -> Node]
    BY <1>3, SizeAssumption DEF Permutation, Node
  <2>2. i' \in 0 .. Size - 1
    BY <1>2, SizeAssumption DEF Slot
  <2> QED BY <1>0, <1>2, <2>1, <2>2 DEF TypeOK
<1>7. Shape' /\ ShuffleMovesAll'
  BY <1>2, <1>3, <1>5 DEF Shape, ShuffleMovesAll, Built
<1>8. Walk'
  BY <1>0, <1>2 DEF Walk, Built
<1> QED BY <1>6, <1>7, <1>8 DEF IInv

(* Rewriting the link of one place leaves the links of the others alone,   *)
(* because different places are different items.                           *)
LEMMA RelinkPlace ==
  ASSUME TypeOK, Permutation, UNCHANGED idx,
         NEW k \in Node, NEW v \in Node,
         chain' = [chain EXCEPT ![At(k)] = Store(v)]
  PROVE  /\ chain' \in [Node -> [Lane -> [Lane -> Int]]]
         /\ chain'[At(k)] = Store(v)
         /\ \A m \in Node : m # k => chain'[At(m)] = chain[At(m)]
PROOF
<1>1. At(k) \in Node /\ \A m \in Node : m # k => At(m) \in Node /\ At(m) # At(k)
  BY PlacesAreItems
<1>2. Store(v) \in [Lane -> [Lane -> Int]]
  BY LoadStore
<1>3. chain \in [Node -> [Lane -> [Lane -> Int]]]
  BY DEF TypeOK
<1> HIDE DEF At
<1> QED BY <1>1, <1>2, <1>3

LEMMA LinkFirstStep == IInv /\ LinkFirst => IInv'
PROOF
<1> SUFFICES ASSUME IInv, LinkFirst PROVE IInv'
  OBVIOUS
<1>0. TypeOK /\ Permutation /\ FrontAtHome /\ Walk
  BY DEF IInv, Shape, LinkFirst
<1>1. /\ i = 0 /\ i' = 1 /\ pc = "shuffle" /\ pc' = "link"
      /\ UNCHANGED <<idx, p, start, todo, count, used>>
      /\ chain' = [chain EXCEPT ![0] = Store(idx[0])]
  BY DEF LinkFirst
<1>2. At(0) = 0 /\ At(1) = idx[0] /\ 0 \in Node /\ 1 \in Node /\ Wrap(0 + 1) = 1
  BY SizeAssumption DEF At, Node, Wrap
<1>3. At(1) \in Node
  BY <1>0, <1>2, PlacesAreItems
<1>4. chain' = [chain EXCEPT ![At(0)] = Store(At(1))]
  BY <1>1, <1>2
<1>5. chain' \in [Node -> [Lane -> [Lane -> Int]]] /\ chain'[At(0)] = Store(At(1))
  BY <1>0, <1>1, <1>2, <1>3, <1>4, RelinkPlace
<1>6. UNCHANGED At(0) /\ UNCHANGED At(1) /\ UNCHANGED Permutation
  BY <1>1 DEF At, Permutation
<1>7. LinkedTo(1)'
  BY <1>2, <1>5, <1>6 DEF LinkedTo
<1>8. TypeOK'
  BY <1>0, <1>1, <1>5, SizeAssumption DEF TypeOK
<1>9. Shape'
  BY <1>0, <1>1, <1>6, <1>7, SizeAssumption DEF Shape, Built
<1>10. ShuffleMovesAll'
  <2>1. \A s \in Slot : s = 0 \/ s > 0
    BY SizeAssumption DEF Slot
  <2> QED BY <1>0, <1>1, <2>1 DEF ShuffleMovesAll, FrontAtHome
<1>11. Walk'
  BY <1>0, <1>1 DEF Walk, Built
<1> QED BY <1>8, <1>9, <1>10, <1>11 DEF IInv

LEMMA LinkNextStep == IInv /\ LinkNext => IInv'
PROOF
<1> SUFFICES ASSUME IInv, LinkNext PROVE IInv'
  OBVIOUS
<1>0. TypeOK /\ Permutation /\ i \in 1 .. Size - 1 /\ LinkedTo(i) /\ Walk
      /\ ShuffleMovesAll
  BY DEF IInv, Shape, LinkNext
<1>1. /\ i < Size - 1 /\ i' = i + 1 /\ pc = "link" /\ pc' = "link"
      /\ UNCHANGED <<idx, p, start, todo, count, used>>
      /\ chain' = [chain EXCEPT ![idx[i - 1]] = Store(idx[i])]
  BY DEF LinkNext
<1>2. /\ i \in Node /\ i + 1 \in Node /\ Wrap(i + 1) = i + 1
      /\ At(i) = idx[i - 1] /\ At(i + 1) = idx[i]
  BY <1>0, <1>1, SizeAssumption DEF At, Node, Wrap
<1>3. At(i + 1) \in Node
  BY <1>0, <1>2, PlacesAreItems
<1>4. chain' = [chain EXCEPT ![At(i)] = Store(At(i + 1))]
  BY <1>1, <1>2
<1>5. /\ chain' \in [Node -> [Lane -> [Lane -> Int]]]
      /\ chain'[At(i)] = Store(At(i + 1))
      /\ \A m \in Node : m # i => chain'[At(m)] = chain[At(m)]
  BY <1>0, <1>1, <1>2, <1>3, <1>4, RelinkPlace
<1>6. UNCHANGED Permutation
  BY <1>1 DEF Permutation
<1>7. LinkedTo(i)'
  <2>1. SUFFICES ASSUME NEW k \in 0 .. (i + 1) - 1
                 PROVE  chain'[At(k)'] = Store(At(Wrap(k + 1)))'
    BY <1>1 DEF LinkedTo
  <2>2. At(k)' = At(k) /\ Store(At(Wrap(k + 1)))' = Store(At(Wrap(k + 1)))
    BY <1>1 DEF At, Wrap, Store, Bytes, Mask
  <2>3. CASE k = i
    BY <1>2, <1>5, <2>2, <2>3
  <2>4. CASE k # i
    <3>1. k \in 0 .. i - 1 /\ k \in Node
      BY <1>0, <2>4, SizeAssumption DEF Node
    <3> QED BY <1>0, <1>5, <2>2, <2>4, <3>1 DEF LinkedTo
  <2> QED BY <2>3, <2>4
<1>8. i' \in 1 .. Size - 1
  BY <1>0, <1>1, SizeAssumption
<1>9. TypeOK'
  BY <1>0, <1>1, <1>5, <1>8, SizeAssumption DEF TypeOK
<1>10. Shape'
  BY <1>0, <1>1, <1>6, <1>7, <1>8 DEF Shape, Built
<1>11. ShuffleMovesAll' /\ Walk'
  BY <1>0, <1>1 DEF ShuffleMovesAll, Walk, Built
<1> QED BY <1>9, <1>10, <1>11 DEF IInv

LEMMA LinkLastStep == IInv /\ LinkLast => IInv'
PROOF
<1> SUFFICES ASSUME IInv, LinkLast PROVE IInv'
  OBVIOUS
<1>0. TypeOK /\ Permutation /\ LinkedTo(Size - 1) /\ Walk /\ ShuffleMovesAll
  BY DEF IInv, Shape, LinkLast
<1>1. /\ pc = "link" /\ pc' = "ready"
      /\ UNCHANGED <<idx, i, p, start, todo, count, used>>
      /\ chain' = [chain EXCEPT ![idx[Size - 2]] = Store(0)]
  BY DEF LinkLast
<1>2. /\ Size - 1 \in Node /\ 0 \in Node /\ Wrap((Size - 1) + 1) = 0 /\ At(0) = 0
      /\ At(Size - 1) = idx[Size - 2]
  BY SizeAssumption DEF At, Node, Wrap
<1>4. chain' = [chain EXCEPT ![At(Size - 1)] = Store(0)]
  BY <1>1, <1>2
<1>5. /\ chain' \in [Node -> [Lane -> [Lane -> Int]]]
      /\ chain'[At(Size - 1)] = Store(0)
      /\ \A m \in Node : m # Size - 1 => chain'[At(m)] = chain[At(m)]
  BY <1>0, <1>1, <1>2, <1>4, RelinkPlace
<1>6. UNCHANGED Permutation
  BY <1>1 DEF Permutation
<1>7. LinkedTo(Size)'
  <2>1. SUFFICES ASSUME NEW k \in 0 .. Size - 1
                 PROVE  chain'[At(k)'] = Store(At(Wrap(k + 1)))'
    BY DEF LinkedTo
  <2>2. At(k)' = At(k) /\ Store(At(Wrap(k + 1)))' = Store(At(Wrap(k + 1)))
    BY <1>1 DEF At, Wrap, Store, Bytes, Mask
  <2>3. CASE k = Size - 1
    BY <1>2, <1>5, <2>2, <2>3
  <2>4. CASE k # Size - 1
    <3>1. k \in 0 .. (Size - 1) - 1 /\ k \in Node
      BY <2>4, SizeAssumption DEF Node
    <3> QED BY <1>0, <1>5, <2>2, <2>4, <3>1 DEF LinkedTo
  <2> QED BY <2>3, <2>4
<1>8. TypeOK'
  BY <1>0, <1>1, <1>5 DEF TypeOK
<1>9. Shape'
  BY <1>0, <1>1, <1>6, <1>7 DEF Shape, Built
<1>10. ShuffleMovesAll'
  BY <1>0, <1>1 DEF ShuffleMovesAll
<1>11. Walk'
  <2>1. count' = 0 /\ start' = 0 /\ p' = 0 /\ used' = {}
    BY <1>0, <1>1 DEF Walk, Built
  <2>2. At(0)' = 0 /\ Wrap(0 + 0) = 0
    BY SizeAssumption DEF At, Wrap
  <2>3. Walked'
    BY <1>2, <2>1, <2>2 DEF Walked
  <2> QED BY <1>1, <2>3 DEF Walk, Built
<1> QED BY <1>8, <1>9, <1>10, <1>11 DEF IInv

LEMMA StartChaseStep == IInv /\ StartChase => IInv'
PROOF
<1> SUFFICES ASSUME IInv, StartChase PROVE IInv'
  OBVIOUS
<1>0. TypeOK /\ Permutation /\ LinkedTo(Size) /\ ShuffleMovesAll
  BY DEF IInv, Shape, StartChase, Built
<1>1. /\ start' \in Node /\ p' = start' /\ todo' \in ChaseCounts /\ count' = 0
      /\ used' = {} /\ pc' = "chase" /\ pc = "ready" /\ UNCHANGED <<idx, i, chain>>
  BY DEF StartChase
<1>2. todo' \in 0 .. Size
  BY <1>1, SizeAssumption, ChasesAssumption DEF ChaseCounts
<1>3. TypeOK'
  BY <1>0, <1>1, <1>2 DEF TypeOK
<1>4. UNCHANGED Permutation /\ UNCHANGED LinkedTo(Size)
  BY <1>1 DEF Permutation, LinkedTo, At
<1>5. Shape' /\ ShuffleMovesAll'
  BY <1>0, <1>1, <1>4 DEF Shape, Built, ShuffleMovesAll
<1>6. Walk'
  <2>1. PICK s \in Node : At(s) = start'
    BY <1>0, <1>1, PlacesAreItems
  <2>2. At(s)' = start' /\ Wrap(s + 0) = s
    BY <1>1, <2>1, SizeAssumption DEF At, Wrap, Node
  <2>3. Walked'
    BY <1>1, <2>2 DEF Walked
  <2> QED BY <1>1, <2>3 DEF Walk, Built
<1> QED BY <1>3, <1>5, <1>6 DEF IInv

LEMMA ChaseStep == IInv /\ Chase => IInv'
PROOF
<1> SUFFICES ASSUME IInv, Chase PROVE IInv'
  OBVIOUS
<1>0. TypeOK /\ Permutation /\ LinkedTo(Size) /\ ShuffleMovesAll /\ Walked
  BY DEF IInv, Shape, Chase, Built, Walk
<1>1. /\ used' = used \cup {p} /\ p' = Load(chain[p]) /\ count' = count + 1
      /\ pc = "chase" /\ pc' = "chase" /\ count < todo
      /\ UNCHANGED <<idx, i, chain, start, todo>>
  BY DEF Chase
<1>2. count \in 0 .. Size - 1 /\ count' \in 0 .. todo' /\ count' \in 0 .. Size
  BY <1>0, <1>1, SizeAssumption DEF TypeOK
<1>3. PICK s \in Node : /\ start = At(s) /\ p = At(Wrap(s + count))
                        /\ used = {At(Wrap(s + c)) : c \in 0 .. count - 1}
  BY <1>0 DEF Walked
<1>4. /\ Wrap(s + count) \in Node
      /\ Wrap(Wrap(s + count) + 1) = Wrap(s + (count + 1))
      /\ Wrap(s + (count + 1)) \in Node
  BY <1>2, SizeAssumption DEF Wrap, Node
<1>5. p' = At(Wrap(s + (count + 1)))
  BY <1>0, <1>1, <1>3, <1>4, FollowLink
<1>6. p' \in Node /\ p \in Node
  BY <1>0, <1>4, <1>5, PlacesAreItems DEF TypeOK
<1>7. TypeOK'
  BY <1>0, <1>1, <1>2, <1>6 DEF TypeOK
<1>8. UNCHANGED Permutation /\ UNCHANGED LinkedTo(Size)
  BY <1>1 DEF Permutation, LinkedTo, At
<1>9. Shape' /\ ShuffleMovesAll'
  BY <1>0, <1>1, <1>8 DEF Shape, Built, ShuffleMovesAll
<1>10. Walked'
  <2>1. \A k : At(k)' = At(k)
    BY <1>1 DEF At
  <2>2. 0 .. count' - 1 = (0 .. count - 1) \cup {count}
    BY <1>1, <1>2
  <2>3. used' = {At(Wrap(s + c)) : c \in 0 .. count' - 1}
    BY <1>1, <1>3, <2>2
  <2>4. start' = At(s) /\ p' = At(Wrap(s + count'))
    BY <1>1, <1>3, <1>5
  <2> QED BY <2>1, <2>3, <2>4 DEF Walked, Wrap
<1> QED BY <1>1, <1>7, <1>9, <1>10 DEF IInv, Walk, Built

LEMMA EndChaseStep == IInv /\ EndChase => IInv'
PROOF
<1> SUFFICES ASSUME IInv, EndChase PROVE IInv'
  OBVIOUS
<1>1. /\ pc = "chase" /\ pc' = "ready"
      /\ UNCHANGED <<idx, i, chain, p, start, todo, count, used>>
  BY DEF EndChase
<1>2. TypeOK'
  BY <1>1 DEF IInv, TypeOK
<1>3. LinkedTo(Size)'
  BY <1>1 DEF IInv, Shape, Built, LinkedTo, At
<1>4. Shape'
  BY <1>1, <1>3 DEF IInv, Shape, Permutation, Built
<1>5. ShuffleMovesAll' /\ Walk'
  BY <1>1 DEF IInv, ShuffleMovesAll, Walk, Walked, Built, At
<1> QED BY <1>2, <1>4, <1>5 DEF IInv

LEMMA StutterStep == IInv /\ UNCHANGED vars => IInv'
PROOF
<1> SUFFICES ASSUME IInv, UNCHANGED vars PROVE IInv'
  OBVIOUS
<1>1. UNCHANGED <<pc, idx, i, chain, p, start, todo, count, used>>
  BY DEF vars
<1>2. TypeOK'
  BY <1>1 DEF IInv, TypeOK
<1>3. Shape'
  BY <1>1 DEF IInv, Shape, Permutation, FrontAtHome, Built, LinkedTo, At
<1>4. ShuffleMovesAll' /\ Walk'
  BY <1>1 DEF IInv, ShuffleMovesAll, Walk, Walked, Built, At
<1> QED BY <1>2, <1>3, <1>4 DEF IInv

(* The inductive invariant holds in every state.                           *)
THEOREM InductiveInvariant == Spec => []IInv
PROOF
<1>1. IInv /\ [Next]_vars => IInv'
  BY FillStep, ShuffleStep, LinkFirstStep, LinkNextStep, LinkLastStep,
     StartChaseStep, ChaseStep, EndChaseStep, StutterStep DEF Next, Build
<1> QED BY InitIInv, <1>1, PTL DEF Spec

-----------------------------------------------------------------------------
(* Every variable keeps to its type, whatever the sizes (chain.c:28-108,   *)
(* main.c:50-75).                                                          *)
THEOREM TypeCorrect == Spec => []TypeOK
PROOF
<1>1. IInv => TypeOK
  BY DEF IInv
<1> QED BY <1>1, InductiveInvariant, PTL

(* No walk of any length below Size meets an item twice, for every chain   *)
(* size and every outcome of the shuffle (chain.c:66-72, main.c:55-75).    *)
THEOREM NeverRepeats == Spec => []ChaseNeverRepeats
PROOF
<1>1. IInv => ChaseNeverRepeats
  <2>1. SUFFICES ASSUME IInv, Built, count < Size, p \in used
                 PROVE  FALSE
    BY DEF ChaseNeverRepeats
  <2>2. Permutation /\ Walked /\ count \in 0 .. Size - 1
    BY <2>1, SizeAssumption DEF IInv, Shape, Walk, TypeOK, Built
  <2>3. PICK s \in Node : /\ p = At(Wrap(s + count))
                          /\ used = {At(Wrap(s + c)) : c \in 0 .. count - 1}
    BY <2>2 DEF Walked
  <2>4. PICK c \in 0 .. count - 1 : At(Wrap(s + count)) = At(Wrap(s + c))
    BY <2>1, <2>3
  <2>5. /\ Wrap(s + count) \in Node /\ Wrap(s + c) \in Node
        /\ Wrap(s + count) # Wrap(s + c)
    BY <2>2, <2>4, SizeAssumption DEF Wrap, Node
  <2> QED BY <2>2, <2>4, <2>5, PlacesAreItems
<1> QED BY <1>1, InductiveInvariant, PTL

(* Size links visit every item and come back to the first one: the chain   *)
(* is one loop over all the items (chain.c:77).                            *)
THEOREM WalksTheWholeChain == Spec => []FullLap
PROOF
<1>1. IInv => FullLap
  <2>1. SUFFICES ASSUME IInv, Built, count = Size
                 PROVE  used = Node /\ p = start
    BY DEF FullLap
  <2>2. Permutation /\ Walked
    BY <2>1 DEF IInv, Shape, Walk, Built
  <2>3. PICK s \in Node : /\ start = At(s) /\ p = At(Wrap(s + Size))
                          /\ used = {At(Wrap(s + c)) : c \in 0 .. Size - 1}
    BY <2>1, <2>2 DEF Walked
  <2>4. Wrap(s + Size) = s
    BY SizeAssumption DEF Wrap, Node
  <2>5. ASSUME NEW n \in Node PROVE n \in used
    <3>1. PICK k \in Node : At(k) = n
      BY <2>2, PlacesAreItems
    <3>2. PICK c \in 0 .. Size - 1 : Wrap(s + c) = k
      <4>1. CASE k >= s
        <5>1. k - s \in 0 .. Size - 1 /\ Wrap(s + (k - s)) = k
          BY <4>1, SizeAssumption DEF Wrap, Node
        <5> QED BY <5>1
      <4>2. CASE k < s
        <5>1. k + Size - s \in 0 .. Size - 1 /\ Wrap(s + (k + Size - s)) = k
          BY <4>2, SizeAssumption DEF Wrap, Node
        <5> QED BY <5>1
      <4> QED BY <4>1, <4>2 DEF Node
    <3> QED BY <2>3, <3>1, <3>2
  <2>6. used \subseteq Node
    BY <2>1 DEF IInv, TypeOK
  <2> QED BY <2>3, <2>4, <2>5, <2>6
<1> QED BY <1>1, InductiveInvariant, PTL

(* The shuffle leaves no number at its first place, for every chain size   *)
(* above 2 and every sequence of random numbers (chain.c:44-55).           *)
THEOREM ShuffleDisplaces == Spec => []ShuffleMovesAll
PROOF
<1>1. IInv => ShuffleMovesAll
  BY DEF IInv
<1> QED BY <1>1, InductiveInvariant, PTL

LEMMA ProductBound ==
  ASSUME NEW a \in Nat \ {0}, NEW f \in Nat, a <= f, NEW n \in Nat
  PROVE  /\ f \div a \in Nat \ {0}
         /\ (n % (f \div a)) * a + a <= f
         /\ ((n % (f \div a)) * a) % a = 0
PROOF
<1> DEFINE q == f \div a
           r == n % q
<1>1. q \in Nat /\ a * q <= f /\ f < a * q + a
  OBVIOUS
<1>2. q # 0
  <2>1. a * 0 = 0
    OBVIOUS
  <2> QED BY <1>1, <2>1
<1>3. q \in Nat \ {0}
  BY <1>1, <1>2
<1> HIDE DEF q
<1>4. r \in 0 .. q - 1
  BY <1>3, ModType
<1> HIDE DEF r
<1>5. (r + 1) * a <= q * a
  BY <1>3, <1>4
<1>6. r * a + a = (r + 1) * a /\ q * a = a * q
  BY <1>3, <1>4
<1>7. r * a \in Int /\ (r * a) % a = 0
  BY <1>4
<1> QED BY <1>1, <1>3, <1>5, <1>6, <1>7 DEF q, r

(* The I/O of an operation never leaves the file and never loses its       *)
(* alignment, for every file size and access size (main.c:160).            *)
THEOREM AccessStaysInside == Spec => []AccessInsideFile
PROOF
<1>1. IInv => AccessInsideFile
  <2>1. SUFFICES ASSUME IInv PROVE AccessInsideFile
    OBVIOUS
  <2>2. p \in Nat
    BY <2>1, SizeAssumption DEF IInv, TypeOK, Node
  <2> QED BY <2>2, FileAssumption, ProductBound DEF AccessInsideFile, IoAddr
<1> QED BY <1>1, InductiveInvariant, PTL
=============================================================================
