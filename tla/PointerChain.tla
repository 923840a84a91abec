---------------------------- MODULE PointerChain ----------------------------
(***************************************************************************)
(* The pointer chain of the microbenchmark (microbench/src/chain.c) and    *)
(* the walk over it (chase_pointers in microbench/src/main.c).             *)
(*                                                                         *)
(* create_pointer_chain shuffles the numbers 1 .. Size-1 and links the     *)
(* items in the shuffled order, starting from item 0 and returning to it.  *)
(* Every operation of the benchmark then starts from a random item,        *)
(* follows a number of links and turns the item it ends on into a block    *)
(* address for the I/O.  The measured latencies mean something only if a   *)
(* walk never meets an item twice: a second visit would hit a CPU cache.   *)
(*                                                                         *)
(* The chain is built before any thread exists and only read afterwards,   *)
(* so one walker stands for all of them.                                   *)
(***************************************************************************)
EXTENDS Integers

CONSTANTS
  Size,        \* chain_size, the number of items of the chain
  Base,        \* values of one byte: 256 in the code, 2 for TLC
  NumChases,   \* num_chases, links followed by an operation, give or take 1
  FileSize,    \* file_size of the block device
  AccessSize   \* access_size of one I/O

(* With Size < 2 the loop bound size - 2 wraps around as an unsigned       *)
(* number; batch.py builds chains of 2 and of 2^30 items.                  *)
ASSUME SizeAssumption == Size \in Nat /\ Size >= 2
(* An item number fits the eight bytes of a uint64_t.                      *)
Square == Base * Base
ASSUME BaseAssumption == /\ Base \in 2 .. 256
                         /\ Size <= Square * Square * Square * Square
(* Every parameter set of batch.py walks at most once around the chain.    *)
ASSUME ChasesAssumption == NumChases \in Nat /\ NumChases < Size
(* A file smaller than one access makes the code divide by zero.           *)
ASSUME FileAssumption == /\ FileSize \in Nat
                         /\ AccessSize \in Nat \ {0}
                         /\ AccessSize <= FileSize

Node == 0 .. Size - 1
Slot == 0 .. Size - 2           \* indices of the temporary array idx
Lane == 0 .. 7                  \* the eight words of a struct item_t

VARIABLES
  pc,       \* "fill", "shuffle", "link", "ready" or "chase"
  idx,      \* the temporary index array (its value outlives free(idx) here)
  i,        \* loop variable of the shuffle and of the linking loop
  chain,    \* the mapped items, eight words each
  p,        \* the walker's current item
  start,    \* the item init_pointer chose                       (history)
  todo,     \* links the walker follows in this operation
  count,    \* links followed so far
  used      \* items loaded in this walk                         (history)

vars == <<pc, idx, i, chain, p, start, todo, count, used>>

-----------------------------------------------------------------------------
(* A word is a function from its bytes to their values, byte 0 being the   *)
(* highest; these are the bytes of a number, and the number of some bytes. *)
Bytes(val) ==
  LET q6 == val \div Base
      q5 == q6 \div Base
      q4 == q5 \div Base
      q3 == q4 \div Base
      q2 == q3 \div Base
      q1 == q2 \div Base
      q0 == q1 \div Base
  IN  [b \in Lane |-> <<q0, q1, q2, q3, q4, q5, q6, val>>[b + 1] % Base]

Number(w) ==
  ((((((w[0] * Base + w[1]) * Base + w[2]) * Base + w[3]) * Base
     + w[4]) * Base + w[5]) * Base + w[6]) * Base + w[7]

(* x | y for two bytes.                                                    *)
Or(x, y) ==
  LET bit(t) == IF (x \div t) % 2 = 1 \/ (y \div t) % 2 = 1 THEN t ELSE 0
  IN  bit(1) + bit(2) + bit(4) + bit(8) + bit(16) + bit(32) + bit(64) + bit(128)

(* Mutant of Mask: one mask is used twice.                                 *)
MaskTwice(k) == IF k = 6 THEN {7} ELSE {k}

(* The bytes that store keeps in word k, all others being zero.            *)
Mask(k) == {k}

Store(val) ==
  [k \in Lane |-> [b \in Lane |-> IF b \in Mask(k) THEN Bytes(val)[b] ELSE 0]]

(* load joins the eight words with |.                                      *)
Load(item) ==
  LET at(k, b) == item[k][b]
  IN  Number([b \in Lane |->
                Or(Or(Or(at(0, b), at(1, b)), Or(at(2, b), at(3, b))),
                   Or(Or(at(4, b), at(5, b)), Or(at(6, b), at(7, b))))])

(* An item of a fresh anonymous mapping.                                   *)
ZeroItem == [k \in Lane |-> [b \in Lane |-> 0]]

Swap(f, a, b) == [f EXCEPT ![a] = f[b], ![b] = f[a]]

(* Mutant of IoAddr: one block too many.                                   *)
IoAddrPastEnd(node) == (node % (FileSize \div AccessSize + 1)) * AccessSize

(* The byte offset of the I/O an operation does after its walk.            *)
IoAddr(node) == (node % (FileSize \div AccessSize)) * AccessSize

(* num_chases + fluctuation, where rand() % 3 - 1 may be -1, 0 or 1.       *)
ChaseCounts ==
  IF NumChases > 0 THEN {NumChases - 1, NumChases, NumChases + 1} ELSE {0}

-----------------------------------------------------------------------------
(* malloc leaves anything in idx; the mapping is zero.                     *)
Init ==
  /\ pc = "fill"
  /\ idx \in [Slot -> Node]
  /\ i = 0
  /\ chain = [n \in Node |-> ZeroItem]
  /\ p = 0 /\ start = 0 /\ todo = 0 /\ count = 0 /\ used = {}

(* The numbers of the items but the first.                                 *)
Fill ==
  /\ pc = "fill"
  /\ idx' = [s \in Slot |-> s + 1]
  /\ i' = Size - 2
  /\ pc' = "shuffle"
  /\ UNCHANGED <<chain, p, start, todo, count, used>>

(* One iteration of the shuffle: j = r % i, so j is never i itself.        *)
Shuffle ==
  /\ pc = "shuffle" /\ i > 0
  /\ \E j \in 0 .. i - 1 : idx' = Swap(idx, i, j)
  /\ i' = i - 1
  /\ UNCHANGED <<pc, chain, p, start, todo, count, used>>

LinkFirst ==
  /\ pc = "shuffle" /\ i = 0
  /\ chain' = [chain EXCEPT ![0] = Store(idx[0])]
  /\ i' = 1
  /\ pc' = "link"
  /\ UNCHANGED <<idx, p, start, todo, count, used>>

LinkNext ==
  /\ pc = "link" /\ i < Size - 1
  /\ chain' = [chain EXCEPT ![idx[i - 1]] = Store(idx[i])]
  /\ i' = i + 1
  /\ UNCHANGED <<pc, idx, p, start, todo, count, used>>

(* Mutant of LinkLast: the loop closed at the first index, not at item 0.  *)
LinkLastToFirst ==
  /\ pc = "link" /\ i = Size - 1
  /\ chain' = [chain EXCEPT ![idx[Size - 2]] = Store(idx[0])]
  /\ pc' = "ready"
  /\ UNCHANGED <<idx, i, p, start, todo, count, used>>

LinkLast ==
  /\ pc = "link" /\ i = Size - 1
  /\ chain' = [chain EXCEPT ![idx[Size - 2]] = Store(0)]
  /\ pc' = "ready"
  /\ UNCHANGED <<idx, i, p, start, todo, count, used>>

(* Mutant of StartChase: the remainder of Size + 1.                        *)
StartChaseAfterEnd ==
  /\ pc = "ready"
  /\ start' \in Node \cup {Size}
  /\ p' = start'
  /\ todo' \in ChaseCounts
  /\ count' = 0 /\ used' = {}
  /\ pc' = "chase"
  /\ UNCHANGED <<idx, i, chain>>

(* An operation begins: init_pointer yields any item.                      *)
StartChase ==
  /\ pc = "ready"
  /\ start' \in Node
  /\ p' = start'
  /\ todo' \in ChaseCounts
  /\ count' = 0 /\ used' = {}
  /\ pc' = "chase"
  /\ UNCHANGED <<idx, i, chain>>

Chase ==
  /\ pc = "chase" /\ count < todo
  /\ used' = used \cup {p}
  /\ p' = Load(chain[p])
  /\ count' = count + 1
  /\ UNCHANGED <<pc, idx, i, chain, start, todo>>

EndChase ==
  /\ pc = "chase" /\ count = todo
  /\ pc' = "ready"
  /\ UNCHANGED <<idx, i, chain, p, start, todo, count, used>>

Build == Fill \/ Shuffle \/ LinkFirst \/ LinkNext \/ LinkLast

Next == Build \/ StartChase \/ Chase \/ EndChase

Spec == Init /\ [][Next]_vars

-----------------------------------------------------------------------------
TypeOK ==
  /\ pc \in {"fill", "shuffle", "link", "ready", "chase"}
  /\ idx \in [Slot -> Node]
  /\ i \in 0 .. Size - 1
  /\ chain \in [Node -> [Lane -> [Lane -> Int]]]
  /\ p \in Node /\ start \in Node
  /\ todo \in 0 .. Size /\ count \in 0 .. todo
  /\ used \subseteq Node

Built == pc \in {"ready", "chase"}

(* A walk never loads the same item twice: whatever item it starts from,   *)
(* the item it is about to load is new until it has been all around        *)
(* (chain.c:77 wants "a loop", without shortcuts or duplicates).           *)
ChaseNeverRepeats == Built /\ count < Size => p \notin used

(* A walk of Size links loads every item and ends where it began           *)
(* (chain.c:77: the chain "exhausts all the elements").                    *)
FullLap == Built /\ count = Size => used = Node /\ p = start

(* The shuffle moves every number away from its first place: because j is  *)
(* drawn below i and not up to i, no number that was swapped out can come  *)
(* back (chain.c:55).                                                      *)
ShuffleMovesAll == pc \in {"link", "ready", "chase"} /\ Size > 2
                     => \A s \in Slot : idx[s] # s + 1

(* The I/O that follows a walk lies inside the file and is aligned, as     *)
(* O_DIRECT wants it (main.c:160).                                         *)
AccessInsideFile == /\ IoAddr(p) + AccessSize <= FileSize
                    /\ IoAddr(p) % AccessSize = 0
=============================================================================
