--------------------------- MODULE LatencyReport ----------------------------
(***************************************************************************)
(* What run_mbench does with the results of a run (main.c:309-312,         *)
(* 348-364): it sorts the latencies with a comparison that squeezes the    *)
(* difference of two longs into an int, prints six percentiles, and the    *)
(* averages.                                                               *)
(***************************************************************************)
EXTENDS Integers, FiniteSets, Functions

CONSTANTS
  Word,         \* values of an int: 2^32 in the code
  MaxLatency,   \* bound: no operation takes longer
  MaxCount      \* bound: operations of a run

ASSUME WordAssumption == Word \in Nat /\ Word >= 2 /\ Word % 2 = 0
ASSUME BoundsAssumption == MaxLatency \in Nat /\ MaxCount \in Nat

Half == Word \div 2

(* The long difference becomes an int.                                     *)
ToInt(x) == ((x + Half) % Word) - Half

(* Mutant of Compare: a difference half as wide.                           *)
CompareNarrow(a, b) == ((a - b + Half \div 2) % Half) - Half \div 2

(* compare, the comparison given to qsort.                                 *)
Compare(a, b) == ToInt(a - b)

(* The percentiles printed, in hundred-thousandths.                        *)
Scale == 100000
Quantiles == <<50000, 90000, 99000, 99900, 99990, 99999>>

(* Mutant of Index: the entry after it.                                    *)
IndexNext(count, q) == (count * q) \div Scale + 1

(* (int)(count * q), the entry that stands for quantile q.                 *)
Index(count, q) == (count * q) \div Scale

VARIABLES
  pc,        \* "measured", "sorted" or "printed"
  measured,  \* op_latencies as the run left it                  (history)
  lats,      \* op_latencies
  report     \* the percentiles and the sum behind the average

vars == <<pc, measured, lats, report>>

Count == Cardinality(DOMAIN lats)

NoReport == [percentiles |-> << >>, sum |-> 0]

(* What qsort may do to an array: any rearrangement in which no neighbours *)
(* are out of order for compare, also where compare is not an order.       *)
Rearrangements(a) ==
  LET I == DOMAIN a
  IN  {[k \in I |-> a[f[k]]] :
         f \in {g \in [I -> I] : \A j, k \in I : g[j] = g[k] => j = k}}

Sorted(a) == \A k \in DOMAIN a : k + 1 \in DOMAIN a => Compare(a[k], a[k + 1]) <= 0

SumOf(a) == FoldFunction(LAMBDA x, y : x + y, 0, a)

(* A run of at least one operation: with none, which the program takes as  *)
(* well, there is nothing to sort, and the report reads op_latencies[0],   *)
(* which is not there, and divides by 0.                                   *)
Init ==
  /\ pc = "measured"
  /\ \E n \in 1 .. MaxCount : measured \in [0 .. n - 1 -> 0 .. MaxLatency]
  /\ lats = measured
  /\ report = NoReport

(* qsort.                                                                  *)
Sort ==
  /\ pc = "measured"
  /\ \E a \in Rearrangements(lats) : Sorted(a) /\ lats' = a
  /\ pc' = "sorted"
  /\ UNCHANGED <<measured, report>>

(* Mutant of PrintReport: the sum kept in an int.                          *)
PrintIntSum ==
  /\ pc = "sorted"
  /\ report' = [percentiles |-> [q \in DOMAIN Quantiles |-> lats[Index(Count, Quantiles[q])]],
                sum |-> FoldFunction(LAMBDA x, y : ToInt(x + y), 0, lats)]
  /\ pc' = "printed"
  /\ UNCHANGED <<measured, lats>>

(* The percentiles, then the average, whose sum is a long.                 *)
PrintReport ==
  /\ pc = "sorted"
  /\ report' = [percentiles |-> [q \in DOMAIN Quantiles |-> lats[Index(Count, Quantiles[q])]],
                sum |-> SumOf(lats)]
  /\ pc' = "printed"
  /\ UNCHANGED <<measured, lats>>

Next == Sort \/ PrintReport

Spec == Init /\ [][Next]_vars

-----------------------------------------------------------------------------
(* No two latencies of the run are half the values of an int apart: 2.1 s. *)
Comparable == \A j, k \in DOMAIN measured : measured[j] - measured[k] < Half

(* As long as no two latencies of a run are 2.1 s apart, a printed         *)
(* percentile has the rank it claims: more than count * q of the measured  *)
(* latencies are not above it, and no fewer than the others are not below  *)
(* it (main.c:309-312, 348-355).                                           *)
RanksRight ==
  pc = "printed" /\ Comparable =>
    \A q \in DOMAIN Quantiles :
      LET v == report.percentiles[q]
          rank == Index(Count, Quantiles[q])
      IN  /\ Cardinality({k \in DOMAIN measured : measured[k] <= v}) > rank
          /\ Cardinality({k \in DOMAIN measured : measured[k] >= v}) >= Count - rank

(* The printed figures agree: the sum behind the average, which is made    *)
(* from the sorted array, is the sum of what was measured, even when the   *)
(* comparison goes wrong; and it is no less than what the entries from a   *)
(* percentile upwards add up to, as long as it does not (main.c:348-358).  *)
FiguresAgree ==
  pc = "printed" =>
    /\ report.sum = SumOf(measured)
    /\ Comparable =>
         \A q \in DOMAIN Quantiles :
           report.sum >= (Count - Index(Count, Quantiles[q])) * report.percentiles[q]

(* Every entry the report reads is inside the array, for every count       *)
(* (main.c:349-355).                                                       *)
IndexInside == \A q \in DOMAIN Quantiles : Index(Count, Quantiles[q]) \in DOMAIN lats
=============================================================================
