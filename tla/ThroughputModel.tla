---------------------------- MODULE ThroughputModel ----------------------------
(***************************************************************************)
(* The model of the time per operation in notebooks/utils/model.py, as     *)
(* notebooks/utils/plot.py draws it and notebooks/microbench.ipynb         *)
(* calibrates it: the plain sum of the terms, the worst and the best case. *)
(*                                                                         *)
(* The code computes in floating point; here the numbers are exact, in any *)
(* unit small enough to make them integers, and what the code divides by   *)
(* num_prefetches is multiplied by it on the other side.  Times of the     *)
(* worst and best case are therefore num_prefetches times those of the     *)
(* code, which leaves their order and their ratios as they are.  The       *)
(* theorems about them are in LatencyReportProofs.                         *)
(***************************************************************************)
EXTENDS Integers

CONSTANTS
  switch_time, num_prefetches,
  dram_latency  \* the 100 ns the figures put for DRAM, in the unit chosen

Larger(a, b) == IF a >= b THEN a ELSE b

memory_term(accesses, memory) == accesses * (memory + switch_time)

io_term(pre, post) == pre + post + 2 * switch_time

(* OpTimeModelBase                                                         *)
Base(accesses, memory, pre, post) == memory_term(accesses, memory) + io_term(pre, post)

limit(accesses, latency) == accesses * latency

(* OpTimeModelWorst                                                        *)
Worst(accesses, memory, pre, post, latency) ==
  Larger(num_prefetches * memory_term(accesses, memory), limit(accesses, latency))
  + num_prefetches * io_term(pre, post)

(* OpTimeModelBest                                                         *)
Best(accesses, memory, pre, post, latency) ==
  Larger(num_prefetches * Base(accesses, memory, pre, post), limit(accesses, latency))

(* What plot_with_models puts for the latency of DRAM.                     *)
Plotted(latency) == IF latency = 0 THEN dram_latency ELSE latency

(* A bar has the height first / time, where first is the time of the first *)
(* bar of its kind.                                                        *)
NotHigher(first1, time1, first2, time2) == first1 * time2 <= first2 * time1

(* The time that microbench.ipynb adds to each memory access, times their  *)
(* number, so that the model has the time measured in DRAM.                *)
Offsets(accesses, memory, pre, post, dram_time) ==
  dram_time - Base(accesses, memory, pre, post)

-----------------------------------------------------------------------------
(* Hypotheses of the theorems: the parameters are times and counts; the    *)
(* calibrated memory time may be negative, with the switch it is not.      *)
Parameters(accesses, memory, pre, post) ==
  /\ switch_time \in Nat /\ num_prefetches \in Nat \ {0} /\ dram_latency \in Nat
  /\ accesses \in Nat \ {0} /\ pre \in Nat /\ post \in Nat
  /\ memory \in Int /\ memory + switch_time \in Nat
=============================================================================
