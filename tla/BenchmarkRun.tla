---------------------------- MODULE BenchmarkRun ----------------------------
(***************************************************************************)
(* What one run of the microbenchmark promises its caller: it measures     *)
(* every operation exactly once, in some order, and reports only when all  *)
(* of them are measured, or it gives up and reports nothing.               *)
(***************************************************************************)
EXTENDS Naturals

CONSTANT Op        \* the operations, one entry of op_latencies each

VARIABLES
  phase,           \* "running", "reported" or "aborted"
  recorded         \* operations whose latency is written

absVars == <<phase, recorded>>

AbsInit == phase = "running" /\ recorded = {}

RecordOp ==
  /\ phase = "running"
  /\ \E o \in Op \ recorded : recorded' = recorded \cup {o}
  /\ UNCHANGED phase

ReportRun ==
  /\ phase = "running" /\ recorded = Op
  /\ phase' = "reported"
  /\ UNCHANGED recorded

Abort ==
  /\ phase = "running"
  /\ phase' = "aborted"
  /\ UNCHANGED recorded

AbsNext == RecordOp \/ ReportRun \/ Abort

AbsSafety == AbsInit /\ [][AbsNext]_absVars

(* A run comes to an end.                                                  *)
AbsSpec == AbsSafety /\ WF_absVars(AbsNext)
=============================================================================
