--------------------------- MODULE MCAerospikeSweep ---------------------------
(***************************************************************************)
(* Instance of AerospikeSweep for TLC.                                     *)
(***************************************************************************)
EXTENDS AerospikeSweep

ThreeLatencies == <<500, 1000, 2000>>
ThreeThreads == <<1, 2, 4>>

(* The best of a latency is neither the first nor the last.                *)
RateOf(w) == 10 * (5 - w.step) + 100 * w.server + (IF w.threads = 2 THEN 3 ELSE w.threads)
=============================================================================
