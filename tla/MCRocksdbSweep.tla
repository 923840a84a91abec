---------------------------- MODULE MCRocksdbSweep ----------------------------
(***************************************************************************)
(* Instance of RocksdbSweep for TLC.                                       *)
(***************************************************************************)
EXTENDS RocksdbSweep

TwoCores == <<1, 2>>
TwoThreads == <<1, 2>>
OneThread == <<4>>
TwoLatencies == <<0, 1000>>
ShownLatencies == <<0, 500, 1000>>

(* Rates that differ between any two jobs of a test and cores, and fall    *)
(* with the threads, so that the best is not the one measured last.        *)
RateOf(j, by) ==
  100 * by + 10 * (8 - j.threads) + (IF j.memory = "dram" THEN 5 ELSE IF j.latency = 0 THEN 3 ELSE 1)
=============================================================================
