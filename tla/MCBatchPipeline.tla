--------------------------- MODULE MCBatchPipeline ---------------------------
(***************************************************************************)
(* Instances of BatchPipeline for TLC: a file of one stage and a file of   *)
(* two, as cxl.json and calib.json, or one file alone.                     *)
(***************************************************************************)
EXTENDS BatchPipeline

TwoFiles == <<[out |-> "cxl", runs |-> 3, cxl |-> TRUE],
              [out |-> "calib", runs |-> 1, cxl |-> FALSE],
              [out |-> "calib", runs |-> 1, cxl |-> TRUE]>>
OneFile == <<[out |-> "dram", runs |-> 1, cxl |-> FALSE]>>
=============================================================================
