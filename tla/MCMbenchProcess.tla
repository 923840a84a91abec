--------------------------- MODULE MCMbenchProcess ---------------------------
(***************************************************************************)
(* Instance of MbenchProcess for TLC: two latencies besides 0, parameter   *)
(* files that repeat a latency, change it back and hold a bad line.        *)
(***************************************************************************)
EXTENDS MbenchProcess

ParamFiles == {<<5, 9, 9>>, <<9, Bad, 5>>, <<0, 5>>, << >>}
=============================================================================
