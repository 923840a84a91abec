--------------------------- MODULE MCLatencyReport ---------------------------
(* Instance of LatencyReport for TLC; the .cfg file gives the sizes.       *)
EXTENDS LatencyReport
=============================================================================
