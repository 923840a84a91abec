--------------------------- MODULE MCMicrobench ----------------------------
(***************************************************************************)
(* Instances of Microbench for TLC; the .cfg files give the sizes.         *)
(***************************************************************************)
EXTENDS Microbench

AllFaults == FaultKind
=============================================================================
