---------------------------- MODULE MCCachelibStats ----------------------------
(***************************************************************************)
(* Instance of CachelibStats for TLC: minutes stand for five to ten.       *)
(***************************************************************************)
EXTENDS CachelibStats
=============================================================================
