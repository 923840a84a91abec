--------------------------- MODULE MCPointerChain ---------------------------
(***************************************************************************)
(* Model checking of PointerChain.  Items of eight one-bit bytes, so that  *)
(* the numbers 0 .. Size-1 use several of the words of an item, and a file *)
(* whose size is no multiple of the access size.                           *)
(***************************************************************************)
EXTENDS PointerChain
=============================================================================
