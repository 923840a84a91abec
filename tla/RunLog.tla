------------------------------- MODULE RunLog --------------------------------
(***************************************************************************)
(* The lines the microbenchmark prints that batch.py reads back: for each  *)
(* run its parameters, then its elapsed time, its percentiles and its      *)
(* polls per I/O (main.c:470, 47, 349, 363; batch.py:56-87).  A line is    *)
(* its kind and the run it is about; its figures are that run's.           *)
(***************************************************************************)
EXTENDS Naturals, Sequences

Kinds == <<"param", "elapsed", "op", "peeks">>

Line(kind, run) == [kind |-> kind, run |-> run]

(* Everything a process prints that does runs 1 .. n and returns.          *)
Transcript(n) ==
  [k \in 1 .. 4 * n |-> Line(Kinds[((k - 1) % 4) + 1], (k - 1) \div 4 + 1)]
=============================================================================
