------------------------------- MODULE MCFcyc -------------------------------
(***************************************************************************)
(* A small instance of Fsecs: times of which neighbours are within one     *)
(* percent of each other, at the edge of it, or beyond; words of four      *)
(* bits, both of which wrap within a sample.                               *)
(***************************************************************************)
EXTENDS Fsecs

SomeTimes == {100, 101, 102, 150}

Set(k, most, comp, clear) ==
  [kbest |-> k, maxsamples |-> most, epsilon |-> 1, compensate |-> comp,
   clear_cache |-> clear]
SomeParams == {Set(3, 5, FALSE, FALSE), Set(2, 3, FALSE, TRUE), Set(1, 2, TRUE, TRUE),
               Set(2, 2, TRUE, FALSE)}
=============================================================================
