---------------------------- MODULE MCMmImplicit ----------------------------
(***************************************************************************)
(* Small instances of MmImplicit for TLC.                                  *)
(***************************************************************************)
EXTENDS MmImplicit, TLC

CONSTANTS a, b, c

TwoIds   == {a, b}
ThreeIds == {a, b, c}

(* Ids are only compared with each other and written into payloads. *)
Symmetry == Permutations(Ids)
=============================================================================
