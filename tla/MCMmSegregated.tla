--------------------------- MODULE MCMmSegregated ---------------------------
(***************************************************************************)
(* Small instances of MmSegregated for TLC.                                *)
(***************************************************************************)
EXTENDS MmSegregated, TLC

CONSTANTS a, b, c

ThreeIds == {a, b, c}

(* Ids are only compared with each other and written into payloads. *)
Symmetry == Permutations(Ids)
=============================================================================
