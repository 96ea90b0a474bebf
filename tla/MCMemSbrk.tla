----------------------------- MODULE MCMemSbrk -----------------------------
(***************************************************************************)
(* A small instance of MemSbrk: an arena of 32 bytes in the upper half of  *)
(* an address space of 256, where mmap puts one, and increments on both    *)
(* sides of every boundary.                                                *)
(***************************************************************************)
EXTENDS MemSbrk

SomeIncrements == {-128, -8, -1, 0, 4, 8, 16, 33, 72, 96, 127}
=============================================================================
