---------------------------- MODULE MCStaleMemory ---------------------------
(***************************************************************************)
(* A small instance of StaleMemory.                                        *)
(***************************************************************************)
EXTENDS StaleMemory

CONSTANTS a, b

TwoIds == {a, b}
=============================================================================
