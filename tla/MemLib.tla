------------------------------- MODULE MemLib -------------------------------
(***************************************************************************)
(* The simulated memory system of memlib.c: one arena of MAX_HEAP bytes    *)
(* taken from libc, and a break pointer that mem_sbrk moves upwards and    *)
(* mem_reset_brk puts back.  Addresses are byte addresses of a 32-bit      *)
(* process (the driver is built with -m32).                                *)
(*                                                                         *)
(* UINT_MOD is 2^32 in the program: size_t, unsigned int and pointers wrap *)
(* there, and int ends at INT_MAX.  Both are parameters, so that a small   *)
(* instance can reach the wrap.                                            *)
(***************************************************************************)
EXTENDS Integers

CONSTANTS
  mem_start_brk,  \* first byte of the arena, as malloc returned it
  MAX_HEAP,       \* bytes in the arena (config.h: 20 MB)
  INT_MAX         \* largest int (2^31 - 1)

WSIZE == 4        \* one word: a header, a footer or a list link
DSIZE == 8        \* two words, the alignment of every payload
NULL  == 0

UINT_MOD     == 2 * (INT_MAX + 1)
mem_max_addr == mem_start_brk + MAX_HEAP

(* malloc returns doubleword-aligned memory and MAX_HEAP is 20*(1<<20);    *)
(* the arena lies inside the address space.                                *)
ASSUME ArenaAssumption ==
  /\ mem_start_brk \in Nat /\ mem_start_brk % DSIZE = 0 /\ mem_start_brk > 0
  /\ MAX_HEAP \in Nat /\ MAX_HEAP % DSIZE = 0
  /\ INT_MAX \in Nat /\ INT_MAX >= 4 * WSIZE
  /\ mem_max_addr < UINT_MOD

(* The word addresses of the arena. *)
Addr == {a \in mem_start_brk .. mem_max_addr - 1 : a % WSIZE = 0}

VARIABLE mem_brk   \* first byte past the heap

-----------------------------------------------------------------------------
(* 32-bit arithmetic: a sum of two words wraps once, and a size_t passed   *)
(* as an int is negative from 2^31 on.                                     *)
Wrap(x)  == IF x >= UINT_MOD THEN x - UINT_MOD ELSE x
ToInt(x) == IF x > INT_MAX THEN x - UINT_MOD ELSE x

(* mem_sbrk(incr) fails on a negative increment and when the new break     *)
(* would lie beyond the arena; the sum is a 32-bit pointer.  (Mutated: the *)
(* sign is not looked at; the old break is compared.)                      *)
SbrkFails_Unsigned(brk, incr) == Wrap(brk + incr) > mem_max_addr
SbrkFails_OldBreak(brk, incr) == incr < 0 \/ brk > mem_max_addr
SbrkFails(brk, incr) == incr < 0 \/ Wrap(brk + incr) > mem_max_addr

(* Otherwise the break moves, and the old break is the new area.           *)
SbrkBreak(brk, incr) == Wrap(brk + incr)
=============================================================================
