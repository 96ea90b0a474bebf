------------------------------ MODULE MemSbrk ------------------------------
(***************************************************************************)
(* memlib.c as its callers see it: mem_sbrk hands out areas one after the  *)
(* other until mem_reset_brk takes them all back.  The two allocators use  *)
(* it through the operators of MemLib; here any int is asked for.          *)
(***************************************************************************)
EXTENDS MemLib

CONSTANT Increments   \* what callers ask for

(* int incr *)
ASSUME IncrementsAssumption == Increments \subseteq -(INT_MAX + 1) .. INT_MAX

VARIABLES
  areas,    \* the areas handed out since the last reset
  wrapped   \* auxiliary: the sum with one of them went beyond 2^32

vars == <<mem_brk, areas, wrapped>>

Init == mem_brk = mem_start_brk /\ areas = {} /\ wrapped = FALSE

(* Nothing is noted of the areas any more once a sum has wrapped. *)
mem_sbrk(incr) ==
  /\ ~SbrkFails(mem_brk, incr)
  /\ mem_brk' = SbrkBreak(mem_brk, incr)
  /\ wrapped' = (wrapped \/ mem_brk + incr >= UINT_MOD)
  /\ areas' = IF wrapped' THEN {} ELSE areas \union {[lo |-> mem_brk, size |-> incr]}

(* errno = ENOMEM, (void * )-1 *)
mem_sbrk_fails(incr) == SbrkFails(mem_brk, incr) /\ UNCHANGED vars

mem_reset_brk == mem_brk' = mem_start_brk /\ areas' = {} /\ wrapped' = FALSE

Next ==
  \/ mem_reset_brk
  \/ \E incr \in Increments : mem_sbrk(incr) \/ mem_sbrk_fails(incr)

Spec == Init /\ [][Next]_vars

-----------------------------------------------------------------------------
(* Until a sum has wrapped, the heap is exactly the areas handed out since *)
(* the reset: each lies inside the arena, no two share a byte, and nothing *)
(* below the break belongs to none.  The break never passes the arena's    *)
(* end, wrapped or not.                                                    *)
Tiled ==
  /\ mem_brk >= mem_start_brk
  /\ \A r \in areas :
        /\ r.size >= 0
        /\ mem_start_brk <= r.lo /\ r.lo + r.size <= mem_brk
  /\ \A r, s \in areas : r # s => r.lo + r.size <= s.lo \/ s.lo + s.size <= r.lo
  /\ \A x \in mem_start_brk .. mem_brk - 1 :
        \E r \in areas : r.lo <= x /\ x < r.lo + r.size

AreasTileHeap == mem_brk <= mem_max_addr /\ (wrapped \/ Tiled)

(* "In this model, the heap cannot be shrunk" (memlib.c:55-56), but by a   *)
(* reset.  False of the code: the sum may wrap.                            *)
NeverShrinks == [][mem_reset_brk \/ mem_brk' >= mem_brk]_vars
=============================================================================
