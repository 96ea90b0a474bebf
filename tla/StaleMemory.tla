---------------------------- MODULE StaleMemory -----------------------------
(***************************************************************************)
(* mdriver.c replays a trace twelve times and mem_reset_brk does not clear *)
(* the arena, so every pass runs over what the last one has left.  Here    *)
(* two copies of the segregated allocator serve the same calls in step:    *)
(* one starts every pass over stale memory and old list heads, as in the   *)
(* driver, and the other, the variables of which begin with cold_, over    *)
(* memory nobody has written.                                              *)
(***************************************************************************)
EXTENDS MmSegregated

VARIABLES cold_mem, cold_mem_brk, cold_ptr, cold_psize, cold_pc, cold_call,
          cold_bp, cold_free_lists, cold_new_size, cold_pos, cold_blks

coldVars == <<cold_mem, cold_mem_brk, cold_ptr, cold_psize, cold_pc, cold_call,
              cold_bp, cold_free_lists, cold_new_size, cold_pos, cold_blks>>
bothVars == <<vars, coldVars>>

Cold == INSTANCE MmSegregated WITH
          mem <- cold_mem, mem_brk <- cold_mem_brk,
          ptr <- cold_ptr, psize <- cold_psize, pc <- cold_pc,
          call <- cold_call, bp <- cold_bp, free_lists <- cold_free_lists,
          new_size <- cold_new_size, pos <- cold_pos, blks <- cold_blks

(* An arena as malloc returned it to mem_init, before any pass. *)
Cleared == [mem   |-> [a \in Addr |-> Junk],
            lists |-> [k \in 0 .. LIST_MAX - 1 |-> NULL]]

NewPass == mm_init /\ Cold!InitOver(Cleared)

(* A request of the trace, and a step of both allocators on it. *)
Requested ==
  \/ \E i \in Ids : CallFree(i) /\ Cold!CallFree(i)
  \/ \E i \in Ids, size \in Sizes : SoundCall(i, size) /\ Cold!SoundCall(i, size)

BothStep == AllocatorStep /\ Cold!AllocatorStep

BothNext == NewPass \/ Requested \/ BothStep

BothSpec == Init /\ Cold!Init /\ [][BothNext]_bothVars

FairBothSpec == BothSpec /\ WF_bothVars(BothStep)

-----------------------------------------------------------------------------
(* What an allocator answers, where its search is and where the heap ends  *)
(* do not depend on what an earlier pass has left in memory: after a pass  *)
(* that eval_mm_valid found right the eleven that follow return the same   *)
(* addresses, and none of them ends the program.  The calls that extend    *)
(* the heap past other blocks (ReallocExtendPast) are no steps here.       *)
SameAnswers ==
  pc # "down" =>
    <<pc, bp, ptr, mem_brk>> = <<cold_pc, cold_bp, cold_ptr, cold_mem_brk>>
=============================================================================
