--------------------------- MODULE MallocContract ---------------------------
(***************************************************************************)
(* What an allocator promises its client, whatever its data structures:    *)
(* the rules by which mdriver.c judges one (eval_mm_valid and add_range).  *)
(* A granted payload is doubleword aligned, lies inside the heap and       *)
(* overlaps no other payload; the client's regions change only by being    *)
(* granted and released; the heap is not shrunk before the next reset.     *)
(***************************************************************************)
EXTENDS Integers

CONSTANTS
  Ids,      \* trace ids
  Lo, Hi,   \* bounds of the arena
  Align     \* payload alignment in bytes (mdriver.c, config.h: ALIGNMENT)

VARIABLES
  ptr,      \* the payload address granted for an id; 0 for none
  psize,    \* its size in bytes
  brk       \* first byte past the heap

vars == <<ptr, psize, brk>>

Disjoint(p, n, q, k) == p + n <= q \/ q + k <= p

Init ==
  /\ ptr = [i \in Ids |-> 0] /\ psize = [i \in Ids |-> 0] /\ brk = Lo

(* A payload for i, by mm_malloc, or by mm_realloc in place of its old one *)
Grant(i) ==
  /\ ptr'[i] % Align = 0 /\ ptr'[i] > 0 /\ psize'[i] > 0
  /\ Lo <= ptr'[i] /\ ptr'[i] + psize'[i] <= brk
  /\ \A j \in Ids \ {i} :
        ptr[j] # 0 => Disjoint(ptr'[i], psize'[i], ptr[j], psize[j])
  /\ ptr'   = [ptr EXCEPT ![i] = ptr'[i]]
  /\ psize' = [psize EXCEPT ![i] = psize'[i]]
  /\ UNCHANGED brk

Release(i) ==
  /\ ptr[i] # 0
  /\ ptr'   = [ptr EXCEPT ![i] = 0]
  /\ psize' = [psize EXCEPT ![i] = 0]
  /\ UNCHANGED brk

Grow ==
  /\ brk' \in brk + 1 .. Hi
  /\ UNCHANGED <<ptr, psize>>

(* A new trace starts from an empty heap, whose break the allocator's      *)
(* initialisation may have moved already.                                  *)
Reset ==
  /\ ptr' = [i \in Ids |-> 0] /\ psize' = [i \in Ids |-> 0]
  /\ brk' \in Lo .. Hi

Next == Reset \/ Grow \/ \E i \in Ids : Grant(i) \/ Release(i)

Spec == Init /\ [][Next]_vars
=============================================================================
