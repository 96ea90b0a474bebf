---------------------------- MODULE TraceClient -----------------------------
(***************************************************************************)
(* The allocator's client: a program that, like eval_mm_valid of mdriver.c,*)
(* holds at most one block for each id of a trace, writes the id all over  *)
(* the payload it was given, and calls mm_malloc, mm_realloc and mm_free   *)
(* only on blocks it holds.  A call's frame (which operation, for which    *)
(* id, how many bytes) is kept while the allocator works on it.            *)
(***************************************************************************)
EXTENDS BoundaryTags

CONSTANTS
  Ids,     \* trace ids: what a client writes into its payload
  Junk,    \* a word nobody has written since the arena was allocated
  Sizes    \* payload sizes a client asks for

(* The sizes for which 32-bit arithmetic cannot wrap on the way to the     *)
(* break: neither size + 15 nor the break plus the rounded size.           *)
ASSUME SizesAssumption ==
  /\ Sizes \subseteq Nat
  /\ \A s \in Sizes : s + 2 * DSIZE + mem_max_addr < UINT_MOD

VARIABLES
  ptr,      \* trace->blocks: the payload address held for an id, or NULL
  psize,    \* trace->block_sizes: the payload size asked for
  pc,       \* where the program is: "idle" is the client between two calls
  call,     \* the call in progress
  bp        \* the allocator's cursor, and at "ret" what the call returns

clientVars == <<ptr, psize, pc, call, bp>>

Word   == Tag \union Ids \union {Junk}
NoCall == [op |-> "none", id |-> NULL, size |-> 0]
Call   == [op : {"malloc", "realloc"}, id : Ids, size : Sizes]

(* memset(p, id, n), word by word: the last word may be covered in part.   *)
Fill(m, p, n, id) ==
  [a \in Addr |-> IF p <= a /\ a < p + n THEN id ELSE m[a]]

(* memcpy(dst, src, n) *)
Copy(m, dst, src, n) ==
  [a \in Addr |-> IF dst <= a /\ a < dst + n THEN m[a - dst + src] ELSE m[a]]

(* The n payload bytes at p all hold what id's owner wrote. *)
Holds(m, p, n, id) == \A a \in Addr : p <= a /\ a < p + n => m[a] = id

ClientInit ==
  /\ ptr = [i \in Ids |-> NULL] /\ psize = [i \in Ids |-> 0]
  /\ pc = "down" /\ call = NoCall /\ bp = NULL

(* A new trace: the driver forgets what it held. *)
ClientReset ==
  /\ ptr' = [i \in Ids |-> NULL] /\ psize' = [i \in Ids |-> 0]

(* The client is handed the call's result.  NULL leaves it with what it    *)
(* had; otherwise it remembers the region and fills it with its id.        *)
TakeResult ==
  /\ pc = "ret"
  /\ IF bp = NULL
     THEN UNCHANGED <<mem, ptr, psize>>
     ELSE /\ mem'   = Fill(mem, bp, call.size, call.id)
          /\ ptr'   = [ptr EXCEPT ![call.id] = bp]
          /\ psize' = [psize EXCEPT ![call.id] = call.size]
  /\ pc' = "idle" /\ call' = NoCall /\ bp' = NULL

-----------------------------------------------------------------------------
(* Ids whose block is theirs to use: a realloc that has already moved the  *)
(* block leaves a stale pointer behind until the client takes the result.  *)
Moved(i) == pc = "ret" /\ bp # NULL /\ call.op = "realloc" /\ call.id = i
Live     == {i \in Ids : ptr[i] # NULL /\ ~Moved(i)}

(* What the driver's check of mm_realloc looks at: the shorter of the old  *)
(* and the new size.                                                       *)
KeptSize == IF call.size < psize[call.id] THEN call.size ELSE psize[call.id]
=============================================================================
