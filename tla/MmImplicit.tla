----------------------------- MODULE MmImplicit -----------------------------
(***************************************************************************)
(* mm_implicit.c: an implicit free list with boundary tags, searched next  *)
(* fit from prev_bp.                                                       *)
(*                                                                         *)
(* The allocator is single-threaded C; what a call does between two turns  *)
(* of a loop is one step, and each turn of next_fit's two loops is a step  *)
(* of its own, so that termination of the search is a property and not a   *)
(* premise.  mm_malloc runs                                                *)
(*                                                                         *)
(*     idle -> up* -> low* -> (grow) -> ret -> idle                        *)
(*                                                                         *)
(* and mm_realloc the same with a step "move" (memcpy, mm_free) before     *)
(* "ret".  blks is an auxiliary variable the code does not have: the set   *)
(* of payload addresses of the blocks it has laid out.  No guard and no    *)
(* assignment to another variable reads it.                                *)
(***************************************************************************)
EXTENDS TraceClient

VARIABLES
  prev_bp,    \* where the next search starts
  new_size,   \* mm_malloc's rounded request
  blks        \* auxiliary: the blocks of the heap

allocVars == <<prev_bp, new_size, blks>>
vars == <<mem, mem_brk, clientVars, allocVars>>

-----------------------------------------------------------------------------
(* coalesce(bp).  A merged block that swallowed the block prev_bp points   *)
(* at takes its place as the start of the next search.  (Mutated: it does  *)
(* not.)                                                                   *)
Rover_Kept(m, b, rover) == rover
Rover(m, b, rover) ==
  IF rover > b /\ rover < NEXT_BLKP(m, b) THEN b ELSE rover

coalesce(m, b, rover) ==
  LET prev_alloc == GET_ALLOC(m, FTRP(m, PREV_BLKP(m, b)))
      next_alloc == GET_ALLOC(m, HDRP(NEXT_BLKP(m, b)))
      Result(m1, b1) == [mem |-> m1, bp |-> b1, rover |-> Rover(m1, b1, rover)]
  IN  CASE prev_alloc = 1 /\ next_alloc = 1 ->
             [mem |-> m, bp |-> b, rover |-> rover]
        [] prev_alloc = 1 /\ next_alloc = 0 -> Result(MergeNext(m, b), b)
        [] prev_alloc = 0 /\ next_alloc = 1 ->
             Result(MergePrev(m, b), PREV_BLKP(MergePrev(m, b), b))
        [] OTHER ->
             Result(MergeBoth(m, b), PREV_BLKP(MergeBoth(m, b), b))

(* extend_heap once mem_sbrk has moved the break from brk by size bytes.   *)
extend_heap(m, brk, size, rover) ==
  coalesce(ExtendTags(m, brk, size), brk, rover)

(* place(bp, new_size) *)
place(m, b, size) ==
  IF Splits(m, b, size) THEN SplitFront(m, b, size) ELSE TakeWhole(m, b)

(* mm_free(ptr).  (Mutated: without coalesce.) *)
mm_free_NoCoalesce(m, p, rover) ==
  [mem |-> PutTags(m, p, GET_SIZE(m, HDRP(p)), 0), bp |-> p, rover |-> rover]
mm_free(m, p, rover) ==
  coalesce(PutTags(m, p, GET_SIZE(m, HDRP(p)), 0), p, rover)

-----------------------------------------------------------------------------
Init ==
  /\ mem = [a \in Addr |-> Junk] /\ mem_brk = mem_start_brk
  /\ ClientInit
  /\ prev_bp = NULL /\ new_size = 0 /\ blks = {}

(* The driver begins a trace: mem_reset_brk(), then mm_init(), which lays  *)
(* out padding, prologue and epilogue and asks for a first chunk.  What    *)
(* the last trace left in the arena is still there.  Neither mem_sbrk can  *)
(* fail right after a reset, by ChunkAssumption.                           *)
mm_init ==
  LET brk   == mem_start_brk + 4 * WSIZE
      size  == ExtendSize(CHUNKSIZE \div WSIZE)
      grown == extend_heap(Prologue(mem), brk, size, heap_listp)
  IN  /\ pc \in {"down", "idle"}
      /\ mem_brk' = SbrkBreak(brk, size) /\ pc' = "idle"
      /\ mem' = grown.mem /\ prev_bp' = grown.rover
      /\ blks' = Absorbed({heap_listp, brk}, grown.mem, grown.bp)
      /\ ClientReset
      /\ UNCHANGED <<call, bp, new_size>>

(* mm_malloc(size) and mm_realloc(ptr, size) up to the search.  A size of  *)
(* 0 is refused at once.                                                   *)
StartSearch(op, i, size) ==
  /\ size > 0
  /\ call' = [op |-> op, id |-> i, size |-> size]
  /\ new_size' = AdjustedSize(size)
  /\ bp' = prev_bp /\ pc' = "up"
  /\ UNCHANGED <<mem, mem_brk, ptr, psize, prev_bp, blks>>

CallMalloc(i, size) ==
  /\ pc = "idle" /\ ptr[i] = NULL
  /\ StartSearch("malloc", i, size)

CallRealloc(i, size) ==
  /\ pc = "idle" /\ ptr[i] # NULL
  /\ StartSearch("realloc", i, size)

(* mm_free(ptr), which is also all that mm_realloc(ptr, 0) does. *)
CallFree(i) ==
  LET freed == mm_free(mem, ptr[i], prev_bp)
  IN  /\ pc = "idle" /\ ptr[i] # NULL
      /\ mem' = freed.mem /\ prev_bp' = freed.rover
      /\ blks' = Absorbed(blks, freed.mem, freed.bp)
      /\ ptr' = [ptr EXCEPT ![i] = NULL] /\ psize' = [psize EXCEPT ![i] = 0]
      /\ UNCHANGED <<mem_brk, pc, call, bp, new_size>>

-----------------------------------------------------------------------------
(* find_fit(new_size) = next_fit(new_size).  (Mutated: an allocated block  *)
(* will do.)                                                               *)
Fits_Any(m, b) == GET_SIZE(m, HDRP(b)) >= new_size
Fits(m, b) == GET_ALLOC(m, HDRP(b)) = 0 /\ GET_SIZE(m, HDRP(b)) >= new_size

(* mm_malloc has its block: place() and return it, to mm_realloc if that   *)
(* is who called.                                                          *)
PlaceAt(m, S, b) ==
  /\ mem' = place(m, b, new_size)
  /\ blks' = Placed(S, m, b, new_size)
  /\ bp' = b
  /\ pc' = IF call.op = "realloc" THEN "move" ELSE "ret"

(* Mutated: the next search starts behind the block just placed. *)
TakeFit_RoverNext ==
  /\ Fits(mem, bp)
  /\ PlaceAt(mem, blks, bp)
  /\ prev_bp' = NEXT_BLKP(place(mem, bp, new_size), bp)
  /\ UNCHANGED <<mem_brk, ptr, psize, call, new_size>>

TakeFit ==
  /\ Fits(mem, bp)
  /\ prev_bp' = bp
  /\ PlaceAt(mem, blks, bp)
  /\ UNCHANGED <<mem_brk, ptr, psize, call, new_size>>

Advance ==
  /\ ~Fits(mem, bp)
  /\ bp' = NEXT_BLKP(mem, bp)
  /\ UNCHANGED <<mem, mem_brk, ptr, psize, pc, call, prev_bp, new_size, blks>>

(* while (GET_SIZE(HDRP(bp)) > 0), from prev_bp up to the epilogue *)
SearchUp ==
  /\ pc = "up"
  /\ GET_SIZE(mem, HDRP(bp)) > 0
  /\ TakeFit \/ Advance

(* Mutated: the blocks below prev_bp are left out, or the prologue is. *)
WrapAround_Missing ==
  /\ pc = "up"
  /\ GET_SIZE(mem, HDRP(bp)) = 0
  /\ bp' = prev_bp /\ pc' = "low"
  /\ UNCHANGED <<mem, mem_brk, ptr, psize, call, prev_bp, new_size, blks>>

WrapAround_SkipPrologue ==
  /\ pc = "up"
  /\ GET_SIZE(mem, HDRP(bp)) = 0
  /\ bp' = NEXT_BLKP(mem, heap_listp) /\ pc' = "low"
  /\ UNCHANGED <<mem, mem_brk, ptr, psize, call, prev_bp, new_size, blks>>

WrapAround ==
  /\ pc = "up"
  /\ GET_SIZE(mem, HDRP(bp)) = 0
  /\ bp' = heap_listp /\ pc' = "low"
  /\ UNCHANGED <<mem, mem_brk, ptr, psize, call, prev_bp, new_size, blks>>

(* while (bp != prev_bp), from the prologue *)
SearchLow ==
  /\ pc = "low"
  /\ bp # prev_bp
  /\ TakeFit \/ Advance

NoFit ==
  /\ pc = "low"
  /\ bp = prev_bp
  /\ pc' = "grow"
  /\ UNCHANGED <<mem, mem_brk, ptr, psize, call, bp, prev_bp, new_size, blks>>

(* No fit: extend_heap(MAX(new_size, CHUNKSIZE) / WSIZE), then place. *)
GrowSize ==
  ExtendSize((IF new_size > CHUNKSIZE THEN new_size ELSE CHUNKSIZE) \div WSIZE)

Grow ==
  LET grown == extend_heap(mem, mem_brk, GrowSize, prev_bp)
  IN  /\ pc = "grow"
      /\ ~SbrkFails(mem_brk, ToInt(GrowSize))
      /\ mem_brk' = SbrkBreak(mem_brk, ToInt(GrowSize))
      /\ prev_bp' = grown.rover
      /\ PlaceAt(grown.mem,
                 Absorbed(blks \union {mem_brk}, grown.mem, grown.bp),
                 grown.bp)
      /\ UNCHANGED <<ptr, psize, call, new_size>>

(* Out of memory: NULL, and mm_realloc returns it as it is. *)
GrowFails ==
  /\ pc = "grow"
  /\ SbrkFails(mem_brk, ToInt(GrowSize))
  /\ bp' = NULL /\ pc' = "ret"
  /\ UNCHANGED <<mem, mem_brk, ptr, psize, call, prev_bp, new_size, blks>>

(* mm_realloc has a new block: copy what fits of the old one, free it.     *)
(* (Mutated: source and destination swapped; the old block not freed.)     *)
CopySize(old_size) == IF call.size < old_size THEN call.size ELSE old_size

Transfer_Swapped(m, dst, src) ==
  mm_free(Copy(m, src, dst, CopySize(GET_SIZE(m, HDRP(src)))), src, prev_bp)
Transfer_NoFree(m, dst, src) ==
  [mem |-> Copy(m, dst, src, CopySize(GET_SIZE(m, HDRP(src)))),
   bp |-> src, rover |-> prev_bp]
Transfer(m, dst, src) ==
  mm_free(Copy(m, dst, src, CopySize(GET_SIZE(m, HDRP(src)))), src, prev_bp)

Move ==
  LET moved == Transfer(mem, bp, ptr[call.id])
  IN  /\ pc = "move"
      /\ mem' = moved.mem /\ prev_bp' = moved.rover
      /\ blks' = Absorbed(blks, moved.mem, moved.bp)
      /\ pc' = "ret"
      /\ UNCHANGED <<mem_brk, ptr, psize, call, bp, new_size>>

Return ==
  /\ TakeResult
  /\ new_size' = 0
  /\ UNCHANGED <<mem_brk, prev_bp, blks>>

-----------------------------------------------------------------------------
ClientCall ==
  \/ mm_init
  \/ \E i \in Ids : CallFree(i)
  \/ \E i \in Ids, size \in Sizes : CallMalloc(i, size) \/ CallRealloc(i, size)

AllocatorStep ==
  SearchUp \/ WrapAround \/ SearchLow \/ NoFit \/ Grow \/ GrowFails \/ Move
  \/ Return

Next == ClientCall \/ AllocatorStep

Spec == Init /\ [][Next]_vars

(* The client may stop calling; a call in progress runs on. *)
FairSpec == Spec /\ WF_vars(AllocatorStep)

-----------------------------------------------------------------------------
(* Properties.                                                             *)

(* Every variable holds a value of its kind; in particular every word of   *)
(* the arena is a boundary tag, client data or junk.                       *)
TypeOK ==
  /\ mem \in [Addr -> Word]
  /\ mem_brk \in mem_start_brk .. mem_max_addr
  /\ ptr \in [Ids -> Addr \union {NULL}] /\ psize \in [Ids -> Nat]
  /\ pc \in {"down", "idle", "up", "low", "grow", "move", "ret"}
  /\ call \in Call \union {NoCall}
  /\ bp \in Addr \union {NULL, mem_max_addr}
  /\ prev_bp \in Addr \union {NULL} /\ new_size \in Nat
  /\ blks \subseteq Addr

(* Between any two steps the boundary tags describe the whole heap: blocks *)
(* that do not overlap, leave no gap from prologue to epilogue, carry the  *)
(* same size and bit at both ends and can hold the smallest request.  All  *)
(* of place, mm_free, coalesce and extend_heap navigate by it, also in the *)
(* memory an earlier trace has left behind.                                *)
HeapTiled ==
  pc # "down" => Tiled(mem, mem_brk, blks) /\ MinimumSize(mem, blks)

(* Freeing coalesces at once: no two neighbouring blocks are both free.    *)
HeapCoalesced == pc # "down" => Coalesced(mem, blks)

(* next_fit starts, and ends its second loop, at prev_bp, which no pointer *)
(* of the client protects from being merged away: it must stay the start   *)
(* of a block through every coalesce, split and mm_init.                   *)
SearchStartOnBlock == pc # "down" => prev_bp \in blks

(* The blocks a pointer of the client, or of a call about to return, is    *)
(* the only handle on.                                                     *)
Owned ==
  {ptr[i] : i \in Live} \union
  (IF pc \in {"move", "ret"} /\ bp # NULL THEN {bp} ELSE {})

(* The allocated blocks are exactly the prologue and the owned ones: none  *)
(* is leaked by mm_realloc, and none a client holds is marked free.        *)
NoLeak ==
  pc # "down" => {b \in blks : ~IsFree(mem, b)} = Owned \union {heap_listp}

(* What a client wrote into a payload is there until it releases it: no    *)
(* tag, no copy and no other payload is ever written over it.              *)
PayloadsIntact == \A i \in Live : Holds(mem, ptr[i], psize[i], i)

(* mm_realloc hands back the old contents, up to the shorter of the sizes. *)
ReallocKeepsData ==
  (pc = "ret" /\ bp # NULL /\ call.op = "realloc")
    => Holds(mem, bp, KeptSize, call.id)

(* The heap grows, or memory runs out, only when no free block would do:   *)
(* next_fit, wrapping at the epilogue, has looked at every block.          *)
GrowOnlyIfNoFit ==
  pc = "grow" => \A b \in blks : ~Fits(mem, b)

(* A client's block holds its payload and a header and footer, and wastes  *)
(* less than the smallest block on top of rounding: place splits whenever  *)
(* it can.                                                                 *)
BoundedSlack ==
  \A i \in Live :
     LET size == Size(mem, ptr[i])
     IN  size >= psize[i] + DSIZE /\ size < AdjustedSize(psize[i]) + 2 * DSIZE

(* The allocator implements what the driver expects of any allocator.      *)
Contract == INSTANCE MallocContract
              WITH brk <- mem_brk, Lo <- mem_start_brk, Hi <- mem_max_addr,
                   Align <- DSIZE
ImplementsContract == Contract!Spec

(* Every call returns: neither loop of next_fit runs for ever.             *)
CallReturns == pc \notin {"idle", "down"} ~> pc = "idle"
=============================================================================
