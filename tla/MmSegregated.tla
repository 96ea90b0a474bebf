---------------------------- MODULE MmSegregated ----------------------------
(***************************************************************************)
(* mm_segregated.c, the allocator the Makefile builds (as mm.c): boundary  *)
(* tags, and LIST_MAX free lists, one for each power of two, sorted by     *)
(* size and doubly linked through the first two payload words of the free  *)
(* blocks.                                                                 *)
(*                                                                         *)
(* A step is what a call does between two turns of find_fit's loops; the   *)
(* walk of insert_node to its place in one list is part of the step that   *)
(* inserts.  mm_realloc returns at once when the block is large enough,    *)
(* takes over the free block behind it, extends the heap behind it, or     *)
(* falls back to mm_malloc, memcpy, mm_free.                               *)
(*                                                                         *)
(*     idle -> scan/list* -> (grow) -> ret -> idle                         *)
(*                                                                         *)
(* with a step "move" before "ret" for the fallback.  blks is auxiliary.   *)
(***************************************************************************)
EXTENDS TraceClient

CONSTANTS
  LIST_MAX,    \* number of free lists (16)
  BACK_SIZE    \* requests from here on are cut off a block's end (96)

ASSUME ListAssumption == LIST_MAX \in Nat \ {0} /\ BACK_SIZE \in Nat

(* No assumption on the code, but the arithmetic of 2 ^ k that the provers *)
(* do not know.                                                            *)
ASSUME PowersOfTwo ==
  \A k \in 0 .. LIST_MAX : 2 ^ k \in Nat \ {0} /\ 2 ^ (k + 1) = 2 * 2 ^ k

VARIABLES
  free_lists,  \* head of each list, or NULL
  new_size,    \* the rounded request
  pos,         \* find_fit's list
  blks         \* auxiliary: the blocks of the heap

allocVars == <<free_lists, new_size, pos, blks>>
vars == <<mem, mem_brk, clientVars, allocVars>>

(* What a list link leads to. *)
Node == Addr \union {NULL}
Link == [link : Node]

(* A heap h: the words and the list heads, which one operation changes     *)
(* together.                                                               *)
CurrentHeap == [mem |-> mem, lists |-> free_lists]

PRED_PTR(p)     == p
SUCC_PTR(p)     == p + WSIZE
PRED_NODE(m, p) == m[PRED_PTR(p)].link
SUCC_NODE(m, p) == m[SUCC_PTR(p)].link

SetPred(h, p, q) == [h EXCEPT !.mem[PRED_PTR(p)] = [link |-> q]]
SetSucc(h, p, q) == [h EXCEPT !.mem[SUCC_PTR(p)] = [link |-> q]]
SetHead(h, k, p) == [h EXCEPT !.lists[k] = p]

-----------------------------------------------------------------------------
(* The list of a block of this size: how often the size can be halved      *)
(* before it is at most 1, the last list taking all the rest.              *)
ListOf(size) ==
  CHOOSE k \in 0 .. LIST_MAX - 1 :
     /\ k > 0 => size >= 2 ^ k
     /\ k < LIST_MAX - 1 => size < 2 ^ (k + 1)

(* insert_node's walk from the head of a list: the neighbours a block of   *)
(* this size gets.  A block that is on a list has a link to follow.        *)
(* (Mutated: > for <.)                                                     *)
Gap_Descending(h, size) ==
  LET seek[at \in Node \X Node] ==
        IF /\ at[2] # NULL /\ Size(h.mem, at[2]) > size
           /\ SUCC_NODE(h.mem, at[2]) \in Node
        THEN seek[<<at[2], SUCC_NODE(h.mem, at[2])>>] ELSE at
  IN  seek[<<NULL, h.lists[ListOf(size)]>>]

Gap(h, size) ==
  LET seek[at \in Node \X Node] ==
        IF /\ at[2] # NULL /\ Size(h.mem, at[2]) < size
           /\ SUCC_NODE(h.mem, at[2]) \in Node
        THEN seek[<<at[2], SUCC_NODE(h.mem, at[2])>>] ELSE at
  IN  seek[<<NULL, h.lists[ListOf(size)]>>]

insert_node(h, b, size) ==
  LET pred == Gap(h, size)[1]
      succ == Gap(h, size)[2]
      h1   == SetSucc(SetPred(h, b, pred), b, succ)
      h2   == IF pred = NULL THEN SetHead(h1, ListOf(size), b)
              ELSE SetSucc(h1, pred, b)
  IN  IF succ = NULL THEN h2 ELSE SetPred(h2, succ, b)

(* Mutated: the successor keeps its back link. *)
delete_node_OneWay(h, b) ==
  LET pred == PRED_NODE(h.mem, b)
      succ == SUCC_NODE(h.mem, b)
  IN  IF pred = NULL THEN SetHead(h, ListOf(Size(h.mem, b)), succ)
      ELSE SetSucc(h, pred, succ)

delete_node(h, b) ==
  LET pred == PRED_NODE(h.mem, b)
      succ == SUCC_NODE(h.mem, b)
      h1   == IF pred = NULL THEN SetHead(h, ListOf(Size(h.mem, b)), succ)
              ELSE SetSucc(h, pred, succ)
  IN  IF succ = NULL THEN h1 ELSE SetPred(h1, succ, pred)

(* coalesce(bp): free neighbours leave their lists before their tags are   *)
(* rewritten, and the merged block enters its own.                         *)
Retag(h, m) == [h EXCEPT !.mem = m]

coalesce(h, b) ==
  LET m          == h.mem
      prev_alloc == GET_ALLOC(m, HDRP(PREV_BLKP(m, b)))
      next_alloc == GET_ALLOC(m, HDRP(NEXT_BLKP(m, b)))
      Enter(h1, b1) ==
        [heap |-> insert_node(h1, b1, Size(h1.mem, b1)), bp |-> b1]
  IN  CASE prev_alloc = 1 /\ next_alloc = 1 -> Enter(h, b)
        [] prev_alloc = 1 /\ next_alloc = 0 ->
             LET h1 == delete_node(h, NEXT_BLKP(m, b))
             IN  Enter(Retag(h1, MergeNext(h1.mem, b)), b)
        [] prev_alloc = 0 /\ next_alloc = 1 ->
             LET h1 == delete_node(h, PREV_BLKP(m, b))
                 m1 == MergePrev(h1.mem, b)
             IN  Enter(Retag(h1, m1), PREV_BLKP(m1, b))
        [] OTHER ->
             LET h1 == delete_node(delete_node(h, PREV_BLKP(m, b)),
                                   NEXT_BLKP(m, b))
                 m1 == MergeBoth(h1.mem, b)
             IN  Enter(Retag(h1, m1), PREV_BLKP(m1, b))

(* extend_heap once mem_sbrk has moved the break from brk by size bytes.   *)
extend_heap(h, brk, size) == coalesce(Retag(h, ExtendTags(h.mem, brk, size)), brk)

(* place(bp, new_size), once b has left its list: the payload, the heap,   *)
(* and where the block is cut.  Of the two blocks of a split the first is  *)
(* the allocated one, except for large ones.  (Mutated: the payload's      *)
(* place is read off the old header.)                                      *)
PlaceUnlisted_StaleNext(h, b, size) ==
  LET rest == Size(h.mem, b) - size
      back == NEXT_BLKP(h.mem, b)
      m1   == PutTags(PutTags(h.mem, b, rest, 0), back, size, 1)
  IN  IF Splits(h.mem, b, size) /\ size >= BACK_SIZE
      THEN [heap |-> insert_node(Retag(h, m1), b, rest),
            bp |-> back, cut |-> back]
      ELSE [heap |-> Retag(h, TakeWhole(h.mem, b)), bp |-> b, cut |-> b]

PlaceUnlisted(h, b, size) ==
  LET rest  == Size(h.mem, b) - size
      front == SplitFront(h.mem, b, size)
      m1    == PutTags(h.mem, b, rest, 0)
      back  == NEXT_BLKP(m1, b)
  IN  CASE ~Splits(h.mem, b, size) ->
             [heap |-> Retag(h, TakeWhole(h.mem, b)), bp |-> b, cut |-> b]
        [] Splits(h.mem, b, size) /\ size >= BACK_SIZE ->
             [heap |-> insert_node(Retag(h, PutTags(m1, back, size, 1)), b, rest),
              bp |-> back, cut |-> back]
        [] OTHER ->
             [heap |-> insert_node(Retag(h, front), NEXT_BLKP(front, b), rest),
              bp |-> b, cut |-> NEXT_BLKP(front, b)]

place(h, b, size) == PlaceUnlisted(delete_node(h, b), b, size)

(* mm_free(ptr).  (Mutated: inserted without coalesce.) *)
mm_free_NoCoalesce(h, p) ==
  LET size == GET_SIZE(h.mem, HDRP(p))
  IN  [heap |-> insert_node(Retag(h, PutTags(h.mem, p, size, 0)), p, size),
       bp |-> p]
mm_free(h, p) ==
  coalesce(Retag(h, PutTags(h.mem, p, GET_SIZE(h.mem, HDRP(p)), 0)), p)

(* mm_realloc in place: the block behind p becomes part of it, n bytes in  *)
(* all.  (Mutated: the footer is left out.)                                *)
TakeOver_NoFooter(h, p, n) ==
  LET h1 == delete_node(h, NEXT_BLKP(h.mem, p))
  IN  Retag(h1, PUT(h1.mem, HDRP(p), PACK(n, 1)))
TakeOver(h, p, n) ==
  LET h1 == delete_node(h, NEXT_BLKP(h.mem, p))
  IN  Retag(h1, PutTags(h1.mem, p, n, 1))

(* mm_realloc by copying: all of the old block, whose header and footer    *)
(* are not longer than the growth; then free it.  (Mutated: the copy or    *)
(* the free is left out.)                                                  *)
Transfer_NoCopy(h, dst, src) == mm_free(h, src)
Transfer_NoFree(h, dst, src) ==
  [heap |-> Retag(h, Copy(h.mem, dst, src, Size(h.mem, src))), bp |-> src]
Transfer(h, dst, src) ==
  mm_free(Retag(h, Copy(h.mem, dst, src, Size(h.mem, src))), src)

-----------------------------------------------------------------------------
Init ==
  /\ mem = [a \in Addr |-> Junk] /\ mem_brk = mem_start_brk
  /\ ClientInit
  /\ free_lists = [k \in 0 .. LIST_MAX - 1 |-> NULL]
  /\ new_size = 0 /\ pos = 0 /\ blks = {}

SetHeap(h) == mem' = h.mem /\ free_lists' = h.lists

(* mem_reset_brk(), then mm_init() over the heap h, of which all is        *)
(* rewritten that a later call may read; its mem_sbrk cannot fail here.    *)
(* (Mutated: only the last list is.)                                       *)
Empty_LastList(h) ==
  [mem |-> Prologue(h.mem), lists |-> [h.lists EXCEPT ![LIST_MAX - 1] = NULL]]
Empty(h) ==
  [mem |-> Prologue(h.mem), lists |-> [k \in 0 .. LIST_MAX - 1 |-> NULL]]

InitOver(h) ==
  LET brk   == mem_start_brk + 4 * WSIZE
      size  == ExtendSize(CHUNKSIZE \div WSIZE)
      grown == extend_heap(Empty(h), brk, size)
  IN  /\ pc \in {"down", "idle"}
      /\ mem_brk' = SbrkBreak(brk, size) /\ pc' = "idle"
      /\ SetHeap(grown.heap)
      /\ blks' = Absorbed({heap_listp, brk}, grown.heap.mem, grown.bp)
      /\ ClientReset
      /\ UNCHANGED <<call, bp, new_size, pos>>

mm_init == InitOver(CurrentHeap)

Request(op, i, size) == [op |-> op, id |-> i, size |-> size]

(* mm_malloc up to the search, for mm_realloc too.  Size 0 is refused.     *)
StartSearch(op, i, size) ==
  /\ size > 0
  /\ call' = Request(op, i, size)
  /\ new_size' = AdjustedSize(size)
  /\ pos' = 0 /\ pc' = "scan"
  /\ UNCHANGED <<mem, mem_brk, ptr, psize, bp, free_lists, blks>>

CallMalloc(i, size) ==
  /\ pc = "idle" /\ ptr[i] = NULL
  /\ StartSearch("malloc", i, size)

(* mm_free, which is also all that mm_realloc(ptr, 0) does. *)
CallFree(i) ==
  LET freed == mm_free(CurrentHeap, ptr[i])
  IN  /\ pc = "idle" /\ ptr[i] # NULL
      /\ SetHeap(freed.heap)
      /\ blks' = Absorbed(blks, freed.heap.mem, freed.bp)
      /\ ptr' = [ptr EXCEPT ![i] = NULL] /\ psize' = [psize EXCEPT ![i] = 0]
      /\ UNCHANGED <<mem_brk, pc, call, bp, new_size, pos>>

-----------------------------------------------------------------------------
(* find_fit(new_size): from the first list that may hold a block that big, *)
(* the first block of each list that is.  (Mutated: from the list after    *)
(* it.)                                                                    *)
Searchable_Late(k) == new_size \div 2 ^ k < 1
Searchable(k)      == new_size \div 2 ^ k <= 1

SkipList ==
  /\ pc = "scan" /\ pos < LIST_MAX
  /\ ~(Searchable(pos) /\ free_lists[pos] # NULL)
  /\ pos' = pos + 1
  /\ UNCHANGED <<mem, mem_brk, ptr, psize, pc, call, bp, free_lists, new_size,
                 blks>>

EnterList ==
  /\ pc = "scan" /\ pos < LIST_MAX
  /\ Searchable(pos) /\ free_lists[pos] # NULL
  /\ bp' = free_lists[pos] /\ pc' = "list"
  /\ UNCHANGED <<mem, mem_brk, ptr, psize, call, free_lists, new_size, pos,
                 blks>>

TooSmall ==
  /\ pc = "list" /\ bp # NULL
  /\ Size(mem, bp) < new_size
  /\ bp' = SUCC_NODE(mem, bp)
  /\ UNCHANGED <<mem, mem_brk, ptr, psize, pc, call, free_lists, new_size, pos,
                 blks>>

(* Mutated: the same list again. *)
EndOfList_Again ==
  /\ pc = "list" /\ bp = NULL
  /\ pc' = "scan"
  /\ UNCHANGED <<mem, mem_brk, ptr, psize, call, bp, free_lists, new_size, pos,
                 blks>>

EndOfList ==
  /\ pc = "list" /\ bp = NULL
  /\ pos' = pos + 1 /\ pc' = "scan"
  /\ UNCHANGED <<mem, mem_brk, ptr, psize, call, bp, free_lists, new_size,
                 blks>>

NoFit ==
  /\ pc = "scan" /\ pos = LIST_MAX
  /\ pc' = "grow"
  /\ UNCHANGED <<mem, mem_brk, ptr, psize, call, bp, free_lists, new_size, pos,
                 blks>>

(* mm_malloc has its block b in the heap h of blocks S. *)
PlaceAt(h, S, b) ==
  \E placed \in {place(h, b, new_size)} :
      /\ SetHeap(placed.heap)
      /\ blks' = S \union {placed.cut}
      /\ bp' = placed.bp
      /\ pc' = IF call.op = "realloc" THEN "move" ELSE "ret"

TakeFit ==
  /\ pc = "list" /\ bp # NULL
  /\ Size(mem, bp) >= new_size
  /\ PlaceAt(CurrentHeap, blks, bp)
  /\ UNCHANGED <<mem_brk, ptr, psize, call, new_size, pos>>

(* extend_heap(MAX(need, CHUNKSIZE) / WSIZE), then its mem_sbrk. *)
GrowSize(need) ==
  ExtendSize((IF need > CHUNKSIZE THEN need ELSE CHUNKSIZE) \div WSIZE)
GrowthFails(need) == SbrkFails(mem_brk, ToInt(GrowSize(need)))

Grow ==
  /\ pc = "grow" /\ ~GrowthFails(new_size)
  /\ mem_brk' = SbrkBreak(mem_brk, ToInt(GrowSize(new_size)))
  /\ \E grown \in {extend_heap(CurrentHeap, mem_brk, GrowSize(new_size))} :
        PlaceAt(grown.heap,
                Absorbed(blks \union {mem_brk}, grown.heap.mem, grown.bp),
                grown.bp)
  /\ UNCHANGED <<ptr, psize, call, new_size, pos>>

(* Out of memory: NULL to a caller of mm_malloc.  mm_realloc does not look *)
(* at what it got and copies to address 0, which ends the program.         *)
GrowFails ==
  /\ pc = "grow" /\ GrowthFails(new_size)
  /\ bp' = NULL
  /\ pc' = IF call.op = "realloc" THEN "crash" ELSE "ret"
  /\ UNCHANGED <<mem, mem_brk, ptr, psize, call, free_lists, new_size, pos,
                 blks>>

Move ==
  /\ pc = "move"
  /\ \E moved \in {Transfer(CurrentHeap, bp, ptr[call.id])} :
        /\ SetHeap(moved.heap)
        /\ blks' = Absorbed(blks, moved.heap.mem, moved.bp)
  /\ pc' = "ret"
  /\ UNCHANGED <<mem_brk, ptr, psize, call, bp, new_size, pos>>

Return ==
  /\ TakeResult
  /\ new_size' = 0 /\ pos' = 0
  /\ UNCHANGED <<mem_brk, free_lists, blks>>

-----------------------------------------------------------------------------
(* mm_realloc(ptr, size) of an id's block; what its branches test.         *)
Available(p)  == Size(mem, p) + Size(mem, NEXT_BLKP(mem, p))
NextUsable(p) == IsFree(mem, NEXT_BLKP(mem, p)) \/ Size(mem, NEXT_BLKP(mem, p)) = 0
Needs(p, size) == Size(mem, p) < AdjustedSize(size)

(* p's block and the free one behind it, if any, are the heap's last. *)
AtEnd(p) == p + Available(p) = mem_brk

Realloc(i, size) ==
  /\ pc = "idle" /\ ptr[i] # NULL /\ size > 0
  /\ call' = Request("realloc", i, size)
  /\ UNCHANGED <<ptr, psize, new_size, pos>>

(* The block is large enough as it is. *)
ReallocKeep(i, size) ==
  /\ Realloc(i, size) /\ ~Needs(ptr[i], size)
  /\ bp' = ptr[i] /\ pc' = "ret"
  /\ UNCHANGED <<mem, mem_brk, free_lists, blks>>

(* The next block is free and makes up for what is missing.  (Mutated: an  *)
(* allocated one is taken over too.)                                       *)
ReallocMerge_Allocated(i, size) ==
  LET p == ptr[i]
      h == IF NextUsable(p) THEN TakeOver(CurrentHeap, p, Available(p))
           ELSE Retag(CurrentHeap, PutTags(mem, p, Available(p), 1))
  IN  /\ Realloc(i, size) /\ Needs(p, size)
      /\ Available(p) >= AdjustedSize(size)
      /\ SetHeap(h) /\ blks' = Absorbed(blks, h.mem, p)
      /\ bp' = p /\ pc' = "ret" /\ UNCHANGED mem_brk

ReallocMerge(i, size) ==
  LET p == ptr[i]
      h == TakeOver(CurrentHeap, p, Available(p))
  IN  /\ Realloc(i, size) /\ Needs(p, size)
      /\ NextUsable(p) /\ Available(p) >= AdjustedSize(size)
      /\ SetHeap(h) /\ blks' = Absorbed(blks, h.mem, p)
      /\ bp' = p /\ pc' = "ret" /\ UNCHANGED mem_brk

(* It is free or the epilogue, but not enough: the heap is extended and    *)
(* the growth counted to the block.                                        *)
ReallocExtend(i, size) ==
  LET p     == ptr[i]
      need  == AdjustedSize(size) - Available(p)
      grown == extend_heap(CurrentHeap, mem_brk, GrowSize(need))
      h     == TakeOver(grown.heap, p, Available(p) + GrowSize(need))
  IN  /\ Realloc(i, size) /\ Needs(p, size)
      /\ NextUsable(p) /\ need > 0 /\ ~GrowthFails(need)
      /\ mem_brk' = SbrkBreak(mem_brk, ToInt(GrowSize(need)))
      /\ SetHeap(h)
      /\ blks' = Absorbed(Absorbed(blks \union {mem_brk},
                                   grown.heap.mem, grown.bp), h.mem, p)
      /\ bp' = p /\ pc' = "ret"

(* The code does not ask whether the growth is behind the block: when      *)
(* allocated blocks lie between, it takes them over.                       *)
ReallocExtendLast(i, size) == ReallocExtend(i, size) /\ AtEnd(ptr[i])
ReallocExtendPast(i, size) == ReallocExtend(i, size) /\ ~AtEnd(ptr[i])

ReallocExtendFails(i, size) ==
  LET p    == ptr[i]
      need == AdjustedSize(size) - Available(p)
  IN  /\ Realloc(i, size) /\ Needs(p, size)
      /\ NextUsable(p) /\ need > 0 /\ GrowthFails(need)
      /\ bp' = NULL /\ pc' = "ret"
      /\ UNCHANGED <<mem, mem_brk, free_lists, blks>>

(* The next block is allocated: mm_malloc, then Move. *)
ReallocSearch(i, size) ==
  /\ pc = "idle" /\ ptr[i] # NULL
  /\ Needs(ptr[i], size) /\ ~NextUsable(ptr[i])
  /\ StartSearch("realloc", i, size)

-----------------------------------------------------------------------------
SoundCall(i, size) ==
  \/ CallMalloc(i, size)
  \/ ReallocKeep(i, size) \/ ReallocMerge(i, size)
  \/ ReallocExtendLast(i, size) \/ ReallocExtendFails(i, size)
  \/ ReallocSearch(i, size)

AllocatorStep ==
  SkipList \/ EnterList \/ TooSmall \/ EndOfList \/ NoFit \/ TakeFit
  \/ Grow \/ GrowFails \/ Move \/ Return

(* Every call but those of ReallocExtendPast, which destroy the heap. *)
SoundNext ==
  \/ mm_init \/ AllocatorStep
  \/ \E i \in Ids : CallFree(i)
  \/ \E i \in Ids, size \in Sizes : SoundCall(i, size)

Next == SoundNext \/ \E i \in Ids, size \in Sizes : ReallocExtendPast(i, size)

Spec      == Init /\ [][Next]_vars
SoundSpec == Init /\ [][SoundNext]_vars

(* The client may stop calling; a call in progress runs on. *)
FairSpec == SoundSpec /\ WF_vars(AllocatorStep)

-----------------------------------------------------------------------------
(* Properties.  All but the last two are of SoundSpec.                     *)

Up == pc \notin {"down", "crash"}

(* Every variable holds a value of its kind. *)
TypeOK ==
  /\ mem \in [Addr -> Tag \union Link \union Ids \union {Junk}]
  /\ mem_brk \in mem_start_brk .. mem_max_addr
  /\ ptr \in [Ids -> Node] /\ psize \in [Ids -> Nat]
  /\ pc \in {"down", "idle", "scan", "list", "grow", "move", "ret", "crash"}
  /\ call \in Call \union {NoCall} /\ bp \in Node
  /\ free_lists \in [0 .. LIST_MAX - 1 -> Node]
  /\ new_size \in Nat /\ pos \in 0 .. LIST_MAX /\ blks \subseteq Addr

(* The boundary tags describe the whole heap: place, coalesce, extend_heap *)
(* and the branches of mm_realloc leave blocks that tile it, agree at both *)
(* ends and can hold two list links; and no two neighbouring blocks are    *)
(* both free, whichever part of a split block place gives away.            *)
HeapTiled ==
  /\ TypeOK
  /\ Up => Tiled(mem, mem_brk, blks) /\ MinimumSize(mem, blks) /\ Coalesced(mem, blks)

FreeBlocks == {b \in blks : IsFree(mem, b)}

(* The free blocks of the sizes that list k is for. *)
Members(k) == {b \in FreeBlocks : ListOf(Size(mem, b)) = k}

(* A walk along list k stays in X, from the head to its end. *)
StaysIn(k, X) ==
  /\ free_lists[k] \in X \union {NULL}
  /\ \A b \in X : SUCC_NODE(mem, b) \in X \union {NULL}

(* The free lists hold exactly the free blocks, each in the list of its    *)
(* size and once, in ascending order, with links that agree in both        *)
(* directions: coalesce unlinked a neighbour under its old size, place and *)
(* mm_realloc unlinked what they gave away.                                *)
FreeListsExact ==
  Up =>
    /\ \A k \in 0 .. LIST_MAX - 1 :
          /\ StaysIn(k, Members(k))
          /\ \A X \in SUBSET Members(k) : StaysIn(k, X) => X = Members(k)
    /\ \A b \in FreeBlocks :
          LET pred == PRED_NODE(mem, b)
              succ == SUCC_NODE(mem, b)
          IN  /\ pred = NULL => free_lists[ListOf(Size(mem, b))] = b
              /\ pred # NULL => SUCC_NODE(mem, pred) = b
              /\ succ # NULL => /\ PRED_NODE(mem, succ) = b
                                /\ Size(mem, b) <= Size(mem, succ)

(* The blocks somebody holds, and only they, are allocated. *)
Owned ==
  {ptr[i] : i \in Live} \union
  (IF pc \in {"move", "ret"} /\ bp # NULL THEN {bp} ELSE {})
NoLeak == Up => blks \ FreeBlocks = Owned \union {heap_listp}

(* No tag, link, copy or other payload is written over a client's data,    *)
(* and all ways through mm_realloc keep the contents.                      *)
PayloadsIntact ==
  /\ \A i \in Live : Holds(mem, ptr[i], psize[i], i)
  /\ (pc = "ret" /\ bp # NULL /\ call.op = "realloc")
       => Holds(mem, bp, KeptSize, call.id)

(* The block find_fit settles on is a smallest one that fits: the lists    *)
(* ascend, and so do the blocks within each.  The heap grows only when no  *)
(* free block would do.  (But from 2^LIST_MAX bytes on, a request never    *)
(* gets to a list: find_fit halves it LIST_MAX - 1 times, and it is still  *)
(* above 1.)                                                               *)
BestFit ==
  /\ (pc = "list" /\ bp # NULL /\ Size(mem, bp) >= new_size) =>
       \A b \in FreeBlocks :
          Size(mem, b) >= new_size => Size(mem, bp) <= Size(mem, b)
  /\ (pc = "grow" /\ new_size < 2 ^ LIST_MAX) =>
       \A b \in FreeBlocks : Size(mem, b) < new_size

(* The allocator implements what the driver expects of any allocator.      *)
Contract == INSTANCE MallocContract
              WITH brk <- mem_brk, Lo <- mem_start_brk, Hi <- mem_max_addr,
                   Align <- DSIZE
ImplementsContract == Contract!Spec

(* Every call returns or ends the program: neither loop of find_fit runs   *)
(* for ever.                                                               *)
CallReturns == pc \notin {"idle", "down", "crash"} ~> pc \in {"idle", "crash"}

(* Of Spec.  The driver's rule that a payload must not overlap any other   *)
(* payload (mdriver.c, add_range).                                         *)
NoOverlap ==
  \A i, j \in Live :
     (i # j /\ ptr[i] <= ptr[j]) => ptr[i] + psize[i] <= ptr[j]

(* Of Spec.  The driver expects mm_realloc to fail by returning NULL.      *)
ReallocFailsCleanly == pc # "crash"
=============================================================================
