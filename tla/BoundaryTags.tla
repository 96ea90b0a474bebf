---------------------------- MODULE BoundaryTags ----------------------------
(***************************************************************************)
(* The boundary-tag layout of mm.h that both allocators share.  A block    *)
(* whose payload starts at bp has a header word at bp - WSIZE and a footer *)
(* in its last word, both holding PACK(size, alloc).  The operators carry  *)
(* the macros' names and take the memory they read as their first          *)
(* argument, since a function of the allocator reads words it has just     *)
(* written.                                                                *)
(***************************************************************************)
EXTENDS MemLib

VARIABLE mem   \* the arena's words

CONSTANTS CHUNKSIZE   \* least number of bytes by which the heap grows (4096)

(* mm_init asks for one chunk, which must be able to hold a free block and *)
(* whose size must not break the alignment; the arena has room for it and  *)
(* the four words before it (20 MB against 4112 bytes).                    *)
ASSUME ChunkAssumption ==
  /\ CHUNKSIZE \in Nat /\ CHUNKSIZE % DSIZE = 0 /\ CHUNKSIZE >= 2 * DSIZE
  /\ CHUNKSIZE <= INT_MAX /\ CHUNKSIZE + mem_max_addr < UINT_MOD
  /\ 4 * WSIZE + CHUNKSIZE <= MAX_HEAP

Tag == [size : Nat, alloc : {0, 1}]

(* (size) | (alloc), as the two fields that GET_SIZE (& ~0x7) and          *)
(* GET_ALLOC (& 0x1) read back from it.                                    *)
PACK(size, alloc) ==
  [size  |-> DSIZE * (size \div DSIZE),
   alloc |-> IF size % 2 = 1 THEN 1 ELSE alloc]

PUT(m, p, val)   == [m EXCEPT ![p] = val]
GET_SIZE(m, p)   == m[p].size
GET_ALLOC(m, p)  == m[p].alloc
HDRP(bp)         == bp - WSIZE
FTRP(m, bp)      == bp + GET_SIZE(m, HDRP(bp)) - DSIZE
NEXT_BLKP(m, bp) == bp + GET_SIZE(m, bp - WSIZE)
PREV_BLKP(m, bp) == bp - GET_SIZE(m, bp - DSIZE)

(* PUT(HDRP(bp), PACK(size, alloc)); PUT(FTRP(bp), PACK(size, alloc));     *)
(* the footer's place follows from the header just written.                *)
PutTags(m, bp, size, alloc) ==
  LET m1 == PUT(m, HDRP(bp), PACK(size, alloc))
  IN  PUT(m1, FTRP(m1, bp), PACK(size, alloc))

-----------------------------------------------------------------------------
(* The tags a step of either allocator rewrites.                           *)

(* The padding, prologue and epilogue that mm_init writes from the start   *)
(* of the arena.                                                           *)
Prologue(m) ==
  [m EXCEPT ![mem_start_brk]             = PACK(0, 0),
            ![mem_start_brk + 1 * WSIZE] = PACK(DSIZE, 1),
            ![mem_start_brk + 2 * WSIZE] = PACK(DSIZE, 1),
            ![mem_start_brk + 3 * WSIZE] = PACK(0, 1)]

(* coalesce: b merged with the next block, the previous one, or both.      *)

MergeNext(m, b) ==
  PutTags(m, b,
          GET_SIZE(m, HDRP(b)) + GET_SIZE(m, HDRP(NEXT_BLKP(m, b))), 0)

MergePrev(m, b) ==
  LET tag == PACK(GET_SIZE(m, HDRP(b)) +
                  GET_SIZE(m, HDRP(PREV_BLKP(m, b))), 0)
      m1  == PUT(m, HDRP(PREV_BLKP(m, b)), tag)
  IN  PUT(m1, FTRP(m1, b), tag)

(* Mutated: the footer goes where bp's own block ends. *)
MergeBoth_ShortFooter(m, b) ==
  LET tag == PACK(GET_SIZE(m, HDRP(b)) +
                  GET_SIZE(m, HDRP(PREV_BLKP(m, b))) +
                  GET_SIZE(m, HDRP(NEXT_BLKP(m, b))), 0)
      m1  == PUT(m, HDRP(PREV_BLKP(m, b)), tag)
  IN  PUT(m1, FTRP(m1, b), tag)

MergeBoth(m, b) ==
  LET tag == PACK(GET_SIZE(m, HDRP(b)) +
                  GET_SIZE(m, HDRP(PREV_BLKP(m, b))) +
                  GET_SIZE(m, HDRP(NEXT_BLKP(m, b))), 0)
      m1  == PUT(m, HDRP(PREV_BLKP(m, b)), tag)
  IN  PUT(m1, FTRP(m1, NEXT_BLKP(m1, b)), tag)

(* place: the rest of the block becomes a free block behind the allocated  *)
(* one when it can be a block of its own.  (Mutated: > for >=.)            *)
Splits_Late(m, b, size) == GET_SIZE(m, HDRP(b)) - size > 2 * DSIZE
Splits(m, b, size) == GET_SIZE(m, HDRP(b)) - size >= 2 * DSIZE

TakeWhole(m, b) == PutTags(m, b, GET_SIZE(m, HDRP(b)), 1)

SplitFront(m, b, size) ==
  LET m1 == PutTags(m, b, size, 1)
  IN  PutTags(m1, NEXT_BLKP(m1, b), GET_SIZE(m, HDRP(b)) - size, 0)

(* extend_heap: the bytes asked of mem_sbrk for a number of words, and the *)
(* free block over the old epilogue with the new epilogue behind it.       *)
ExtendSize(words) == (IF words % 2 = 1 THEN words + 1 ELSE words) * WSIZE

ExtendTags(m, brk, size) ==
  LET m1 == PutTags(m, brk, size, 0)
  IN  PUT(m1, HDRP(NEXT_BLKP(m1, brk)), PACK(0, 1))

(* The payload size a request is rounded to, header and footer included:   *)
(* both allocators' mm_malloc (one divides, one masks with ~0x7).  size_t  *)
(* addition wraps.                                                         *)
AdjustedSize(size) ==
  IF size <= DSIZE THEN 2 * DSIZE
  ELSE DSIZE * (Wrap(size + DSIZE + (DSIZE - 1)) \div DSIZE)

(* The first block, the prologue, lies two words into the arena.           *)
heap_listp == mem_start_brk + 2 * WSIZE

-----------------------------------------------------------------------------
(* What a well-formed heap is: m the memory, brk the break, S the payload  *)
(* addresses of its blocks from the prologue on.                           *)

Size(m, b)   == GET_SIZE(m, HDRP(b))
IsFree(m, b) == GET_ALLOC(m, HDRP(b)) = 0

(* One block: aligned, not empty, inside the heap, footer equal to header. *)
BlockOK(m, brk, b) ==
  /\ b \in heap_listp .. brk - DSIZE /\ b % DSIZE = 0
  /\ m[HDRP(b)] \in Tag
  /\ Size(m, b) >= DSIZE /\ Size(m, b) % DSIZE = 0
  /\ b + Size(m, b) <= brk
  /\ m[b + Size(m, b) - DSIZE] = m[HDRP(b)]

(* The blocks tile the heap from the prologue to the epilogue header:      *)
(* every block ends where another starts or at the break, every block but  *)
(* the prologue starts where another ends, and no two overlap.             *)
Tiled(m, brk, S) ==
  /\ \A b \in S : BlockOK(m, brk, b)
  /\ \A b \in S : b + Size(m, b) \in S \union {brk}
  /\ \A b, c \in S : b < c => b + Size(m, b) <= c
  /\ \A c \in (S \union {brk}) \ {heap_listp} :
        \E b \in S : b + Size(m, b) = c
  /\ heap_listp \in S /\ m[HDRP(heap_listp)] = [size |-> DSIZE, alloc |-> 1]
  /\ m[HDRP(brk)] = [size |-> 0, alloc |-> 1]
  /\ brk \in heap_listp .. mem_max_addr /\ brk % DSIZE = 0

(* Every block but the prologue can hold two links or a smallest request.  *)
MinimumSize(m, S) == \A b \in S \ {heap_listp} : Size(m, b) >= 2 * DSIZE

(* Free neighbours have been merged. *)
Coalesced(m, S) ==
  \A b \in S : b + Size(m, b) \in S =>
     ~(IsFree(m, b) /\ IsFree(m, b + Size(m, b)))

(* Bookkeeping of the set S of blocks: those left when the ones inside b   *)
(* have become part of it, and those there are when b has been split.      *)
Absorbed(S, m, b) == {c \in S : ~(b < c /\ c < NEXT_BLKP(m, b))}
Placed(S, m, b, size) ==
  IF Splits(m, b, size) THEN S \union {b + size} ELSE S
=============================================================================
