------------------------- MODULE StaleMemory_proof --------------------------
(***************************************************************************)
(* A theorem about StaleMemory, for every arena, set of ids, set of sizes  *)
(* and number of lists: what earlier passes of the driver have left in     *)
(* memory makes no difference to what the segregated allocator answers.    *)
(*                                                                         *)
(* Two heaps are twins if both are sound (MmSegregated_proof), are made of *)
(* the same blocks, of which the same are allocated, and have the same     *)
(* free lists: head by head, link by link.  Tags and links of twins agree, *)
(* and these are all that the operations read; so every operation that is  *)
(* done to both makes them twins again, although payloads, and the words   *)
(* in free blocks behind the two links, are anything.  mm_init makes twins *)
(* of any two heaps.                                                       *)
(*                                                                         *)
(* First come the operators of Cold, which are those of MmSegregated; then *)
(* what each operation does to twins; then the steps of both programs.     *)
(***************************************************************************)
EXTENDS StaleMemory, MmSegregated_proof

(* Cold's operators take all they depend on as parameters, so they are the *)
(* same.  First the tags, then the lists, then the operations.             *)
LEMMA ColdTags ==
  /\ \A m, p, size, alloc : Cold!PutTags(m, p, size, alloc) = PutTags(m, p, size, alloc)
  /\ \A m, p : Cold!Size(m, p) = Size(m, p) /\ Cold!IsFree(m, p) = IsFree(m, p)
  /\ \A m, p : Cold!NEXT_BLKP(m, p) = NEXT_BLKP(m, p)
  /\ \A m, p : Cold!PREV_BLKP(m, p) = PREV_BLKP(m, p)
BY DEF Cold!PutTags, PutTags, Cold!PUT, PUT, Cold!PACK, PACK, Cold!HDRP, HDRP,
       Cold!FTRP, FTRP, Cold!Size, Size, Cold!GET_SIZE, GET_SIZE, Cold!IsFree, IsFree,
       Cold!GET_ALLOC, GET_ALLOC, Cold!NEXT_BLKP, NEXT_BLKP, Cold!PREV_BLKP, PREV_BLKP,
       Cold!DSIZE, DSIZE, Cold!WSIZE, WSIZE

(* insert_node's walk *)
LEMMA ColdGap ==
  \A h, n : Cold!Gap(h, n) = Gap(h, n)
BY DEF Cold!Gap, Gap, Cold!Node, Node, Cold!Addr, Addr, Cold!NULL, NULL, Cold!Size, Size,
       Cold!GET_SIZE, GET_SIZE, Cold!HDRP, HDRP, Cold!WSIZE, WSIZE, Cold!SUCC_NODE, SUCC_NODE,
       Cold!SUCC_PTR, SUCC_PTR, Cold!ListOf, ListOf, Cold!mem_max_addr, mem_max_addr

(* the links and the heads *)
LEMMA ColdLinks ==
  /\ \A h, p, q : Cold!SetPred(h, p, q) = SetPred(h, p, q)
  /\ \A h, p, q : Cold!SetSucc(h, p, q) = SetSucc(h, p, q)
  /\ \A h, k, p : Cold!SetHead(h, k, p) = SetHead(h, k, p)
  /\ \A m, p : Cold!PRED_NODE(m, p) = PRED_NODE(m, p)
  /\ \A m, p : Cold!SUCC_NODE(m, p) = SUCC_NODE(m, p)
  /\ \A size : Cold!ListOf(size) = ListOf(size)
  /\ \A h, m : Cold!Retag(h, m) = Retag(h, m)
  /\ Cold!NULL = NULL
BY DEF Cold!SetPred, SetPred, Cold!SetSucc, SetSucc, Cold!SetHead, SetHead,
       Cold!PRED_NODE, PRED_NODE, Cold!SUCC_NODE, SUCC_NODE, Cold!PRED_PTR, PRED_PTR,
       Cold!SUCC_PTR, SUCC_PTR, Cold!WSIZE, WSIZE, Cold!ListOf, ListOf,
       Cold!Retag, Retag, Cold!NULL, NULL

(* insert_node *)
LEMMA ColdInsert ==
  ASSUME NEW h, NEW b, NEW n
  PROVE  Cold!insert_node(h, b, n) = insert_node(h, b, n)
BY ColdGap, ColdLinks DEF Cold!insert_node, insert_node

(* delete_node *)
LEMMA ColdDelete ==
  ASSUME NEW h, NEW b
  PROVE  Cold!delete_node(h, b) = delete_node(h, b)
BY ColdTags, ColdLinks DEF Cold!delete_node, delete_node

(* coalesce, tags and lists *)
LEMMA ColdMerges ==
  ASSUME NEW m, NEW b
  PROVE  /\ Cold!MergeNext(m, b) = MergeNext(m, b)
         /\ Cold!MergePrev(m, b) = MergePrev(m, b)
         /\ Cold!MergeBoth(m, b) = MergeBoth(m, b)
BY ColdTags DEF Cold!MergeNext, MergeNext, Cold!MergePrev, MergePrev,
   Cold!MergeBoth, MergeBoth, Cold!GET_SIZE, GET_SIZE, Cold!HDRP, HDRP, Cold!PUT, PUT,
   Cold!PACK, PACK, Cold!FTRP, FTRP, Cold!DSIZE, DSIZE, Cold!WSIZE, WSIZE

LEMMA ColdCoalesce ==
  ASSUME NEW h, NEW b
  PROVE  Cold!coalesce(h, b) = coalesce(h, b)
<1>1. \A h1, b1, n1 : Cold!insert_node(h1, b1, n1) = insert_node(h1, b1, n1)
  BY ColdInsert
<1>2. \A h1, b1 : Cold!delete_node(h1, b1) = delete_node(h1, b1)
  BY ColdDelete
<1>3. \A m1, b1 : /\ Cold!MergeNext(m1, b1) = MergeNext(m1, b1)
                  /\ Cold!MergePrev(m1, b1) = MergePrev(m1, b1)
                  /\ Cold!MergeBoth(m1, b1) = MergeBoth(m1, b1)
  BY ColdMerges
<1>4. \A m1, b1 : /\ Cold!Size(m1, b1) = Size(m1, b1)
                  /\ Cold!NEXT_BLKP(m1, b1) = NEXT_BLKP(m1, b1)
                  /\ Cold!PREV_BLKP(m1, b1) = PREV_BLKP(m1, b1)
  BY ColdTags
<1>5. \A h1, m1 : Cold!Retag(h1, m1) = Retag(h1, m1)
  BY ColdLinks
<1>6. \A m1, b1 : Cold!GET_ALLOC(m1, Cold!HDRP(b1)) = GET_ALLOC(m1, HDRP(b1))
  BY DEF Cold!GET_ALLOC, GET_ALLOC, Cold!HDRP, HDRP, Cold!WSIZE, WSIZE
<1> QED
  BY <1>1, <1>2, <1>3, <1>4, <1>5, <1>6 DEF Cold!coalesce, coalesce

(* the words of a heap that the calls write, and the auxiliary blks *)
LEMMA ColdWords ==
  /\ \A m, p, size : /\ Cold!Splits(m, p, size) <=> Splits(m, p, size)
                     /\ Cold!ExtendTags(m, p, size) = ExtendTags(m, p, size)
                     /\ Cold!SplitFront(m, p, size) = SplitFront(m, p, size)
  /\ \A m, p : Cold!TakeWhole(m, p) = TakeWhole(m, p)
  /\ \A m : Cold!Prologue(m) = Prologue(m)
  /\ \A m, d, p, n : /\ Cold!Copy(m, d, p, n) = Copy(m, d, p, n)
                     /\ Cold!Fill(m, d, p, n) = Fill(m, d, p, n)
  /\ \A S, m, p : Cold!Absorbed(S, m, p) = Absorbed(S, m, p)
<1>1. \A m, p, size, alloc : Cold!PutTags(m, p, size, alloc) = PutTags(m, p, size, alloc)
  BY ColdTags
<1>2. \A m, p : /\ Cold!GET_SIZE(m, Cold!HDRP(p)) = GET_SIZE(m, HDRP(p))
                /\ Cold!NEXT_BLKP(m, p) = NEXT_BLKP(m, p)
  BY ColdTags DEF Cold!GET_SIZE, GET_SIZE, Cold!HDRP, HDRP, Cold!WSIZE, WSIZE
<1>3. \A m, p, size : /\ Cold!Splits(m, p, size) <=> Splits(m, p, size)
                      /\ Cold!SplitFront(m, p, size) = SplitFront(m, p, size)
  BY <1>1, <1>2 DEF Cold!Splits, Splits, Cold!SplitFront, SplitFront, Cold!DSIZE, DSIZE
<1>4. \A m, p, size : Cold!ExtendTags(m, p, size) = ExtendTags(m, p, size)
  BY <1>1, <1>2 DEF Cold!ExtendTags, ExtendTags, Cold!PUT, PUT, Cold!PACK, PACK,
     Cold!HDRP, HDRP, Cold!WSIZE, WSIZE, Cold!DSIZE, DSIZE
<1>5. \A m, p : Cold!TakeWhole(m, p) = TakeWhole(m, p)
  BY <1>1, <1>2 DEF Cold!TakeWhole, TakeWhole
<1>6. \A m : Cold!Prologue(m) = Prologue(m)
  BY DEF Cold!Prologue, Prologue, Cold!PACK, PACK, Cold!WSIZE, WSIZE, Cold!DSIZE, DSIZE
<1>7. \A m, d, p, n : /\ Cold!Copy(m, d, p, n) = Copy(m, d, p, n)
                      /\ Cold!Fill(m, d, p, n) = Fill(m, d, p, n)
  BY DEF Cold!Copy, Copy, Cold!Fill, Fill, Cold!Addr, Addr, Cold!mem_max_addr,
         mem_max_addr, Cold!WSIZE, WSIZE
<1>8. \A S, m, p : Cold!Absorbed(S, m, p) = Absorbed(S, m, p)
  BY <1>2 DEF Cold!Absorbed, Absorbed
<1> QED
  BY <1>3, <1>4, <1>5, <1>6, <1>7, <1>8

(* place *)
LEMMA ColdPlace ==
  ASSUME NEW h, NEW b, NEW size
  PROVE  Cold!place(h, b, size) = place(h, b, size)
<1>1. \A h1, b1, n1 : Cold!insert_node(h1, b1, n1) = insert_node(h1, b1, n1)
  BY ColdInsert
<1>2. Cold!delete_node(h, b) = delete_node(h, b)
  BY ColdDelete
<1>3. \A m, p, n : /\ Cold!Splits(m, p, n) <=> Splits(m, p, n)
                   /\ Cold!SplitFront(m, p, n) = SplitFront(m, p, n)
                   /\ Cold!TakeWhole(m, p) = TakeWhole(m, p)
  BY ColdWords
<1>4. \A m, p, n, alloc : /\ Cold!PutTags(m, p, n, alloc) = PutTags(m, p, n, alloc)
                          /\ Cold!Size(m, p) = Size(m, p)
                          /\ Cold!NEXT_BLKP(m, p) = NEXT_BLKP(m, p)
  BY ColdTags
<1>5. \A h1, m1 : Cold!Retag(h1, m1) = Retag(h1, m1)
  BY ColdLinks
<1>6. \A h1 : Cold!PlaceUnlisted(h1, b, size) = PlaceUnlisted(h1, b, size)
  BY <1>1, <1>3, <1>4, <1>5 DEF Cold!PlaceUnlisted, PlaceUnlisted
<1> QED
  BY <1>2, <1>6 DEF Cold!place, place

(* the calls *)
LEMMA ColdCalls ==
  /\ \A h, brk, size : Cold!extend_heap(h, brk, size) = extend_heap(h, brk, size)
  /\ \A h, p : Cold!mm_free(h, p) = mm_free(h, p)
  /\ \A h, p, n : Cold!TakeOver(h, p, n) = TakeOver(h, p, n)
  /\ \A h, dst, src : Cold!Transfer(h, dst, src) = Transfer(h, dst, src)
  /\ \A h : Cold!Empty(h) = Empty(h)
<1>1. \A h, b : Cold!coalesce(h, b) = coalesce(h, b)
  BY ColdCoalesce
<1>2. \A h, b : Cold!delete_node(h, b) = delete_node(h, b)
  BY ColdDelete
<1>3. \A m, p, n, alloc : /\ Cold!PutTags(m, p, n, alloc) = PutTags(m, p, n, alloc)
                          /\ Cold!Size(m, p) = Size(m, p)
                          /\ Cold!NEXT_BLKP(m, p) = NEXT_BLKP(m, p)
                          /\ Cold!GET_SIZE(m, Cold!HDRP(p)) = GET_SIZE(m, HDRP(p))
  BY ColdTags DEF Cold!GET_SIZE, GET_SIZE, Cold!HDRP, HDRP, Cold!WSIZE, WSIZE
<1>4. \A m, p, size : Cold!ExtendTags(m, p, size) = ExtendTags(m, p, size)
  BY ColdWords
<1>5. /\ \A m : Cold!Prologue(m) = Prologue(m)
      /\ \A m, d, p, n : Cold!Copy(m, d, p, n) = Copy(m, d, p, n)
  BY ColdWords
<1>6. \A h1, m1 : Cold!Retag(h1, m1) = Retag(h1, m1)
  BY ColdLinks
<1>7. \A h, brk, size : Cold!extend_heap(h, brk, size) = extend_heap(h, brk, size)
  BY <1>1, <1>4, <1>6 DEF Cold!extend_heap, extend_heap
<1>8. \A h, p : Cold!mm_free(h, p) = mm_free(h, p)
  BY <1>1, <1>3, <1>6 DEF Cold!mm_free, mm_free
<1>9. \A h, p, n : Cold!TakeOver(h, p, n) = TakeOver(h, p, n)
  BY <1>2, <1>3, <1>6 DEF Cold!TakeOver, TakeOver
<1>10. \A h, dst, src : Cold!Transfer(h, dst, src) = Transfer(h, dst, src)
  BY <1>3, <1>5, <1>6, <1>8 DEF Cold!Transfer, Transfer
<1>11. \A h : Cold!Empty(h) = Empty(h)
  BY <1>5 DEF Cold!Empty, Empty, Cold!NULL, NULL
<1> QED
  BY <1>7, <1>8, <1>9, <1>10, <1>11

(* sizes and breaks *)
LEMMA ColdNumbers ==
  /\ \A n : Cold!AdjustedSize(n) = AdjustedSize(n) /\ Cold!GrowSize(n) = GrowSize(n)
  /\ \A n : Cold!ToInt(n) = ToInt(n)
  /\ \A brk, n : /\ Cold!SbrkBreak(brk, n) = SbrkBreak(brk, n)
                 /\ Cold!SbrkFails(brk, n) <=> SbrkFails(brk, n)
  /\ \A n : Cold!ExtendSize(n) = ExtendSize(n)
  /\ Cold!heap_listp = heap_listp /\ Cold!WSIZE = WSIZE
BY DEF Cold!AdjustedSize, AdjustedSize, Cold!GrowSize, GrowSize, Cold!ToInt, ToInt,
       Cold!SbrkBreak, SbrkBreak, Cold!SbrkFails, SbrkFails, Cold!ExtendSize, ExtendSize,
       Cold!Wrap, Wrap, Cold!UINT_MOD, UINT_MOD, Cold!DSIZE, DSIZE, Cold!WSIZE, WSIZE,
       Cold!mem_max_addr, mem_max_addr, Cold!heap_listp, heap_listp

-----------------------------------------------------------------------------
(* Two heaps that agree on their free lists: the list heads, and the sizes *)
(* and links of the nodes F.                                               *)
SameLinks(h, g, F) ==
  /\ h.lists = g.lists
  /\ \A c \in F : /\ Size(h.mem, c) = Size(g.mem, c)
                  /\ PRED_NODE(h.mem, c) = PRED_NODE(g.mem, c)
                  /\ SUCC_NODE(h.mem, c) = SUCC_NODE(g.mem, c)

(* Two heaps of the same blocks, of which the same are allocated, agree on *)
(* their sizes and neighbours: the blocks tile both of them.               *)
LEMMA TwinBlocks ==
  ASSUME NEW m, NEW m2, NEW brk, NEW S, Heap(m, brk, S), Heap(m2, brk, S),
         Allocated(m, S) = Allocated(m2, S)
  PROVE  /\ \A c \in S : /\ Size(m, c) = Size(m2, c)
                         /\ IsFree(m, c) <=> IsFree(m2, c)
         /\ FreeOf(m, S) = FreeOf(m2, S)
         /\ \A b \in S \ {heap_listp} : /\ NEXT_BLKP(m, b) = NEXT_BLKP(m2, b)
                                        /\ PREV_BLKP(m, b) = PREV_BLKP(m2, b)
<1>1. ASSUME NEW m3, NEW m4, Heap(m3, brk, S), Heap(m4, brk, S), NEW c \in S
      PROVE  Size(m3, c) <= Size(m4, c)
  <2>1. /\ c \in Int /\ brk \in Int /\ Size(m3, c) \in Nat /\ Size(m4, c) \in Nat
        /\ Size(m4, c) >= 8 /\ c + Size(m3, c) <= brk
    BY <1>1, BlockFacts, HeapFacts DEF Heap
  <2>2. c + Size(m4, c) \in S \union {brk}
    BY <1>1 DEF Heap, Tiled
  <2>3. c + Size(m4, c) \in S => c + Size(m3, c) <= c + Size(m4, c)
    BY <1>1, <2>1 DEF Heap, Tiled
  <2> QED
    BY <2>1, <2>2, <2>3
<1>2. \A c \in S : /\ Size(m, c) \in Nat /\ Size(m2, c) \in Nat
                   /\ c \in Int /\ Size(m, c) >= 8
  BY BlockFacts DEF Heap
<1>3. \A c \in S : Size(m, c) = Size(m2, c)
  <2> SUFFICES ASSUME NEW c \in S PROVE Size(m, c) = Size(m2, c)
    OBVIOUS
  <2>1. Size(m, c) <= Size(m2, c)
    BY <1>1
  <2>2. Size(m2, c) <= Size(m, c)
    BY <1>1
  <2> QED
    BY <1>2, <2>1, <2>2
<1>4. \A c \in S : IsFree(m, c) <=> IsFree(m2, c)
  BY DEF Allocated
<1>5. FreeOf(m, S) = FreeOf(m2, S)
  BY <1>4 DEF FreeOf
<1>6. ASSUME NEW b \in S \ {heap_listp}
      PROVE  NEXT_BLKP(m, b) = NEXT_BLKP(m2, b) /\ PREV_BLKP(m, b) = PREV_BLKP(m2, b)
  <2>1. NEXT_BLKP(m, b) = b + Size(m, b) /\ NEXT_BLKP(m2, b) = b + Size(m2, b)
    BY <1>6, Neighbours DEF Heap
  <2>2. PICK q \in S : PREV_BLKP(m, b) = q /\ q + Size(m, q) = b
    BY <1>6, Neighbours DEF Heap
  <2>3. PICK q2 \in S : PREV_BLKP(m2, b) = q2 /\ q2 + Size(m2, q2) = b
    BY <1>6, Neighbours DEF Heap
  <2>4. /\ q < q2 => q + Size(m, q) <= q2
        /\ q2 < q => q2 + Size(m, q2) <= q
    BY DEF Heap, Tiled
  <2>5. q = q2
    BY <1>2, <1>3, <2>2, <2>3, <2>4
  <2> QED
    BY <1>3, <2>1, <2>2, <2>3, <2>5
<1> QED
  BY <1>3, <1>4, <1>5, <1>6

(* Agreement is kept where no node's words are written.                    *)
LEMMA TwinKeep ==
  ASSUME NEW h, NEW g, NEW F, SameLinks(h, g, F),
         NEW h2, h2.lists = h.lists, NEW G, G \subseteq F, SameNodes(h.mem, h2.mem, G),
         NEW g2, g2.lists = g.lists, SameNodes(g.mem, g2.mem, G)
  PROVE  SameLinks(h2, g2, G)
<1>1. ASSUME NEW m, NEW m2, SameNodes(m, m2, G), NEW c \in G
      PROVE  /\ Size(m2, c) = Size(m, c) /\ PRED_NODE(m2, c) = PRED_NODE(m, c)
             /\ SUCC_NODE(m2, c) = SUCC_NODE(m, c)
  BY <1>1 DEF SameNodes, Size, GET_SIZE, HDRP, WSIZE, PRED_NODE, PRED_PTR,
              SUCC_NODE, SUCC_PTR
<1> QED
  BY <1>1 DEF SameLinks

(* So it is on some of the nodes only. *)
LEMMA TwinPart ==
  ASSUME NEW h, NEW g, NEW F, SameLinks(h, g, F), NEW G, G \subseteq F
  PROVE  SameLinks(h, g, G)
BY DEF SameLinks

(* delete_node *)
LEMMA TwinDelete ==
  ASSUME NEW h, NEW g, Record(h), Record(g), NEW F, Nodes(F),
         HeapLists(h, F), HeapLists(g, F), SameLinks(h, g, F), NEW b \in F
  PROVE  SameLinks(delete_node(h, b), delete_node(g, b), F \ {b})
<1>1. PICK h2, g2 : h2 = delete_node(h, b) /\ g2 = delete_node(g, b)
  OBVIOUS
<1>2. Deleted(h, h2, F, b) /\ Deleted(g, g2, F, b)
  BY <1>1, DeleteForm
<1>3. /\ Size(h.mem, b) = Size(g.mem, b) /\ PRED_NODE(h.mem, b) = PRED_NODE(g.mem, b)
      /\ SUCC_NODE(h.mem, b) = SUCC_NODE(g.mem, b) /\ h.lists = g.lists
  BY DEF SameLinks
<1>4. h2.lists = g2.lists
  BY <1>2, <1>3 DEF Deleted
<1>5. ASSUME NEW c \in F \ {b}
      PROVE  /\ Size(h2.mem, c) = Size(g2.mem, c)
             /\ PRED_NODE(h2.mem, c) = PRED_NODE(g2.mem, c)
             /\ SUCC_NODE(h2.mem, c) = SUCC_NODE(g2.mem, c)
  BY <1>2, <1>3 DEF Deleted, LinksSet, SameLinks
<1> QED
  BY <1>1, <1>4, <1>5 DEF SameLinks

(* insert_node's walk *)
LEMMA TwinGap ==
  ASSUME NEW h, NEW g, NEW F \in SUBSET Addr, HeapLists(h, F), HeapLists(g, F),
         SameLinks(h, g, F), NEW n \in Nat
  PROVE  Gap(h, n) = Gap(g, n)
<1>1. PICK walk : Steps(h, n, walk) /\ Gap(h, n) = walk[<<NULL, h.lists[ListOf(n)]>>]
  BY GapSteps
<1>2. PICK walk2 : Steps(g, n, walk2) /\ Gap(g, n) = walk2[<<NULL, g.lists[ListOf(n)]>>]
  BY GapSteps
<1>3. /\ NULL \notin F /\ Acyclic(F, SuccsOf(h, F))
      /\ \A b \in F : SuccsOf(h, F)[b] \in F \union {NULL}
      /\ h.lists \in [0 .. LIST_MAX - 1 -> F \union {NULL}]
  BY DEF HeapLists, Lists
<1>4. \A b \in F : /\ SuccsOf(h, F)[b] = SUCC_NODE(h.mem, b)
                   /\ SUCC_NODE(h.mem, b) = SUCC_NODE(g.mem, b)
                   /\ Size(h.mem, b) = Size(g.mem, b)
  BY DEF SuccsOf, SameLinks
<1>5. PICK N, num : Numbered(F, SuccsOf(h, F), num, N)
  BY <1>3 DEF Acyclic
<1>6. /\ F \subseteq Node /\ NULL \in Node
  BY DEF Node
<1> DEFINE Bad == {b \in F : \E p \in Node : walk[<<p, b>>] # walk2[<<p, b>>]}
           T   == {N - num[b] : b \in Bad}
<1>7. \A p \in Node : walk[<<p, NULL>>] = walk2[<<p, NULL>>]
  <2> SUFFICES ASSUME NEW p \in Node PROVE walk[<<p, NULL>>] = walk2[<<p, NULL>>]
    OBVIOUS
  <2>1. walk[<<p, NULL>>] = <<p, NULL>>
    <3>1. Steps(h, n, walk)
      BY <1>1
    <3> QED
      BY <1>6, <3>1 DEF Steps
  <2>2. walk2[<<p, NULL>>] = <<p, NULL>>
    <3>1. Steps(g, n, walk2)
      BY <1>2
    <3> QED
      BY <1>6, <3>1 DEF Steps
  <2> QED
    BY <2>1, <2>2
<1>8. Bad = {}
  <2> SUFFICES ASSUME Bad # {} PROVE FALSE
    OBVIOUS
  <2>1. \A b \in F : num[b] \in 0 .. N /\ N \in Nat
    BY <1>5 DEF Numbered
  <2>2. T \subseteq Nat /\ T # {}
    BY <2>1
  <2>3. PICK t \in T : \A k \in T : t <= k
    BY <2>2, LeastNumber
  <2>4. PICK b \in Bad : t = N - num[b]
    BY <2>3
  <2>5. PICK p \in Node : walk[<<p, b>>] # walk2[<<p, b>>]
    BY <2>4
  <2>6. PICK s : s = SUCC_NODE(h.mem, b)
    OBVIOUS
  <2>7. s \in F \union {NULL} /\ SUCC_NODE(g.mem, b) = s
    BY <1>3, <1>4, <2>4, <2>6
  <2>8. b # NULL /\ b \in Node /\ s \in Node /\ Size(h.mem, b) = Size(g.mem, b)
    BY <1>3, <1>4, <1>6, <2>7
  <2>9. walk[<<p, b>>] = IF Size(h.mem, b) < n THEN walk[<<b, s>>] ELSE <<p, b>>
    BY <1>1, <2>5, <2>6, <2>8 DEF Steps
  <2>10. walk2[<<p, b>>] = IF Size(h.mem, b) < n THEN walk2[<<b, s>>] ELSE <<p, b>>
    BY <1>2, <2>5, <2>7, <2>8 DEF Steps
  <2>11. walk[<<b, s>>] # walk2[<<b, s>>]
    BY <2>5, <2>9, <2>10
  <2>12. s \in Bad /\ s # NULL
    BY <1>7, <2>7, <2>8, <2>11
  <2>13. num[b] < num[s]
    BY <1>4, <1>5, <2>4, <2>6, <2>12 DEF Numbered
  <2>14. t <= N - num[s]
    <3>1. N - num[s] \in T
      BY <2>12
    <3> QED
      BY <2>3, <3>1
  <2>15. b \in F /\ s \in F
    BY <2>4, <2>12
  <2>16. num[b] \in Nat /\ num[s] \in Nat /\ N \in Nat
    BY <2>1, <2>15
  <2> QED
    BY <2>4, <2>13, <2>14, <2>16
<1>9. \A b \in F \union {NULL} : walk[<<NULL, b>>] = walk2[<<NULL, b>>]
  BY <1>6, <1>7, <1>8
<1>10. h.lists[ListOf(n)] \in F \union {NULL} /\ g.lists = h.lists
  BY <1>3, ListOfSize DEF SameLinks
<1> QED
  BY <1>1, <1>2, <1>9, <1>10

(* insert_node *)
LEMMA TwinInsert ==
  ASSUME NEW h, NEW g, Record(h), Record(g), NEW F, NEW b, b \notin F,
         Nodes(F \union {b}), HeapLists(h, F), HeapLists(g, F), SameLinks(h, g, F),
         Size(h.mem, b) = Size(g.mem, b), NEW n \in Nat
  PROVE  SameLinks(insert_node(h, b, n), insert_node(g, b, n), F \union {b})
<1>1. PICK h2, g2 : h2 = insert_node(h, b, n) /\ g2 = insert_node(g, b, n)
  OBVIOUS
<1>2. Inserted(h, h2, F, b, n) /\ Inserted(g, g2, F, b, n)
  BY <1>1, InsertForm
<1>3. Gap(h, n) = Gap(g, n)
  <2>1. F \subseteq Addr
    BY DEF Nodes
  <2> QED
    BY <2>1, TwinGap
<1>4. h2.lists = g2.lists
  BY <1>2, <1>3 DEF Inserted, SameLinks
<1>5. ASSUME NEW c \in F \union {b}
      PROVE  /\ Size(h2.mem, c) = Size(g2.mem, c)
             /\ PRED_NODE(h2.mem, c) = PRED_NODE(g2.mem, c)
             /\ SUCC_NODE(h2.mem, c) = SUCC_NODE(g2.mem, c)
  <2>1. CASE c = b
    BY <1>2, <1>3, <2>1 DEF Inserted
  <2>2. CASE c # b
    BY <1>2, <1>3, <2>2 DEF Inserted, SameLinks
  <2> QED
    BY <2>1, <2>2
<1> QED
  BY <1>1, <1>4, <1>5 DEF SameLinks

-----------------------------------------------------------------------------
(* Two sound heaps of the same blocks, of which the same are allocated,    *)
(* with the same free lists.                                               *)
Twins(h, g, brk, S) ==
  /\ Sound(h, brk, S) /\ Sound(g, brk, S)
  /\ Allocated(h.mem, S) = Allocated(g.mem, S)
  /\ SameLinks(h, g, FreeOf(h.mem, S))

(* The same, b being on no list yet.                                       *)
LooseTwins(h, g, brk, S, b) ==
  /\ Loose(h, brk, S, b) /\ Loose(g, brk, S, b)
  /\ Allocated(h.mem, S) = Allocated(g.mem, S)
  /\ SameLinks(h, g, FreeOf(h.mem, S) \ {b})

(* The nodes X of both lists. *)
BothLists(h, g, X) ==
  /\ Record(h) /\ Record(g) /\ Nodes(X)
  /\ HeapLists(h, X) /\ HeapLists(g, X) /\ SameLinks(h, g, X)

(* Both delete the same node. *)
LEMMA BothDelete ==
  ASSUME NEW h, NEW g, NEW X, BothLists(h, g, X), NEW x \in X
  PROVE  BothLists(delete_node(h, x), delete_node(g, x), X \ {x})
<1>1. /\ Record(delete_node(h, x)) /\ HeapLists(delete_node(h, x), X \ {x})
      /\ Record(delete_node(g, x)) /\ HeapLists(delete_node(g, x), X \ {x})
  BY DeleteNode DEF BothLists
<1>2. SameLinks(delete_node(h, x), delete_node(g, x), X \ {x})
  BY TwinDelete DEF BothLists
<1>3. Nodes(X \ {x})
  BY DEF BothLists, Nodes
<1> QED
  BY <1>1, <1>2, <1>3 DEF BothLists

(* coalesce takes the same blocks off their lists.                         *)
LEMMA TwinUnlisting ==
  ASSUME NEW h, NEW g, NEW brk, NEW S, NEW b, LooseTwins(h, g, brk, S, b),
         NEW q \in S, EndsAt(h.mem, q, b), NEW n, EndsAt(h.mem, b, n),
         NEW lo, lo = IF IsFree(h.mem, q) THEN q ELSE b,
         NEW hi, hi = IF n \in S /\ IsFree(h.mem, n) THEN n + Size(h.mem, n) ELSE n
  PROVE  SameLinks(Unlisting(h, S, q, n), Unlisting(g, S, q, n),
                   FreeApart(h.mem, S, lo, hi))
<1> DEFINE F  == FreeOf(h.mem, S) \ {b}
           X  == IF IsFree(h.mem, q) THEN F \ {q} ELSE F
           h1 == IF IsFree(h.mem, q) THEN delete_node(h, q) ELSE h
           g1 == IF IsFree(h.mem, q) THEN delete_node(g, q) ELSE g
           Y  == IF n \in S /\ IsFree(h.mem, n) THEN X \ {n} ELSE X
<1>1. /\ Heap(h.mem, brk, S) /\ Heap(g.mem, brk, S)
      /\ Allocated(h.mem, S) = Allocated(g.mem, S)
  BY DEF LooseTwins, Loose
<1>2. /\ \A c \in S : IsFree(g.mem, c) <=> IsFree(h.mem, c)
      /\ FreeOf(g.mem, S) = FreeOf(h.mem, S)
  BY <1>1, TwinBlocks
<1>3. BothLists(h, g, F)
  <2>1. FreeOf(h.mem, S) \subseteq S \ {heap_listp}
    BY <1>1, FreeOrAllocated
  <2>2. Nodes(F)
    BY <1>1, <2>1, FreeNodes
  <2> QED
    BY <1>2, <2>2 DEF LooseTwins, Loose, BothLists
<1>4. /\ b \in S /\ b \in Int /\ q \in Int /\ Size(h.mem, q) >= 8
      /\ Size(h.mem, q) \in Nat /\ Size(h.mem, b) \in Nat /\ Size(h.mem, b) >= 8
      /\ q + Size(h.mem, q) = b /\ b + Size(h.mem, b) = n
      /\ n \in S => Size(h.mem, n) \in Nat /\ Size(h.mem, n) >= 8
  <2>1. b \in S
    BY DEF LooseTwins, Loose
  <2> QED
    BY <1>1, <2>1, BlockFacts DEF Heap, EndsAt
<1>5. q < b /\ b < n /\ lo <= b /\ b < hi /\ n <= hi
      /\ (n \in S /\ IsFree(h.mem, n)) => n < hi
  BY <1>4
<1>6. BothLists(h1, g1, X)
  <2>1. CASE IsFree(h.mem, q)
    <3>1. q \in F
      BY <1>4, <2>1 DEF FreeOf
    <3> HIDE DEF F
    <3> QED
      BY <1>3, <2>1, <3>1, BothDelete
  <2>2. CASE ~IsFree(h.mem, q)
    BY <1>3, <2>2
  <2> QED
    BY <2>1, <2>2
<1>7. (n \in S /\ IsFree(h.mem, n)) => n \in X
  BY <1>4 DEF FreeOf
<1>8. FreeApart(h.mem, S, lo, hi) \subseteq Y
  BY <1>4, <1>5 DEF FreeApart, FreeOf
<1>9. /\ Unlisting(h, S, q, n)
           = IF n \in S /\ IsFree(h.mem, n) THEN delete_node(h1, n) ELSE h1
      /\ Unlisting(g, S, q, n)
           = IF n \in S /\ IsFree(h.mem, n) THEN delete_node(g1, n) ELSE g1
  BY <1>2 DEF Unlisting
<1> HIDE DEF h1, g1, X
<1>10. BothLists(Unlisting(h, S, q, n), Unlisting(g, S, q, n), Y)
  <2>1. CASE n \in S /\ IsFree(h.mem, n)
    <3>1. BothLists(delete_node(h1, n), delete_node(g1, n), X \ {n})
      BY <1>6, <1>7, <2>1, BothDelete
    <3> QED
      BY <1>9, <2>1, <3>1
  <2>2. CASE ~(n \in S /\ IsFree(h.mem, n))
    BY <1>6, <1>9, <2>2
  <2> QED
    BY <2>1, <2>2
<1> HIDE DEF Y
<1> QED
  BY <1>8, <1>10, TwinPart DEF BothLists

(* From sound heaps to twins: the free blocks are G and the ones in F at   *)
(* most, on which the lists agree.                                         *)
LEMMA TwinsAgain ==
  ASSUME NEW h, NEW g, NEW brk, NEW S, Sound(h, brk, S), Sound(g, brk, S),
         NEW A, Allocated(h.mem, S) = A, Allocated(g.mem, S) = A,
         NEW F, SameLinks(h, g, F), S \ A \subseteq F
  PROVE  Twins(h, g, brk, S)
<1>1. FreeOf(h.mem, S) \subseteq F
  BY DEF FreeOf, Allocated
<1> QED
  BY <1>1, TwinPart DEF Twins

(* coalesce: the same block is made, and enters the same list at the same  *)
(* place.                                                                  *)
SameOutcome(r, t, brk, S) ==
  /\ r.bp = t.bp
  /\ Absorbed(S, r.heap.mem, r.bp) = Absorbed(S, t.heap.mem, t.bp)
  /\ Twins(r.heap, t.heap, brk, Absorbed(S, r.heap.mem, r.bp))

LEMMA TwinCoalesce ==
  ASSUME NEW h, NEW g, NEW brk, NEW S, NEW b, LooseTwins(h, g, brk, S, b),
         NEW r, r = coalesce(h, b), NEW t, t = coalesce(g, b)
  PROVE  SameOutcome(r, t, brk, S)
<1>1. /\ Loose(h, brk, S, b) /\ Loose(g, brk, S, b)
      /\ Heap(h.mem, brk, S) /\ Heap(g.mem, brk, S)
      /\ Allocated(h.mem, S) = Allocated(g.mem, S) /\ b \in S \ {heap_listp}
  BY DEF LooseTwins, Loose
<1>2. PICK q, n, lo, hi, h1, h2 : Coalescing(h, brk, S, b, q, n, lo, hi, h1, h2, r)
  BY <1>1, CoalesceForm
<1>3. PICK q2, n2, lo2, hi2, g1, g2 :
        Coalescing(g, brk, S, b, q2, n2, lo2, hi2, g1, g2, t)
  BY <1>1, CoalesceForm
<1>4. /\ \A c \in S : /\ Size(h.mem, c) = Size(g.mem, c)
                      /\ IsFree(h.mem, c) <=> IsFree(g.mem, c)
      /\ FreeOf(h.mem, S) = FreeOf(g.mem, S)
      /\ NEXT_BLKP(h.mem, b) = NEXT_BLKP(g.mem, b)
      /\ PREV_BLKP(h.mem, b) = PREV_BLKP(g.mem, b)
  BY <1>1, TwinBlocks
<1>5. q2 = q /\ n2 = n /\ q \in S
  BY <1>2, <1>3, <1>4 DEF Coalescing
<1>6. /\ lo2 = lo /\ hi2 = hi
      /\ lo = IF IsFree(h.mem, q) THEN q ELSE b
      /\ hi = IF n \in S /\ IsFree(h.mem, n) THEN n + Size(h.mem, n) ELSE n
  BY <1>2, <1>3, <1>4, <1>5 DEF Coalescing, Merging
<1>7. EndsAt(h.mem, q, b) /\ EndsAt(h.mem, b, n)
  <2>1. NEXT_BLKP(h.mem, b) = b + Size(h.mem, b)
        /\ \E q3 \in S : PREV_BLKP(h.mem, b) = q3 /\ q3 + Size(h.mem, q3) = b
    BY <1>1, Neighbours DEF Heap
  <2> QED
    BY <1>2, <2>1 DEF Coalescing, EndsAt
<1> DEFINE F == FreeApart(h.mem, S, lo, hi)
           T == Merged(S, lo, hi)
<1>8. SameLinks(h1, g1, F)
  <2>1. SameLinks(Unlisting(h, S, q, n), Unlisting(g, S, q, n), F)
    BY <1>5, <1>6, <1>7, TwinUnlisting
  <2>2. h1 = Unlisting(h, S, q, n) /\ g1 = Unlisting(g, S, q, n)
    BY <1>2, <1>3, <1>5 DEF Coalescing, Merging
  <2> QED
    BY <2>1, <2>2
<1>9. FreeApart(g.mem, S, lo, hi) = F
  BY <1>4 DEF FreeApart
<1>10. /\ FreeRun(h.mem, brk, S, b, lo, hi) /\ Emptied(h, h1, brk, S, lo, hi)
       /\ Record(h2) /\ h2.lists = h1.lists
       /\ Freed(h1.mem, h2.mem, brk, S, T, lo, hi)
       /\ r.heap = insert_node(h2, lo, Size(h2.mem, lo)) /\ r.bp = lo
  BY <1>2 DEF Coalescing
<1>11. /\ FreeRun(g.mem, brk, S, b, lo, hi) /\ Emptied(g, g1, brk, S, lo, hi)
       /\ Record(g2) /\ g2.lists = g1.lists
       /\ Freed(g1.mem, g2.mem, brk, S, T, lo, hi)
       /\ t.heap = insert_node(g2, lo, Size(g2.mem, lo)) /\ t.bp = lo
  BY <1>3, <1>6 DEF Coalescing
<1> HIDE DEF F, T
<1>12. /\ HeapLists(h2, F) /\ SameNodes(h1.mem, h2.mem, F)
       /\ F \subseteq T \ {heap_listp} /\ lo \notin F
       /\ \A c \in T : c # lo => (c \in F <=> IsFree(h.mem, c))
  BY <1>1, <1>10, MergedLists DEF F
<1>13. HeapLists(g2, F) /\ SameNodes(g1.mem, g2.mem, F)
  <2>1. F = FreeApart(g.mem, S, lo, hi)
    BY <1>9
  <2> QED
    BY <1>1, <1>11, <2>1, MergedLists
<1>14. SameLinks(h2, g2, F)
  BY <1>8, <1>10, <1>11, <1>12, <1>13, TwinKeep
<1>15. /\ Heap(h2.mem, brk, T) /\ lo \in T /\ lo # heap_listp
       /\ Size(h2.mem, lo) = hi - lo /\ Size(g2.mem, lo) = hi - lo
       /\ T \subseteq S
  BY <1>10, <1>11 DEF Freed, Merged
<1>16. Size(h2.mem, lo) \in Nat
  BY <1>15, BlockFacts DEF Heap
<1>17. SameLinks(r.heap, t.heap, F \union {lo})
  <2>1. Nodes(F \union {lo})
    BY <1>12, <1>15, FreeNodes
  <2> QED
    BY <1>10, <1>11, <1>12, <1>13, <1>14, <1>15, <1>16, <2>1, TwinInsert
<1>18. CoalesceDone(h, r.heap, brk, S, T, lo, b)
  BY <1>1, <1>10, MergeInsert
<1>19. CoalesceDone(g, t.heap, brk, S, T, lo, b)
  BY <1>1, <1>11, MergeInsert
<1>20. /\ Sound(r.heap, brk, T) /\ Sound(t.heap, brk, T)
       /\ T = Absorbed(S, r.heap.mem, lo) /\ T = Absorbed(S, t.heap.mem, lo)
       /\ Allocated(r.heap.mem, T) = Allocated(h.mem, S)
       /\ Allocated(t.heap.mem, T) = Allocated(h.mem, S)
  BY <1>1, <1>18, <1>19 DEF CoalesceDone, SameAllocated
<1>21. T \ Allocated(h.mem, S) \subseteq F \union {lo}
  BY <1>12, <1>15 DEF Allocated
<1>22. Twins(r.heap, t.heap, brk, T)
  BY <1>17, <1>20, <1>21, TwinsAgain
<1> QED
  BY <1>10, <1>11, <1>20, <1>22 DEF SameOutcome

-----------------------------------------------------------------------------
(* mm_free and extend_heap write the tags of a block that coalesce is then *)
(* called for.                                                             *)
LEMMA TwinLoosened ==
  ASSUME NEW h, NEW g, NEW brk0, NEW S, Twins(h, g, brk0, S),
         NEW brk, NEW T, NEW b,
         NEW h1, Loosened(h, h1, brk, S, T, b),
         NEW g1, Loosened(g, g1, brk, S, T, b)
  PROVE  LooseTwins(h1, g1, brk, T, b)
<1>1. FreeOf(h.mem, S) = FreeOf(g.mem, S)
  BY TwinBlocks DEF Twins, Sound
<1>2. SameLinks(h1, g1, FreeOf(h.mem, S))
  <2> PICK F : F = FreeOf(h.mem, S)
    OBVIOUS
  <2>1. /\ h1.lists = h.lists /\ SameNodes(h.mem, h1.mem, F)
        /\ g1.lists = g.lists /\ SameNodes(g.mem, g1.mem, F)
    BY <1>1 DEF Loosened
  <2>2. SameLinks(h, g, F)
    BY DEF Twins
  <2> QED
    BY <2>1, <2>2, TwinKeep
<1>3. SameLinks(h1, g1, FreeOf(h1.mem, T) \ {b})
  BY <1>2 DEF Loosened
<1>4. Allocated(h1.mem, T) = Allocated(g1.mem, T)
  BY DEF Loosened, Twins
<1> QED
  BY <1>3, <1>4 DEF LooseTwins, Loosened

(* mm_free *)
LEMMA TwinFree ==
  ASSUME NEW h, NEW g, NEW brk, NEW S, Twins(h, g, brk, S),
         NEW p \in S, p # heap_listp, ~IsFree(h.mem, p),
         NEW r, r = mm_free(h, p), NEW t, t = mm_free(g, p)
  PROVE  SameOutcome(r, t, brk, S)
<1>1. Sound(h, brk, S) /\ Sound(g, brk, S) /\ ~IsFree(g.mem, p)
  BY TwinBlocks DEF Twins, Sound
<1>2. PICK h1 : Loosened(h, h1, brk, S, S, p) /\ mm_free(h, p) = coalesce(h1, p)
  BY <1>1, FreeForm
<1>3. PICK g1 : Loosened(g, g1, brk, S, S, p) /\ mm_free(g, p) = coalesce(g1, p)
  BY <1>1, FreeForm
<1>4. LooseTwins(h1, g1, brk, S, p)
  BY <1>2, <1>3, TwinLoosened
<1> QED
  BY <1>2, <1>3, <1>4, TwinCoalesce

(* extend_heap writes the tags of the new block, and calls coalesce. *)
LEMMA GrowLoose ==
  ASSUME NEW h, NEW brk, NEW S, Sound(h, brk, S),
         NEW size, NEW brk2, MovesBreak(brk, size, brk2)
  PROVE  \E h1 : /\ Loosened(h, h1, brk2, S, S \union {brk}, brk)
                 /\ extend_heap(h, brk, size) = coalesce(h1, brk)
<1>1. PICK h1 : /\ Loosened(h, h1, brk2, S, S \union {brk}, brk)
                /\ extend_heap(h, brk, size) = coalesce(h1, brk)
                /\ brk + Size(h1.mem, brk) = brk2 /\ brk \in Int /\ brk2 \in Int
  BY GrowForm
<1> QED
  BY <1>1

(* extend_heap *)
LEMMA TwinGrow ==
  ASSUME NEW h, NEW g, NEW brk, NEW S, Twins(h, g, brk, S),
         NEW size, NEW brk2, MovesBreak(brk, size, brk2)
  PROVE  SameOutcome(extend_heap(h, brk, size), extend_heap(g, brk, size),
                     brk2, S \union {brk})
<1>1. Sound(h, brk, S) /\ Sound(g, brk, S)
  BY DEF Twins
<1>2. PICK h1 : /\ Loosened(h, h1, brk2, S, S \union {brk}, brk)
                /\ extend_heap(h, brk, size) = coalesce(h1, brk)
  BY <1>1, GrowLoose
<1>3. PICK g1 : /\ Loosened(g, g1, brk2, S, S \union {brk}, brk)
                /\ extend_heap(g, brk, size) = coalesce(g1, brk)
  BY <1>1, GrowLoose
<1>4. LooseTwins(h1, g1, brk2, S \union {brk}, brk)
  BY <1>2, <1>3, TwinLoosened
<1> QED
  BY <1>2, <1>3, <1>4, TwinCoalesce

(* place *)
SamePlaces(r, t, brk, S) ==
  /\ r.bp = t.bp /\ r.cut = t.cut /\ Twins(r.heap, t.heap, brk, S \union {r.cut})

(* The other nodes agree when b has left its list and has been retagged.   *)
LEMMA TwinHandOut ==
  ASSUME NEW h, NEW g, NEW brk, NEW S, Twins(h, g, brk, S),
         NEW b \in S, b # heap_listp, IsFree(h.mem, b),
         NEW S2, NEW x, x \notin S \ {b}, NEW size,
         NEW h2, HandedOut(h, h2, brk, S, S2, b, x, size),
         NEW g2, HandedOut(g, g2, brk, S, S2, b, x, size),
         NEW F, F = FreeOf(h.mem, S) \ {b}
  PROVE  /\ SameLinks(h2, g2, F) /\ HeapLists(h2, F) /\ HeapLists(g2, F)
         /\ F \subseteq S2 \ {heap_listp} /\ Heap(h2.mem, brk, S2)
<1>1. Sound(h, brk, S) /\ Sound(g, brk, S)
  BY DEF Twins
<1>2. IsFree(g.mem, b) /\ FreeOf(g.mem, S) = FreeOf(h.mem, S)
  BY TwinBlocks DEF Twins, Sound
<1>3. OthersKept(h, h2, brk, S, S2, b, x) /\ OthersKept(g, g2, brk, S, S2, b, x)
  BY <1>1, <1>2, HandOut
<1>4. SameLinks(delete_node(h, b), delete_node(g, b), F)
  <2>1. FreeOf(h.mem, S) \subseteq S \ {heap_listp} /\ b \in FreeOf(h.mem, S)
    BY <1>1, FreeOrAllocated DEF Sound, FreeOf
  <2>2. Nodes(FreeOf(h.mem, S))
    BY <1>1, <2>1, FreeNodes DEF Sound
  <2> QED
    BY <1>1, <1>2, <2>1, <2>2, TwinDelete DEF Twins, Sound
<1>5. /\ h2.lists = delete_node(h, b).lists /\ g2.lists = delete_node(g, b).lists
  BY DEF HandedOut
<1>6. /\ SameNodes(delete_node(h, b).mem, h2.mem, F)
      /\ SameNodes(delete_node(g, b).mem, g2.mem, F)
      /\ HeapLists(h2, F) /\ HeapLists(g2, F)
      /\ F \subseteq S2 \ {heap_listp} /\ Heap(h2.mem, brk, S2)
  BY <1>2, <1>3 DEF OthersKept
<1> QED
  BY <1>4, <1>5, <1>6, TwinKeep

(* place without a split *)
LEMMA TwinPlaceWhole ==
  ASSUME NEW h, NEW g, NEW brk, NEW S, Twins(h, g, brk, S),
         NEW b \in S, b # heap_listp, IsFree(h.mem, b), NEW size,
         NEW h2, NEW r, PlacesWhole(h, brk, S, b, size, h2, r),
         NEW g2, NEW t, PlacesWhole(g, brk, S, b, size, g2, t)
  PROVE  SamePlaces(r, t, brk, S)
<1>1. Sound(h, brk, S) /\ Sound(g, brk, S) /\ IsFree(g.mem, b)
  BY TwinBlocks DEF Twins, Sound
<1>2. /\ HandedOut(h, h2, brk, S, S, b, b, size) /\ r.heap = h2
      /\ HandedOut(g, g2, brk, S, S, b, b, size) /\ t.heap = g2
      /\ r.bp = b /\ r.cut = b /\ t.bp = b /\ t.cut = b
  BY DEF PlacesWhole
<1>3. PICK F : F = FreeOf(h.mem, S) \ {b}
  OBVIOUS
<1>4. SameLinks(h2, g2, F)
  BY <1>2, <1>3, TwinHandOut
<1>5. PlaceDone(h, h2, brk, S, S, b, size) /\ PlaceDone(g, g2, brk, S, S, b, size)
  BY <1>1, <1>2, HandOutWhole
<1>6. PICK A : A = Allocated(h.mem, S) \union {b}
  OBVIOUS
<1>7. /\ Sound(h2, brk, S) /\ Sound(g2, brk, S)
      /\ Allocated(h2.mem, S) = A /\ Allocated(g2.mem, S) = A
  BY <1>5, <1>6 DEF PlaceDone, Twins
<1>8. S \ A \subseteq F
  BY <1>3, <1>6 DEF FreeOf, Allocated
<1>9. Twins(h2, g2, brk, S)
  BY <1>4, <1>7, <1>8, TwinsAgain
<1>10. S \union {r.cut} = S
  BY <1>2
<1> QED
  BY <1>2, <1>9, <1>10 DEF SamePlaces

(* place with a split, whichever part is given away *)
LEMMA TwinPlacePart ==
  ASSUME NEW h, NEW g, NEW brk, NEW S, Twins(h, g, brk, S),
         NEW b \in S, b # heap_listp, IsFree(h.mem, b), NEW size,
         NEW x, NEW y, NEW cut,
         NEW h2, NEW r, PlacesPart(h, brk, S, b, size, x, y, cut, h2, r),
         NEW g2, NEW t, PlacesPart(g, brk, S, b, size, x, y, cut, g2, t)
  PROVE  SamePlaces(r, t, brk, S)
<1>1. /\ Sound(h, brk, S) /\ Sound(g, brk, S) /\ IsFree(g.mem, b)
      /\ Size(h.mem, b) = Size(g.mem, b)
  BY TwinBlocks DEF Twins, Sound
<1>2. PICK T, rest : T = S \union {cut} /\ rest = Size(h.mem, b) - size
  OBVIOUS
<1>3. /\ HandedOut(h, h2, brk, S, T, b, x, size) /\ Parts(S, b, T, x, y)
      /\ x \notin S \ {b} /\ y \notin S \ {b} /\ y # x
      /\ IsFree(h2.mem, y) /\ Size(h2.mem, y) = rest
      /\ r.heap = insert_node(h2, y, rest) /\ r.bp = x /\ r.cut = cut
  BY <1>2 DEF PlacesPart
<1>4. /\ HandedOut(g, g2, brk, S, T, b, x, size) /\ Size(g2.mem, y) = rest
      /\ t.heap = insert_node(g2, y, rest) /\ t.bp = x /\ t.cut = cut
  BY <1>1, <1>2 DEF PlacesPart
<1>5. PICK F : F = FreeOf(h.mem, S) \ {b}
  OBVIOUS
<1>6. /\ SameLinks(h2, g2, F) /\ HeapLists(h2, F) /\ HeapLists(g2, F)
      /\ F \subseteq T \ {heap_listp} /\ Heap(h2.mem, brk, T)
  BY <1>3, <1>4, <1>5, TwinHandOut
<1>7. /\ y \notin F /\ y \in T /\ y # heap_listp
      /\ Record(h2) /\ Record(g2) /\ rest \in Nat
  <2>1. y \notin F /\ y \in T
    BY <1>3, <1>5 DEF FreeOf, Parts
  <2>2. y # heap_listp
    BY <1>3, <1>6, FreeOrAllocated DEF Allocated
  <2>3. Record(h2) /\ Record(g2)
    BY <1>3, <1>4 DEF HandedOut
  <2>4. rest \in Nat
    BY <1>3, <1>6, <2>1, BlockFacts DEF Heap
  <2> QED
    BY <2>1, <2>2, <2>3, <2>4
<1>8. SameLinks(r.heap, t.heap, F \union {y})
  <2>1. Nodes(F \union {y})
    BY <1>6, <1>7, FreeNodes
  <2>2. Size(h2.mem, y) = Size(g2.mem, y)
    BY <1>3, <1>4
  <2>3. SameLinks(insert_node(h2, y, rest), insert_node(g2, y, rest), F \union {y})
    BY <1>6, <1>7, <2>1, <2>2, TwinInsert
  <2> QED
    BY <1>3, <1>4, <2>3
<1>9. PlaceDone(h, r.heap, brk, S, T, x, size) /\ PlaceDone(g, t.heap, brk, S, T, x, size)
  <2>1. /\ PlaceDone(h, r.heap, brk, S, S \union {r.cut}, r.bp, size)
        /\ PlaceDone(g, t.heap, brk, S, S \union {t.cut}, t.bp, size)
    BY <1>1, PlacePartSound
  <2> QED
    BY <1>2, <1>3, <1>4, <2>1
<1>10. PICK A : A = Allocated(h.mem, S) \union {x}
  OBVIOUS
<1>11. /\ Sound(r.heap, brk, T) /\ Sound(t.heap, brk, T)
       /\ Allocated(r.heap.mem, T) = A /\ Allocated(t.heap.mem, T) = A
  BY <1>9, <1>10 DEF PlaceDone, Twins
<1>12. T \ A \subseteq F \union {y}
  BY <1>3, <1>5, <1>10 DEF FreeOf, Allocated, Parts
<1>13. Twins(r.heap, t.heap, brk, T)
  BY <1>8, <1>11, <1>12, TwinsAgain
<1> QED
  BY <1>2, <1>3, <1>4, <1>13 DEF SamePlaces

(* place *)
LEMMA TwinPlace ==
  ASSUME NEW h, NEW g, NEW brk, NEW S, Twins(h, g, brk, S),
         NEW b \in S, b # heap_listp, IsFree(h.mem, b),
         NEW size, Rounded(size), Size(h.mem, b) >= size,
         NEW r, r = place(h, b, size), NEW t, t = place(g, b, size)
  PROVE  SamePlaces(r, t, brk, S)
<1>1. /\ Sound(h, brk, S) /\ Sound(g, brk, S) /\ IsFree(g.mem, b)
      /\ Size(h.mem, b) = Size(g.mem, b)
  BY TwinBlocks DEF Twins, Sound
<1>2. PICK h2 : Places(h, brk, S, b, size, h2, r)
  BY <1>1, PlaceForm
<1>3. PICK g2 : Places(g, brk, S, b, size, g2, t)
  BY <1>1, PlaceForm
<1>4. PICK rest : rest = Size(h.mem, b) - size /\ rest = Size(g.mem, b) - size
  BY <1>1
<1>5. CASE ~(rest >= 16)
  <2>1. PlacesWhole(h, brk, S, b, size, h2, r) /\ PlacesWhole(g, brk, S, b, size, g2, t)
    BY <1>2, <1>3, <1>4, <1>5 DEF Places
  <2> QED
    BY <2>1, TwinPlaceWhole
<1>6. CASE rest >= 16 /\ size >= BACK_SIZE
  <2>1. /\ PlacesPart(h, brk, S, b, size, b + rest, b, b + rest, h2, r)
        /\ PlacesPart(g, brk, S, b, size, b + rest, b, b + rest, g2, t)
    BY <1>2, <1>3, <1>4, <1>6 DEF Places
  <2> QED
    BY <2>1, TwinPlacePart
<1>7. CASE rest >= 16 /\ ~(size >= BACK_SIZE)
  <2>1. /\ PlacesPart(h, brk, S, b, size, b, b + size, b + size, h2, r)
        /\ PlacesPart(g, brk, S, b, size, b, b + size, b + size, g2, t)
    BY <1>2, <1>3, <1>4, <1>7 DEF Places
  <2> QED
    BY <2>1, TwinPlacePart
<1> QED
  BY <1>5, <1>6, <1>7

(* mm_realloc takes over the same block behind p's.                        *)
LEMMA TwinTakeOver ==
  ASSUME NEW h, NEW g, NEW brk, NEW S, Twins(h, g, brk, S),
         NEW p \in S, p # heap_listp, ~IsFree(h.mem, p),
         NEW q \in S, EndsAt(h.mem, p, q), IsFree(h.mem, q),
         NEW n, n = Size(h.mem, p) + Size(h.mem, q),
         NEW h2, h2 = TakeOver(h, p, n), NEW g2, g2 = TakeOver(g, p, n)
  PROVE  /\ Absorbed(S, h2.mem, p) = Absorbed(S, g2.mem, p)
         /\ Twins(h2, g2, brk, Absorbed(S, h2.mem, p))
<1>1. Sound(h, brk, S) /\ Sound(g, brk, S)
  BY DEF Twins
<1>2. /\ ~IsFree(g.mem, p) /\ IsFree(g.mem, q) /\ Size(g.mem, p) = Size(h.mem, p)
      /\ Size(g.mem, q) = Size(h.mem, q) /\ FreeOf(g.mem, S) = FreeOf(h.mem, S)
  BY TwinBlocks DEF Twins, Sound
<1>3. EndsAt(g.mem, p, q) /\ n = Size(g.mem, p) + Size(g.mem, q)
  BY <1>2 DEF EndsAt
<1>4. PICK S2, S3 : S2 = Absorbed(S, h2.mem, p) /\ S3 = Absorbed(S, g2.mem, p)
  OBVIOUS
<1>5. TakenOver(h, h2, brk, S, S2, p, n) /\ TookIn(h, h2, S, S2, q)
  BY <1>1, <1>4, TakeOverSound
<1>6. TakenOver(g, g2, brk, S, S3, p, n) /\ TookIn(g, g2, S, S3, q)
  BY <1>1, <1>2, <1>3, <1>4, TakeOverSound
<1>7. PICK F : F = FreeOf(h.mem, S) \ {q}
  OBVIOUS
<1>8. /\ S2 = S \ {q} /\ S3 = S2
      /\ h2.lists = delete_node(h, q).lists /\ g2.lists = delete_node(g, q).lists
      /\ SameNodes(delete_node(h, q).mem, h2.mem, F)
      /\ SameNodes(delete_node(g, q).mem, g2.mem, F)
  BY <1>2, <1>5, <1>6, <1>7 DEF TookIn
<1>9. SameLinks(delete_node(h, q), delete_node(g, q), F)
  <2>1. FreeOf(h.mem, S) \subseteq S \ {heap_listp} /\ q \in FreeOf(h.mem, S)
    BY <1>1, FreeOrAllocated DEF Sound, FreeOf
  <2>2. Nodes(FreeOf(h.mem, S))
    BY <1>1, <2>1, FreeNodes DEF Sound
  <2> QED
    BY <1>1, <1>2, <1>7, <2>1, <2>2, TwinDelete DEF Twins, Sound
<1>10. SameLinks(h2, g2, F)
  BY <1>8, <1>9, TwinKeep
<1>11. PICK A : A = Allocated(h.mem, S)
  OBVIOUS
<1>12. /\ Sound(h2, brk, S2) /\ Sound(g2, brk, S2)
       /\ Allocated(h2.mem, S2) = A /\ Allocated(g2.mem, S2) = A
  BY <1>5, <1>6, <1>8, <1>11 DEF TakenOver, SameAllocated, Twins
<1>13. S2 \ A \subseteq F
  BY <1>7, <1>8, <1>11 DEF FreeOf, Allocated
<1>14. Twins(h2, g2, brk, S2)
  BY <1>10, <1>12, <1>13, TwinsAgain
<1> QED
  BY <1>4, <1>8, <1>14

(* A payload is written in each.                                           *)
LEMMA TwinWrite ==
  ASSUME NEW h, NEW g, NEW brk, NEW S, Twins(h, g, brk, S),
         NEW b \in S, ~IsFree(h.mem, b),
         NEW h2, Record(h2), h2.lists = h.lists, PayloadWrite(h.mem, h2.mem, b),
         NEW g2, Record(g2), g2.lists = g.lists, PayloadWrite(g.mem, g2.mem, b)
  PROVE  Twins(h2, g2, brk, S)
<1>1. Sound(h, brk, S) /\ Sound(g, brk, S)
  BY DEF Twins
<1>2. ~IsFree(g.mem, b) /\ FreeOf(g.mem, S) = FreeOf(h.mem, S)
  BY TwinBlocks DEF Twins, Sound
<1>3. PICK F, A : F = FreeOf(h.mem, S) /\ A = Allocated(h.mem, S)
  OBVIOUS
<1>4. Sound(h2, brk, S) /\ SameAllocated(h.mem, S, h2.mem, S) /\ SameNodes(h.mem, h2.mem, F)
  BY <1>1, <1>3, WriteSound
<1>5. Sound(g2, brk, S) /\ SameAllocated(g.mem, S, g2.mem, S) /\ SameNodes(g.mem, g2.mem, F)
  BY <1>1, <1>2, <1>3, WriteSound
<1>6. SameLinks(h2, g2, F)
  BY <1>3, <1>4, <1>5, TwinKeep DEF Twins
<1>7. Allocated(h2.mem, S) = A /\ Allocated(g2.mem, S) = A
  BY <1>3, <1>4, <1>5 DEF SameAllocated, Twins
<1>8. S \ A \subseteq F
  BY <1>3 DEF FreeOf, Allocated
<1> QED
  BY <1>4, <1>5, <1>6, <1>7, <1>8, TwinsAgain

(* mm_init starts over in each.                                            *)
LEMMA TwinEmpty ==
  ASSUME NEW h, Record(h), NEW h2, h2 = Empty(h),
         NEW g, Record(g), NEW g2, g2 = Empty(g)
  PROVE  Twins(h2, g2, heap_listp + 8, {heap_listp})
<1>1. PICK S : S = {heap_listp}
  OBVIOUS
<1>2. /\ Sound(h2, heap_listp + 8, S) /\ Sound(g2, heap_listp + 8, S)
      /\ Allocated(h2.mem, S) = S /\ Allocated(g2.mem, S) = S
  BY <1>1, EmptySound
<1>3. SameLinks(h2, g2, {})
  BY DEF Empty, SameLinks
<1> QED
  BY <1>1, <1>2, <1>3, TwinsAgain

-----------------------------------------------------------------------------
(* The invariant: the two programs are at the same place of the same call, *)
(* and their heaps are twins.                                              *)
ColdHeap == [mem |-> cold_mem, lists |-> cold_free_lists]

SameFrame ==
  /\ cold_mem_brk = mem_brk /\ cold_ptr = ptr /\ cold_psize = psize
  /\ cold_pc = pc /\ cold_call = call /\ cold_bp = bp
  /\ cold_new_size = new_size /\ cold_pos = pos /\ cold_blks = blks

TwinHeaps == Twins(CurrentHeap, ColdHeap, mem_brk, blks)

JointInv == IInv /\ SameFrame /\ (Up => TwinHeaps)

SameStep == SameFrame' /\ (Up' => TwinHeaps')

(* The names of the cold heap. *)
LEMMA ColdHeapIs ==
  /\ Cold!CurrentHeap = ColdHeap /\ ColdHeap.mem = cold_mem
  /\ ColdHeap.lists = cold_free_lists
BY DEF Cold!CurrentHeap, ColdHeap

(* What the invariant says of the two heaps. *)
LEMMA TwinSituation ==
  ASSUME JointInv, Up
  PROVE  /\ Twins(CurrentHeap, ColdHeap, mem_brk, blks)
         /\ Heap(mem, mem_brk, blks) /\ Heap(cold_mem, mem_brk, blks)
         /\ CurrentHeap.mem = mem /\ CurrentHeap.lists = free_lists
         /\ free_lists = cold_free_lists
         /\ \A c \in blks : /\ Size(cold_mem, c) = Size(mem, c)
                            /\ IsFree(cold_mem, c) <=> IsFree(mem, c)
         /\ \A c \in FreeBlocks : SUCC_NODE(cold_mem, c) = SUCC_NODE(mem, c)
         /\ \A b \in blks \ {heap_listp} : NEXT_BLKP(cold_mem, b) = NEXT_BLKP(mem, b)
<1>1. PICK h : h = CurrentHeap
  OBVIOUS
<1>2. PICK g : g = ColdHeap
  OBVIOUS
<1>3. Twins(h, g, mem_brk, blks)
  BY <1>1, <1>2 DEF JointInv, TwinHeaps
<1>4. h.mem = mem /\ h.lists = free_lists /\ g.mem = cold_mem /\ g.lists = cold_free_lists
  BY <1>1, <1>2, ColdHeapIs, Situation DEF JointInv
<1>5. Heap(mem, mem_brk, blks) /\ Heap(cold_mem, mem_brk, blks)
      /\ Allocated(mem, blks) = Allocated(cold_mem, blks)
  BY <1>3, <1>4 DEF Twins, Sound
<1>6. /\ \A c \in blks : /\ Size(mem, c) = Size(cold_mem, c)
                         /\ IsFree(mem, c) <=> IsFree(cold_mem, c)
      /\ \A b \in blks \ {heap_listp} : NEXT_BLKP(mem, b) = NEXT_BLKP(cold_mem, b)
  BY <1>5, TwinBlocks
<1>7. FreeBlocks = FreeOf(mem, blks)
  BY FreeFacts DEF JointInv
<1>8. /\ free_lists = cold_free_lists
      /\ \A c \in FreeBlocks : SUCC_NODE(cold_mem, c) = SUCC_NODE(mem, c)
  BY <1>3, <1>4, <1>7 DEF Twins, SameLinks
<1> QED
  BY <1>1, <1>2, <1>3, <1>4, <1>5, <1>6, <1>8

(* A step into heaps that are twins.                                       *)
LEMMA NextTwins ==
  ASSUME NEW h2, NEW g2, NEW brk, NEW S, Twins(h2, g2, brk, S),
         Becomes(h2, brk, S), Cold!SetHeap(g2)
  PROVE  TwinHeaps'
<1>1. Record(h2) /\ Record(g2)
  BY DEF Twins, Sound
<1>2. CurrentHeap' = h2
  BY <1>1 DEF Becomes, SetHeap, CurrentHeap, Record
<1>3. ColdHeap' = g2
  BY <1>1 DEF Cold!SetHeap, ColdHeap, Record
<1>4. mem_brk' = brk /\ blks' = S
  BY DEF Becomes
<1> QED
  BY <1>2, <1>3, <1>4 DEF TwinHeaps

(* A step that leaves both heaps as they are.                              *)
LEMMA QuietTwins ==
  ASSUME JointInv, Up, UNCHANGED <<mem, mem_brk, free_lists, blks>>,
         UNCHANGED <<cold_mem, cold_free_lists>>
  PROVE  TwinHeaps'
<1>1. TwinHeaps
  BY DEF JointInv
<1>2. /\ CurrentHeap' = CurrentHeap /\ ColdHeap' = ColdHeap
      /\ mem_brk' = mem_brk /\ blks' = blks
  BY DEF CurrentHeap, ColdHeap
<1> QED
  BY <1>1, <1>2 DEF TwinHeaps

-----------------------------------------------------------------------------
(* Both allocators take the same turn: what decides on it is the same.     *)
LEMMA Turns ==
  /\ (SkipList \/ EnterList \/ NoFit) => pc = "scan"
  /\ SkipList => pos < LIST_MAX /\ ~(Searchable(pos) /\ free_lists[pos] # NULL)
  /\ EnterList => pos < LIST_MAX /\ Searchable(pos) /\ free_lists[pos] # NULL
  /\ NoFit => pos = LIST_MAX
  /\ (TooSmall \/ EndOfList \/ TakeFit) => pc = "list"
  /\ TooSmall => bp # NULL /\ Size(mem, bp) < new_size
  /\ EndOfList => bp = NULL
  /\ TakeFit => bp # NULL /\ Size(mem, bp) >= new_size
  /\ (Grow \/ GrowFails) => pc = "grow"
  /\ Grow => ~GrowthFails(new_size)
  /\ GrowFails => GrowthFails(new_size)
  /\ Move => pc = "move"
  /\ Return => pc = "ret"
<1>1. /\ (SkipList \/ EnterList \/ NoFit) => pc = "scan"
      /\ SkipList => pos < LIST_MAX /\ ~(Searchable(pos) /\ free_lists[pos] # NULL)
      /\ EnterList => pos < LIST_MAX /\ Searchable(pos) /\ free_lists[pos] # NULL
      /\ NoFit => pos = LIST_MAX
  BY DEF SkipList, EnterList, NoFit
<1>2. /\ (TooSmall \/ EndOfList \/ TakeFit) => pc = "list"
      /\ TooSmall => bp # NULL /\ Size(mem, bp) < new_size
      /\ EndOfList => bp = NULL
      /\ TakeFit => bp # NULL /\ Size(mem, bp) >= new_size
  BY DEF TooSmall, EndOfList, TakeFit
<1>3. /\ (Grow \/ GrowFails) => pc = "grow"
      /\ Grow => ~GrowthFails(new_size)
      /\ GrowFails => GrowthFails(new_size)
      /\ Move => pc = "move"
      /\ Return => pc = "ret"
  BY DEF Grow, GrowFails, Move, Return, TakeResult
<1> QED
  BY <1>1, <1>2, <1>3

(* The same turns of the other allocator. *)
LEMMA ColdTurns ==
  ASSUME SameFrame
  PROVE
  /\ (Cold!SkipList \/ Cold!EnterList \/ Cold!NoFit) => pc = "scan"
  /\ Cold!SkipList => pos < LIST_MAX /\ ~(Searchable(pos) /\ cold_free_lists[pos] # NULL)
  /\ Cold!EnterList => pos < LIST_MAX /\ Searchable(pos) /\ cold_free_lists[pos] # NULL
  /\ Cold!NoFit => pos = LIST_MAX
  /\ (Cold!TooSmall \/ Cold!EndOfList \/ Cold!TakeFit) => pc = "list"
  /\ Cold!TooSmall => bp # NULL /\ Size(cold_mem, bp) < new_size
  /\ Cold!EndOfList => bp = NULL
  /\ Cold!TakeFit => bp # NULL /\ Size(cold_mem, bp) >= new_size
  /\ (Cold!Grow \/ Cold!GrowFails) => pc = "grow"
  /\ Cold!Grow => ~GrowthFails(new_size)
  /\ Cold!GrowFails => GrowthFails(new_size)
  /\ Cold!Move => pc = "move"
  /\ Cold!Return => pc = "ret"
<1>1. Cold!NULL = NULL /\ Cold!Searchable(pos) = Searchable(pos)
  BY DEF SameFrame, Cold!NULL, NULL, Cold!Searchable, Searchable
<1>2. Cold!GrowthFails(new_size) <=> GrowthFails(new_size)
  BY ColdNumbers DEF SameFrame, Cold!GrowthFails, GrowthFails
<1>3. Cold!Size(cold_mem, bp) = Size(cold_mem, bp)
  BY ColdTags
<1>4. /\ (Cold!SkipList \/ Cold!EnterList \/ Cold!NoFit) => pc = "scan"
      /\ Cold!SkipList => pos < LIST_MAX /\ ~(Searchable(pos) /\ cold_free_lists[pos] # NULL)
      /\ Cold!EnterList => pos < LIST_MAX /\ Searchable(pos) /\ cold_free_lists[pos] # NULL
      /\ Cold!NoFit => pos = LIST_MAX
  BY <1>1 DEF SameFrame, Cold!SkipList, Cold!EnterList, Cold!NoFit
<1>5. /\ (Cold!TooSmall \/ Cold!EndOfList \/ Cold!TakeFit) => pc = "list"
      /\ Cold!TooSmall => bp # NULL /\ Size(cold_mem, bp) < new_size
      /\ Cold!EndOfList => bp = NULL
      /\ Cold!TakeFit => bp # NULL /\ Size(cold_mem, bp) >= new_size
  BY <1>1, <1>3 DEF SameFrame, Cold!TooSmall, Cold!EndOfList, Cold!TakeFit
<1>6. /\ (Cold!Grow \/ Cold!GrowFails) => pc = "grow"
      /\ Cold!Grow => ~GrowthFails(new_size)
      /\ Cold!GrowFails => GrowthFails(new_size)
      /\ Cold!Move => pc = "move"
      /\ Cold!Return => pc = "ret"
  BY <1>2 DEF SameFrame, Cold!Grow, Cold!GrowFails, Cold!Move, Cold!Return,
              Cold!TakeResult
<1> QED
  BY <1>4, <1>5, <1>6

(* So they take the same one. *)
LEMMA SameTurn ==
  ASSUME JointInv, AllocatorStep, Cold!AllocatorStep
  PROVE  \/ SkipList /\ Cold!SkipList
         \/ EnterList /\ Cold!EnterList
         \/ TooSmall /\ Cold!TooSmall
         \/ EndOfList /\ Cold!EndOfList
         \/ NoFit /\ Cold!NoFit
         \/ TakeFit /\ Cold!TakeFit
         \/ Grow /\ Cold!Grow
         \/ GrowFails /\ Cold!GrowFails
         \/ Move /\ Cold!Move
         \/ Return /\ Cold!Return
<1>1. \/ SkipList \/ EnterList \/ TooSmall \/ EndOfList \/ NoFit \/ TakeFit
      \/ Grow \/ GrowFails \/ Move \/ Return
  BY DEF AllocatorStep
<1>2. \/ Cold!SkipList \/ Cold!EnterList \/ Cold!TooSmall \/ Cold!EndOfList
      \/ Cold!NoFit \/ Cold!TakeFit
      \/ Cold!Grow \/ Cold!GrowFails \/ Cold!Move \/ Cold!Return
  BY DEF Cold!AllocatorStep
<1>3. SameFrame
  BY DEF JointInv
<1>4. pc \in {"scan", "list", "grow", "move", "ret"} /\ Up
  BY <1>1, Turns DEF Up
<1>5. CASE pc = "scan"
  <2>1. free_lists = cold_free_lists
    BY <1>4, TwinSituation
  <2>2. SkipList \/ EnterList \/ NoFit
    BY <1>1, <1>5, Turns
  <2>3. Cold!SkipList \/ Cold!EnterList \/ Cold!NoFit
    BY <1>2, <1>3, <1>5, ColdTurns
  <2>4. pos \in Int /\ LIST_MAX \in Int
    BY ListAssumption DEF JointInv, IInv, TypeOK
  <2> QED
    BY <1>3, <2>1, <2>2, <2>3, <2>4, Turns, ColdTurns
<1>6. CASE pc = "list"
  <2>1. bp # NULL => Size(cold_mem, bp) = Size(mem, bp) /\ Size(mem, bp) \in Int
    <3>1. bp # NULL => bp \in FreeBlocks
      BY <1>6 DEF JointInv, IInv, SearchInv, SeenList, Members
    <3> QED
      BY <1>4, <3>1, TwinSituation, FreeFacts DEF JointInv
  <2>2. TooSmall \/ EndOfList \/ TakeFit
    BY <1>1, <1>6, Turns
  <2>3. Cold!TooSmall \/ Cold!EndOfList \/ Cold!TakeFit
    BY <1>2, <1>3, <1>6, ColdTurns
  <2>4. new_size \in Int
    BY DEF JointInv, IInv, TypeOK
  <2> QED
    BY <1>3, <2>1, <2>2, <2>3, <2>4, Turns, ColdTurns
<1>7. CASE pc = "grow"
  <2>1. Grow \/ GrowFails
    BY <1>1, <1>7, Turns
  <2>2. Cold!Grow \/ Cold!GrowFails
    BY <1>2, <1>3, <1>7, ColdTurns
  <2> QED
    BY <1>3, <2>1, <2>2, Turns, ColdTurns
<1>8. CASE pc = "move"
  BY <1>1, <1>2, <1>3, <1>8, Turns, ColdTurns
<1>9. CASE pc = "ret"
  BY <1>1, <1>2, <1>3, <1>9, Turns, ColdTurns
<1> QED
  BY <1>4, <1>5, <1>6, <1>7, <1>8, <1>9

(* The turns of find_fit, and mm_malloc's failure.                         *)
LEMMA TwinSearch ==
  ASSUME JointInv,
         \/ SkipList /\ Cold!SkipList
         \/ EnterList /\ Cold!EnterList
         \/ TooSmall /\ Cold!TooSmall
         \/ EndOfList /\ Cold!EndOfList
         \/ NoFit /\ Cold!NoFit
         \/ GrowFails /\ Cold!GrowFails
  PROVE  SameStep
<1>1. Up /\ SameFrame
  BY Turns DEF Up, JointInv
<1>2. /\ UNCHANGED <<mem, mem_brk, free_lists, blks>>
      /\ UNCHANGED <<cold_mem, cold_free_lists>>
  BY DEF SkipList, EnterList, TooSmall, EndOfList, NoFit, GrowFails,
         Cold!SkipList, Cold!EnterList, Cold!TooSmall, Cold!EndOfList, Cold!NoFit,
         Cold!GrowFails
<1>3. TwinHeaps'
  BY <1>1, <1>2, QuietTwins
<1>4. Cold!NULL = NULL /\ Cold!SUCC_NODE(cold_mem, bp) = SUCC_NODE(cold_mem, bp)
  BY ColdLinks
<1>5. ASSUME SkipList, Cold!SkipList PROVE SameFrame'
  BY <1>1, <1>5 DEF SkipList, Cold!SkipList, SameFrame
<1>6. ASSUME EnterList, Cold!EnterList PROVE SameFrame'
  <2>1. cold_free_lists = free_lists
    BY <1>1, TwinSituation
  <2> QED
    BY <1>1, <1>6, <2>1 DEF EnterList, Cold!EnterList, SameFrame
<1>7. ASSUME TooSmall, Cold!TooSmall PROVE SameFrame'
  <2>1. SUCC_NODE(cold_mem, bp) = SUCC_NODE(mem, bp)
    <3>1. pc = "list" /\ bp # NULL
      BY <1>7, Turns
    <3>2. bp \in FreeBlocks
      BY <3>1 DEF JointInv, IInv, SearchInv, SeenList, Members
    <3> QED
      BY <1>1, <3>2, TwinSituation
  <2> QED
    BY <1>1, <1>4, <1>7, <2>1 DEF TooSmall, Cold!TooSmall, SameFrame
<1>8. ASSUME EndOfList, Cold!EndOfList PROVE SameFrame'
  BY <1>1, <1>8 DEF EndOfList, Cold!EndOfList, SameFrame
<1>9. ASSUME NoFit, Cold!NoFit PROVE SameFrame'
  BY <1>1, <1>9 DEF NoFit, Cold!NoFit, SameFrame
<1>10. ASSUME GrowFails, Cold!GrowFails PROVE SameFrame'
  BY <1>1, <1>4, <1>10 DEF GrowFails, Cold!GrowFails, SameFrame
<1>11. SameFrame'
  BY <1>5, <1>6, <1>7, <1>8, <1>9, <1>10
<1> QED
  BY <1>3, <1>11 DEF SameStep

(* What a call asked for, rounded.                                         *)
LEMMA RoundedCall ==
  ASSUME IInv, pc \in {"list", "grow"}
  PROVE  /\ Rounded(new_size) /\ new_size + mem_max_addr < UINT_MOD
         /\ new_size \in Nat /\ new_size % 8 = 0 /\ new_size > 0
<1>1. call \in Call /\ call.size > 0 /\ new_size = AdjustedSize(call.size)
  BY DEF IInv, CallInv, Working
<1>2. Rounded(new_size) /\ new_size + mem_max_addr < UINT_MOD
  BY <1>1, RequestSize DEF Call
<1> QED
  BY <1>2 DEF Rounded

(* A block is placed.                                                      *)
LEMMA TwinPlaceAt ==
  ASSUME JointInv, pc \in {"list", "grow"},
         NEW h, NEW g, NEW brk, NEW S, Twins(h, g, brk, S),
         NEW b \in S, b # heap_listp, IsFree(h.mem, b), Size(h.mem, b) >= new_size,
         PlaceAt(h, S, b), mem_brk' = brk,
         UNCHANGED <<ptr, psize, call, new_size, pos>>,
         Cold!PlaceAt(g, S, b), cold_mem_brk' = brk,
         UNCHANGED <<cold_ptr, cold_psize, cold_call, cold_new_size, cold_pos>>
  PROVE  SameStep
<1>1. SameFrame
  BY DEF JointInv
<1>2. PICK r : r = place(h, b, new_size)
  OBVIOUS
<1>3. PICK t : t = place(g, b, new_size)
  OBVIOUS
<1>4. /\ SetHeap(r.heap) /\ blks' = S \union {r.cut} /\ bp' = r.bp
      /\ pc' = IF call.op = "realloc" THEN "move" ELSE "ret"
  BY <1>2 DEF PlaceAt
<1>5. /\ Cold!SetHeap(t.heap) /\ cold_blks' = S \union {t.cut} /\ cold_bp' = t.bp
      /\ cold_pc' = IF call.op = "realloc" THEN "move" ELSE "ret"
  <2>1. Cold!place(g, b, cold_new_size) = t
    BY <1>1, <1>3, ColdPlace DEF SameFrame
  <2> QED
    BY <1>1, <2>1 DEF Cold!PlaceAt, SameFrame
<1>6. SamePlaces(r, t, brk, S)
  <2>1. Rounded(new_size)
    BY RoundedCall DEF JointInv
  <2> QED
    BY <1>2, <1>3, <2>1, TwinPlace
<1>7. /\ r.bp = t.bp /\ r.cut = t.cut
      /\ Twins(r.heap, t.heap, brk, S \union {r.cut})
  BY <1>6 DEF SamePlaces
<1>8. TwinHeaps'
  <2>1. Becomes(r.heap, brk, S \union {r.cut})
    BY <1>4 DEF Becomes
  <2> QED
    BY <1>5, <1>7, <2>1, NextTwins
<1>9. SameFrame'
  BY <1>1, <1>4, <1>5, <1>7 DEF SameFrame
<1> QED
  BY <1>8, <1>9 DEF SameStep

(* find_fit has found a block. *)
LEMMA TwinTakeFit ==
  ASSUME JointInv, TakeFit, Cold!TakeFit
  PROVE  SameStep
<1>1. PICK h : h = CurrentHeap
  OBVIOUS
<1>2. PICK g : g = ColdHeap
  OBVIOUS
<1>3. /\ pc = "list" /\ bp # NULL /\ Size(mem, bp) >= new_size
      /\ PlaceAt(h, blks, bp)
      /\ mem_brk' = mem_brk /\ UNCHANGED <<ptr, psize, call, new_size, pos>>
  BY <1>1 DEF TakeFit
<1>4. SameFrame
  BY DEF JointInv
<1>5. /\ Cold!PlaceAt(g, blks, bp) /\ cold_mem_brk' = mem_brk
      /\ UNCHANGED <<cold_ptr, cold_psize, cold_call, cold_new_size, cold_pos>>
  BY <1>2, <1>4, ColdHeapIs DEF Cold!TakeFit, SameFrame
<1>6. Up
  BY <1>3 DEF Up
<1>7. Twins(h, g, mem_brk, blks) /\ h.mem = mem
  BY <1>1, <1>2, <1>6, TwinSituation
<1>8. bp \in blks /\ bp # heap_listp /\ IsFree(h.mem, bp)
  <2>1. bp \in FreeBlocks
    BY <1>3 DEF JointInv, IInv, SearchInv, SeenList, Members
  <2> QED
    BY <1>6, <1>7, <2>1, FreeFacts DEF FreeBlocks, JointInv
<1> QED
  BY <1>3, <1>5, <1>7, <1>8, TwinPlaceAt

(* find_fit has found none, and the heap grows. *)
LEMMA TwinGrowTurn ==
  ASSUME JointInv, Grow, Cold!Grow
  PROVE  SameStep
<1>1. PICK size : size = GrowSize(new_size)
  OBVIOUS
<1>2. PICK h : h = CurrentHeap
  OBVIOUS
<1>3. PICK g : g = ColdHeap
  OBVIOUS
<1>4. PICK r : r = extend_heap(h, mem_brk, size)
  OBVIOUS
<1>5. PICK t : t = extend_heap(g, mem_brk, size)
  OBVIOUS
<1>6. PICK S : S = Absorbed(blks \union {mem_brk}, r.heap.mem, r.bp)
  OBVIOUS
<1>7. PICK brk : brk = mem_brk + size
  OBVIOUS
<1>8. PICK b : b = r.bp
  OBVIOUS
<1>9. PICK h2 : h2 = r.heap
  OBVIOUS
<1>10. PICK g2 : g2 = t.heap
  OBVIOUS
<1>11. /\ pc = "grow" /\ ~GrowthFails(new_size)
       /\ mem_brk' = SbrkBreak(mem_brk, ToInt(size))
       /\ PlaceAt(h2, S, b)
       /\ UNCHANGED <<ptr, psize, call, new_size, pos>>
  BY <1>1, <1>2, <1>4, <1>6, <1>8, <1>9 DEF Grow
<1>12. SameFrame /\ Up
  BY <1>11 DEF JointInv, Up
<1>13. MovesBreak(mem_brk, size, brk) /\ size >= new_size /\ mem_brk' = brk
  <2>1. /\ new_size \in Nat /\ new_size % 8 = 0 /\ new_size > 0
        /\ new_size + mem_max_addr < UINT_MOD
    BY <1>11, RoundedCall DEF JointInv
  <2> QED
    BY <1>1, <1>7, <1>11, <2>1, Sbrk DEF JointInv
<1>14. Twins(h, g, mem_brk, blks) /\ h.mem = mem
  BY <1>2, <1>3, <1>12, TwinSituation
<1>15. SameOutcome(r, t, brk, blks \union {mem_brk})
  BY <1>4, <1>5, <1>13, <1>14, TwinGrow
<1>16. /\ t.bp = b /\ Absorbed(blks \union {mem_brk}, t.heap.mem, t.bp) = S
       /\ Twins(h2, g2, brk, S)
  BY <1>6, <1>8, <1>9, <1>10, <1>15 DEF SameOutcome
<1>17. /\ Cold!PlaceAt(g2, S, b) /\ cold_mem_brk' = brk
       /\ UNCHANGED <<cold_ptr, cold_psize, cold_call, cold_new_size, cold_pos>>
  <2>1. Cold!GrowSize(cold_new_size) = size
    BY <1>1, <1>12, ColdNumbers DEF SameFrame
  <2>2. Cold!extend_heap(Cold!CurrentHeap, cold_mem_brk, size) = t
    BY <1>3, <1>5, <1>12, ColdHeapIs, ColdCalls DEF SameFrame
  <2>3. Cold!Absorbed(cold_blks \union {cold_mem_brk}, t.heap.mem, t.bp) = S
    BY <1>12, <1>16, ColdWords DEF SameFrame
  <2>4. Cold!SbrkBreak(cold_mem_brk, Cold!ToInt(size)) = brk
    BY <1>11, <1>12, <1>13, ColdNumbers DEF SameFrame
  <2> QED
    BY <1>10, <1>16, <2>1, <2>2, <2>3, <2>4 DEF Cold!Grow
<1>18. b \in S /\ b # heap_listp /\ IsFree(h2.mem, b) /\ Size(h2.mem, b) >= new_size
  <2>1. GrowDone(h, r, mem_brk, blks, S, size, brk)
    BY <1>4, <1>6, <1>13, <1>14, GrowSound DEF Twins
  <2>2. /\ Sound(h2, brk, S) /\ b \in S /\ b # heap_listp /\ IsFree(h2.mem, b)
        /\ Size(h2.mem, b) >= size
    BY <1>8, <1>9, <2>1 DEF GrowDone
  <2>3. Size(h2.mem, b) \in Int
    BY <2>2, BlockFacts DEF Sound, Heap
  <2>4. new_size \in Int /\ size \in Int
    BY <1>11, <1>13, RoundedCall DEF JointInv, MovesBreak, Rounded
  <2> QED
    BY <1>13, <2>2, <2>3, <2>4
<1> QED
  BY <1>11, <1>13, <1>16, <1>17, <1>18, TwinPlaceAt

(* mm_realloc copies and frees the old block.                              *)
LEMMA TwinMove ==
  ASSUME JointInv, Move, Cold!Move
  PROVE  SameStep
<1>1. PICK src : src = ptr[call.id]
  OBVIOUS
<1>2. PICK n : n = Size(mem, src)
  OBVIOUS
<1>3. PICK h : h = CurrentHeap
  OBVIOUS
<1>4. PICK g : g = ColdHeap
  OBVIOUS
<1>5. PICK h1 : h1 = Retag(h, Copy(mem, bp, src, n))
  OBVIOUS
<1>6. PICK g1 : g1 = Retag(g, Copy(cold_mem, bp, src, n))
  OBVIOUS
<1>7. PICK r : r = mm_free(h1, src)
  OBVIOUS
<1>8. PICK t : t = mm_free(g1, src)
  OBVIOUS
<1>9. PICK S : S = Absorbed(blks, r.heap.mem, r.bp)
  OBVIOUS
<1>10. SameFrame /\ Up /\ pc = "move" /\ IInv
  BY Turns DEF JointInv, Up
<1>11. /\ Twins(h, g, mem_brk, blks)
       /\ h.mem = mem /\ g.mem = cold_mem
       /\ \A c \in blks : Size(cold_mem, c) = Size(mem, c)
  BY <1>3, <1>4, <1>10, TwinSituation, ColdHeapIs
<1>12. /\ bp \in blks /\ src \in blks /\ bp \in Int /\ n \in Nat
       /\ Size(mem, bp) \in Nat /\ bp + n <= bp + Size(mem, bp) - DSIZE
  BY <1>1, <1>2, <1>10, CopyFits
<1>13. Size(cold_mem, src) = n /\ Size(cold_mem, bp) = Size(mem, bp)
  BY <1>2, <1>11, <1>12
<1>14. ~IsFree(mem, bp) /\ ~IsFree(mem, src) /\ src # heap_listp
  <2>1. /\ call.op = "realloc" /\ bp # NULL /\ call.id \in Ids /\ src # NULL
    BY <1>1, <1>10 DEF IInv, CallInv, Call
  <2>2. call.id \in Live
    BY <1>1, <1>10, <2>1 DEF Live, Moved
  <2>3. bp \in Owned
    BY <1>10, <2>1 DEF Owned
  <2>4. /\ src \in Allocated(mem, blks) /\ src # heap_listp
        /\ bp \in Allocated(mem, blks)
    BY <1>1, <1>10, <2>2, <2>3, Situation
  <2> QED
    BY <2>4 DEF Allocated
<1>15. /\ Record(h1) /\ h1.lists = h.lists /\ PayloadWrite(h.mem, h1.mem, bp)
       /\ Record(g1) /\ g1.lists = g.lists /\ PayloadWrite(g.mem, g1.mem, bp)
  <2>1. PICK m : m = Copy(mem, bp, src, n)
    OBVIOUS
  <2>2. PICK m2 : m2 = Copy(cold_mem, bp, src, n)
    OBVIOUS
  <2>3. PayloadWrite(mem, m, bp)
    BY <1>12, <2>1, CopyWrites
  <2>4. PayloadWrite(cold_mem, m2, bp)
    BY <1>12, <1>13, <2>2, CopyWrites
  <2>5. Memory(m) /\ Memory(m2)
    BY <2>3, <2>4 DEF PayloadWrite
  <2>6. Record(h) /\ Record(g)
    BY <1>11 DEF Twins, Sound
  <2>7. h1 = Retag(h, m) /\ g1 = Retag(g, m2)
    BY <1>5, <1>6, <2>1, <2>2
  <2>8. Record(h1) /\ h1.mem = m /\ h1.lists = h.lists
    BY <2>5, <2>6, <2>7, RetagFacts
  <2>9. Record(g1) /\ g1.mem = m2 /\ g1.lists = g.lists
    BY <2>5, <2>6, <2>7, RetagFacts
  <2> QED
    BY <1>11, <2>3, <2>4, <2>8, <2>9
<1>16. Twins(h1, g1, mem_brk, blks) /\ ~IsFree(h1.mem, src)
  <2>1. ~IsFree(h.mem, bp) /\ Sound(h, mem_brk, blks)
    BY <1>11, <1>14 DEF Twins
  <2>2. Twins(h1, g1, mem_brk, blks)
    BY <1>11, <1>12, <1>15, <2>1, TwinWrite
  <2>3. Allocated(h1.mem, blks) = Allocated(h.mem, blks)
    BY <1>12, <1>15, <2>1, WriteSound DEF SameAllocated
  <2> QED
    BY <1>11, <1>12, <1>14, <2>2, <2>3 DEF Allocated
<1>17. SameOutcome(r, t, mem_brk, blks)
  BY <1>7, <1>8, <1>12, <1>14, <1>16, TwinFree
<1>18. /\ r.bp = t.bp /\ Absorbed(blks, t.heap.mem, t.bp) = S
       /\ Twins(r.heap, t.heap, mem_brk, S)
  BY <1>9, <1>17 DEF SameOutcome
<1>19. /\ SetHeap(r.heap) /\ blks' = S /\ pc' = "ret"
       /\ UNCHANGED <<mem_brk, ptr, psize, call, bp, new_size, pos>>
  <2>1. Transfer(CurrentHeap, bp, ptr[call.id]) = r
    BY <1>1, <1>2, <1>3, <1>5, <1>7, <1>11 DEF Transfer
  <2> QED
    BY <1>9, <2>1 DEF Move
<1>20. /\ Cold!SetHeap(t.heap) /\ cold_blks' = S /\ cold_pc' = "ret"
       /\ UNCHANGED <<cold_mem_brk, cold_ptr, cold_psize, cold_call, cold_bp,
                      cold_new_size, cold_pos>>
  <2>1. Transfer(g, bp, src) = t
    BY <1>6, <1>8, <1>11, <1>13 DEF Transfer
  <2>2. Cold!Transfer(Cold!CurrentHeap, cold_bp, cold_ptr[cold_call.id]) = t
    BY <1>1, <1>4, <1>10, <2>1, ColdHeapIs, ColdCalls DEF SameFrame
  <2>3. Cold!Absorbed(cold_blks, t.heap.mem, t.bp) = S
    BY <1>10, <1>18, ColdWords DEF SameFrame
  <2> QED
    BY <2>2, <2>3 DEF Cold!Move
<1>21. TwinHeaps'
  <2>1. Becomes(r.heap, mem_brk, S)
    BY <1>19 DEF Becomes
  <2> QED
    BY <1>18, <1>20, <2>1, NextTwins
<1>22. SameFrame'
  BY <1>10, <1>19, <1>20 DEF SameFrame
<1> QED
  BY <1>21, <1>22 DEF SameStep

(* The client takes the result, and fills what it has been given.          *)
LEMMA TwinReturn ==
  ASSUME JointInv, Return, Cold!Return
  PROVE  SameStep
<1>1. SameFrame /\ Up /\ pc = "ret" /\ IInv
  BY Turns DEF JointInv, Up
<1>2. /\ UNCHANGED <<mem_brk, free_lists, blks>>
      /\ UNCHANGED <<cold_mem_brk, cold_free_lists, cold_blks>>
      /\ pc' = "idle" /\ cold_pc' = "idle" /\ call' = NoCall /\ cold_call' = NoCall
      /\ bp' = NULL /\ cold_bp' = NULL /\ new_size' = 0 /\ cold_new_size' = 0
      /\ pos' = 0 /\ cold_pos' = 0
  <2>1. Cold!NULL = NULL /\ Cold!NoCall = NoCall
    BY DEF Cold!NULL, NULL, Cold!NoCall, NoCall
  <2> QED
    BY <2>1 DEF Return, TakeResult, Cold!Return, Cold!TakeResult
<1>3. CASE bp = NULL
  <2>1. /\ UNCHANGED <<mem, ptr, psize>>
        /\ UNCHANGED <<cold_mem, cold_ptr, cold_psize>>
    <3>1. cold_bp = Cold!NULL
      BY <1>1, <1>3 DEF SameFrame, Cold!NULL, NULL
    <3> QED
      BY <1>3, <3>1 DEF Return, TakeResult, Cold!Return, Cold!TakeResult
  <2>2. TwinHeaps'
    BY <1>1, <1>2, <2>1, QuietTwins
  <2>3. SameFrame'
    BY <1>1, <1>2, <2>1 DEF SameFrame
  <2> QED
    BY <2>2, <2>3 DEF SameStep
<1>4. CASE bp # NULL
  <2>1. PICK n : n = call.size
    OBVIOUS
  <2>2. PICK id : id = call.id
    OBVIOUS
  <2>3. PICK m : m = Fill(mem, bp, n, id)
    OBVIOUS
  <2>4. PICK m2 : m2 = Fill(cold_mem, bp, n, id)
    OBVIOUS
  <2>5. PICK h : h = CurrentHeap
    OBVIOUS
  <2>6. PICK g : g = ColdHeap
    OBVIOUS
  <2>7. PICK h2 : h2 = Retag(h, m)
    OBVIOUS
  <2>8. PICK g2 : g2 = Retag(g, m2)
    OBVIOUS
  <2>9. /\ mem' = m /\ ptr' = [ptr EXCEPT ![id] = bp]
        /\ psize' = [psize EXCEPT ![id] = n]
    BY <1>4, <2>1, <2>2, <2>3 DEF Return, TakeResult
  <2>10. /\ cold_mem' = m2 /\ cold_ptr' = ptr' /\ cold_psize' = psize'
    <3>1. /\ cold_bp # Cold!NULL
          /\ Cold!Fill(cold_mem, cold_bp, cold_call.size, cold_call.id) = m2
      BY <1>1, <1>4, <2>1, <2>2, <2>4, ColdWords DEF SameFrame, Cold!NULL, NULL
    <3> QED
      BY <1>1, <2>1, <2>2, <2>9, <3>1 DEF SameFrame, Cold!Return, Cold!TakeResult
  <2>11. /\ Twins(h, g, mem_brk, blks) /\ h.mem = mem /\ g.mem = cold_mem
         /\ h.lists = free_lists /\ g.lists = cold_free_lists
         /\ \A c \in blks : Size(cold_mem, c) = Size(mem, c)
    BY <1>1, <2>5, <2>6, TwinSituation, ColdHeapIs
  <2>12. /\ bp \in blks /\ bp \in Int /\ Size(mem, bp) \in Nat
         /\ Covers(mem, bp, n) /\ Covers(cold_mem, bp, n)
         /\ Size(cold_mem, bp) \in Nat
    <3>1. /\ bp \in blks /\ bp \in Int /\ Size(mem, bp) \in Nat
          /\ Covers(mem, bp, n)
      BY <1>1, <1>4, <2>1, PayloadFits
    <3> QED
      BY <2>11, <3>1 DEF Covers
  <2>13. PayloadWrite(mem, m, bp) /\ PayloadWrite(cold_mem, m2, bp)
    BY <2>3, <2>4, <2>12, FillWrites
  <2>14. /\ Record(h2) /\ h2.mem = m /\ h2.lists = h.lists
         /\ Record(g2) /\ g2.mem = m2 /\ g2.lists = g.lists
    <3>1. Memory(m) /\ Memory(m2) /\ Record(h) /\ Record(g)
      BY <2>11, <2>13 DEF PayloadWrite, Twins, Sound
    <3> QED
      BY <2>7, <2>8, <3>1, RetagFacts
  <2>15. ~IsFree(mem, bp)
    <3>1. bp \in Owned
      BY <1>1, <1>4 DEF Owned
    <3> QED
      BY <1>1, <3>1, Situation DEF Allocated
  <2>16. Twins(h2, g2, mem_brk, blks)
    BY <2>11, <2>12, <2>13, <2>14, <2>15, TwinWrite
  <2>17. TwinHeaps'
    <3>1. Becomes(h2, mem_brk, blks) /\ Cold!SetHeap(g2)
      BY <1>2, <2>9, <2>10, <2>11, <2>14 DEF Becomes, SetHeap, Cold!SetHeap
    <3> QED
      BY <2>16, <3>1, NextTwins
  <2>18. SameFrame'
    BY <1>1, <1>2, <2>10 DEF SameFrame
  <2> QED
    BY <2>17, <2>18 DEF SameStep
<1> QED
  BY <1>3, <1>4

(* mm_free *)
LEMMA TwinCallFree ==
  ASSUME JointInv, NEW i \in Ids, CallFree(i), Cold!CallFree(i)
  PROVE  SameStep
<1>1. PICK p : p = ptr[i]
  OBVIOUS
<1>2. PICK h : h = CurrentHeap
  OBVIOUS
<1>3. PICK g : g = ColdHeap
  OBVIOUS
<1>4. PICK r : r = mm_free(h, p)
  OBVIOUS
<1>5. PICK t : t = mm_free(g, p)
  OBVIOUS
<1>6. PICK S : S = Absorbed(blks, r.heap.mem, r.bp)
  OBVIOUS
<1>7. /\ pc = "idle" /\ p # NULL /\ SetHeap(r.heap) /\ blks' = S
      /\ ptr' = [ptr EXCEPT ![i] = NULL] /\ psize' = [psize EXCEPT ![i] = 0]
      /\ UNCHANGED <<mem_brk, pc, call, bp, new_size, pos>>
  BY <1>1, <1>2, <1>4, <1>6 DEF CallFree
<1>8. SameFrame /\ Up /\ IInv
  BY <1>7 DEF JointInv, Up
<1>9. Twins(h, g, mem_brk, blks) /\ h.mem = mem
  BY <1>2, <1>3, <1>8, TwinSituation
<1>10. p \in blks /\ p # heap_listp /\ ~IsFree(mem, p)
  <2>1. i \in Live
    BY <1>1, <1>7 DEF Live, Moved
  <2> QED
    BY <1>1, <1>8, <2>1, Situation DEF Allocated
<1>11. SameOutcome(r, t, mem_brk, blks)
  BY <1>4, <1>5, <1>9, <1>10, TwinFree
<1>12. /\ r.bp = t.bp /\ Absorbed(blks, t.heap.mem, t.bp) = S
       /\ Twins(r.heap, t.heap, mem_brk, S)
  BY <1>6, <1>11 DEF SameOutcome
<1>13. /\ Cold!SetHeap(t.heap) /\ cold_blks' = S
       /\ cold_ptr' = ptr' /\ cold_psize' = psize'
       /\ UNCHANGED <<cold_mem_brk, cold_pc, cold_call, cold_bp, cold_new_size,
                      cold_pos>>
  <2>1. Cold!mm_free(Cold!CurrentHeap, cold_ptr[i]) = t /\ Cold!NULL = NULL
    BY <1>1, <1>3, <1>5, <1>8, ColdHeapIs, ColdCalls DEF SameFrame, Cold!NULL, NULL
  <2>2. Cold!Absorbed(cold_blks, t.heap.mem, t.bp) = S
    BY <1>8, <1>12, ColdWords DEF SameFrame
  <2> QED
    BY <1>7, <1>8, <2>1, <2>2 DEF SameFrame, Cold!CallFree
<1>14. TwinHeaps'
  <2>1. Becomes(r.heap, mem_brk, S)
    BY <1>7 DEF Becomes
  <2> QED
    BY <1>12, <1>13, <2>1, NextTwins
<1>15. SameFrame'
  BY <1>7, <1>8, <1>13 DEF SameFrame
<1> QED
  BY <1>14, <1>15 DEF SameStep

(* mm_init, over what the last pass has left and over nothing.             *)
LEMMA TwinInit ==
  ASSUME JointInv, NewPass
  PROVE  SameStep
<1>1. PICK h : h = Empty(CurrentHeap)
  OBVIOUS
<1>2. PICK g : g = Empty(Cleared)
  OBVIOUS
<1>3. PICK brk : brk = mem_start_brk + 4 * WSIZE
  OBVIOUS
<1>4. PICK size : size = ExtendSize(CHUNKSIZE \div WSIZE)
  OBVIOUS
<1>5. PICK r : r = extend_heap(h, brk, size)
  OBVIOUS
<1>6. PICK t : t = extend_heap(g, brk, size)
  OBVIOUS
<1>7. PICK S : S = {heap_listp}
  OBVIOUS
<1>8. PICK S2 : S2 = Absorbed(S \union {brk}, r.heap.mem, r.bp)
  OBVIOUS
<1>9. PICK brk2 : brk2 = brk + size
  OBVIOUS
<1>10. /\ pc' = "idle" /\ mem_brk' = SbrkBreak(brk, size)
       /\ SetHeap(r.heap) /\ blks' = S2
       /\ ptr' = [i \in Ids |-> NULL] /\ psize' = [i \in Ids |-> 0]
       /\ UNCHANGED <<call, bp, new_size, pos>>
  <2>1. {heap_listp, brk} = S \union {brk}
    BY <1>7
  <2> QED
    BY <1>1, <1>3, <1>4, <1>5, <1>8, <2>1 DEF NewPass, mm_init, InitOver, ClientReset
<1>11. brk = heap_listp + 8
  BY <1>3, ArenaAssumption DEF heap_listp, WSIZE
<1>12. MovesBreak(brk, size, brk2) /\ SbrkBreak(brk, size) = brk2
  <2>1. size = CHUNKSIZE
    BY <1>4, ChunkAssumption DEF ExtendSize, WSIZE, DSIZE
  <2>2. Rounded(size)
    BY <2>1, ChunkAssumption DEF Rounded, DSIZE
  <2>3. /\ brk \in Int /\ brk2 \in Int /\ brk2 <= mem_max_addr
        /\ mem_max_addr \in Int /\ mem_max_addr < UINT_MOD /\ UINT_MOD \in Int
    BY <1>3, <1>9, <2>1, ArenaAssumption, ChunkAssumption
    DEF mem_max_addr, UINT_MOD, WSIZE
  <2>4. SbrkBreak(brk, size) = brk2
    BY <1>9, <2>3 DEF SbrkBreak, Wrap
  <2> QED
    BY <1>9, <2>2, <2>3, <2>4 DEF MovesBreak
<1>13. Twins(h, g, brk, S)
  <2>1. Record(CurrentHeap)
    BY CurrentRecord DEF JointInv, IInv
  <2>2. Record(Cleared)
    BY DEF Cleared, Record, Memory, Node
  <2>3. PICK h0 : h0 = CurrentHeap
    OBVIOUS
  <2>4. PICK g0 : g0 = Cleared
    OBVIOUS
  <2>5. Record(h0) /\ h = Empty(h0) /\ Record(g0) /\ g = Empty(g0)
    BY <1>1, <1>2, <2>1, <2>2, <2>3, <2>4
  <2> QED
    BY <1>7, <1>11, <2>5, TwinEmpty
<1>14. SameOutcome(r, t, brk2, S \union {brk})
  BY <1>5, <1>6, <1>12, <1>13, TwinGrow
<1>15. /\ Absorbed(S \union {brk}, t.heap.mem, t.bp) = S2
       /\ Twins(r.heap, t.heap, brk2, S2)
  BY <1>8, <1>14 DEF SameOutcome
<1>16. /\ cold_pc' = "idle" /\ cold_mem_brk' = brk2
       /\ Cold!SetHeap(t.heap) /\ cold_blks' = S2
       /\ cold_ptr' = [i \in Ids |-> NULL] /\ cold_psize' = [i \in Ids |-> 0]
       /\ UNCHANGED <<cold_call, cold_bp, cold_new_size, cold_pos>>
  <2>1. /\ Cold!Empty(Cleared) = g /\ Cold!WSIZE = WSIZE /\ Cold!NULL = NULL
        /\ Cold!heap_listp = heap_listp
        /\ Cold!ExtendSize(CHUNKSIZE \div WSIZE) = size
        /\ Cold!SbrkBreak(brk, size) = brk2
    BY <1>2, <1>4, <1>12, ColdCalls, ColdNumbers DEF Cold!NULL, NULL
  <2>2. Cold!extend_heap(g, brk, size) = t
    BY <1>6, ColdCalls
  <2>3. Cold!Absorbed({heap_listp, brk}, t.heap.mem, t.bp) = S2
    <3>1. {heap_listp, brk} = S \union {brk}
      BY <1>7
    <3> QED
      BY <1>15, <3>1, ColdWords
  <2>4. Cold!InitOver(Cleared)
    BY DEF NewPass
  <2> QED
    BY <1>3, <2>1, <2>2, <2>3, <2>4 DEF Cold!InitOver, Cold!ClientReset
<1>17. TwinHeaps'
  <2>1. Becomes(r.heap, brk2, S2)
    BY <1>10, <1>12 DEF Becomes
  <2> QED
    BY <1>15, <1>16, <2>1, NextTwins
<1>18. SameFrame'
  BY <1>10, <1>12, <1>16 DEF SameFrame, JointInv
<1> QED
  BY <1>17, <1>18 DEF SameStep

(* What mm_realloc looks at is the same.                                   *)
LEMMA SameGuards ==
  ASSUME JointInv, pc = "idle", NEW i \in Ids, NEW p, p = ptr[i], p # NULL
  PROVE  /\ p \in blks /\ p # heap_listp /\ ~IsFree(mem, p)
         /\ Available(p) \in Int
         /\ \A size : Cold!Needs(p, size) <=> Needs(p, size)
         /\ Cold!Available(p) = Available(p)
         /\ Cold!NextUsable(p) <=> NextUsable(p)
<1>1. SameFrame /\ Up /\ IInv
  BY DEF JointInv, Up
<1>2. p \in blks /\ p # heap_listp /\ ~IsFree(mem, p)
  <2>1. i \in Live
    BY DEF Live, Moved
  <2> QED
    BY <1>1, <2>1, Situation DEF Allocated
<1>3. PICK q : q = NEXT_BLKP(mem, p)
  OBVIOUS
<1>4. /\ Tiled(mem, mem_brk, blks) /\ Tiled(cold_mem, mem_brk, blks)
      /\ Size(cold_mem, p) = Size(mem, p) /\ NEXT_BLKP(cold_mem, p) = q
      /\ \A c \in blks : /\ Size(cold_mem, c) = Size(mem, c)
                         /\ IsFree(cold_mem, c) <=> IsFree(mem, c)
  BY <1>1, <1>2, <1>3, TwinSituation DEF Heap
<1>5. q \in blks \union {mem_brk}
  BY <1>2, <1>3, <1>4, Neighbours
<1>6. /\ Size(mem, q) \in Int /\ Size(cold_mem, q) = Size(mem, q)
      /\ IsFree(cold_mem, q) <=> IsFree(mem, q)
  <2>1. CASE q \in blks
    BY <1>4, <2>1, BlockFacts
  <2>2. CASE q = mem_brk
    <3>1. mem[q - 4] = [size |-> 0, alloc |-> 1] /\ cold_mem[q - 4] = [size |-> 0, alloc |-> 1]
      BY <1>4, <2>2, HeapFacts
    <3> QED
      BY <3>1 DEF Size, IsFree, GET_SIZE, GET_ALLOC, HDRP, WSIZE
  <2> QED
    BY <1>5, <2>1, <2>2
<1>7. Size(mem, p) \in Int
  BY <1>2, <1>4, BlockFacts
<1>8. /\ \A m, b : Cold!Size(m, b) = Size(m, b)
      /\ \A m, b : Cold!IsFree(m, b) = IsFree(m, b)
      /\ \A m, b : Cold!NEXT_BLKP(m, b) = NEXT_BLKP(m, b)
      /\ \A n : Cold!AdjustedSize(n) = AdjustedSize(n)
  BY ColdTags, ColdNumbers
<1>9. Available(p) = Size(mem, p) + Size(mem, q)
  BY <1>3 DEF Available
<1>10. Cold!Available(p) = Available(p)
  BY <1>4, <1>6, <1>8, <1>9 DEF Cold!Available
<1>11. Cold!NextUsable(p) <=> NextUsable(p)
  BY <1>3, <1>4, <1>6, <1>8 DEF Cold!NextUsable, NextUsable
<1>12. \A size : Cold!Needs(p, size) <=> Needs(p, size)
  BY <1>4, <1>8 DEF Cold!Needs, Needs
<1> QED
  BY <1>2, <1>6, <1>7, <1>9, <1>10, <1>11, <1>12

(* The guards of the calls, each allocator's own.                          *)
Missing(i, size) == AdjustedSize(size) - Available(ptr[i])

LEMMA CallGuards ==
  ASSUME NEW i, NEW size
  PROVE
  /\ CallMalloc(i, size) => pc = "idle" /\ ptr[i] = NULL /\ size > 0
  /\ ReallocKeep(i, size) =>
       pc = "idle" /\ size > 0 /\ ptr[i] # NULL /\ ~Needs(ptr[i], size)
  /\ ReallocMerge(i, size) =>
       /\ pc = "idle" /\ size > 0 /\ ptr[i] # NULL /\ Needs(ptr[i], size)
       /\ NextUsable(ptr[i]) /\ Available(ptr[i]) >= AdjustedSize(size)
  /\ ReallocExtendLast(i, size) =>
       /\ pc = "idle" /\ size > 0 /\ ptr[i] # NULL /\ Needs(ptr[i], size)
       /\ NextUsable(ptr[i]) /\ Missing(i, size) > 0 /\ ~GrowthFails(Missing(i, size))
  /\ ReallocExtendFails(i, size) =>
       /\ pc = "idle" /\ size > 0 /\ ptr[i] # NULL /\ Needs(ptr[i], size)
       /\ NextUsable(ptr[i]) /\ Missing(i, size) > 0 /\ GrowthFails(Missing(i, size))
  /\ ReallocSearch(i, size) =>
       /\ pc = "idle" /\ size > 0 /\ ptr[i] # NULL /\ Needs(ptr[i], size)
       /\ ~NextUsable(ptr[i])
<1>1. /\ CallMalloc(i, size) => pc = "idle" /\ ptr[i] = NULL /\ size > 0
      /\ ReallocSearch(i, size) =>
           /\ pc = "idle" /\ size > 0 /\ ptr[i] # NULL /\ Needs(ptr[i], size)
           /\ ~NextUsable(ptr[i])
  BY DEF CallMalloc, ReallocSearch, StartSearch
<1>2. Realloc(i, size) => pc = "idle" /\ ptr[i] # NULL /\ size > 0
  BY DEF Realloc
<1>3. ReallocKeep(i, size) => Realloc(i, size) /\ ~Needs(ptr[i], size)
  BY DEF ReallocKeep
<1>4. ReallocMerge(i, size) =>
        /\ Realloc(i, size) /\ Needs(ptr[i], size)
        /\ NextUsable(ptr[i]) /\ Available(ptr[i]) >= AdjustedSize(size)
  BY DEF ReallocMerge
<1>5. ReallocExtendLast(i, size) =>
        /\ Realloc(i, size) /\ Needs(ptr[i], size)
        /\ NextUsable(ptr[i]) /\ Missing(i, size) > 0 /\ ~GrowthFails(Missing(i, size))
  BY DEF ReallocExtendLast, ReallocExtend, Missing
<1>6. ReallocExtendFails(i, size) =>
        /\ Realloc(i, size) /\ Needs(ptr[i], size)
        /\ NextUsable(ptr[i]) /\ Missing(i, size) > 0 /\ GrowthFails(Missing(i, size))
  BY DEF ReallocExtendFails, Missing
<1> QED
  BY <1>1, <1>2, <1>3, <1>4, <1>5, <1>6

(* Cold's guards, in the terms of the other allocator. *)
LEMMA ColdCallGuards ==
  ASSUME JointInv, pc = "idle", NEW i \in Ids, NEW size
  PROVE
  /\ Cold!CallMalloc(i, size) => ptr[i] = NULL
  /\ Cold!ReallocKeep(i, size) => ptr[i] # NULL /\ ~Needs(ptr[i], size)
  /\ Cold!ReallocMerge(i, size) =>
       /\ ptr[i] # NULL /\ Needs(ptr[i], size)
       /\ NextUsable(ptr[i]) /\ Available(ptr[i]) >= AdjustedSize(size)
  /\ Cold!ReallocExtendLast(i, size) =>
       /\ ptr[i] # NULL /\ Needs(ptr[i], size)
       /\ NextUsable(ptr[i]) /\ Missing(i, size) > 0 /\ ~GrowthFails(Missing(i, size))
  /\ Cold!ReallocExtendFails(i, size) =>
       /\ ptr[i] # NULL /\ Needs(ptr[i], size)
       /\ NextUsable(ptr[i]) /\ Missing(i, size) > 0 /\ GrowthFails(Missing(i, size))
  /\ Cold!ReallocSearch(i, size) =>
       ptr[i] # NULL /\ Needs(ptr[i], size) /\ ~NextUsable(ptr[i])
<1>1. SameFrame /\ Cold!NULL = NULL
  BY DEF JointInv, Cold!NULL, NULL
<1>2. cold_ptr[i] = ptr[i]
  BY <1>1 DEF SameFrame
<1>3. ptr[i] # NULL =>
        /\ Cold!Needs(ptr[i], size) <=> Needs(ptr[i], size)
        /\ Cold!NextUsable(ptr[i]) <=> NextUsable(ptr[i])
        /\ Cold!Available(ptr[i]) = Available(ptr[i])
  BY SameGuards
<1>4. \A need : Cold!GrowthFails(need) <=> GrowthFails(need)
  BY <1>1, ColdNumbers DEF SameFrame, Cold!GrowthFails, GrowthFails
<1>5. Cold!AdjustedSize(size) = AdjustedSize(size)
  BY ColdNumbers
<1>6. /\ Cold!CallMalloc(i, size) => ptr[i] = NULL
      /\ Cold!ReallocSearch(i, size) =>
           ptr[i] # NULL /\ Cold!Needs(ptr[i], size) /\ ~Cold!NextUsable(ptr[i])
  BY <1>1, <1>2 DEF Cold!CallMalloc, Cold!ReallocSearch
<1>7. Cold!Realloc(i, size) => ptr[i] # NULL
  BY <1>1, <1>2 DEF Cold!Realloc
<1>8. Cold!ReallocKeep(i, size) => Cold!Realloc(i, size) /\ ~Cold!Needs(ptr[i], size)
  BY <1>2 DEF Cold!ReallocKeep
<1>9. Cold!ReallocMerge(i, size) =>
        /\ Cold!Realloc(i, size) /\ Cold!Needs(ptr[i], size)
        /\ Cold!NextUsable(ptr[i]) /\ Cold!Available(ptr[i]) >= AdjustedSize(size)
  BY <1>2, <1>5 DEF Cold!ReallocMerge
<1>10. PICK need : need = AdjustedSize(size) - Cold!Available(ptr[i])
  OBVIOUS
<1>11. Cold!ReallocExtendLast(i, size) =>
         /\ Cold!Realloc(i, size) /\ Cold!Needs(ptr[i], size)
         /\ Cold!NextUsable(ptr[i]) /\ need > 0 /\ ~Cold!GrowthFails(need)
  BY <1>2, <1>5, <1>10 DEF Cold!ReallocExtendLast, Cold!ReallocExtend
<1>12. Cold!ReallocExtendFails(i, size) =>
         /\ Cold!Realloc(i, size) /\ Cold!Needs(ptr[i], size)
         /\ Cold!NextUsable(ptr[i]) /\ need > 0 /\ Cold!GrowthFails(need)
  BY <1>2, <1>5, <1>10 DEF Cold!ReallocExtendFails
<1>13. ptr[i] # NULL => need = Missing(i, size)
  BY <1>3, <1>10 DEF Missing
<1> QED
  BY <1>3, <1>4, <1>6, <1>7, <1>8, <1>9, <1>11, <1>12, <1>13

(* Both allocators are called with the same request, and take the same way *)
(* through it.                                                             *)
LEMMA SameCall ==
  ASSUME JointInv, NEW i \in Ids, NEW size \in Sizes,
         SoundCall(i, size), Cold!SoundCall(i, size)
  PROVE  \/ CallMalloc(i, size) /\ Cold!CallMalloc(i, size)
         \/ ReallocKeep(i, size) /\ Cold!ReallocKeep(i, size)
         \/ ReallocMerge(i, size) /\ Cold!ReallocMerge(i, size)
         \/ ReallocExtendLast(i, size) /\ Cold!ReallocExtendLast(i, size)
         \/ ReallocExtendFails(i, size) /\ Cold!ReallocExtendFails(i, size)
         \/ ReallocSearch(i, size) /\ Cold!ReallocSearch(i, size)
<1>1. /\ CallMalloc(i, size) \/ ReallocKeep(i, size) \/ ReallocMerge(i, size)
         \/ ReallocExtendLast(i, size) \/ ReallocExtendFails(i, size)
         \/ ReallocSearch(i, size)
      /\ Cold!CallMalloc(i, size) \/ Cold!ReallocKeep(i, size) \/ Cold!ReallocMerge(i, size)
         \/ Cold!ReallocExtendLast(i, size) \/ Cold!ReallocExtendFails(i, size)
         \/ Cold!ReallocSearch(i, size)
  BY DEF SoundCall, Cold!SoundCall
<1>2. pc = "idle" /\ size > 0
  BY <1>1, CallGuards
<1>3. PICK av : av = Available(ptr[i])
  OBVIOUS
<1>4. PICK adj : adj = AdjustedSize(size)
  OBVIOUS
<1>5. adj \in Int
  BY <1>2, <1>4, RequestSize DEF Rounded
<1>6. ptr[i] # NULL => av \in Int
  BY <1>2, <1>3, SameGuards
<1>7. av \in Int => ~(av >= adj /\ adj - av > 0)
  BY <1>5
<1>8. ptr[i] # NULL => ~(Available(ptr[i]) >= AdjustedSize(size) /\ Missing(i, size) > 0)
  BY <1>3, <1>4, <1>6, <1>7 DEF Missing
<1>9. CASE CallMalloc(i, size)
  BY <1>1, <1>2, <1>9, CallGuards, ColdCallGuards
<1>10. CASE ReallocKeep(i, size)
  BY <1>1, <1>2, <1>10, CallGuards, ColdCallGuards
<1>11. CASE ReallocMerge(i, size)
  BY <1>1, <1>2, <1>8, <1>11, CallGuards, ColdCallGuards
<1>12. CASE ReallocExtendLast(i, size)
  BY <1>1, <1>2, <1>8, <1>12, CallGuards, ColdCallGuards
<1>13. CASE ReallocExtendFails(i, size)
  BY <1>1, <1>2, <1>8, <1>13, CallGuards, ColdCallGuards
<1>14. CASE ReallocSearch(i, size)
  BY <1>1, <1>2, <1>14, CallGuards, ColdCallGuards
<1> QED
  BY <1>1, <1>9, <1>10, <1>11, <1>12, <1>13, <1>14

(* The calls that leave the heap as it is.                                 *)
LEMMA TwinQuietCall ==
  ASSUME JointInv, NEW i \in Ids, NEW size \in Sizes,
         \/ CallMalloc(i, size) /\ Cold!CallMalloc(i, size)
         \/ ReallocKeep(i, size) /\ Cold!ReallocKeep(i, size)
         \/ ReallocExtendFails(i, size) /\ Cold!ReallocExtendFails(i, size)
         \/ ReallocSearch(i, size) /\ Cold!ReallocSearch(i, size)
  PROVE  SameStep
<1>1. SameFrame /\ pc = "idle" /\ Up /\ Cold!NULL = NULL
  BY CallGuards DEF JointInv, Up, Cold!NULL, NULL
<1>2. /\ UNCHANGED <<mem, mem_brk, free_lists, blks>>
      /\ UNCHANGED <<cold_mem, cold_mem_brk, cold_free_lists, cold_blks>>
  BY DEF CallMalloc, ReallocKeep, ReallocExtendFails, ReallocSearch, StartSearch,
         Cold!CallMalloc, Cold!ReallocKeep, Cold!ReallocExtendFails,
         Cold!ReallocSearch, Cold!StartSearch
<1>3. TwinHeaps'
  BY <1>1, <1>2, QuietTwins
<1>4. /\ \A op : Cold!Request(op, i, size) = Request(op, i, size)
      /\ Cold!AdjustedSize(size) = AdjustedSize(size)
  BY ColdNumbers DEF Cold!Request, Request
<1>5. ASSUME NEW op, StartSearch(op, i, size), Cold!StartSearch(op, i, size)
      PROVE  SameFrame'
  BY <1>1, <1>2, <1>4, <1>5 DEF StartSearch, Cold!StartSearch, SameFrame
<1>6. ASSUME Realloc(i, size), Cold!Realloc(i, size), cold_bp' = bp', cold_pc' = pc'
      PROVE  SameFrame'
  BY <1>1, <1>2, <1>4, <1>6 DEF Realloc, Cold!Realloc, SameFrame
<1>7. ASSUME CallMalloc(i, size), Cold!CallMalloc(i, size) PROVE SameFrame'
  BY <1>5, <1>7 DEF CallMalloc, Cold!CallMalloc
<1>8. ASSUME ReallocSearch(i, size), Cold!ReallocSearch(i, size) PROVE SameFrame'
  BY <1>5, <1>8 DEF ReallocSearch, Cold!ReallocSearch
<1>9. ASSUME ReallocKeep(i, size), Cold!ReallocKeep(i, size) PROVE SameFrame'
  BY <1>1, <1>6, <1>9 DEF ReallocKeep, Cold!ReallocKeep, SameFrame
<1>10. ASSUME ReallocExtendFails(i, size), Cold!ReallocExtendFails(i, size)
       PROVE  SameFrame'
  BY <1>1, <1>6, <1>10 DEF ReallocExtendFails, Cold!ReallocExtendFails
<1>11. SameFrame'
  BY <1>7, <1>8, <1>9, <1>10
<1> QED
  BY <1>3, <1>11 DEF SameStep

(* mm_realloc takes over the free block behind p.                          *)
LEMMA TwinMerge ==
  ASSUME JointInv, NEW i \in Ids, NEW size \in Sizes,
         ReallocMerge(i, size), Cold!ReallocMerge(i, size)
  PROVE  SameStep
<1>1. PICK p : p = ptr[i]
  OBVIOUS
<1>2. PICK h : h = CurrentHeap
  OBVIOUS
<1>3. PICK g : g = ColdHeap
  OBVIOUS
<1>4. PICK n : n = Available(p)
  OBVIOUS
<1>5. PICK h2 : h2 = TakeOver(h, p, n)
  OBVIOUS
<1>6. PICK g2 : g2 = TakeOver(g, p, n)
  OBVIOUS
<1>7. PICK S : S = Absorbed(blks, h2.mem, p)
  OBVIOUS
<1>8. PICK q : q = NEXT_BLKP(mem, p)
  OBVIOUS
<1>9. /\ Realloc(i, size) /\ Needs(p, size) /\ NextUsable(p) /\ n >= AdjustedSize(size)
      /\ SetHeap(h2) /\ blks' = S /\ bp' = p /\ pc' = "ret" /\ mem_brk' = mem_brk
  BY <1>1, <1>2, <1>4, <1>5, <1>7 DEF ReallocMerge
<1>10. SameFrame /\ IInv /\ pc = "idle" /\ p # NULL /\ Up
  BY <1>1, <1>9 DEF JointInv, Realloc, Up
<1>11. Twins(h, g, mem_brk, blks) /\ h.mem = mem
  BY <1>2, <1>3, <1>10, TwinSituation
<1>12. /\ p \in blks /\ p # heap_listp /\ ~IsFree(h.mem, p)
       /\ Size(mem, p) \in Nat /\ Rounded(AdjustedSize(size))
  BY <1>1, <1>9, <1>10, <1>11, Grown
<1>13. /\ EndsAt(h.mem, p, q) /\ q \in blks /\ IsFree(h.mem, q)
       /\ n = Size(h.mem, p) + Size(h.mem, q)
  <2>1. ~(n = Size(mem, p))
    BY <1>9, <1>12 DEF Needs, Rounded
  <2> QED
    BY <1>1, <1>4, <1>8, <1>9, <1>10, <1>11, <2>1, Behind
<1>14. Absorbed(blks, g2.mem, p) = S /\ Twins(h2, g2, mem_brk, S)
  BY <1>5, <1>6, <1>7, <1>11, <1>12, <1>13, TwinTakeOver
<1>15. /\ Cold!SetHeap(g2) /\ cold_blks' = S
       /\ cold_bp' = p /\ cold_pc' = "ret" /\ cold_mem_brk' = cold_mem_brk
       /\ Cold!Realloc(i, size)
  <2>1. cold_ptr[i] = p /\ Cold!Available(p) = n /\ Cold!CurrentHeap = g
    BY <1>1, <1>3, <1>4, <1>10, SameGuards, ColdHeapIs DEF SameFrame
  <2>2. Cold!TakeOver(g, p, n) = g2
    BY <1>6, ColdCalls
  <2>3. Cold!Absorbed(cold_blks, g2.mem, p) = S
    BY <1>10, <1>14, ColdWords DEF SameFrame
  <2> QED
    BY <2>1, <2>2, <2>3 DEF Cold!ReallocMerge
<1>16. TwinHeaps'
  <2>1. Becomes(h2, mem_brk, S)
    BY <1>9 DEF Becomes
  <2> QED
    BY <1>14, <1>15, <2>1, NextTwins
<1>17. SameFrame'
  BY <1>9, <1>10, <1>15 DEF SameFrame, Realloc, Cold!Realloc, Request, Cold!Request
<1> QED
  BY <1>16, <1>17 DEF SameStep

(* mm_realloc extends the heap and takes over the new block.               *)
LEMMA TwinExtendLast ==
  ASSUME JointInv, NEW i \in Ids, NEW size \in Sizes,
         ReallocExtendLast(i, size), Cold!ReallocExtendLast(i, size)
  PROVE  SameStep
<1>1. PICK p : p = ptr[i]
  OBVIOUS
<1>2. PICK need : need = AdjustedSize(size) - Available(p)
  OBVIOUS
<1>3. PICK k : k = GrowSize(need)
  OBVIOUS
<1>4. PICK h : h = CurrentHeap
  OBVIOUS
<1>5. PICK g : g = ColdHeap
  OBVIOUS
<1>6. PICK r : r = extend_heap(h, mem_brk, k)
  OBVIOUS
<1>7. PICK t : t = extend_heap(g, mem_brk, k)
  OBVIOUS
<1>8. PICK h1 : h1 = r.heap
  OBVIOUS
<1>9. PICK g1 : g1 = t.heap
  OBVIOUS
<1>10. PICK S : S = Absorbed(blks \union {mem_brk}, r.heap.mem, r.bp)
  OBVIOUS
<1>11. PICK n : n = Available(p) + k
  OBVIOUS
<1>12. PICK h2 : h2 = TakeOver(h1, p, n)
  OBVIOUS
<1>13. PICK g2 : g2 = TakeOver(g1, p, n)
  OBVIOUS
<1>14. PICK S2 : S2 = Absorbed(S, h2.mem, p)
  OBVIOUS
<1>15. PICK brk : brk = mem_brk + k
  OBVIOUS
<1>16. PICK q : q = r.bp
  OBVIOUS
<1>17. /\ Realloc(i, size) /\ SetHeap(h2) /\ blks' = S2 /\ bp' = p /\ pc' = "ret"
       /\ mem_brk' = SbrkBreak(mem_brk, ToInt(k))
  BY <1>1, <1>2, <1>3, <1>4, <1>6, <1>8, <1>10, <1>11, <1>12, <1>14
  DEF ReallocExtendLast, ReallocExtend
<1>18. SameFrame /\ IInv /\ pc = "idle" /\ p # NULL /\ Up
  BY <1>1, <1>17 DEF JointInv, Realloc, Up
<1>19. Twins(h, g, mem_brk, blks)
  BY <1>4, <1>5, <1>18, TwinSituation
<1>20. /\ MovesBreak(mem_brk, k, brk) /\ mem_brk' = brk
       /\ p \in S /\ p # heap_listp /\ ~IsFree(h1.mem, p)
       /\ q \in S /\ IsFree(h1.mem, q) /\ EndsAt(h1.mem, p, q)
       /\ n = Size(h1.mem, p) + Size(h1.mem, q)
  <2>1. Extending(i, size, p, need, k, brk, r, h1, S, n)
    BY <1>1, <1>2, <1>3, <1>4, <1>6, <1>8, <1>10, <1>11, <1>15 DEF Extending
  <2> QED
    BY <1>16, <1>18, <2>1, ExtendedBehind
<1>21. SameOutcome(r, t, brk, blks \union {mem_brk})
  BY <1>6, <1>7, <1>19, <1>20, TwinGrow
<1>22. /\ Absorbed(blks \union {mem_brk}, t.heap.mem, t.bp) = S
       /\ Twins(h1, g1, brk, S)
  BY <1>8, <1>9, <1>10, <1>21 DEF SameOutcome
<1>23. Absorbed(S, g2.mem, p) = S2 /\ Twins(h2, g2, brk, S2)
  BY <1>12, <1>13, <1>14, <1>20, <1>22, TwinTakeOver
<1>24. /\ Cold!SetHeap(g2) /\ cold_blks' = S2
       /\ cold_bp' = p /\ cold_pc' = "ret" /\ cold_mem_brk' = brk
       /\ Cold!Realloc(i, size)
  <2>1. /\ cold_ptr[i] = p /\ Cold!Available(p) = Available(p)
        /\ Cold!CurrentHeap = g /\ cold_mem_brk = mem_brk /\ cold_blks = blks
    BY <1>1, <1>5, <1>18, SameGuards, ColdHeapIs DEF SameFrame
  <2>2. /\ Cold!AdjustedSize(size) - Cold!Available(p) = need
        /\ Cold!GrowSize(need) = k /\ Cold!Available(p) + k = n
        /\ Cold!SbrkBreak(mem_brk, Cold!ToInt(k)) = brk
    BY <1>2, <1>3, <1>11, <1>17, <1>20, <2>1, ColdNumbers
  <2>3. Cold!extend_heap(g, mem_brk, k) = t /\ Cold!TakeOver(g1, p, n) = g2
    BY <1>7, <1>13, ColdCalls
  <2>4. /\ Cold!Absorbed(blks \union {mem_brk}, t.heap.mem, t.bp) = S
        /\ Cold!Absorbed(S, g2.mem, p) = S2
    BY <1>22, <1>23, ColdWords
  <2> QED
    BY <1>9, <2>1, <2>2, <2>3, <2>4 DEF Cold!ReallocExtendLast, Cold!ReallocExtend
<1>25. TwinHeaps'
  <2>1. Becomes(h2, brk, S2)
    BY <1>17, <1>20 DEF Becomes
  <2> QED
    BY <1>23, <1>24, <2>1, NextTwins
<1>26. SameFrame'
  BY <1>17, <1>18, <1>20, <1>24 DEF SameFrame, Realloc, Cold!Realloc, Request, Cold!Request
<1> QED
  BY <1>25, <1>26 DEF SameStep

-----------------------------------------------------------------------------
(* The invariant, over all steps.                                          *)

LEMMA TwinCall ==
  ASSUME JointInv, NEW i \in Ids, NEW size \in Sizes,
         SoundCall(i, size), Cold!SoundCall(i, size)
  PROVE  SameStep
BY SameCall, TwinQuietCall, TwinMerge, TwinExtendLast

(* A step of the call in progress. *)
LEMMA TwinTurn ==
  ASSUME JointInv, AllocatorStep, Cold!AllocatorStep
  PROVE  SameStep
BY SameTurn, TwinSearch, TwinTakeFit, TwinGrowTurn, TwinMove, TwinReturn

(* Both start with the arena that mem_init has got. *)
LEMMA JointInit ==
  Init /\ Cold!Init => JointInv
<1> SUFFICES ASSUME Init, Cold!Init PROVE JointInv
  OBVIOUS
<1>1. IInv
  BY InitHolds
<1>2. ~Up
  BY DEF Init, ClientInit, Up
<1>3. SameFrame
  BY DEF Init, ClientInit, Cold!Init, Cold!ClientInit, SameFrame,
         NoCall, Cold!NoCall, NULL, Cold!NULL
<1> QED
  BY <1>1, <1>2, <1>3 DEF JointInv

(* Every step of the pair keeps the invariant. *)
LEMMA JointStep ==
  ASSUME JointInv, [BothNext]_bothVars
  PROVE  JointInv'
<1>1. CASE UNCHANGED bothVars
  <2>1. UNCHANGED <<mem, mem_brk, ptr, psize, pc, call, bp, free_lists, new_size,
                    pos, blks>>
    BY <1>1 DEF bothVars, vars, clientVars, allocVars
  <2>2. UNCHANGED <<cold_mem, cold_mem_brk, cold_ptr, cold_psize, cold_pc, cold_call,
                    cold_bp, cold_free_lists, cold_new_size, cold_pos, cold_blks>>
    BY <1>1 DEF bothVars, coldVars
  <2>3. IInv'
    <3>1. UNCHANGED vars
      BY <1>1 DEF bothVars
    <3> QED
      BY <3>1, StepHolds DEF JointInv, Preserved
  <2>4. SameFrame'
    BY <2>1, <2>2 DEF JointInv, SameFrame
  <2>5. Up' => TwinHeaps'
    <3>1. Up' => Up
      BY <2>1 DEF Up
    <3> QED
      BY <2>1, <2>2, <3>1, QuietTwins
  <2> QED
    BY <2>3, <2>4, <2>5 DEF JointInv
<1>2. CASE BothNext
  <2>1. SoundNext
    BY <1>2 DEF BothNext, NewPass, Requested, BothStep, SoundNext
  <2>2. IInv'
    BY <2>1, StepHolds DEF JointInv, Preserved
  <2>3. SameStep
    BY <1>2, TwinInit, TwinCallFree, TwinCall, TwinTurn DEF BothNext, Requested, BothStep
  <2> QED
    BY <2>2, <2>3 DEF JointInv, SameStep
<1> QED
  BY <1>1, <1>2

(* Whatever the earlier passes of the driver have left in memory, and      *)
(* whichever lists and tags mm_init finds there, mm_malloc and mm_realloc  *)
(* return the addresses they would return over memory never used before,   *)
(* search at the same places and extend the heap to the same break, for    *)
(* every sequence of calls without a mm_realloc that extends the heap past *)
(* other blocks (ReallocExtendPast): mm_init rewrites all that place,      *)
(* coalesce, insert_node and find_fit will read.                           *)
THEOREM AnswersAreTheSame == BothSpec => []SameAnswers
<1>1. Init /\ Cold!Init => JointInv
  BY JointInit
<1>2. JointInv /\ [BothNext]_bothVars => JointInv'
  BY JointStep
<1>3. JointInv => SameAnswers
  BY DEF JointInv, SameFrame, SameAnswers
<1> QED
  BY <1>1, <1>2, <1>3, PTL DEF BothSpec
=============================================================================
