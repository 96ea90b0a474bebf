------------------------- MODULE TraceClient_proof --------------------------
(***************************************************************************)
(* What the proofs about both allocators share.                            *)
(*                                                                         *)
(* First the tags.  Everything an allocator does to a heap is to replace   *)
(* the tags of a stretch of blocks, from the start lo of one to the end hi *)
(* of another, by those of one block (free, coalesce, place without a      *)
(* split) or of two (place with one), or to append a block at the break.   *)
(*                                                                         *)
(* Then the client: the sizes that can be asked for, and the payloads that *)
(* are written.                                                            *)
(***************************************************************************)
EXTENDS TraceClient, TLAPS

(* A function of words: the memory, with tags among the values. *)
Memory(m) == DOMAIN m = Addr /\ m = [a \in Addr |-> m[a]]

(* The tags the macros write, for sizes that are multiples of 8. *)
LEMMA PackAligned ==
  ASSUME NEW size \in Nat, size % 8 = 0, NEW alloc \in {0, 1}
  PROVE  /\ PACK(size, alloc) = [size |-> size, alloc |-> alloc]
         /\ PACK(size, alloc) \in Tag
BY DEF PACK, DSIZE, Tag

(* Where the words next to a block lie. *)
LEMMA TagAddresses ==
  ASSUME NEW p \in Int, p % 8 = 0, p >= heap_listp,
         NEW size \in Nat, size % 8 = 0, size >= 8, p + size <= mem_max_addr
  PROVE  p - 4 \in Addr /\ p + size - 8 \in Addr
BY ArenaAssumption DEF Addr, heap_listp, mem_max_addr, WSIZE, DSIZE

(* PutTags writes two words and no other. *)
LEMMA PutTagsWords ==
  ASSUME NEW m, Memory(m),
         NEW p \in Int, p % 8 = 0, p >= heap_listp,
         NEW size \in Nat, size % 8 = 0, size >= 8, p + size <= mem_max_addr,
         NEW alloc \in {0, 1}
  PROVE  /\ Memory(PutTags(m, p, size, alloc))
         /\ \A a \in Addr :
              PutTags(m, p, size, alloc)[a] =
                IF a = p - 4 \/ a = p + size - 8
                THEN [size |-> size, alloc |-> alloc] ELSE m[a]
<1> DEFINE tag == [size |-> size, alloc |-> alloc]
           m1  == PUT(m, HDRP(p), PACK(size, alloc))
<1>1. PACK(size, alloc) = tag
  BY PackAligned
<1>2. p - 4 \in Addr /\ p + size - 8 \in Addr
  BY TagAddresses
<1>3. m1 = [m EXCEPT ![p - 4] = tag]
  BY <1>1 DEF PUT, HDRP, WSIZE
<1>4. m1[p - 4] = tag
  BY <1>2, <1>3 DEF Memory
<1> HIDE DEF m1
<1>5. FTRP(m1, p) = p + size - 8
  BY <1>4 DEF FTRP, GET_SIZE, HDRP, WSIZE, DSIZE
<1>6. PutTags(m, p, size, alloc) = [m1 EXCEPT ![p + size - 8] = tag]
  BY <1>1, <1>5 DEF PutTags, PUT, m1
<1> QED
  BY <1>2, <1>3, <1>6 DEF Memory

(* A block may lie from lo to hi under the break brk. *)
Span(lo, hi, brk) ==
  /\ lo \in Int /\ lo % 8 = 0 /\ lo >= heap_listp
  /\ hi \in Int /\ hi % 8 = 0 /\ lo < hi /\ hi <= brk
  /\ brk \in Int /\ brk <= mem_max_addr

(* Both tags of the block from lo to hi are there. *)
Tagged(m, lo, hi, alloc) ==
  /\ m[lo - 4] = [size |-> hi - lo, alloc |-> alloc]
  /\ m[hi - 8] = [size |-> hi - lo, alloc |-> alloc]

(* From m to m2, those two words have been written and no other. *)
Retagged(m, m2, lo, hi, alloc) ==
  /\ Memory(m2) /\ lo - 4 \in Addr /\ hi - 8 \in Addr
  /\ Tagged(m2, lo, hi, alloc)
  /\ \A a \in Addr : a # lo - 4 /\ a # hi - 8 => m2[a] = m[a]

LEMMA SpanWords ==
  ASSUME NEW m, Memory(m), NEW lo, NEW hi, NEW brk, Span(lo, hi, brk),
         NEW alloc \in {0, 1}
  PROVE  Retagged(m, PutTags(m, lo, hi - lo, alloc), lo, hi, alloc)
<1> DEFINE n == hi - lo
           m2 == PutTags(m, lo, n, alloc)
           tag == [size |-> n, alloc |-> alloc]
<1>1. heap_listp \in Int /\ mem_max_addr \in Int
  BY ArenaAssumption DEF heap_listp, mem_max_addr, WSIZE
<1>2. n \in Nat /\ n % 8 = 0 /\ n >= 8 /\ lo + n = hi
  BY DEF Span
<1>3. lo \in Int /\ lo % 8 = 0 /\ lo >= heap_listp /\ lo + n <= mem_max_addr
  BY <1>1, <1>2 DEF Span
<1>4. lo + n - 8 = hi - 8
  BY <1>2, <1>3
<1> HIDE DEF n, m2
<1>5. lo - 4 \in Addr /\ lo + n - 8 \in Addr
  BY <1>2, <1>3, TagAddresses
<1>6. /\ Memory(m2)
      /\ \A a \in Addr : m2[a] = IF a = lo - 4 \/ a = lo + n - 8
                                 THEN tag ELSE m[a]
  BY <1>2, <1>3, PutTagsWords DEF m2
<1>7. Tagged(m2, lo, hi, alloc)
  BY <1>4, <1>5, <1>6 DEF Tagged, n
<1>8. \A a \in Addr : a # lo - 4 /\ a # hi - 8 => m2[a] = m[a]
  BY <1>4, <1>6
<1>9. Retagged(m, m2, lo, hi, alloc)
  BY <1>4, <1>5, <1>6, <1>7, <1>8 DEF Retagged
<1> QED
  BY <1>9 DEF m2, n

-----------------------------------------------------------------------------
(* What Tiled says of one block, with the addresses of its tags. *)
LEMMA BlockFacts ==
  ASSUME NEW m, NEW brk, NEW S, Tiled(m, brk, S), NEW b \in S
  PROVE  /\ b \in Int /\ b >= heap_listp /\ b % 8 = 0
         /\ Size(m, b) \in Nat /\ Size(m, b) >= 8 /\ Size(m, b) % 8 = 0
         /\ b + Size(m, b) <= brk
         /\ b - 4 \in Addr /\ b + Size(m, b) - 8 \in Addr
         /\ m[b - 4] \in Tag /\ m[b - 4].size = Size(m, b)
         /\ m[b + Size(m, b) - 8] = m[b - 4]
<1>1. BlockOK(m, brk, b) /\ brk \in heap_listp .. mem_max_addr
  BY DEF Tiled
<1>2. heap_listp \in Int /\ mem_max_addr \in Int
  BY ArenaAssumption DEF heap_listp, mem_max_addr, WSIZE
<1>3. /\ b \in Int /\ b >= heap_listp /\ b % 8 = 0 /\ b + Size(m, b) <= brk
      /\ m[b - 4] \in Tag /\ m[b - 4].size = Size(m, b)
      /\ m[b + Size(m, b) - 8] = m[b - 4]
  BY <1>1, <1>2 DEF BlockOK, Size, GET_SIZE, HDRP, WSIZE, DSIZE
<1>4. Size(m, b) \in Nat /\ Size(m, b) >= 8 /\ Size(m, b) % 8 = 0
  BY <1>1, <1>3 DEF BlockOK, Tag, DSIZE
<1>5. b - 4 \in Addr /\ b + Size(m, b) - 8 \in Addr
  <2>1. b + Size(m, b) <= mem_max_addr
    BY <1>1, <1>2, <1>3, <1>4
  <2> QED
    BY <1>3, <1>4, <2>1, TagAddresses
<1> QED
  BY <1>3, <1>4, <1>5

(* The headers of the blocks in B are the same. *)
SameTags(m, m2, B) ==
  \A b \in B : m2[b - 4] = m[b - 4] /\ Size(m2, b) = Size(m, b)

(* The blocks that lie outside the stretch from lo to hi, and those left   *)
(* when the ones inside have become one block.                             *)
Outside(S, lo, hi) == {c \in S : c < lo \/ c >= hi}
Merged(S, lo, hi)  == {c \in S : ~(lo < c /\ c < hi)}

(* The block lo ends at hi. *)
EndsAt(m, lo, hi) == hi = lo + Size(m, lo)

(* The words that hold no tag of the stretch from lo to hi are the same. *)
SameOutside(m, m2, lo, hi) ==
  \A a \in Addr : (a < lo - 4 \/ a >= hi - 4) => m2[a] = m[a]

(* The blocks N fill the stretch from lo to hi. *)
Fills(m, brk, N, lo, hi) ==
  /\ lo \in N
  /\ \A n \in N : /\ BlockOK(m, brk, n)
                  /\ n >= lo /\ n + Size(m, n) <= hi
                  /\ n + Size(m, n) \in N \union {hi}
  /\ \A n, k \in N : n < k => n + Size(m, n) <= k
  /\ \A k \in (N \union {hi}) \ {lo} : \E n \in N : n + Size(m, n) = k

(* Replacing a stretch of blocks by others that fill it leaves the heap    *)
(* tiled: no block outside the stretch notices.                            *)
LEMMA Retile ==
  ASSUME NEW m, NEW m2, NEW brk, NEW S, Tiled(m, brk, S),
         NEW lo \in S, lo # heap_listp, NEW hi \in S \union {brk}, lo < hi,
         SameOutside(m, m2, lo, hi),
         NEW N, Fills(m2, brk, N, lo, hi)
  PROVE  /\ Tiled(m2, brk, Outside(S, lo, hi) \union N)
         /\ SameTags(m, m2, Outside(S, lo, hi))
<1> DEFINE Out == {c \in S : c < lo \/ c >= hi}
           S2  == Out \union N
<1>1. /\ \A b \in S : b + Size(m, b) \in S \union {brk}
      /\ \A b, c \in S : b < c => b + Size(m, b) <= c
      /\ \A c \in (S \union {brk}) \ {heap_listp} :
            \E b \in S : b + Size(m, b) = c
      /\ heap_listp \in S /\ m[heap_listp - 4] = [size |-> 8, alloc |-> 1]
      /\ m[brk - 4] = [size |-> 0, alloc |-> 1]
      /\ brk \in heap_listp .. mem_max_addr /\ brk % 8 = 0
  BY DEF Tiled, HDRP, WSIZE, DSIZE
<1>2. heap_listp \in Int /\ mem_max_addr \in Int /\ brk \in Int
  BY <1>1, ArenaAssumption DEF heap_listp, mem_max_addr, WSIZE
<1>3. /\ lo \in Int /\ hi \in Int /\ hi <= brk /\ heap_listp < lo
      /\ \A b \in S : b \in Int /\ b + Size(m, b) <= brk /\ b < brk
                      /\ Size(m, b) \in Nat /\ Size(m, b) >= 8
      /\ \A n \in N : n \in Int /\ n < hi /\ Size(m2, n) >= 8
                      /\ Size(m2, n) \in Int
  <2>1. \A b \in S : b \in Int /\ b + Size(m, b) <= brk /\ b < brk
                     /\ Size(m, b) \in Nat /\ Size(m, b) >= 8
                     /\ b >= heap_listp
    BY <1>2, BlockFacts
  <2>2. \A n \in N : n \in Int /\ Size(m2, n) \in Int /\ Size(m2, n) >= 8
    BY <1>2 DEF Fills, BlockOK, Tag, Size, GET_SIZE, DSIZE
  <2> QED
    BY <1>2, <2>1, <2>2 DEF Fills
<1>4. \A b \in Out : /\ m2[b - 4] = m[b - 4] /\ Size(m2, b) = Size(m, b)
                     /\ BlockOK(m2, brk, b)
  <2> SUFFICES ASSUME NEW b \in Out
               PROVE  /\ m2[b - 4] = m[b - 4] /\ Size(m2, b) = Size(m, b)
                      /\ BlockOK(m2, brk, b)
    OBVIOUS
  <2>1. b - 4 \in Addr /\ b + Size(m, b) - 8 \in Addr /\ BlockOK(m, brk, b)
    BY BlockFacts DEF Tiled
  <2>2. b < lo => b + Size(m, b) <= lo
    BY <1>1
  <2>3. m2[b - 4] = m[b - 4]
    BY <1>3, <2>1 DEF SameOutside
  <2>4. m2[b + Size(m, b) - 8] = m[b + Size(m, b) - 8]
    BY <1>3, <2>1, <2>2 DEF SameOutside
  <2>5. Size(m2, b) = Size(m, b)
    BY <2>3 DEF Size, GET_SIZE, HDRP, WSIZE
  <2> QED
    BY <2>1, <2>3, <2>4, <2>5 DEF BlockOK, HDRP, WSIZE, DSIZE
<1>5. \A b \in S2 : BlockOK(m2, brk, b)
  BY <1>4 DEF Fills
<1>6. \A b \in S2 : b + Size(m2, b) \in S2 \union {brk}
  <2>1. \A b \in N : b + Size(m2, b) \in S2 \union {brk}
    BY <1>3 DEF Fills
  <2>2. \A b \in Out : b + Size(m, b) \in S2 \union {brk}
    <3> SUFFICES ASSUME NEW b \in Out
                 PROVE  b + Size(m, b) \in S2 \union {brk}
      OBVIOUS
    <3>1. b + Size(m, b) \in S \union {brk}
      BY <1>1
    <3>2. CASE b < lo
      <4>1. b + Size(m, b) <= lo
        BY <1>1, <3>2
      <4> QED
        BY <1>3, <3>1, <4>1 DEF Fills
    <3>3. CASE b >= hi
      BY <1>3, <3>1, <3>3
    <3> QED
      BY <1>3, <3>2, <3>3
  <2> QED
    BY <1>4, <2>1, <2>2
<1>7. \A b, c \in S2 : b < c => b + Size(m2, b) <= c
  <2>1. \A b \in N, c \in Out : b < c => b + Size(m2, b) <= c
    BY <1>3 DEF Fills
  <2>2. \A b \in Out, c \in N : b < c => b + Size(m2, b) <= c
    BY <1>1, <1>3, <1>4 DEF Fills
  <2> QED
    BY <1>1, <1>4, <2>1, <2>2 DEF Fills
<1>8. \A c \in (S2 \union {brk}) \ {heap_listp} :
         \E b \in S2 : b + Size(m2, b) = c
  <2> SUFFICES ASSUME NEW c \in (S2 \union {brk}) \ {heap_listp}
               PROVE  \E b \in S2 : b + Size(m2, b) = c
    OBVIOUS
  <2>1. CASE c \in (N \union {hi}) \ {lo}
    BY <2>1 DEF Fills
  <2>2. CASE c \in S \union {brk} /\ (c <= lo \/ c > hi)
    <3>1. PICK b \in S : b + Size(m, b) = c
      BY <1>1, <2>2
    <3>2. b < c
      BY <1>3, <3>1
    <3>3. (c > hi /\ b < hi) => b + Size(m, b) <= hi
      BY <1>1, <1>3, <2>2
    <3>4. b \in Out
      BY <1>3, <2>2, <3>1, <3>2, <3>3
    <3> QED
      BY <1>4, <3>1, <3>4
  <2> QED
    BY <1>3, <2>1, <2>2
<1>9. heap_listp \in S2 /\ m2[heap_listp - 4] = [size |-> 8, alloc |-> 1]
  BY <1>1, <1>3, <1>4
<1>10. m2[brk - 4] = [size |-> 0, alloc |-> 1]
  <2>1. brk - 4 \in Addr
    <3>1. brk >= heap_listp /\ brk <= mem_max_addr /\ brk % 8 = 0
      BY <1>1, <1>2
    <3> QED
      BY <1>2, <3>1, ArenaAssumption
      DEF Addr, heap_listp, mem_max_addr, WSIZE, DSIZE
  <2> QED
    BY <1>1, <1>3, <2>1 DEF SameOutside
<1>11. SameTags(m, m2, Out)
  BY <1>4 DEF SameTags
<1>12. Tiled(m2, brk, S2)
  <2> HIDE DEF S2
  <2> QED
    BY <1>1, <1>5, <1>6, <1>7, <1>8, <1>9, <1>10
    DEF Tiled, HDRP, WSIZE, DSIZE
<1> QED
  BY <1>11, <1>12 DEF Outside

(* The parts of Tiled that are not about one block. *)
LEMMA HeapFacts ==
  ASSUME NEW m, NEW brk, NEW S, Tiled(m, brk, S)
  PROVE  /\ heap_listp \in Int /\ heap_listp % 8 = 0 /\ heap_listp \in S
         /\ mem_max_addr \in Int
         /\ brk \in Int /\ brk % 8 = 0 /\ brk <= mem_max_addr
         /\ heap_listp + 8 <= brk /\ brk - 4 \in Addr /\ brk \notin S
         /\ m[heap_listp - 4] = [size |-> 8, alloc |-> 1]
         /\ m[brk - 4] = [size |-> 0, alloc |-> 1]
         /\ Size(m, heap_listp) = 8
<1>1. /\ heap_listp \in S /\ brk \in heap_listp .. mem_max_addr /\ brk % 8 = 0
      /\ m[heap_listp - 4] = [size |-> 8, alloc |-> 1]
      /\ m[brk - 4] = [size |-> 0, alloc |-> 1]
  BY DEF Tiled, HDRP, WSIZE, DSIZE
<1>2. heap_listp \in Int /\ mem_max_addr \in Int /\ heap_listp % 8 = 0
  BY ArenaAssumption DEF heap_listp, mem_max_addr, WSIZE, DSIZE
<1>3. Size(m, heap_listp) = 8
  BY <1>1 DEF Size, GET_SIZE, HDRP, WSIZE
<1>4. heap_listp + 8 <= brk
  BY <1>1, <1>3, BlockFacts
<1>5. brk - 4 \in Addr
  BY <1>1, <1>2, <1>4, ArenaAssumption
  DEF Addr, heap_listp, mem_max_addr, WSIZE, DSIZE
<1>6. brk \notin S
  BY <1>1, <1>2, BlockFacts
<1> QED
  BY <1>1, <1>2, <1>3, <1>4, <1>5, <1>6

(* Both together. *)
Shape(m, brk, S) ==
  /\ heap_listp \in Int /\ heap_listp % 8 = 0 /\ heap_listp \in S
  /\ mem_max_addr \in Int
  /\ brk \in Int /\ brk % 8 = 0 /\ brk <= mem_max_addr
  /\ heap_listp + 8 <= brk /\ brk - 4 \in Addr /\ brk \notin S
  /\ \A b \in S :
       /\ b \in Int /\ b >= heap_listp /\ b % 8 = 0
       /\ Size(m, b) \in Nat /\ Size(m, b) >= 8 /\ Size(m, b) % 8 = 0
       /\ b + Size(m, b) <= brk
       /\ b - 4 \in Addr /\ b + Size(m, b) - 8 \in Addr
       /\ m[b - 4] \in Tag /\ m[b - 4].size = Size(m, b)
       /\ m[b + Size(m, b) - 8] = m[b - 4]

LEMMA TiledShape ==
  ASSUME NEW m, NEW brk, NEW S, Tiled(m, brk, S)
  PROVE  Shape(m, brk, S)
<1>1. \A b \in S :
        /\ b \in Int /\ b >= heap_listp /\ b % 8 = 0
        /\ Size(m, b) \in Nat /\ Size(m, b) >= 8 /\ Size(m, b) % 8 = 0
        /\ b + Size(m, b) <= brk
        /\ b - 4 \in Addr /\ b + Size(m, b) - 8 \in Addr
        /\ m[b - 4] \in Tag /\ m[b - 4].size = Size(m, b)
        /\ m[b + Size(m, b) - 8] = m[b - 4]
  BY BlockFacts
<1>2. /\ heap_listp \in Int /\ heap_listp % 8 = 0 /\ heap_listp \in S
      /\ mem_max_addr \in Int
      /\ brk \in Int /\ brk % 8 = 0 /\ brk <= mem_max_addr
      /\ heap_listp + 8 <= brk /\ brk - 4 \in Addr /\ brk \notin S
  BY HeapFacts
<1> QED
  BY <1>1, <1>2 DEF Shape

(* A block made of two equal tags is well formed. *)
LEMMA BlockFromTags ==
  ASSUME NEW m, NEW lo, NEW hi, NEW brk, Span(lo, hi, brk),
         NEW alloc \in {0, 1}, Tagged(m, lo, hi, alloc)
  PROVE  BlockOK(m, brk, lo) /\ Size(m, lo) = hi - lo
<1>1. Size(m, lo) = hi - lo
  BY DEF Size, GET_SIZE, HDRP, WSIZE, Tagged
<1>2. heap_listp \in Int
  BY ArenaAssumption DEF heap_listp, WSIZE
<1>3. /\ hi - lo \in Nat /\ (hi - lo) % 8 = 0 /\ hi - lo >= 8
      /\ lo + (hi - lo) = hi
  BY DEF Span
<1>4. m[lo - 4] \in Tag
  BY <1>3 DEF Tag, Tagged
<1> QED
  BY <1>1, <1>2, <1>3, <1>4 DEF BlockOK, HDRP, WSIZE, DSIZE, Span, Tagged

(* Where a block and the one it ends at lie. *)
LEMMA Bounds ==
  ASSUME NEW m, NEW brk, NEW S, Tiled(m, brk, S)
  PROVE  /\ \A lo \in S : lo \in Int /\ lo < brk
         /\ \A lo \in S, hi \in S \union {brk} : lo < hi => Span(lo, hi, brk)
         /\ heap_listp \in Int /\ brk \in Int
<1>1. Shape(m, brk, S)
  BY TiledShape
<1> QED
  BY <1>1 DEF Shape, Span

(* The blocks from lo to hi are made one: mm_free, coalesce, place. *)
LEMMA OneTile ==
  ASSUME NEW m, Memory(m), NEW brk, NEW S, Tiled(m, brk, S),
         NEW lo \in S, lo # heap_listp, NEW hi \in S \union {brk}, lo < hi,
         NEW alloc \in {0, 1}
  PROVE  LET m2 == PutTags(m, lo, hi - lo, alloc)
             S2 == Merged(S, lo, hi)
         IN  /\ Tiled(m2, brk, S2) /\ lo \in S2
             /\ Retagged(m, m2, lo, hi, alloc) /\ Size(m2, lo) = hi - lo
             /\ SameTags(m, m2, S2 \ {lo})
<1> DEFINE m2 == PutTags(m, lo, hi - lo, alloc)
           S2 == Merged(S, lo, hi)
           Out == Outside(S, lo, hi)
<1>1. Span(lo, hi, brk) /\ \A c \in S : c \in Int
  BY Bounds
<1>2. Retagged(m, m2, lo, hi, alloc)
  BY <1>1, SpanWords
<1>3. S2 = Out \union {lo} /\ S2 \ {lo} = Out /\ lo \in S2
  <2>1. \A c \in S : ~(lo < c /\ c < hi) <=> (c < lo \/ c >= hi \/ c = lo)
    BY <1>1 DEF Span
  <2>2. lo \notin Out /\ lo \in S2
    BY <1>1 DEF Span, Outside, Merged
  <2>3. S2 = Out \union {lo}
    BY <2>1 DEF Outside, Merged
  <2> QED
    BY <2>2, <2>3 DEF Merged, Outside
<1> HIDE DEF m2, S2
<1>4. BlockOK(m2, brk, lo) /\ Size(m2, lo) = hi - lo
  BY <1>1, <1>2, BlockFromTags DEF Retagged
<1>5. Fills(m2, brk, {lo}, lo, hi)
  BY <1>1, <1>4 DEF Fills, Span
<1>6. SameOutside(m, m2, lo, hi)
  <2>1. \A a \in Addr : a \in Int
    BY ArenaAssumption DEF Addr, mem_max_addr
  <2> QED
    BY <1>1, <1>2, <2>1 DEF SameOutside, Retagged, Span
<1>7. Tiled(m2, brk, Out \union {lo}) /\ SameTags(m, m2, Out)
  BY <1>5, <1>6, Retile
<1>8. /\ Tiled(m2, brk, S2) /\ lo \in S2
      /\ Retagged(m, m2, lo, hi, alloc) /\ Size(m2, lo) = hi - lo
      /\ SameTags(m, m2, S2 \ {lo})
  BY <1>2, <1>3, <1>4, <1>7
<1> QED
  BY <1>8 DEF m2, S2

(* A boundary between two blocks may lie at mid. *)
Inside(mid, lo, hi) ==
  mid \in Int /\ mid % 8 = 0 /\ lo < mid /\ mid < hi

(* The block from lo to hi is split at mid: place. *)
Resplit(m, m2, brk, S, lo, mid, hi, alloc, alloc2) ==
  /\ Memory(m2) /\ Tiled(m2, brk, S \union {mid}) /\ mid \notin S
  /\ Tagged(m2, lo, mid, alloc) /\ Tagged(m2, mid, hi, alloc2)
  /\ Size(m2, lo) = mid - lo /\ Size(m2, mid) = hi - mid
  /\ SameTags(m, m2, S \ {lo})
  /\ \A a \in Addr : a \notin {lo - 4, mid - 8, mid - 4, hi - 8} => m2[a] = m[a]

LEMMA TwoTiles ==
  ASSUME NEW m, Memory(m), NEW brk, NEW S, Tiled(m, brk, S),
         NEW lo \in S, lo # heap_listp,
         NEW hi, EndsAt(m, lo, hi),
         NEW mid, Inside(mid, lo, hi),
         NEW alloc \in {0, 1}, NEW alloc2 \in {0, 1}
  PROVE  Resplit(m, PutTags(PutTags(m, lo, mid - lo, alloc),
                            mid, hi - mid, alloc2),
                 brk, S, lo, mid, hi, alloc, alloc2)
<1> DEFINE m1 == PutTags(m, lo, mid - lo, alloc)
           m2 == PutTags(m1, mid, hi - mid, alloc2)
           Out == Outside(S, lo, hi)
<1>0. mid \in Int /\ mid % 8 = 0 /\ lo < mid /\ mid < hi
  BY DEF Inside
<1>1. hi \in S \union {brk} /\ \A b, c \in S : b < c => b + Size(m, b) <= c
  BY DEF Tiled, EndsAt
<1>2. \A c \in S : c \in Int
  BY Bounds
<1>3. lo \in Int /\ hi \in Int /\ lo < hi /\ Span(lo, hi, brk)
  <2>1. Size(m, lo) \in Nat /\ Size(m, lo) >= 8
    BY BlockFacts
  <2>2. lo \in Int /\ lo < hi
    BY <1>2, <2>1 DEF EndsAt
  <2> QED
    BY <1>1, <2>2, Bounds DEF Span
<1>4. Span(lo, mid, brk) /\ Span(mid, hi, brk)
  <2>1. heap_listp \in Int
    BY Bounds
  <2> QED
    BY <1>0, <1>3, <2>1 DEF Span
<1>5. Retagged(m, m1, lo, mid, alloc)
  BY <1>4, SpanWords
<1> HIDE DEF m1
<1>6. Retagged(m1, m2, mid, hi, alloc2)
  <2>1. Memory(m1)
    BY <1>5 DEF Retagged
  <2> QED
    BY <1>4, <2>1, SpanWords
<1> HIDE DEF m2
<1>7. Tagged(m2, lo, mid, alloc)
  <2>1. lo - 4 # mid - 4 /\ lo - 4 # hi - 8 /\ mid - 8 # mid - 4
        /\ mid - 8 # hi - 8
    BY <1>0, <1>3, <1>4 DEF Span
  <2>2. m2[lo - 4] = m1[lo - 4] /\ m2[mid - 8] = m1[mid - 8]
    BY <1>5, <1>6, <2>1 DEF Retagged
  <2> QED
    BY <1>5, <2>2 DEF Retagged, Tagged
<1>8. BlockOK(m2, brk, lo) /\ Size(m2, lo) = mid - lo
  BY <1>4, <1>7, BlockFromTags
<1>9. BlockOK(m2, brk, mid) /\ Size(m2, mid) = hi - mid
  BY <1>4, <1>6, BlockFromTags DEF Retagged
<1>10. Fills(m2, brk, {lo, mid}, lo, hi)
  BY <1>0, <1>3, <1>8, <1>9 DEF Fills
<1>11. SameOutside(m, m2, lo, hi)
  <2>1. \A a \in Addr : a \in Int
    BY ArenaAssumption DEF Addr, mem_max_addr
  <2>2. \A a \in Addr : (a < lo - 4 \/ a >= hi - 4) =>
           a # lo - 4 /\ a # mid - 8 /\ a # mid - 4 /\ a # hi - 8
    BY <1>0, <1>3, <1>4, <2>1 DEF Span
  <2> QED
    BY <1>5, <1>6, <2>2 DEF SameOutside, Retagged
<1>12. \A c \in S : c <= lo \/ c >= hi
  BY <1>1, <1>2, <1>3 DEF EndsAt
<1>13. S \union {mid} = Out \union {lo, mid} /\ S \ {lo} = Out
  <2>1. \A c \in S : c < lo \/ c >= hi <=> c # lo
    BY <1>2, <1>3, <1>12
  <2> QED
    BY <2>1 DEF Outside
<1>14. Tiled(m2, brk, Out \union {lo, mid}) /\ SameTags(m, m2, Out)
  <2> DEFINE N == {lo, mid}
  <2>1. hi \in S \union {brk} /\ lo < hi
    BY <1>1, <1>3
  <2>2. Fills(m2, brk, N, lo, hi)
    BY <1>10
  <2> HIDE DEF N
  <2>3. Tiled(m2, brk, Out \union N) /\ SameTags(m, m2, Out)
    BY <1>11, <2>1, <2>2, Retile
  <2> QED
    BY <2>3 DEF N
<1>15. mid \notin S
  BY <1>0, <1>3, <1>12
<1>16. Resplit(m, m2, brk, S, lo, mid, hi, alloc, alloc2)
  BY <1>5, <1>6, <1>7, <1>8, <1>9, <1>13, <1>14, <1>15 DEF Resplit, Retagged
<1> QED
  BY <1>16 DEF m1, m2

(* A free block is appended at the break: extend_heap. *)
LEMMA Append ==
  ASSUME NEW m, Memory(m), NEW brk, NEW S, Tiled(m, brk, S),
         NEW size \in Nat, size % 8 = 0, size >= 8,
         NEW brk2, brk2 = brk + size, brk2 <= mem_max_addr
  PROVE  LET m2 == ExtendTags(m, brk, size)
         IN  /\ Memory(m2) /\ Tiled(m2, brk2, S \union {brk})
             /\ Tagged(m2, brk, brk2, 0) /\ Size(m2, brk) = size
             /\ SameTags(m, m2, S)
             /\ \A a \in Addr : a \notin {brk - 4, brk2 - 8, brk2 - 4}
                                  => m2[a] = m[a]
<1> DEFINE m1 == PutTags(m, brk, size, 0)
           m2 == ExtendTags(m, brk, size)
           S2 == S \union {brk}
           epi == [size |-> 0, alloc |-> 1]
<1>1. /\ brk \in Int /\ brk % 8 = 0 /\ brk >= heap_listp + 8 /\ brk \notin S
      /\ heap_listp \in Int /\ mem_max_addr \in Int /\ heap_listp \in S
      /\ m[heap_listp - 4] = [size |-> 8, alloc |-> 1]
      /\ heap_listp % 8 = 0
  BY HeapFacts
<1>2. /\ brk2 \in Int /\ brk2 - brk = size /\ brk + 8 <= brk2
      /\ brk2 % 8 = 0
  BY <1>1
<1>3. Span(brk, brk2, brk2)
  BY <1>1, <1>2 DEF Span
<1>4. Retagged(m, m1, brk, brk2, 0)
  BY <1>2, <1>3, SpanWords
<1>5. brk2 - 4 \in Addr
  BY <1>1, <1>2, ArenaAssumption DEF Addr, heap_listp, mem_max_addr, WSIZE, DSIZE
<1> HIDE DEF m1
<1>6. NEXT_BLKP(m1, brk) = brk2
  BY <1>1, <1>2, <1>4 DEF NEXT_BLKP, GET_SIZE, WSIZE, Retagged, Tagged
<1>7. PACK(0, 1) = epi
  BY PackAligned
<1>8. m2 = [m1 EXCEPT ![brk2 - 4] = epi]
  BY <1>6, <1>7 DEF ExtendTags, PUT, HDRP, WSIZE, m1
<1> HIDE DEF m2
<1>9. Memory(m2) /\ m2[brk2 - 4] = epi
  BY <1>4, <1>5, <1>8 DEF Memory, Retagged
<1>10. \A a \in Addr : a \notin {brk - 4, brk2 - 8, brk2 - 4} => m2[a] = m[a]
  BY <1>4, <1>8 DEF Memory, Retagged
<1>11. Tagged(m2, brk, brk2, 0)
  <2>1. brk2 - 4 # brk - 4 /\ brk2 - 4 # brk2 - 8
    BY <1>1, <1>2
  <2>2. m2[brk - 4] = m1[brk - 4] /\ m2[brk2 - 8] = m1[brk2 - 8]
    BY <1>4, <1>8, <2>1 DEF Retagged, Memory
  <2> QED
    BY <1>4, <2>2 DEF Retagged, Tagged
<1>12. BlockOK(m2, brk2, brk) /\ Size(m2, brk) = size
  BY <1>2, <1>3, <1>11, BlockFromTags
<1>13. \A b \in S : /\ m2[b - 4] = m[b - 4] /\ Size(m2, b) = Size(m, b)
                    /\ BlockOK(m2, brk2, b)
  <2> SUFFICES ASSUME NEW b \in S
               PROVE  /\ m2[b - 4] = m[b - 4] /\ Size(m2, b) = Size(m, b)
                      /\ BlockOK(m2, brk2, b)
    OBVIOUS
  <2>1. BlockOK(m, brk, b)
    BY DEF Tiled
  <2>2. /\ b \in Int /\ Size(m, b) \in Nat /\ Size(m, b) >= 8
        /\ b + Size(m, b) <= brk
        /\ b - 4 \in Addr /\ b + Size(m, b) - 8 \in Addr
    BY BlockFacts
  <2>3. m2[b - 4] = m[b - 4]
    <3>1. b - 4 # brk - 4 /\ b - 4 # brk2 - 8 /\ b - 4 # brk2 - 4
      BY <1>1, <1>2, <2>2
    <3> QED
      BY <1>10, <2>2, <3>1
  <2>4. m2[b + Size(m, b) - 8] = m[b + Size(m, b) - 8]
    <3>1. /\ b + Size(m, b) - 8 # brk - 4 /\ b + Size(m, b) - 8 # brk2 - 8
          /\ b + Size(m, b) - 8 # brk2 - 4
      BY <1>1, <1>2, <2>2
    <3> QED
      BY <1>10, <2>2, <3>1
  <2>5. Size(m2, b) = Size(m, b)
    BY <2>3 DEF Size, GET_SIZE, HDRP, WSIZE
  <2>6. /\ b \in heap_listp .. brk2 - 8 /\ b + Size(m, b) <= brk2
        /\ b % 8 = 0
    <3>1. b \in heap_listp .. brk - 8 /\ b % 8 = 0
      BY <2>1 DEF BlockOK, DSIZE
    <3> QED
      BY <1>1, <1>2, <2>2, <3>1
  <2> QED
    BY <2>1, <2>3, <2>4, <2>5, <2>6 DEF BlockOK, HDRP, WSIZE, DSIZE
<1>14. \A b \in S2 : b + Size(m2, b) \in S2 \union {brk2}
  <2>1. \A b \in S : b + Size(m2, b) \in S \union {brk}
    BY <1>13 DEF Tiled
  <2>2. brk + Size(m2, brk) = brk2
    BY <1>12
  <2> QED
    BY <2>1, <2>2
<1>15. \A b, c \in S2 : b < c => b + Size(m2, b) <= c
  <2>1. \A b \in S : b \in Int /\ b < brk /\ b + Size(m, b) <= brk
    <3>1. Shape(m, brk, S)
      BY TiledShape
    <3> QED
      BY <3>1 DEF Shape
  <2>2. \A b, c \in S : b < c => b + Size(m2, b) <= c
    BY <1>13 DEF Tiled
  <2>3. \A b \in S : b + Size(m2, b) <= brk
    BY <1>13, <2>1
  <2>4. \A c \in S2 : ~(brk < c)
    BY <1>1, <2>1
  <2> QED
    BY <2>2, <2>3, <2>4
<1>16. \A c \in (S2 \union {brk2}) \ {heap_listp} :
          \E b \in S2 : b + Size(m2, b) = c
  <2>1. \A c \in (S \union {brk}) \ {heap_listp} :
           \E b \in S : b + Size(m, b) = c
    BY DEF Tiled
  <2>2. brk + Size(m2, brk) = brk2
    BY <1>1, <1>2, <1>12
  <2> QED
    BY <1>13, <2>1, <2>2
<1>17. m2[heap_listp - 4] = [size |-> 8, alloc |-> 1]
  BY <1>1, <1>13
<1>18. brk2 \in heap_listp .. mem_max_addr /\ brk2 % 8 = 0
  BY <1>1, <1>2
<1>19. Tiled(m2, brk2, S2)
  <2>1. \A b \in S2 : BlockOK(m2, brk2, b)
    BY <1>12, <1>13
  <2>2. heap_listp \in S2
    BY <1>1
  <2> HIDE DEF S2
  <2> QED
    BY <2>1, <2>2, <1>9, <1>14, <1>15, <1>16, <1>17, <1>18
    DEF Tiled, HDRP, WSIZE, DSIZE
<1>20. SameTags(m, m2, S)
  BY <1>13 DEF SameTags
<1>21. /\ Memory(m2) /\ Tiled(m2, brk2, S \union {brk})
       /\ Tagged(m2, brk, brk2, 0) /\ Size(m2, brk) = size
       /\ SameTags(m, m2, S)
       /\ \A a \in Addr : a \notin {brk - 4, brk2 - 8, brk2 - 4}
                            => m2[a] = m[a]
  BY <1>9, <1>10, <1>11, <1>12, <1>19, <1>20
<1> QED
  BY <1>21 DEF m2

-----------------------------------------------------------------------------
(* What the allocators' operations do to a heap.                           *)

Heap(m, brk, S) == Memory(m) /\ Tiled(m, brk, S) /\ MinimumSize(m, S)

(* Every word of m2 is a word of m or a tag. *)
OnlyTagsNew(m, m2) == \A a \in Addr : m2[a] = m[a] \/ m2[a] \in Tag

(* The neighbours of the block b, as coalesce finds them. *)
LEMMA Neighbours ==
  ASSUME NEW m, NEW brk, NEW S, Tiled(m, brk, S),
         NEW b \in S, b # heap_listp
  PROVE  /\ NEXT_BLKP(m, b) = b + Size(m, b)
         /\ NEXT_BLKP(m, b) \in S \union {brk}
         /\ \E q \in S : /\ PREV_BLKP(m, b) = q /\ q + Size(m, q) = b
                        /\ GET_ALLOC(m, FTRP(m, q)) = m[q - 4].alloc
<1>1. NEXT_BLKP(m, b) = b + Size(m, b) /\ b + Size(m, b) \in S \union {brk}
  BY DEF NEXT_BLKP, Size, HDRP, Tiled
<1>2. PICK q \in S : q + Size(m, q) = b
  BY DEF Tiled
<1>3. /\ q \in Int /\ Size(m, q) \in Nat
      /\ m[q - 4].size = Size(m, q) /\ m[q + Size(m, q) - 8] = m[q - 4]
  BY BlockFacts
<1>4. m[b - 8] = m[q - 4]
  BY <1>2, <1>3
<1>5. PREV_BLKP(m, b) = q
  BY <1>2, <1>3, <1>4 DEF PREV_BLKP, GET_SIZE, DSIZE
<1>6. FTRP(m, q) = q + Size(m, q) - 8
  BY DEF FTRP, Size, DSIZE
<1>7. GET_ALLOC(m, FTRP(m, q)) = m[q - 4].alloc
  BY <1>3, <1>6 DEF GET_ALLOC
<1> QED
  BY <1>1, <1>2, <1>5, <1>7

(* coalesce's merges retag the stretch they cover, whichever of the blocks *)
(* their tags were computed from, and find its start again.                *)
LEMMA MergeNextRetags ==
  ASSUME NEW m, NEW brk, NEW S, Tiled(m, brk, S),
         NEW b \in S, NEW n \in S, EndsAt(m, b, n),
         NEW hi, EndsAt(m, n, hi)
  PROVE  MergeNext(m, b) = PutTags(m, b, hi - b, 0)
<1> USE DEF EndsAt
<1>1. b \in Int /\ Size(m, b) \in Nat /\ Size(m, n) \in Nat
  BY BlockFacts
<1>2. NEXT_BLKP(m, b) = n
  BY DEF NEXT_BLKP, Size, HDRP
<1>3. hi - b = Size(m, b) + Size(m, n)
  BY <1>1
<1> QED
  BY <1>2, <1>3 DEF MergeNext, Size

LEMMA MergePrevRetags ==
  ASSUME NEW m, Memory(m), NEW brk, NEW S, Tiled(m, brk, S),
         NEW b \in S, NEW q \in S, EndsAt(m, q, b), PREV_BLKP(m, b) = q,
         NEW hi, EndsAt(m, b, hi)
  PROVE  /\ MergePrev(m, b) = PutTags(m, q, hi - q, 0)
         /\ PREV_BLKP(MergePrev(m, b), b) = q
<1> DEFINE tag == PACK(Size(m, b) + Size(m, q), 0)
           m1  == PUT(m, q - 4, tag)
<1> USE DEF EndsAt
<1>1. /\ q \in Int /\ b \in Int /\ hi \in Int
      /\ Size(m, b) \in Nat /\ Size(m, b) >= 8 /\ Size(m, b) % 8 = 0
      /\ Size(m, q) \in Nat /\ Size(m, q) >= 8 /\ Size(m, q) % 8 = 0
  BY BlockFacts
<1>2. /\ q - 4 \in Addr /\ b - 4 \in Addr /\ b - 8 \in Addr
      /\ m[b - 4].size = Size(m, b) /\ m[b - 8].size = Size(m, q)
  <2>1. /\ q - 4 \in Addr /\ b - 4 \in Addr /\ q + Size(m, q) - 8 \in Addr
        /\ m[b - 4].size = Size(m, b) /\ m[q - 4].size = Size(m, q)
        /\ m[q + Size(m, q) - 8] = m[q - 4]
    BY BlockFacts
  <2>2. q + Size(m, q) - 8 = b - 8
    BY <1>1
  <2> QED
    BY <2>1, <2>2
<1>3. /\ Size(m, b) + Size(m, q) = hi - q /\ hi - q \in Nat
      /\ (hi - q) % 8 = 0
      /\ q - 4 # b - 4 /\ q - 4 # b - 8 /\ hi - 8 # b - 8
      /\ b + Size(m, b) - 8 = hi - 8 /\ q + (hi - q) - 8 = hi - 8
  BY <1>1
<1>4. tag = PACK(hi - q, 0) /\ tag = [size |-> hi - q, alloc |-> 0]
  BY <1>3, PackAligned
<1> HIDE DEF tag
<1>5. /\ m1[q - 4] = tag /\ m1[b - 4] = m[b - 4] /\ m1[b - 8] = m[b - 8]
      /\ Memory(m1)
  BY <1>2, <1>3 DEF PUT, Memory
<1>6. MergePrev(m, b) = PUT(m1, FTRP(m1, b), tag)
  BY DEF MergePrev, HDRP, Size, WSIZE, tag
<1> HIDE DEF m1
<1>7. FTRP(m1, b) = hi - 8
  BY <1>2, <1>3, <1>5 DEF FTRP, GET_SIZE, HDRP, WSIZE, DSIZE
<1>8. FTRP(m1, q) = hi - 8
  BY <1>3, <1>4, <1>5 DEF FTRP, GET_SIZE, HDRP, WSIZE, DSIZE
<1>9. PutTags(m, q, hi - q, 0) = PUT(m1, FTRP(m1, q), tag)
  <2> DEFINE size == hi - q
  <2>1. tag = PACK(size, 0)
    BY <1>4
  <2> HIDE DEF size
  <2>2. PutTags(m, q, size, 0) = PUT(m1, FTRP(m1, q), tag)
    BY <2>1 DEF PutTags, HDRP, WSIZE, m1
  <2> QED
    BY <2>2 DEF size
<1>10. MergePrev(m, b)[b - 8] = m[b - 8]
  BY <1>2, <1>3, <1>5, <1>6, <1>7 DEF PUT, Memory
<1>11. PREV_BLKP(MergePrev(m, b), b) = q
  BY <1>1, <1>2, <1>10 DEF PREV_BLKP, GET_SIZE, DSIZE
<1> QED
  BY <1>6, <1>7, <1>8, <1>9, <1>11

LEMMA MergeBothRetags ==
  ASSUME NEW m, Memory(m), NEW brk, NEW S, Tiled(m, brk, S),
         NEW b \in S, NEW q \in S, EndsAt(m, q, b), PREV_BLKP(m, b) = q,
         NEW n \in S, EndsAt(m, b, n),
         NEW hi, EndsAt(m, n, hi)
  PROVE  /\ MergeBoth(m, b) = PutTags(m, q, hi - q, 0)
         /\ PREV_BLKP(MergeBoth(m, b), b) = q
<1> DEFINE tag == PACK(Size(m, b) + Size(m, q) + Size(m, n), 0)
           m1  == PUT(m, q - 4, tag)
<1> USE DEF EndsAt
<1>1. /\ q \in Int /\ b \in Int /\ n \in Int /\ hi \in Int
      /\ Size(m, b) \in Nat /\ Size(m, b) >= 8 /\ Size(m, b) % 8 = 0
      /\ Size(m, q) \in Nat /\ Size(m, q) >= 8 /\ Size(m, q) % 8 = 0
      /\ Size(m, n) \in Nat /\ Size(m, n) >= 8 /\ Size(m, n) % 8 = 0
  BY BlockFacts
<1>2. /\ q - 4 \in Addr /\ b - 4 \in Addr /\ b - 8 \in Addr /\ n - 4 \in Addr
      /\ m[b - 4].size = Size(m, b) /\ m[b - 8].size = Size(m, q)
      /\ m[n - 4].size = Size(m, n)
  <2>1. /\ q - 4 \in Addr /\ b - 4 \in Addr /\ q + Size(m, q) - 8 \in Addr
        /\ m[b - 4].size = Size(m, b) /\ m[q - 4].size = Size(m, q)
        /\ m[q + Size(m, q) - 8] = m[q - 4]
        /\ n - 4 \in Addr /\ m[n - 4].size = Size(m, n)
    BY BlockFacts
  <2>2. q + Size(m, q) - 8 = b - 8
    BY <1>1
  <2> QED
    BY <2>1, <2>2
<1>3. /\ Size(m, b) + Size(m, q) + Size(m, n) = hi - q /\ hi - q \in Nat
      /\ (hi - q) % 8 = 0
      /\ q - 4 # b - 4 /\ q - 4 # b - 8 /\ q - 4 # n - 4 /\ hi - 8 # b - 8
      /\ n + Size(m, n) - 8 = hi - 8 /\ q + (hi - q) - 8 = hi - 8
  BY <1>1
<1>4. tag = PACK(hi - q, 0) /\ tag = [size |-> hi - q, alloc |-> 0]
  BY <1>3, PackAligned
<1>5. NEXT_BLKP(m, b) = n
  BY DEF NEXT_BLKP, Size, HDRP
<1> HIDE DEF tag
<1>6. /\ m1[q - 4] = tag /\ m1[b - 4] = m[b - 4] /\ m1[b - 8] = m[b - 8]
      /\ m1[n - 4] = m[n - 4] /\ Memory(m1)
  BY <1>2, <1>3 DEF PUT, Memory
<1>7. MergeBoth(m, b) = PUT(m1, FTRP(m1, NEXT_BLKP(m1, b)), tag)
  BY <1>5 DEF MergeBoth, HDRP, Size, WSIZE, tag
<1> HIDE DEF m1
<1>8. NEXT_BLKP(m1, b) = n
  BY <1>2, <1>6 DEF NEXT_BLKP, GET_SIZE, WSIZE
<1>9. FTRP(m1, n) = hi - 8
  BY <1>2, <1>3, <1>6 DEF FTRP, GET_SIZE, HDRP, WSIZE, DSIZE
<1>10. FTRP(m1, q) = hi - 8
  BY <1>3, <1>4, <1>6 DEF FTRP, GET_SIZE, HDRP, WSIZE, DSIZE
<1>11. PutTags(m, q, hi - q, 0) = PUT(m1, FTRP(m1, q), tag)
  <2> DEFINE size == hi - q
  <2>1. tag = PACK(size, 0)
    BY <1>4
  <2> HIDE DEF size
  <2>2. PutTags(m, q, size, 0) = PUT(m1, FTRP(m1, q), tag)
    BY <2>1 DEF PutTags, HDRP, WSIZE, m1
  <2> QED
    BY <2>2 DEF size
<1>12. MergeBoth(m, b)[b - 8] = m[b - 8]
  <2>1. MergeBoth(m, b) = [m1 EXCEPT ![hi - 8] = tag]
    BY <1>7, <1>8, <1>9 DEF PUT
  <2> QED
    BY <1>2, <1>3, <1>6, <2>1 DEF Memory
<1>13. PREV_BLKP(MergeBoth(m, b), b) = q
  BY <1>1, <1>2, <1>12 DEF PREV_BLKP, GET_SIZE, DSIZE
<1> QED
  BY <1>7, <1>8, <1>9, <1>10, <1>11, <1>13

(* What becomes of a heap when the stretch from lo to hi is one free block. *)
Freed(m, m2, brk, S, S2, lo, hi) ==
  /\ Heap(m2, brk, S2) /\ Coalesced(m2, S2)
  /\ lo \in S2 /\ lo # heap_listp /\ IsFree(m2, lo) /\ Size(m2, lo) = hi - lo
  /\ SameTags(m, m2, S2 \ {lo})
  /\ SameOutside(m, m2, lo, hi) /\ OnlyTagsNew(m, m2)
  /\ S2 = Merged(S, lo, hi)

(* There are no free neighbours but within and at the ends of the stretch. *)
CoalescedBut(m, S, lo, hi) ==
  \A c \in S : c + Size(m, c) \in S =>
     \/ ~IsFree(m, c) \/ ~IsFree(m, c + Size(m, c))
     \/ lo <= c /\ c < hi
     \/ lo <= c + Size(m, c) /\ c + Size(m, c) < hi

(* The blocks around the stretch are allocated. *)
Walled(m, S, lo, hi) ==
  /\ \A c \in S : c + Size(m, c) = lo => ~IsFree(m, c)
  /\ hi \in S => ~IsFree(m, hi)

(* Freeing a stretch between allocated blocks leaves the heap coalesced. *)
LEMMA FreeStretch ==
  ASSUME NEW m, NEW brk, NEW S, Heap(m, brk, S),
         NEW lo \in S, lo # heap_listp, NEW hi \in S \union {brk},
         lo < hi, hi - lo >= 16,
         CoalescedBut(m, S, lo, hi), Walled(m, S, lo, hi)
  PROVE  Freed(m, PutTags(m, lo, hi - lo, 0), brk, S, Merged(S, lo, hi), lo, hi)
<1> DEFINE m2 == PutTags(m, lo, hi - lo, 0)
           S2 == Merged(S, lo, hi)
<1>1. /\ Tiled(m2, brk, S2) /\ lo \in S2
      /\ Retagged(m, m2, lo, hi, 0) /\ Size(m2, lo) = hi - lo
      /\ SameTags(m, m2, S2 \ {lo})
  BY OneTile DEF Heap
<1>2. Span(lo, hi, brk) /\ \A c \in S : c \in Int
  BY Bounds DEF Heap
<1>3. S2 \subseteq S /\ \A c \in S2 : c # lo => c < lo \/ c >= hi
  BY <1>2 DEF Merged, Span
<1> HIDE DEF m2, S2
<1>4. IsFree(m2, lo)
  BY <1>1 DEF Retagged, Tagged, IsFree, GET_ALLOC, HDRP, WSIZE
<1>5. \A c \in S2 \ {lo} : /\ Size(m2, c) = Size(m, c)
                           /\ IsFree(m2, c) <=> IsFree(m, c)
  BY <1>1 DEF SameTags, IsFree, GET_ALLOC, HDRP, WSIZE
<1>6. MinimumSize(m2, S2)
  BY <1>1, <1>3, <1>5 DEF MinimumSize, Heap, DSIZE
<1>7. Coalesced(m2, S2)
  <2> SUFFICES ASSUME NEW c \in S2, c + Size(m2, c) \in S2,
                      IsFree(m2, c), IsFree(m2, c + Size(m2, c))
               PROVE  FALSE
    BY DEF Coalesced
  <2>1. CASE c = lo
    <3>1. c + Size(m2, c) = hi
      BY <1>1, <1>2, <2>1 DEF Span
    <3>2. hi # lo /\ hi \in S
      BY <1>2, <1>3, <3>1 DEF Span
    <3> QED
      BY <1>5, <3>1, <3>2 DEF Walled
  <2>2. CASE c # lo /\ c + Size(m2, c) = lo
    BY <1>3, <1>5, <2>2 DEF Walled
  <2>3. CASE c # lo /\ c + Size(m2, c) # lo
    <3> DEFINE d == c + Size(m, c)
    <3>1. d = c + Size(m2, c) /\ IsFree(m, c) /\ IsFree(m, d) /\ d \in S2 /\ d # lo
      BY <1>5, <2>3
    <3>2. (c < lo \/ c >= hi) /\ (d < lo \/ d >= hi)
      BY <1>3, <2>3, <3>1
    <3>3. c \in Int /\ d \in Int /\ c \in S /\ d \in S
      BY <1>2, <1>3, <3>1
    <3> QED
      BY <1>2, <3>1, <3>2, <3>3 DEF CoalescedBut, Span
  <2> QED
    BY <2>1, <2>2, <2>3
<1>8. SameOutside(m, m2, lo, hi)
  <2>1. \A a \in Addr : a \in Int
    BY ArenaAssumption DEF Addr, mem_max_addr
  <2> QED
    BY <1>1, <1>2, <2>1 DEF SameOutside, Retagged, Span
<1>9. OnlyTagsNew(m, m2)
  <2>1. hi - lo \in Nat
    BY <1>2 DEF Span
  <2>2. [size |-> hi - lo, alloc |-> 0] \in Tag
    BY <2>1 DEF Tag
  <2> QED
    BY <1>1, <2>2 DEF OnlyTagsNew, Retagged, Tagged
<1>10. Heap(m2, brk, S2)
  BY <1>1, <1>6 DEF Heap, Retagged
<1> QED
  BY <1>1, <1>4, <1>7, <1>8, <1>9, <1>10 DEF Freed, m2, S2

(* One block's bit is set or cleared: mm_free before it coalesces, place   *)
(* without a split.                                                        *)
Recoloured(m, m2, brk, S, b, alloc) ==
  /\ Heap(m2, brk, S)
  /\ Size(m2, b) = Size(m, b) /\ m2[b - 4].alloc = alloc
  /\ SameTags(m, m2, S \ {b})
  /\ SameOutside(m, m2, b, b + Size(m, b)) /\ OnlyTagsNew(m, m2)

LEMMA Recolour ==
  ASSUME NEW m, NEW brk, NEW S, Heap(m, brk, S),
         NEW b \in S, b # heap_listp, NEW alloc \in {0, 1}
  PROVE  Recoloured(m, PutTags(m, b, Size(m, b), alloc), brk, S, b, alloc)
<1> DEFINE hi == b + Size(m, b)
           m2 == PutTags(m, b, hi - b, alloc)
<1>1. hi \in S \union {brk} /\ \A c \in S : b < c => hi <= c
  BY DEF Heap, Tiled
<1>2. /\ b \in Int /\ hi \in Int /\ b < hi /\ hi - b = Size(m, b)
      /\ \A c \in S : c \in Int
  BY BlockFacts DEF Heap
<1> HIDE DEF hi
<1>3. Merged(S, b, hi) = S
  <2>1. \A c \in S : ~(b < c /\ c < hi)
    BY <1>1, <1>2
  <2> QED
    BY <2>1 DEF Merged
<1>4. /\ Tiled(m2, brk, S) /\ Retagged(m, m2, b, hi, alloc)
      /\ Size(m2, b) = hi - b /\ SameTags(m, m2, S \ {b})
  <2>1. /\ Tiled(m2, brk, Merged(S, b, hi)) /\ Retagged(m, m2, b, hi, alloc)
        /\ Size(m2, b) = hi - b
        /\ SameTags(m, m2, Merged(S, b, hi) \ {b})
    <3>1. b < hi /\ hi \in S \union {brk} /\ Memory(m) /\ Tiled(m, brk, S)
      BY <1>1, <1>2 DEF Heap
    <3> QED
      BY <3>1, OneTile
  <2> QED
    BY <1>3, <2>1
<1> HIDE DEF m2
<1>5. Heap(m2, brk, S)
  BY <1>2, <1>4 DEF Heap, Retagged, MinimumSize, SameTags
<1>6. m2[b - 4].alloc = alloc
  BY <1>4 DEF Retagged, Tagged
<1>7. SameOutside(m, m2, b, hi)
  <2>1. \A a \in Addr : a \in Int
    BY ArenaAssumption DEF Addr, mem_max_addr
  <2>2. hi - 8 >= b
    BY <1>1, <1>2, BlockFacts DEF Heap
  <2> QED
    BY <1>2, <1>4, <2>1, <2>2 DEF SameOutside, Retagged
<1>8. OnlyTagsNew(m, m2)
  <2>1. hi - b \in Nat
    BY <1>2
  <2>2. [size |-> hi - b, alloc |-> alloc] \in Tag
    BY <2>1 DEF Tag
  <2> QED
    BY <1>4, <2>2 DEF OnlyTagsNew, Retagged, Tagged
<1>9. Recoloured(m, m2, brk, S, b, alloc)
  BY <1>2, <1>4, <1>5, <1>6, <1>7, <1>8 DEF Recoloured, hi
<1> QED
  BY <1>2, <1>9 DEF m2

(* A free block is handed out, whole or its front: place. *)
Taken(m, m2, brk, S, S2, b, size) ==
  /\ Heap(m2, brk, S2) /\ Coalesced(m2, S2)
  /\ S \subseteq S2 /\ (\A c \in S2 \ S : IsFree(m2, c))
  /\ ~IsFree(m2, b) /\ Size(m2, b) >= size
  /\ SameTags(m, m2, S \ {b})
  /\ SameOutside(m, m2, b, b + Size(m, b)) /\ OnlyTagsNew(m, m2)

LEMMA TakeFree ==
  ASSUME NEW m, NEW brk, NEW S, Heap(m, brk, S), Coalesced(m, S),
         NEW b \in S, b # heap_listp, IsFree(m, b),
         NEW size \in Nat, Size(m, b) >= size
  PROVE  Taken(m, TakeWhole(m, b), brk, S, S, b, size)
<1> DEFINE m2 == TakeWhole(m, b)
<1>1. Recoloured(m, m2, brk, S, b, 1)
  BY Recolour DEF TakeWhole, Size
<1> HIDE DEF m2
<1>2. ~IsFree(m2, b) /\ \A c \in S : IsFree(m2, c) => IsFree(m, c)
  BY <1>1 DEF Recoloured, SameTags, IsFree, GET_ALLOC, HDRP, WSIZE
<1>3. \A c \in S : Size(m2, c) = Size(m, c)
  BY <1>1 DEF Recoloured, SameTags
<1>4. Coalesced(m2, S)
  BY <1>2, <1>3 DEF Coalesced
<1> QED
  BY <1>1, <1>2, <1>4 DEF Taken, Recoloured, m2

(* What is left of block b is a block of its own behind the size bytes     *)
(* taken.                                                                  *)
RestBehind(m, m2, S, b, size) ==
  /\ NEXT_BLKP(m2, b) = b + size /\ b + size \notin S
  /\ Size(m2, b + size) = Size(m, b) - size

LEMMA SplitFree ==
  ASSUME NEW m, NEW brk, NEW S, Heap(m, brk, S), Coalesced(m, S),
         NEW b \in S, b # heap_listp, IsFree(m, b),
         NEW size \in Nat, size % 8 = 0, size >= 16, Splits(m, b, size)
  PROVE  /\ Taken(m, SplitFront(m, b, size), brk, S, S \union {b + size}, b, size)
         /\ RestBehind(m, SplitFront(m, b, size), S, b, size)
<1> DEFINE mid == b + size
           hi  == b + Size(m, b)
           m1  == PutTags(m, b, mid - b, 1)
           m2  == PutTags(m1, mid, hi - mid, 0)
<1>1. /\ b \in Int /\ b % 8 = 0 /\ Size(m, b) \in Nat /\ Size(m, b) % 8 = 0
      /\ \A c \in S : c \in Int
  BY BlockFacts DEF Heap
<1>2. /\ mid \in Int /\ mid % 8 = 0 /\ mid - b = size
      /\ hi \in Int /\ b < mid /\ mid < hi /\ hi - mid >= 16
      /\ hi - mid = Size(m, b) - size /\ hi - b = Size(m, b)
  BY <1>1 DEF Splits, Size, DSIZE
<1>3. SplitFront(m, b, size) = m2
  <2>1. m1 = PutTags(m, b, size, 1)
    BY <1>2
  <2>2. m1[b - 4].size = size
    <3>1. Span(b, mid, brk)
      <4>1. hi \in S \union {brk} /\ hi <= brk
        BY BlockFacts DEF Heap, Tiled
      <4>2. b >= heap_listp /\ brk \in Int /\ heap_listp \in Int
            /\ brk <= mem_max_addr /\ mem_max_addr \in Int
        BY BlockFacts, HeapFacts DEF Heap
      <4> QED
        BY <1>1, <1>2, <4>1, <4>2 DEF Span
    <3>2. Retagged(m, m1, b, mid, 1)
      BY <3>1, SpanWords DEF Heap
    <3> QED
      BY <1>2, <3>2 DEF Retagged, Tagged
  <2> HIDE DEF m1
  <2>3. NEXT_BLKP(m1, b) = mid
    BY <2>2 DEF NEXT_BLKP, GET_SIZE, WSIZE
  <2>4. SplitFront(m, b, size) = PutTags(m1, mid, Size(m, b) - size, 0)
    BY <2>1, <2>3 DEF SplitFront, Size
  <2> QED
    BY <1>2, <2>4
<1> HIDE DEF mid
<1>4. Resplit(m, m2, brk, S, b, mid, hi, 1, 0)
  <2>1. Inside(mid, b, hi)
    BY <1>2 DEF Inside
  <2>2. EndsAt(m, b, hi)
    BY DEF EndsAt
  <2> HIDE DEF hi
  <2> QED
    BY <2>1, <2>2, TwoTiles DEF Heap
<1> HIDE DEF m1, m2
<1>5. ~IsFree(m2, b) /\ IsFree(m2, mid) /\ Size(m2, b) = size
  BY <1>2, <1>4 DEF Tagged, Resplit, IsFree, GET_ALLOC, HDRP, WSIZE
<1>6. \A c \in S \ {b} : /\ Size(m2, c) = Size(m, c)
                         /\ IsFree(m2, c) <=> IsFree(m, c)
  BY <1>4 DEF Resplit, SameTags, IsFree, GET_ALLOC, HDRP, WSIZE
<1>7. MinimumSize(m2, S \union {mid})
  BY <1>2, <1>4, <1>5, <1>6 DEF Resplit, MinimumSize, Heap, DSIZE
<1>8. Coalesced(m2, S \union {mid})
  <2> DEFINE S2 == S \union {mid}
  <2> SUFFICES ASSUME NEW c \in S2, c + Size(m2, c) \in S2,
                      IsFree(m2, c), IsFree(m2, c + Size(m2, c))
               PROVE  FALSE
    BY DEF Coalesced
  <2>1. c # b
    BY <1>5
  <2>2. CASE c = mid
    <3>1. c + Size(m2, c) = hi /\ hi # mid
      BY <1>2, <1>4, <2>2 DEF Resplit
    <3>2. hi \in S /\ hi # b
      BY <1>2, <3>1
    <3> QED
      BY <1>6, <2>2, <3>1, <3>2 DEF Coalesced
  <2>3. CASE c # mid
    <3>1. c \in S /\ c + Size(m2, c) = c + Size(m, c) /\ IsFree(m, c)
      BY <1>6, <2>1, <2>3
    <3>2. c + Size(m, c) \in S \union {brk}
      BY <3>1 DEF Heap, Tiled
    <3>3. mid # brk
      BY <1>2, BlockFacts, HeapFacts DEF Heap
    <3>4. c + Size(m, c) \in S /\ c + Size(m, c) # mid
      BY <1>4, <3>1, <3>2, <3>3 DEF Resplit
    <3>5. c + Size(m, c) # b
      BY <1>5, <3>1
    <3> QED
      BY <1>6, <3>1, <3>4, <3>5 DEF Coalesced
  <2> QED
    BY <2>2, <2>3
<1>9. SameOutside(m, m2, b, hi)
  <2>1. \A a \in Addr : a \in Int
    BY ArenaAssumption DEF Addr, mem_max_addr
  <2>2. \A a \in Addr : (a < b - 4 \/ a >= hi - 4) =>
           a # b - 4 /\ a # mid - 8 /\ a # mid - 4 /\ a # hi - 8
    BY <1>1, <1>2, <2>1
  <2> HIDE DEF hi
  <2> QED
    BY <1>4, <2>2 DEF SameOutside, Resplit
<1>10. OnlyTagsNew(m, m2)
  <2>1. mid - b \in Nat /\ hi - mid \in Nat
    BY <1>2
  <2>2. [size |-> mid - b, alloc |-> 1] \in Tag /\ [size |-> hi - mid, alloc |-> 0] \in Tag
    BY <2>1 DEF Tag
  <2> QED
    BY <1>4, <2>2 DEF OnlyTagsNew, Resplit, Tagged
<1>11. Taken(m, m2, brk, S, S \union {mid}, b, size)
  <2>1. Heap(m2, brk, S \union {mid})
    BY <1>4, <1>7 DEF Heap, Resplit
  <2>2. Size(m2, b) >= size
    BY <1>5
  <2>3. SameTags(m, m2, S \ {b})
    BY <1>4 DEF Resplit
  <2>4. \A c \in (S \union {mid}) \ S : IsFree(m2, c)
    BY <1>5
  <2> HIDE DEF hi
  <2>5. SameOutside(m, m2, b, b + Size(m, b))
    BY <1>9 DEF hi
  <2> QED
    BY <1>5, <1>8, <1>10, <2>1, <2>2, <2>3, <2>4, <2>5 DEF Taken
<1>12. RestBehind(m, m2, S, b, size)
  <2>1. NEXT_BLKP(m2, b) = mid
    BY <1>2, <1>5 DEF NEXT_BLKP, Size, HDRP, mid
  <2>2. mid \notin S /\ Size(m2, mid) = Size(m, b) - size
    BY <1>2, <1>4 DEF Resplit
  <2> QED
    BY <2>1, <2>2 DEF RestBehind, mid
<1> QED
  BY <1>3, <1>11, <1>12 DEF mid

(* A free block with allocated neighbours is left as it is: coalesce.      *)
LEMMA FreeInPlace ==
  ASSUME NEW m, NEW brk, NEW S, Heap(m, brk, S),
         NEW b \in S, b # heap_listp, IsFree(m, b),
         NEW hi, EndsAt(m, b, hi),
         CoalescedBut(m, S, b, hi), Walled(m, S, b, hi)
  PROVE  Freed(m, m, brk, S, S, b, hi)
<1>1. /\ \A c \in S : c \in Int /\ Size(m, c) \in Nat /\ Size(m, c) >= 8
      /\ b + Size(m, b) = hi
  BY BlockFacts DEF Heap, EndsAt
<1>2. \A c \in S : b < c => hi <= c
  BY DEF Heap, Tiled, EndsAt
<1>3. S = Merged(S, b, hi)
  <2>1. \A c \in S : ~(b < c /\ c < hi)
    BY <1>1, <1>2
  <2> QED
    BY <2>1 DEF Merged
<1>4. Coalesced(m, S)
  <2> SUFFICES ASSUME NEW c \in S, c + Size(m, c) \in S,
                      IsFree(m, c), IsFree(m, c + Size(m, c))
               PROVE  FALSE
    BY DEF Coalesced
  <2> DEFINE d == c + Size(m, c)
  <2>1. c # b /\ d # b
    BY <1>1 DEF Walled
  <2>2. (b <= c /\ c < hi) \/ (b <= d /\ d < hi)
    BY DEF CoalescedBut
  <2>3. d \in S
    OBVIOUS
  <2> HIDE DEF d
  <2> QED
    BY <1>1, <1>2, <2>1, <2>2, <2>3
<1>5. Size(m, b) = hi - b
  BY <1>1
<1> QED
  BY <1>3, <1>4, <1>5
  DEF Freed, Heap, SameTags, SameOutside, OnlyTagsNew

(* The heap has grown by a free block that has yet to be coalesced.        *)
Extended(m, m2, brk, brk2, S) ==
  /\ Heap(m2, brk2, S \union {brk}) /\ IsFree(m2, brk)
  /\ Size(m2, brk) = brk2 - brk
  /\ SameTags(m, m2, S) /\ OnlyTagsNew(m, m2)
  /\ CoalescedBut(m2, S \union {brk}, brk, brk2)
  /\ \A a \in Addr : a < brk - 4 => m2[a] = m[a]

LEMMA Extend ==
  ASSUME NEW m, NEW brk, NEW S, Heap(m, brk, S), Coalesced(m, S),
         NEW size \in Nat, size % 8 = 0, size >= 16,
         NEW brk2, brk2 = brk + size, brk2 <= mem_max_addr
  PROVE  Extended(m, ExtendTags(m, brk, size), brk, brk2, S)
<1> DEFINE m2 == ExtendTags(m, brk, size)
           S2 == S \union {brk}
<1>1. /\ Memory(m2) /\ Tiled(m2, brk2, S2)
      /\ Tagged(m2, brk, brk2, 0) /\ Size(m2, brk) = size
      /\ SameTags(m, m2, S)
      /\ \A a \in Addr : a \notin {brk - 4, brk2 - 8, brk2 - 4}
                           => m2[a] = m[a]
  <2>1. Memory(m) /\ Tiled(m, brk, S) /\ size >= 8
    BY DEF Heap
  <2> QED
    BY <2>1, Append
<1> HIDE DEF m2
<1>2. brk \in Int /\ brk2 - brk = size /\ brk \notin S
      /\ \A c \in S : c \in Int
  BY HeapFacts, Bounds DEF Heap
<1>3. IsFree(m2, brk)
  BY <1>1 DEF Tagged, IsFree, GET_ALLOC, HDRP, WSIZE
<1>4. MinimumSize(m2, S2)
  BY <1>1 DEF MinimumSize, SameTags, Heap, DSIZE
<1>5. CoalescedBut(m2, S2, brk, brk2)
  <2> SUFFICES ASSUME NEW c \in S2, c + Size(m2, c) \in S2,
                      IsFree(m2, c), IsFree(m2, c + Size(m2, c))
               PROVE  \/ brk <= c /\ c < brk2
                      \/ brk <= c + Size(m2, c) /\ c + Size(m2, c) < brk2
    BY DEF CoalescedBut
  <2>1. c = brk \/ c + Size(m2, c) = brk
    BY <1>1 DEF Coalesced, SameTags, IsFree, GET_ALLOC, HDRP, WSIZE
  <2> QED
    BY <1>2, <2>1
<1>6. OnlyTagsNew(m, m2)
  <2>1. [size |-> brk2 - brk, alloc |-> 0] \in Tag /\ [size |-> 0, alloc |-> 1] \in Tag
    BY <1>2 DEF Tag
  <2>2. m2[brk2 - 4] = [size |-> 0, alloc |-> 1]
    BY <1>1 DEF Tiled, HDRP, WSIZE
  <2> QED
    BY <1>1, <2>1, <2>2 DEF OnlyTagsNew, Tagged
<1>7. \A a \in Addr : a < brk - 4 => m2[a] = m[a]
  <2>1. \A a \in Addr : a \in Int
    BY ArenaAssumption DEF Addr, mem_max_addr
  <2>2. \A a \in Addr : a < brk - 4 => a \notin {brk - 4, brk2 - 8, brk2 - 4}
    BY <1>2, <2>1
  <2> QED
    BY <1>1, <2>2
<1> QED
  BY <1>1, <1>2, <1>3, <1>4, <1>5, <1>6, <1>7 DEF Extended, Heap, m2

(* mm_init's prologue and epilogue are a heap of one block. *)
LEMMA PrologueHeap ==
  ASSUME NEW m, Memory(m)
  PROVE  /\ Heap(Prologue(m), heap_listp + 8, {heap_listp})
         /\ Coalesced(Prologue(m), {heap_listp})
         /\ OnlyTagsNew(m, Prologue(m))
<1> DEFINE m2 == Prologue(m)
           s  == mem_start_brk
           hd == [size |-> 8, alloc |-> 1]
           ep == [size |-> 0, alloc |-> 1]
<1>1. /\ s \in Addr /\ s + 4 \in Addr /\ s + 8 \in Addr /\ s + 12 \in Addr
      /\ s \in Int /\ heap_listp = s + 8 /\ heap_listp % 8 = 0
      /\ heap_listp + 8 \in Int /\ heap_listp + 8 <= mem_max_addr
      /\ mem_max_addr \in Int
  BY ArenaAssumption, ChunkAssumption
  DEF Addr, heap_listp, mem_max_addr, WSIZE, DSIZE
<1>2. PACK(0, 0) \in Tag /\ PACK(8, 1) = hd /\ hd \in Tag
      /\ PACK(0, 1) = ep /\ ep \in Tag
  BY PackAligned
<1>3. m2 = [m EXCEPT ![s] = PACK(0, 0), ![s + 4] = hd, ![s + 8] = hd,
                     ![s + 12] = ep]
  <2>1. s + 1 * 4 = s + 4 /\ s + 2 * 4 = s + 8 /\ s + 3 * 4 = s + 12
    OBVIOUS
  <2>2. m2 = [m EXCEPT ![s] = PACK(0, 0), ![s + 1 * 4] = PACK(8, 1),
                       ![s + 2 * 4] = PACK(8, 1), ![s + 3 * 4] = PACK(0, 1)]
    BY Zenon DEF Prologue, WSIZE, DSIZE
  <2> QED
    BY <1>2, <2>1, <2>2, Zenon
<1> HIDE DEF m2
<1>4. /\ m2[s + 4] = hd /\ m2[s + 8] = hd /\ m2[s + 12] = ep
      /\ Memory(m2)
  <2>1. m2[s + 4] = hd /\ m2[s + 8] = hd /\ m2[s + 12] = ep
    BY <1>1, <1>3 DEF Memory
  <2>2. /\ \A f, a, v : Memory(f) => Memory([f EXCEPT ![a] = v])
    BY DEF Memory
  <2> DEFINE f1 == [m EXCEPT ![s] = PACK(0, 0)]
             f2 == [f1 EXCEPT ![s + 4] = hd]
             f3 == [f2 EXCEPT ![s + 8] = hd]
             f4 == [f3 EXCEPT ![s + 12] = ep]
  <2>3. m2 = f4
    BY <1>3
  <2>4. Memory(f1)
    BY <2>2
  <2> HIDE DEF f1
  <2>5. Memory(f2)
    BY <2>2, <2>4
  <2> HIDE DEF f2
  <2>6. Memory(f3)
    BY <2>2, <2>5
  <2> HIDE DEF f3
  <2>7. Memory(f4)
    BY <2>2, <2>6
  <2> QED
    BY <2>1, <2>3, <2>7 DEF f3, f2, f1
<1>5. OnlyTagsNew(m, m2)
  <2>1. \A a \in Addr : m2[a] \in {m[a], PACK(0, 0), hd, ep}
    BY <1>3 DEF Memory
  <2> QED
    BY <1>2, <2>1 DEF OnlyTagsNew
<1>6. /\ HDRP(heap_listp) = s + 4 /\ HDRP(heap_listp + 8) = s + 12
      /\ Size(m2, heap_listp) = 8
      /\ heap_listp + 8 - 8 = s + 8
  BY <1>1, <1>4 DEF HDRP, WSIZE, Size, GET_SIZE
<1>7. BlockOK(m2, heap_listp + 8, heap_listp)
  BY <1>1, <1>2, <1>4, <1>6 DEF BlockOK, DSIZE
<1>8. Tiled(m2, heap_listp + 8, {heap_listp})
  BY <1>1, <1>4, <1>6, <1>7 DEF Tiled, DSIZE
<1>9. MinimumSize(m2, {heap_listp}) /\ Coalesced(m2, {heap_listp})
  BY <1>1, <1>6 DEF MinimumSize, Coalesced
<1> QED
  BY <1>4, <1>5, <1>8, <1>9 DEF Heap, m2

(* The blocks clients hold, and what an operation owes to those in B that  *)
(* it is not about: their size and every word of their payload.            *)
Allocated(m, S) == {c \in S : ~IsFree(m, c)}
Kept(m, m2, B) ==
  \A c \in B : /\ Size(m2, c) = Size(m, c)
               /\ \A a \in Addr : c <= a /\ a < c + Size(m, c) - DSIZE
                                    => m2[a] = m[a]

(* m2 with the blocks S2 has the allocated blocks of m with the blocks S. *)
SameAllocated(m, S, m2, S2) == Allocated(m2, S2) = Allocated(m, S)

(* A change within the stretch from lo to hi keeps the blocks outside it.  *)
LEMMA KeptOutside ==
  ASSUME NEW m, NEW m2, NEW brk, NEW S, Tiled(m, brk, S),
         NEW lo \in S, NEW hi \in S \union {brk}, lo < hi,
         SameOutside(m, m2, lo, hi), NEW B, B \subseteq Outside(S, lo, hi),
         SameTags(m, m2, B)
  PROVE  Kept(m, m2, B)
<1>1. \A c \in S : c \in Int /\ Size(m, c) \in Nat /\ (c < lo => c + Size(m, c) <= lo)
  BY BlockFacts DEF Tiled
<1>2. lo \in Int /\ hi \in Int
  BY Bounds
<1>3. \A a \in Addr : a \in Int
  BY ArenaAssumption DEF Addr, mem_max_addr
<1> SUFFICES ASSUME NEW c \in B, NEW a \in Addr,
                    c <= a, a < c + Size(m, c) - DSIZE
             PROVE  m2[a] = m[a]
  BY DEF Kept, SameTags
<1>4. c \in S /\ (c < lo \/ c >= hi)
  BY DEF Outside
<1>5. a < lo - 4 \/ a >= hi - 4
  BY <1>1, <1>2, <1>3, <1>4 DEF DSIZE
<1> QED
  BY <1>5 DEF SameOutside

(* A payload is written: every tag, and so the heap, stays as it is.       *)
PayloadWrite(m, m2, b) ==
  /\ Memory(m2)
  /\ \A a \in Addr : a < b \/ a >= b + Size(m, b) - DSIZE => m2[a] = m[a]

(* The payloads of the blocks S but b are the same. *)
KeptBut(m, m2, S, b) == Kept(m, m2, S \ {b})

LEMMA WritePayload ==
  ASSUME NEW m, NEW m2, NEW brk, NEW S, Heap(m, brk, S), Coalesced(m, S),
         NEW b \in S, PayloadWrite(m, m2, b)
  PROVE  /\ Heap(m2, brk, S) /\ Coalesced(m2, S) /\ SameTags(m, m2, S)
         /\ SameAllocated(m, S, m2, S)
         /\ KeptBut(m, m2, S, b) /\ Size(m2, b) = Size(m, b)
<1>1. \A c \in S : /\ c \in Int /\ Size(m, c) \in Nat /\ Size(m, c) >= 8
                   /\ c - 4 \in Addr /\ c + Size(m, c) - 8 \in Addr
                   /\ c + Size(m, c) <= brk
  BY BlockFacts DEF Heap
<1>2. \A c, d \in S : c < d => c + Size(m, c) <= d
  BY DEF Heap, Tiled
<1>3. \A a \in Addr : a \in Int
  BY ArenaAssumption DEF Addr, mem_max_addr
<1>4. brk \in Int /\ brk - 4 \in Addr /\ heap_listp \in S
  BY HeapFacts DEF Heap
<1>5. \A c \in S : /\ m2[c - 4] = m[c - 4]
                   /\ m2[c + Size(m, c) - 8] = m[c + Size(m, c) - 8]
  <2> SUFFICES ASSUME NEW c \in S
               PROVE  /\ m2[c - 4] = m[c - 4]
                      /\ m2[c + Size(m, c) - 8] = m[c + Size(m, c) - 8]
    OBVIOUS
  <2>1. c = b \/ c + Size(m, c) <= b \/ b + Size(m, b) <= c
    BY <1>1, <1>2
  <2>2. /\ c - 4 < b \/ c - 4 >= b + Size(m, b) - 8
        /\ c + Size(m, c) - 8 < b \/ c + Size(m, c) - 8 >= b + Size(m, b) - 8
    BY <1>1, <2>1
  <2> QED
    BY <1>1, <2>2 DEF PayloadWrite, DSIZE
<1>6. m2[brk - 4] = m[brk - 4]
  <2>1. brk - 4 >= b + Size(m, b) - 8
    BY <1>1, <1>4
  <2> QED
    BY <1>4, <2>1 DEF PayloadWrite, DSIZE
<1>7. \A c \in S : Size(m2, c) = Size(m, c) /\ (IsFree(m2, c) <=> IsFree(m, c))
  BY <1>5 DEF Size, IsFree, GET_SIZE, GET_ALLOC, HDRP, WSIZE
<1>8. \A c \in S : BlockOK(m2, brk, c)
  <2> SUFFICES ASSUME NEW c \in S
               PROVE  BlockOK(m2, brk, c)
    OBVIOUS
  <2>1. BlockOK(m, brk, c)
    BY DEF Heap, Tiled
  <2> QED
    BY <1>5, <1>7, <2>1 DEF BlockOK, HDRP, WSIZE, DSIZE
<1>9. Tiled(m2, brk, S)
  BY <1>4, <1>5, <1>6, <1>7, <1>8 DEF Heap, Tiled, HDRP, WSIZE
<1>10. MinimumSize(m2, S) /\ Coalesced(m2, S)
  BY <1>7 DEF Heap, MinimumSize, Coalesced
<1>11. Kept(m, m2, S \ {b})
  <2> SUFFICES ASSUME NEW c \in S \ {b}, NEW a \in Addr,
                      c <= a, a < c + Size(m, c) - DSIZE
               PROVE  m2[a] = m[a]
    BY <1>7 DEF Kept
  <2>1. a < b \/ a >= b + Size(m, b) - 8
    BY <1>1, <1>2, <1>3 DEF DSIZE
  <2> QED
    BY <2>1 DEF PayloadWrite, DSIZE
<1>12. SameTags(m, m2, S) /\ Allocated(m2, S) = Allocated(m, S)
  BY <1>5, <1>7 DEF SameTags, Allocated
<1> QED
  BY <1>7, <1>9, <1>10, <1>11, <1>12 DEF Heap, PayloadWrite, SameAllocated, KeptBut

-----------------------------------------------------------------------------
(* The free blocks from lo to hi, b among them, that coalesce makes one. *)
FreeRun(m, brk, S, b, lo, hi) ==
  /\ lo \in S /\ lo # heap_listp /\ hi \in S \union {brk}
  /\ lo < hi /\ hi - lo >= 16 /\ lo <= b /\ b + Size(m, b) <= hi
  /\ IsFree(m, lo) /\ \A c \in S : lo < c /\ c < hi => IsFree(m, c)
  /\ CoalescedBut(m, S, lo, hi) /\ Walled(m, S, lo, hi)

(* They are b and, where free, the block q in front of it and the block n  *)
(* behind it.                                                              *)
LEMMA FreeRuns ==
  ASSUME NEW m, NEW brk, NEW S, Heap(m, brk, S),
         NEW b \in S, b # heap_listp, IsFree(m, b),
         CoalescedBut(m, S, b, b + Size(m, b)),
         NEW q \in S, EndsAt(m, q, b), NEW n, EndsAt(m, b, n),
         NEW lo, lo = IF IsFree(m, q) THEN q ELSE b,
         NEW hi, hi = IF n \in S /\ IsFree(m, n) THEN n + Size(m, n) ELSE n
  PROVE  /\ FreeRun(m, brk, S, b, lo, hi)
         /\ \A c \in S : lo <= c /\ c < hi => c = b \/ c = q \/ c = n
<1>1. /\ \A c \in S : /\ c \in Int /\ Size(m, c) \in Nat /\ Size(m, c) >= 8
                      /\ c + Size(m, c) \in S \union {brk}
      /\ \A c, d \in S : c < d => c + Size(m, c) <= d
      /\ \A c \in S \ {heap_listp} : Size(m, c) >= 16
      /\ ~IsFree(m, heap_listp)
      /\ brk \in Int /\ brk \notin S
      /\ \A c \in S : c < brk
  <2>1. \A c \in S : /\ c \in Int /\ Size(m, c) \in Nat /\ Size(m, c) >= 8
    BY BlockFacts DEF Heap
  <2>2. /\ \A c \in S : c + Size(m, c) \in S \union {brk}
        /\ \A c, d \in S : c < d => c + Size(m, c) <= d
    BY DEF Heap, Tiled
  <2>3. \A c \in S \ {heap_listp} : Size(m, c) >= 16
    BY DEF Heap, MinimumSize, DSIZE
  <2>4. /\ m[heap_listp - 4].alloc = 1
        /\ brk \in Int /\ brk \notin S /\ heap_listp \in S
    BY HeapFacts DEF Heap
  <2>5. ~IsFree(m, heap_listp)
    BY <2>4 DEF IsFree, GET_ALLOC, HDRP, WSIZE
  <2>6. \A c \in S : c < brk
    BY Bounds DEF Heap
  <2> QED
    BY <2>1, <2>2, <2>3, <2>4, <2>5, <2>6
<1>2. /\ b \in Int /\ n \in Int /\ b + 16 <= n /\ n \in S \union {brk}
      /\ q \in Int /\ q + Size(m, q) = b /\ b + Size(m, b) = n
      /\ q + 8 <= b
  BY <1>1 DEF EndsAt
<1>3. \A c \in S : c + Size(m, c) = b => c = q
  BY <1>1, <1>2
<1>4. /\ lo \in S /\ lo # heap_listp /\ IsFree(m, lo) /\ lo \in Int /\ lo <= b
      /\ \A c \in S : c + Size(m, c) = lo => ~IsFree(m, c)
      /\ lo = b \/ lo = q
  <2>1. CASE IsFree(m, q)
    <3>1. lo = q /\ q # heap_listp
      BY <1>1, <2>1
    <3>2. \A c \in S : c + Size(m, c) = q => ~IsFree(m, c)
      BY <1>1, <1>2, <2>1, <3>1 DEF CoalescedBut
    <3> QED
      BY <1>2, <2>1, <3>1, <3>2
  <2>2. CASE ~IsFree(m, q)
    BY <1>2, <1>3, <2>2
  <2> QED
    BY <2>1, <2>2
<1>5. /\ hi \in S \union {brk} /\ hi \in Int /\ n <= hi
      /\ hi \in S => ~IsFree(m, hi)
      /\ hi # n => n \in S /\ IsFree(m, n) /\ hi = n + Size(m, n)
  <2>1. CASE n \in S /\ IsFree(m, n)
    <3>1. hi = n + Size(m, n) /\ n # heap_listp
      BY <1>1, <2>1
    <3>2. hi \in S \union {brk} /\ hi \in Int /\ n <= hi
      BY <1>1, <2>1, <3>1
    <3>3. hi \in S => ~IsFree(m, hi)
      BY <1>1, <1>2, <2>1, <3>1, <3>2 DEF CoalescedBut
    <3> QED
      BY <2>1, <3>1, <3>2, <3>3
  <2>2. CASE ~(n \in S /\ IsFree(m, n))
    BY <1>2, <2>2
  <2> QED
    BY <2>1, <2>2
<1>6. \A c \in S : lo <= c /\ c < hi => c = b \/ c = q \/ (c = n /\ hi # n)
  <2> SUFFICES ASSUME NEW c \in S, lo <= c, c < hi
               PROVE  c = b \/ c = q \/ (c = n /\ hi # n)
    OBVIOUS
  <2>1. c < b => c = q
    <3>1. c < b => lo = q /\ q <= c
      BY <1>4
    <3>2. q < c => b <= c
      BY <1>1, <1>2
    <3> QED
      BY <1>1, <1>2, <3>1, <3>2
  <2>2. c > b => n <= c
    BY <1>1, <1>2
  <2>3. c > n => hi = n + Size(m, n) /\ n \in S /\ n + Size(m, n) <= c
    BY <1>1, <1>2, <1>5
  <2> QED
    BY <1>1, <1>2, <1>5, <2>1, <2>2, <2>3
<1>7. \A c \in S : lo < c /\ c < hi => IsFree(m, c)
  <2> SUFFICES ASSUME NEW c \in S, lo < c, c < hi
               PROVE  IsFree(m, c)
    OBVIOUS
  <2>1. c # q
    BY <1>2, <1>4
  <2>2. c = b \/ (c = n /\ hi # n)
    BY <1>4, <1>6, <1>1, <2>1
  <2> QED
    BY <1>5, <2>2
<1>8. CoalescedBut(m, S, lo, hi)
  <2> SUFFICES ASSUME NEW c \in S, c + Size(m, c) \in S,
                      IsFree(m, c), IsFree(m, c + Size(m, c))
               PROVE  \/ lo <= c /\ c < hi
                      \/ lo <= c + Size(m, c) /\ c + Size(m, c) < hi
    BY DEF CoalescedBut
  <2> DEFINE d == c + Size(m, c)
  <2>1. (b <= c /\ c < n) \/ (b <= d /\ d < n)
    BY <1>2 DEF CoalescedBut
  <2>2. c \in Int /\ d \in Int
    BY <1>1
  <2> HIDE DEF d
  <2>3. (lo <= c /\ c < hi) \/ (lo <= d /\ d < hi)
    BY <1>2, <1>4, <1>5, <2>1, <2>2
  <2> QED
    BY <2>3 DEF d
<1>9. Walled(m, S, lo, hi)
  BY <1>4, <1>5 DEF Walled
<1>10. lo < hi /\ hi - lo >= 16 /\ b + Size(m, b) <= hi
  BY <1>2, <1>4, <1>5
<1> QED
  BY <1>4, <1>5, <1>6, <1>7, <1>8, <1>9, <1>10 DEF FreeRun

(* Where no tag is written, the heap stays as it is.                       *)
SameHeap(m, m2, S) ==
  \A c \in S : /\ m2[c - 4] = m[c - 4] /\ Size(m2, c) = Size(m, c)
               /\ IsFree(m2, c) <=> IsFree(m, c)

LEMMA KeepHeap ==
  ASSUME NEW m, NEW brk, NEW S, Heap(m, brk, S), NEW m2, Memory(m2),
         \A c \in S : /\ m2[c - 4] = m[c - 4]
                      /\ m2[c + Size(m, c) - 8] = m[c + Size(m, c) - 8],
         m2[brk - 4] = m[brk - 4]
  PROVE  /\ Heap(m2, brk, S) /\ SameHeap(m, m2, S)
         /\ Coalesced(m, S) => Coalesced(m2, S)
         /\ \A lo, hi : CoalescedBut(m, S, lo, hi) => CoalescedBut(m2, S, lo, hi)
         /\ Allocated(m2, S) = Allocated(m, S)
<1>1. heap_listp \in S
  BY HeapFacts DEF Heap
<1>2. SameHeap(m, m2, S)
  BY DEF SameHeap, Size, IsFree, GET_SIZE, GET_ALLOC, HDRP, WSIZE
<1>3. \A c \in S : BlockOK(m2, brk, c)
  <2> SUFFICES ASSUME NEW c \in S
               PROVE  BlockOK(m2, brk, c)
    OBVIOUS
  <2>1. BlockOK(m, brk, c)
    BY DEF Heap, Tiled
  <2> QED
    BY <1>2, <2>1 DEF BlockOK, HDRP, WSIZE, DSIZE, SameHeap
<1>4. Tiled(m2, brk, S)
  BY <1>1, <1>2, <1>3 DEF Heap, Tiled, HDRP, WSIZE, SameHeap
<1>5. MinimumSize(m2, S) /\ (Coalesced(m, S) => Coalesced(m2, S))
  BY <1>2 DEF Heap, MinimumSize, Coalesced, SameHeap
<1>6. \A lo, hi : CoalescedBut(m, S, lo, hi) => CoalescedBut(m2, S, lo, hi)
  BY <1>2 DEF CoalescedBut, SameHeap
<1>7. Allocated(m2, S) = Allocated(m, S)
  BY <1>2 DEF Allocated, SameHeap
<1> QED
  BY <1>2, <1>4, <1>5, <1>6, <1>7 DEF Heap

-----------------------------------------------------------------------------
(* The client. *)

(* What a request is rounded to. *)
Rounded(size) == size \in Nat /\ size % 8 = 0 /\ size >= 16

(* A rounded request holds the payload and two tags, and neither the       *)
(* rounding nor the move of the break wraps.                               *)
LEMMA RequestSize ==
  ASSUME NEW s \in Sizes, s > 0
  PROVE  /\ Rounded(AdjustedSize(s)) /\ AdjustedSize(s) >= s + 8
         /\ AdjustedSize(s) + mem_max_addr < UINT_MOD
<1>1. s \in Nat /\ s + 16 + mem_max_addr < UINT_MOD
  BY SizesAssumption DEF DSIZE
<1>2. mem_max_addr \in Nat /\ UINT_MOD \in Int
  BY ArenaAssumption DEF mem_max_addr, UINT_MOD
<1>3. Wrap(s + 15) = s + 15
  BY <1>1, <1>2 DEF Wrap
<1>4. AdjustedSize(s) = IF s <= 8 THEN 16 ELSE 8 * ((s + 15) \div 8)
  <2>1. s + 8 + (8 - 1) = s + 15
    BY <1>1
  <2> QED
    BY <1>3, <2>1 DEF AdjustedSize, DSIZE
<1> QED
  BY <1>1, <1>2, <1>4 DEF Rounded

(* mem_sbrk moves the break by size bytes, to brk2. *)
MovesBreak(brk, size, brk2) ==
  Rounded(size) /\ brk2 = brk + size /\ brk2 <= mem_max_addr

(* extend_heap is asked for the bytes that are needed or a chunk, and asks *)
(* mem_sbrk for as many: they fit in an int unless mem_sbrk refuses them,  *)
(* and the break does not wrap.                                            *)
LEMMA GrowthMoves ==
  ASSUME NEW brk \in Nat, brk <= mem_max_addr,
         NEW need, Rounded(need) \/ (need \in Nat /\ need % 8 = 0 /\ need > 0),
         need + mem_max_addr < UINT_MOD,
         NEW size, size = ExtendSize((IF need > CHUNKSIZE THEN need ELSE CHUNKSIZE)
                                     \div WSIZE),
         ~SbrkFails(brk, ToInt(size))
  PROVE  /\ MovesBreak(brk, size, brk + size) /\ size >= need
         /\ SbrkBreak(brk, ToInt(size)) = brk + size
<1> DEFINE most == IF need > CHUNKSIZE THEN need ELSE CHUNKSIZE
<1>1. /\ mem_max_addr \in Nat /\ UINT_MOD = 2 * (INT_MAX + 1) /\ INT_MAX \in Nat
  BY ArenaAssumption DEF mem_max_addr, UINT_MOD
<1>2. need \in Nat /\ need % 8 = 0
  BY DEF Rounded
<1>3. /\ CHUNKSIZE \in Nat /\ CHUNKSIZE % 8 = 0 /\ CHUNKSIZE >= 16
      /\ CHUNKSIZE + mem_max_addr < UINT_MOD
  BY ChunkAssumption DEF DSIZE
<1>4. /\ most \in Nat /\ most % 8 = 0 /\ most >= 16 /\ most >= need
      /\ most + mem_max_addr < UINT_MOD
  BY <1>1, <1>2, <1>3
<1>5. size = most
  <2>1. ASSUME NEW n \in Nat, n % 8 = 0
        PROVE  ExtendSize(n \div WSIZE) = n
    BY <2>1 DEF ExtendSize, WSIZE
  <2> HIDE DEF most
  <2>2. ExtendSize(most \div WSIZE) = most
    BY <1>4, <2>1
  <2> QED
    BY <2>2 DEF most
<1> HIDE DEF most
<1>6. ToInt(size) = size
  BY <1>1, <1>4, <1>5 DEF SbrkFails, ToInt
<1>7. Wrap(brk + size) = brk + size
  BY <1>1, <1>4, <1>5 DEF Wrap
<1> QED
  BY <1>1, <1>4, <1>5, <1>6, <1>7 DEF SbrkBreak, SbrkFails, MovesBreak, Rounded

-----------------------------------------------------------------------------
(* Blocks lie in the arena, and the break in it or at its end. *)
LEMMA BlocksInArena ==
  ASSUME NEW m, NEW brk, NEW S, Heap(m, brk, S)
  PROVE  /\ S \subseteq Addr /\ NULL \notin S
         /\ brk \in Addr \union {mem_max_addr}
         /\ brk \in mem_start_brk .. mem_max_addr
         /\ heap_listp \in Allocated(m, S)
<1>1. Tiled(m, brk, S)
  BY DEF Heap
<1>2. /\ heap_listp \in Int /\ heap_listp = mem_start_brk + 8
      /\ mem_start_brk \in Nat /\ mem_max_addr \in Int
  BY ArenaAssumption DEF heap_listp, mem_max_addr, WSIZE
<1>3. /\ brk \in Int /\ brk % 8 = 0 /\ heap_listp <= brk /\ brk <= mem_max_addr
      /\ heap_listp \in S /\ m[heap_listp - 4].alloc = 1
  BY <1>1, <1>2, HeapFacts
<1>4. S \subseteq Addr /\ NULL \notin S
  <2> SUFFICES ASSUME NEW b \in S
               PROVE  b \in Addr /\ b # 0
    BY DEF NULL
  <2>1. b \in Int /\ b % 8 = 0 /\ b >= heap_listp /\ b < brk
    BY <1>1, BlockFacts, Bounds
  <2> QED
    BY <1>2, <1>3, <2>1 DEF Addr, WSIZE
<1>5. brk \in Addr \union {mem_max_addr} /\ brk \in mem_start_brk .. mem_max_addr
  BY <1>2, <1>3 DEF Addr, WSIZE
<1>6. heap_listp \in Allocated(m, S)
  BY <1>3 DEF Allocated, IsFree, GET_ALLOC, HDRP, WSIZE
<1> QED
  BY <1>4, <1>5, <1>6

-----------------------------------------------------------------------------
(* A payload of n bytes and two tags fit in the block p. *)
Covers(m, p, n) == n \in Nat /\ Size(m, p) >= n + DSIZE

(* Payloads of different blocks do not overlap. *)
Apart(p, n, q, k) == p + n <= q \/ q + k <= p

LEMMA PayloadsApart ==
  ASSUME NEW m, NEW brk, NEW S, Tiled(m, brk, S), NEW p \in S, NEW q \in S,
         p # q, NEW n, Covers(m, p, n), NEW k, Covers(m, q, k)
  PROVE  Apart(p, n, q, k)
<1>1. /\ n \in Nat /\ Size(m, p) >= n + 8
      /\ k \in Nat /\ Size(m, q) >= k + 8
  BY DEF Covers, DSIZE
<1>2. /\ p \in Int /\ q \in Int /\ Size(m, p) \in Nat /\ Size(m, q) \in Nat
  BY BlockFacts
<1>3. /\ p < q => p + Size(m, p) <= q
      /\ q < p => q + Size(m, q) <= p
  BY DEF Tiled
<1> QED
  BY <1>1, <1>2, <1>3 DEF Apart

(* A payload is aligned and lies in the heap. *)
InHeap(brk, p, n) ==
  p % DSIZE = 0 /\ p > 0 /\ mem_start_brk <= p /\ p + n <= brk

LEMMA PayloadInHeap ==
  ASSUME NEW m, NEW brk, NEW S, Tiled(m, brk, S), NEW p \in S,
         NEW n, Covers(m, p, n)
  PROVE  InHeap(brk, p, n)
<1>1. n \in Nat /\ Size(m, p) >= n + 8
  BY DEF Covers, DSIZE
<1>2. /\ p \in Int /\ p % 8 = 0 /\ p >= heap_listp /\ Size(m, p) \in Nat
      /\ p + Size(m, p) <= brk /\ brk \in Int
  BY BlockFacts, HeapFacts
<1>3. /\ mem_start_brk \in Nat /\ heap_listp = mem_start_brk + 8
  BY ArenaAssumption DEF heap_listp, WSIZE
<1> QED
  BY <1>1, <1>2, <1>3 DEF InHeap, DSIZE

(* A payload whose words have been kept still holds what was written. *)
LEMMA HoldsKept ==
  ASSUME NEW m, NEW m2, NEW B, Kept(m, m2, B), NEW p \in B,
         NEW n, NEW id, Holds(m, p, n, id),
         p + n <= p + Size(m, p) - DSIZE, p \in Int, n \in Int, Size(m, p) \in Int
  PROVE  Holds(m2, p, n, id)
<1> SUFFICES ASSUME NEW a \in Addr, p <= a, a < p + n
             PROVE  m2[a] = id
  BY DEF Holds
<1>1. a \in Int
  BY ArenaAssumption DEF Addr, mem_max_addr
<1>2. a < p + Size(m, p) - DSIZE
  BY <1>1 DEF DSIZE
<1>3. m2[a] = m[a]
  BY <1>2 DEF Kept
<1> QED
  BY <1>3 DEF Holds

(* The client's fill stays within the payload it has been given. *)
LEMMA FillWrites ==
  ASSUME NEW m, NEW p \in Int, Size(m, p) \in Int, NEW n, Covers(m, p, n), NEW id,
         NEW m2, m2 = Fill(m, p, n, id)
  PROVE  PayloadWrite(m, m2, p) /\ Holds(m2, p, n, id)
<1>1. m2 = [a \in Addr |-> IF p <= a /\ a < p + n THEN id ELSE m[a]]
  BY DEF Fill
<1>2. n \in Nat /\ Size(m, p) >= n + 8
  BY DEF Covers, DSIZE
<1>3. \A a \in Addr : a \in Int
  BY ArenaAssumption DEF Addr, mem_max_addr
<1>4. Memory(m2)
  BY <1>1 DEF Memory
<1>5. ASSUME NEW a \in Addr, a < p \/ a >= p + Size(m, p) - DSIZE
      PROVE  m2[a] = m[a]
  <2>1. ~(p <= a /\ a < p + n)
    BY <1>2, <1>3, <1>5 DEF DSIZE
  <2> QED
    BY <1>1, <2>1
<1>6. Holds(m2, p, n, id)
  BY <1>1 DEF Holds
<1> QED
  BY <1>4, <1>5, <1>6 DEF PayloadWrite

(* A copy of n words' bytes stays within the payload, from wherever it is. *)
LEMMA CopyWrites ==
  ASSUME NEW m, NEW p \in Int, Size(m, p) \in Int,
         NEW n \in Nat, p + n <= p + Size(m, p) - DSIZE, NEW src,
         NEW m2, m2 = Copy(m, p, src, n)
  PROVE  PayloadWrite(m, m2, p)
<1>1. m2 = [a \in Addr |-> IF p <= a /\ a < p + n THEN m[a - p + src] ELSE m[a]]
  BY DEF Copy
<1>2. Memory(m2)
  BY <1>1 DEF Memory
<1>3. ASSUME NEW a \in Addr, a < p \/ a >= p + Size(m, p) - DSIZE
      PROVE  m2[a] = m[a]
  <2>1. PICK z : z = Size(m, p)
    OBVIOUS
  <2>2. /\ a \in Int /\ z \in Int
        /\ p + n <= p + z - 8 /\ (a < p \/ a >= p + z - 8)
    BY <1>3, <2>1, ArenaAssumption DEF DSIZE, Addr, mem_max_addr, WSIZE
  <2>3. ~(p <= a /\ a < p + n)
    BY <2>2
  <2> QED
    BY <1>1, <2>3
<1> QED
  BY <1>2, <1>3 DEF PayloadWrite

=============================================================================
