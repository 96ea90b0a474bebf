-------------------------- MODULE MmImplicit_proof --------------------------
(***************************************************************************)
(* Proofs about MmImplicit, for every arena, chunk size, set of ids and    *)
(* set of request sizes that the assumptions on the constants allow.       *)
(***************************************************************************)
EXTENDS MmImplicit, TraceClient_proof

(* What coalesce(b) leaves: b is part of a free block without free         *)
(* neighbours, every allocated block is still there, and a search start    *)
(* that was a block is one again.                                          *)
CoalesceResult(m, r, brk, S, b, rover) ==
  LET hi == r.bp + Size(r.mem, r.bp)
      S2 == Absorbed(S, r.mem, r.bp)
  IN  /\ Freed(m, r.mem, brk, S, S2, r.bp, hi)
      /\ r.bp <= b /\ b + Size(m, b) <= hi
      /\ \A c \in S : ~IsFree(m, c) => c \in S2 \ {r.bp}
      /\ rover \in S => r.rover \in S2

(* The blocks of a free run have become one. *)
LEMMA MergeResult ==
  ASSUME NEW m, NEW brk, NEW S, Heap(m, brk, S),
         NEW b \in S, NEW rover,
         NEW lo, NEW hi, FreeRun(m, brk, S, b, lo, hi),
         NEW r, r.mem = PutTags(m, lo, hi - lo, 0), r.bp = lo,
         r.rover = Rover(r.mem, lo, rover)
  PROVE  CoalesceResult(m, r, brk, S, b, rover)
<1> DEFINE S2 == Merged(S, lo, hi)
<1>1. Freed(m, r.mem, brk, S, S2, lo, hi)
  <2>1. /\ lo \in S /\ lo # heap_listp /\ hi \in S \union {brk}
        /\ lo < hi /\ hi - lo >= 16
        /\ CoalescedBut(m, S, lo, hi) /\ Walled(m, S, lo, hi)
    BY DEF FreeRun
  <2> QED
    BY <2>1, FreeStretch
<1>2. Size(r.mem, lo) = hi - lo /\ lo \in Int /\ hi \in Int
  <2>1. Span(lo, hi, brk)
    BY Bounds DEF Heap, FreeRun
  <2> QED
    BY <1>1, <2>1 DEF Freed, Span
<1>3. lo + Size(r.mem, lo) = hi /\ NEXT_BLKP(r.mem, lo) = hi
  <2>1. lo + Size(r.mem, lo) = hi
    BY <1>2
  <2> QED
    BY <2>1 DEF NEXT_BLKP, Size, HDRP
<1>4. Absorbed(S, r.mem, lo) = S2
  BY <1>3 DEF Absorbed, Merged
<1>5. \A c \in S : ~IsFree(m, c) => c \in S2 \ {lo}
  BY DEF Merged, FreeRun
<1>6. rover \in S => r.rover \in S2
  <2>1. \A c \in S : c \in Int
    BY Bounds DEF Heap
  <2>2. lo \in S2
    BY <1>1 DEF Freed
  <2> QED
    BY <1>2, <1>3, <2>1, <2>2 DEF Rover, Merged
<1> QED
  BY <1>1, <1>3, <1>4, <1>5, <1>6 DEF CoalesceResult, FreeRun

(* The four cases of coalesce. *)
LEMMA Coalesce ==
  ASSUME NEW m, NEW brk, NEW S, Heap(m, brk, S),
         NEW b \in S, b # heap_listp, IsFree(m, b), NEW rover,
         CoalescedBut(m, S, b, b + Size(m, b))
  PROVE  CoalesceResult(m, coalesce(m, b, rover), brk, S, b, rover)
<1> DEFINE r == coalesce(m, b, rover)
           n == b + Size(m, b)
           next_alloc == GET_ALLOC(m, HDRP(NEXT_BLKP(m, b)))
           prev_alloc == GET_ALLOC(m, FTRP(m, PREV_BLKP(m, b)))
<1>1. /\ NEXT_BLKP(m, b) = n /\ n \in S \union {brk}
      /\ next_alloc = m[n - 4].alloc
  <2>1. NEXT_BLKP(m, b) = n /\ n \in S \union {brk}
    BY Neighbours DEF Heap
  <2> QED
    BY <2>1 DEF GET_ALLOC, HDRP, WSIZE
<1>2. PICK q \in S : /\ PREV_BLKP(m, b) = q /\ q + Size(m, q) = b
                     /\ prev_alloc = m[q - 4].alloc
  BY Neighbours DEF Heap
<1> HIDE DEF next_alloc, prev_alloc
<1>3. /\ m[q - 4].alloc \in {0, 1} /\ (IsFree(m, q) <=> m[q - 4].alloc = 0)
      /\ n \in S => /\ m[n - 4].alloc \in {0, 1}
                    /\ IsFree(m, n) <=> m[n - 4].alloc = 0
      /\ m[brk - 4].alloc = 1 /\ brk \notin S
  <2>1. \A c \in S : m[c - 4] \in Tag
    BY BlockFacts DEF Heap
  <2>2. m[brk - 4].alloc = 1 /\ brk \notin S
    BY HeapFacts DEF Heap
  <2> HIDE DEF n
  <2> QED
    BY <2>1, <2>2 DEF Tag, IsFree, GET_ALLOC, HDRP, WSIZE
<1> DEFINE last == n + Size(m, n)
           lo   == IF IsFree(m, q) THEN q ELSE b
           hi   == IF n \in S /\ IsFree(m, n) THEN last ELSE n
<1>4. FreeRun(m, brk, S, b, lo, hi) /\ EndsAt(m, q, b) /\ EndsAt(m, b, n)
  <2>1. EndsAt(m, q, b) /\ EndsAt(m, b, n)
    BY <1>2 DEF EndsAt
  <2>2. /\ lo = IF IsFree(m, q) THEN q ELSE b
        /\ hi = IF n \in S /\ IsFree(m, n) THEN n + Size(m, n) ELSE n
    OBVIOUS
  <2> HIDE DEF lo, hi, n
  <2>3. FreeRun(m, brk, S, b, lo, hi)
    <3>1. CoalescedBut(m, S, b, b + Size(m, b))
      OBVIOUS
    <3> QED
      BY <2>1, <2>2, <3>1, FreeRuns
  <2> QED
    BY <2>1, <2>3
<1>5. /\ next_alloc \in {0, 1} /\ prev_alloc \in {0, 1}
      /\ next_alloc = 0 => n \in S /\ hi = last
      /\ next_alloc = 1 => hi = n
      /\ prev_alloc = 0 => lo = q
      /\ prev_alloc = 1 => lo = b
  BY <1>1, <1>2, <1>3
<1>6. next_alloc = 0 => EndsAt(m, n, last)
  BY DEF EndsAt
<1> HIDE DEF lo, hi, last
<1>7. CASE prev_alloc = 1 /\ next_alloc = 1
  <2>1. r = [mem |-> m, bp |-> b, rover |-> rover]
    BY <1>7 DEF coalesce, next_alloc, prev_alloc
  <2>2. FreeRun(m, brk, S, b, b, n)
    BY <1>4, <1>5, <1>7
  <2> HIDE DEF n
  <2>3. Freed(m, m, brk, S, S, b, n)
    BY <1>4, <2>2, FreeInPlace DEF FreeRun
  <2>4. Absorbed(S, m, b) = S
    BY <1>1, <2>3 DEF Absorbed, Freed, Merged
  <2>5. b <= b /\ b + Size(m, b) <= n /\ n = b + Size(m, b)
    BY <1>4, <2>2, Bounds DEF FreeRun, Heap, EndsAt
  <2> QED
    BY <2>1, <2>3, <2>4, <2>5 DEF CoalesceResult
<1>8. CASE prev_alloc = 1 /\ next_alloc = 0
  <2>1. /\ r.mem = MergeNext(m, b) /\ r.bp = b
        /\ r.rover = Rover(r.mem, b, rover)
    BY <1>8 DEF coalesce, next_alloc, prev_alloc
  <2> HIDE DEF r, n
  <2>2. r.mem = PutTags(m, b, last - b, 0)
    BY <1>4, <1>5, <1>6, <1>8, <2>1, MergeNextRetags DEF Heap
  <2>3. CoalesceResult(m, r, brk, S, b, rover)
    BY <1>4, <1>5, <1>8, <2>1, <2>2, MergeResult
  <2> QED
    BY <2>3 DEF r
<1>9. CASE prev_alloc = 0 /\ next_alloc = 1
  <2>1. /\ r.mem = MergePrev(m, b) /\ r.bp = PREV_BLKP(MergePrev(m, b), b)
        /\ r.rover = Rover(r.mem, r.bp, rover)
    BY <1>9 DEF coalesce, next_alloc, prev_alloc
  <2> HIDE DEF r, n
  <2>2. r.mem = PutTags(m, q, n - q, 0) /\ r.bp = q
    BY <1>2, <1>4, <2>1, MergePrevRetags DEF Heap
  <2>3. CoalesceResult(m, r, brk, S, b, rover)
    BY <1>4, <1>5, <1>9, <2>1, <2>2, MergeResult
  <2> QED
    BY <2>3 DEF r
<1>10. CASE prev_alloc = 0 /\ next_alloc = 0
  <2>1. /\ r.mem = MergeBoth(m, b) /\ r.bp = PREV_BLKP(MergeBoth(m, b), b)
        /\ r.rover = Rover(r.mem, r.bp, rover)
    BY <1>10 DEF coalesce, next_alloc, prev_alloc
  <2> HIDE DEF r, n
  <2>2. r.mem = PutTags(m, q, last - q, 0) /\ r.bp = q
    BY <1>2, <1>4, <1>5, <1>6, <1>10, <2>1, MergeBothRetags DEF Heap
  <2>3. CoalesceResult(m, r, brk, S, b, rover)
    BY <1>4, <1>5, <1>10, <2>1, <2>2, MergeResult
  <2> QED
    BY <2>3 DEF r
<1> QED
  BY <1>5, <1>7, <1>8, <1>9, <1>10

-----------------------------------------------------------------------------
(* What the allocator's operations do to the heap as a whole.              *)

(* The heap between two operations. *)
Structure(m, brk, S, rover) ==
  Heap(m, brk, S) /\ Coalesced(m, S) /\ rover \in S

LEMMA CoalesceKeeps ==
  ASSUME NEW m, NEW brk, NEW S, Heap(m, brk, S), NEW b \in S, NEW rover \in S,
         NEW r, CoalesceResult(m, r, brk, S, b, rover),
         NEW S2, S2 = Absorbed(S, r.mem, r.bp)
  PROVE  /\ Structure(r.mem, brk, S2, r.rover) /\ OnlyTagsNew(m, r.mem)
         /\ Allocated(r.mem, S2) = Allocated(m, S)
         /\ Kept(m, r.mem, Allocated(m, S))
         /\ r.bp \in S2 /\ r.bp # heap_listp /\ IsFree(r.mem, r.bp)
         /\ Size(r.mem, r.bp) >= Size(m, b)
<1> DEFINE lo == r.bp
           hi == r.bp + Size(r.mem, r.bp)
<1>1. /\ Heap(r.mem, brk, S2) /\ Coalesced(r.mem, S2)
      /\ lo \in S2 /\ lo # heap_listp /\ IsFree(r.mem, lo)
      /\ SameTags(m, r.mem, S2 \ {lo})
      /\ SameOutside(m, r.mem, lo, hi) /\ OnlyTagsNew(m, r.mem)
      /\ S2 = Merged(S, lo, hi)
      /\ lo <= b /\ b + Size(m, b) <= hi
      /\ \A c \in S : ~IsFree(m, c) => c \in S2 \ {lo}
      /\ r.rover \in S2
  BY DEF CoalesceResult, Freed
<1>2. S2 \subseteq S /\ \A c \in S2 \ {lo} : IsFree(r.mem, c) <=> IsFree(m, c)
  BY <1>1 DEF Merged, SameTags, IsFree, GET_ALLOC, HDRP, WSIZE
<1>3. Allocated(r.mem, S2) = Allocated(m, S)
  BY <1>1, <1>2 DEF Allocated
<1>4. /\ lo \in Int /\ hi \in Int /\ lo < hi /\ b \in Int /\ Size(m, b) \in Nat
      /\ Size(r.mem, lo) = hi - lo
      /\ \A c \in S : c \in Int
  <2>1. lo \in Int /\ Size(r.mem, lo) \in Nat /\ Size(r.mem, lo) >= 8
    BY <1>1, BlockFacts DEF Heap
  <2>2. Size(m, b) \in Nat /\ \A c \in S : c \in Int
    BY BlockFacts DEF Heap
  <2> QED
    BY <2>1, <2>2
<1>5. Kept(m, r.mem, Allocated(m, S))
  <2>1. hi \in S \union {brk}
    BY <1>1, <1>2 DEF Heap, Tiled
  <2>2. Allocated(m, S) \subseteq Outside(S, lo, hi)
    <3>1. \A c \in Allocated(m, S) : c \in S /\ c # lo /\ ~(lo < c /\ c < hi)
      BY <1>1 DEF Allocated, Merged
    <3>2. \A c \in Allocated(m, S) : c < lo \/ c >= hi
      <4> SUFFICES ASSUME NEW c \in Allocated(m, S)
                   PROVE  c < lo \/ c >= hi
        OBVIOUS
      <4>1. c \in Int /\ lo \in Int /\ hi \in Int
        BY <1>4, <3>1
      <4>2. c # lo /\ ~(lo < c /\ c < hi)
        BY <3>1
      <4> HIDE DEF lo, hi
      <4> QED
        BY <4>1, <4>2
    <3> QED
      BY <3>1, <3>2 DEF Outside
  <2>3. SameTags(m, r.mem, Allocated(m, S))
    BY <1>1 DEF SameTags, Allocated
  <2>4. /\ Tiled(m, brk, S) /\ lo \in S /\ lo < hi
        /\ SameOutside(m, r.mem, lo, hi)
    BY <1>1, <1>2, <1>4 DEF Heap
  <2> HIDE DEF lo, hi
  <2> QED
    BY <2>1, <2>2, <2>3, <2>4, KeptOutside
<1>6. Size(r.mem, lo) >= Size(m, b)
  BY <1>1, <1>4
<1> QED
  BY <1>1, <1>3, <1>5, <1>6 DEF Structure

(* mm_free *)
LEMMA FreeBlock ==
  ASSUME NEW m, NEW brk, NEW S, NEW rover, Structure(m, brk, S, rover),
         NEW p \in S, p # heap_listp,
         NEW r, r = mm_free(m, p, rover),
         NEW S2, S2 = Absorbed(S, r.mem, r.bp)
  PROVE  /\ Structure(r.mem, brk, S2, r.rover) /\ OnlyTagsNew(m, r.mem)
         /\ Allocated(r.mem, S2) = Allocated(m, S) \ {p}
         /\ Kept(m, r.mem, Allocated(m, S) \ {p})
<1> DEFINE m1 == PutTags(m, p, Size(m, p), 0)
           hi == p + Size(m, p)
<1>1. r = coalesce(m1, p, rover)
  BY DEF mm_free, Size
<1>2. Recoloured(m, m1, brk, S, p, 0)
  BY Recolour DEF Structure
<1> HIDE DEF m1
<1>3. /\ Heap(m1, brk, S) /\ IsFree(m1, p) /\ SameTags(m, m1, S \ {p})
      /\ Size(m1, p) = Size(m, p) /\ OnlyTagsNew(m, m1)
      /\ SameOutside(m, m1, p, hi)
  BY <1>2 DEF Recoloured, IsFree, GET_ALLOC, HDRP, WSIZE
<1>4. \A c \in S \ {p} : /\ Size(m1, c) = Size(m, c)
                         /\ IsFree(m1, c) <=> IsFree(m, c)
  BY <1>3 DEF SameTags, IsFree, GET_ALLOC, HDRP, WSIZE
<1>5. /\ p \in Int /\ Size(m, p) \in Nat /\ Size(m, p) >= 8 /\ hi \in S \union {brk}
      /\ \A c, d \in S : c < d => c + Size(m, c) <= d
      /\ \A c \in S : c \in Int /\ Size(m, c) \in Nat /\ Size(m, c) >= 8
  BY BlockFacts DEF Structure, Heap, Tiled
<1>6. CoalescedBut(m1, S, p, hi)
  <2> SUFFICES ASSUME NEW c \in S, c + Size(m1, c) \in S,
                      IsFree(m1, c), IsFree(m1, c + Size(m1, c))
               PROVE  \/ p <= c /\ c < hi
                      \/ p <= c + Size(m1, c) /\ c + Size(m1, c) < hi
    BY DEF CoalescedBut
  <2>1. c = p \/ c + Size(m1, c) = p
    BY <1>4 DEF Structure, Coalesced
  <2> QED
    BY <1>5, <2>1
<1>7. CoalesceResult(m1, r, brk, S, p, rover)
  BY <1>1, <1>3, <1>6, Coalesce
<1>8. /\ Structure(r.mem, brk, S2, r.rover) /\ OnlyTagsNew(m1, r.mem)
      /\ Allocated(r.mem, S2) = Allocated(m1, S)
      /\ Kept(m1, r.mem, Allocated(m1, S))
  BY <1>3, <1>7, CoalesceKeeps DEF Structure
<1>9. Allocated(m1, S) = Allocated(m, S) \ {p}
  BY <1>3, <1>4 DEF Allocated
<1>10. OnlyTagsNew(m, r.mem)
  BY <1>3, <1>8 DEF OnlyTagsNew
<1>11. Kept(m, m1, S \ {p})
  <2>1. S \ {p} \subseteq Outside(S, p, hi)
    BY <1>5 DEF Outside
  <2>2. p < hi /\ Tiled(m, brk, S)
    BY <1>5 DEF Structure, Heap
  <2> HIDE DEF hi
  <2> QED
    BY <1>3, <1>5, <2>1, <2>2, KeptOutside
<1>12. Kept(m, r.mem, Allocated(m, S) \ {p})
  BY <1>8, <1>9, <1>11 DEF Kept, Allocated
<1> QED
  BY <1>8, <1>9, <1>10, <1>12

(* place *)
LEMMA PlaceBlock ==
  ASSUME NEW m, NEW brk, NEW S, NEW rover, Structure(m, brk, S, rover),
         NEW b \in S, b # heap_listp, IsFree(m, b),
         NEW size, Rounded(size), Size(m, b) >= size,
         NEW m2, m2 = place(m, b, size), NEW S2, S2 = Placed(S, m, b, size)
  PROVE  /\ Structure(m2, brk, S2, rover) /\ OnlyTagsNew(m, m2)
         /\ Allocated(m2, S2) = Allocated(m, S) \union {b}
         /\ Kept(m, m2, Allocated(m, S))
         /\ b \in S2 /\ Size(m2, b) >= size
<1>1. Heap(m, brk, S) /\ Coalesced(m, S) /\ rover \in S
  BY DEF Structure
<1>2. Taken(m, m2, brk, S, S2, b, size)
  <2>1. CASE Splits(m, b, size)
    <3>1. size \in Nat /\ size % 8 = 0 /\ size >= 16
      BY DEF Rounded
    <3>2. m2 = SplitFront(m, b, size) /\ S2 = S \union {b + size}
      BY <2>1 DEF place, Placed
    <3> QED
      BY <1>1, <2>1, <3>1, <3>2, SplitFree
  <2>2. CASE ~Splits(m, b, size)
    <3>1. m2 = TakeWhole(m, b) /\ S2 = S
      BY <2>2 DEF place, Placed
    <3>2. size \in Nat
      BY DEF Rounded
    <3> QED
      BY <1>1, <3>1, <3>2, TakeFree
  <2> QED
    BY <2>1, <2>2
<1>3. /\ Heap(m2, brk, S2) /\ Coalesced(m2, S2)
      /\ S \subseteq S2 /\ (\A c \in S2 \ S : IsFree(m2, c))
      /\ ~IsFree(m2, b) /\ Size(m2, b) >= size
      /\ SameTags(m, m2, S \ {b})
      /\ SameOutside(m, m2, b, b + Size(m, b)) /\ OnlyTagsNew(m, m2)
  BY <1>2 DEF Taken
<1>4. \A c \in S \ {b} : IsFree(m2, c) <=> IsFree(m, c)
  BY <1>3 DEF SameTags, IsFree, GET_ALLOC, HDRP, WSIZE
<1>5. Allocated(m2, S2) = Allocated(m, S) \union {b}
  BY <1>3, <1>4 DEF Allocated
<1>6. Kept(m, m2, Allocated(m, S))
  <2> DEFINE hi == b + Size(m, b)
  <2>1. /\ b \in Int /\ b < hi /\ hi \in S \union {brk} /\ Tiled(m, brk, S)
        /\ \A c \in S : b < c => hi <= c
    <3>1. Tiled(m, brk, S)
      BY <1>1 DEF Heap
    <3>2. b \in Int /\ Size(m, b) \in Nat /\ Size(m, b) >= 8
      BY <3>1, BlockFacts
    <3>3. hi \in S \union {brk}
      BY <3>1 DEF Tiled
    <3>4. \A c \in S : b < c => hi <= c
      BY <3>1 DEF Tiled
    <3>5. b < hi
      BY <3>2
    <3> QED
      BY <3>1, <3>2, <3>3, <3>4, <3>5
  <2>2. SameTags(m, m2, Allocated(m, S)) /\ SameOutside(m, m2, b, hi)
    BY <1>3 DEF Allocated, SameTags
  <2>3. \A c \in Allocated(m, S) : c \in S /\ c # b
    BY DEF Allocated
  <2> HIDE DEF hi
  <2>4. \A c \in Allocated(m, S) : c \in S /\ (c < b \/ c >= hi)
    <3> SUFFICES ASSUME NEW c \in Allocated(m, S)
                 PROVE  c < b \/ c >= hi
      BY <2>3
    <3>1. c \in Int /\ hi \in Int
      BY <2>1, <2>3, Bounds
    <3> QED
      BY <2>1, <2>3, <3>1
  <2>5. Allocated(m, S) \subseteq Outside(S, b, hi)
    BY <2>4 DEF Outside
  <2>6. b < hi /\ hi \in S \union {brk} /\ Tiled(m, brk, S)
    BY <2>1
  <2> QED
    BY <2>2, <2>5, <2>6, KeptOutside
<1> QED
  BY <1>1, <1>3, <1>5, <1>6 DEF Structure

(* place splits when the rest can be a block. *)
LEMMA PlaceTight ==
  ASSUME NEW m, NEW brk, NEW S, NEW rover, Structure(m, brk, S, rover),
         NEW b \in S, b # heap_listp, IsFree(m, b),
         NEW size, Rounded(size), Size(m, b) >= size
  PROVE  Size(place(m, b, size), b) < size + 2 * DSIZE
<1>1. Heap(m, brk, S) /\ Coalesced(m, S)
  BY DEF Structure
<1>2. size \in Nat /\ size % 8 = 0 /\ size >= 16
  BY DEF Rounded
<1>3. b \in Int /\ Size(m, b) \in Nat
  BY <1>1, BlockFacts DEF Heap
<1>4. CASE Splits(m, b, size)
  <2>1. PICK m2 : m2 = SplitFront(m, b, size)
    OBVIOUS
  <2>2. Heap(m2, brk, S \union {b + size}) /\ NEXT_BLKP(m2, b) = b + size
    BY <1>1, <1>2, <1>4, <2>1, SplitFree DEF Taken, RestBehind
  <2>3. Size(m2, b) \in Nat
    BY <2>2, BlockFacts DEF Heap
  <2>4. Size(m2, b) = size
    BY <1>2, <1>3, <2>2, <2>3 DEF NEXT_BLKP, Size, HDRP
  <2> QED
    BY <1>2, <1>4, <2>1, <2>4 DEF place, DSIZE
<1>5. CASE ~Splits(m, b, size)
  <2>1. PICK m2 : m2 = TakeWhole(m, b)
    OBVIOUS
  <2>2. Size(m2, b) = Size(m, b)
    <3>1. m2 = PutTags(m, b, Size(m, b), 1)
      BY <2>1 DEF TakeWhole, Size
    <3>2. Recoloured(m, m2, brk, S, b, 1)
      BY <1>1, <3>1, Recolour
    <3> QED
      BY <3>2 DEF Recoloured
  <2>3. Size(m, b) < size + 2 * DSIZE
    BY <1>2, <1>3, <1>5 DEF Splits, Size, DSIZE
  <2> QED
    BY <1>5, <2>1, <2>2, <2>3 DEF place
<1> QED
  BY <1>4, <1>5

(* extend_heap, once mem_sbrk has granted the bytes *)
LEMMA GrowHeap ==
  ASSUME NEW m, NEW brk, NEW S, NEW rover, Structure(m, brk, S, rover),
         NEW size, NEW brk2, MovesBreak(brk, size, brk2),
         NEW r, r = extend_heap(m, brk, size, rover),
         NEW S2, S2 = Absorbed(S \union {brk}, r.mem, r.bp)
  PROVE  /\ Structure(r.mem, brk2, S2, r.rover) /\ OnlyTagsNew(m, r.mem)
         /\ SameAllocated(m, S, r.mem, S2)
         /\ Kept(m, r.mem, Allocated(m, S))
         /\ r.bp \in S2 /\ r.bp # heap_listp /\ IsFree(r.mem, r.bp)
         /\ Size(r.mem, r.bp) >= size
<1> DEFINE m1 == ExtendTags(m, brk, size)
           S1 == S \union {brk}
<1>1. Heap(m, brk, S) /\ Coalesced(m, S) /\ rover \in S
  BY DEF Structure
<1>2. Extended(m, m1, brk, brk2, S)
  <2>1. /\ size \in Nat /\ size % 8 = 0 /\ size >= 16
        /\ brk2 = brk + size /\ brk2 <= mem_max_addr
    BY DEF MovesBreak, Rounded
  <2> QED
    BY <1>1, <2>1, Extend
<1> HIDE DEF m1
<1>3. /\ Heap(m1, brk2, S1) /\ IsFree(m1, brk)
      /\ Size(m1, brk) = brk2 - brk
      /\ SameTags(m, m1, S) /\ OnlyTagsNew(m, m1)
      /\ CoalescedBut(m1, S1, brk, brk2)
      /\ \A a \in Addr : a < brk - 4 => m1[a] = m[a]
  BY <1>2 DEF Extended
<1>4. brk # heap_listp /\ brk \in Int /\ brk \notin S
  BY <1>1, HeapFacts DEF Heap
<1>5. Size(m1, brk) = size /\ brk + Size(m1, brk) = brk2
  BY <1>3, <1>4 DEF MovesBreak, Rounded
<1>6. r = coalesce(m1, brk, rover)
  BY DEF extend_heap, m1
<1>7. CoalesceResult(m1, r, brk2, S1, brk, rover)
  <2>1. CoalescedBut(m1, S1, brk, brk + Size(m1, brk))
    BY <1>3, <1>5
  <2> HIDE DEF S1
  <2>2. brk \in S1
    BY DEF S1
  <2> QED
    BY <1>3, <1>4, <1>6, <2>1, <2>2, Coalesce
<1>8. /\ Structure(r.mem, brk2, S2, r.rover) /\ OnlyTagsNew(m1, r.mem)
      /\ Allocated(r.mem, S2) = Allocated(m1, S1)
      /\ Kept(m1, r.mem, Allocated(m1, S1))
      /\ r.bp \in S2 /\ r.bp # heap_listp /\ IsFree(r.mem, r.bp)
      /\ Size(r.mem, r.bp) >= Size(m1, brk)
  <2>1. brk \in S1 /\ rover \in S1 /\ S2 = Absorbed(S1, r.mem, r.bp)
    BY <1>1
  <2> HIDE DEF S1
  <2> QED
    BY <1>3, <1>7, <2>1, CoalesceKeeps
<1>9. Allocated(m1, S1) = Allocated(m, S)
  BY <1>3 DEF Allocated, SameTags, IsFree, GET_ALLOC, HDRP, WSIZE
<1>10. OnlyTagsNew(m, r.mem)
  BY <1>3, <1>8 DEF OnlyTagsNew
<1>11. Kept(m, m1, S)
  <2> SUFFICES ASSUME NEW c \in S, NEW a \in Addr,
                      c <= a, a < c + Size(m, c) - DSIZE
               PROVE  m1[a] = m[a]
    BY <1>3 DEF Kept, SameTags
  <2>1. c \in Int /\ Size(m, c) \in Nat /\ c + Size(m, c) <= brk
    BY <1>1, BlockFacts DEF Heap
  <2>2. a \in Int
    BY ArenaAssumption DEF Addr, mem_max_addr
  <2>3. a < brk - 4
    BY <1>4, <2>1, <2>2 DEF DSIZE
  <2> QED
    BY <1>3, <2>3
<1>12. Kept(m, r.mem, Allocated(m, S))
  BY <1>8, <1>9, <1>11 DEF Kept, Allocated
<1> QED
  BY <1>5, <1>8, <1>9, <1>10, <1>12 DEF SameAllocated

-----------------------------------------------------------------------------
(* The inductive invariant.                                                *)

(* The heap is whole and prev_bp is on a block. *)
StructureInv == pc # "down" => Structure(mem, mem_brk, blks, prev_bp)

(* The allocated blocks are the prologue, those of the live pointers, all  *)
(* different, and the one a call is about to return; each is large enough  *)
(* for its payload and two tags.                                           *)
OwnerInv ==
  pc # "down" =>
    /\ Allocated(mem, blks) = Owned \union {heap_listp}
    /\ \A i, j \in Live : i # j => ptr[i] # ptr[j]
    /\ \A i \in Live : /\ ptr[i] # heap_listp
                       /\ Size(mem, ptr[i]) >= psize[i] + DSIZE
    /\ (pc \in {"move", "ret"} /\ bp # NULL) =>
         /\ bp # heap_listp /\ Size(mem, bp) >= new_size
         /\ \A i \in Live : ptr[i] # bp

(* The frame of the call in progress, if there is one. *)
CallInv ==
  /\ pc = "down" => \A i \in Ids : ptr[i] = NULL
  /\ pc \in {"down", "idle"} => call = NoCall /\ bp = NULL
  /\ pc \notin {"down", "idle"} =>
       /\ call \in Call /\ call.size > 0 /\ new_size = AdjustedSize(call.size)
       /\ call.op = "malloc" <=> ptr[call.id] = NULL
  /\ pc = "move" => call.op = "realloc" /\ bp # NULL

(* next_fit's cursor is on a block, or on the epilogue in the first loop,  *)
(* and has not passed prev_bp in the second.                               *)
SearchInv ==
  /\ pc = "up" => bp \in blks \union {mem_brk}
  /\ pc = "low" => bp \in blks /\ bp <= prev_bp

IInv == TypeOK /\ StructureInv /\ OwnerInv /\ CallInv /\ SearchInv

(* Tags are words, so writing them keeps the arena's type. *)
LEMMA TagsAreWords ==
  ASSUME NEW m, m \in [Addr -> Word], NEW m2, Memory(m2), OnlyTagsNew(m, m2)
  PROVE  m2 \in [Addr -> Word]
<1>1. \A a \in Addr : m2[a] \in Word
  BY DEF OnlyTagsNew, Word
<1> QED
  BY <1>1 DEF Memory

LEMMA WordsAreMemory ==
  ASSUME NEW m, m \in [Addr -> Word]
  PROVE  Memory(m)
BY DEF Memory

-----------------------------------------------------------------------------
(* Every step preserves it, and leaves alone the payload of every pointer  *)
(* that is live before and after it.                                       *)

Undisturbed ==
  /\ \A i \in Live \cap Live' : ptr'[i] = ptr[i] /\ psize'[i] = psize[i]
  /\ Kept(mem, mem', {ptr[i] : i \in Live \cap Live'})

LEMMA InitHolds == Init => IInv
<1> SUFFICES ASSUME Init
             PROVE  IInv
  OBVIOUS
<1> USE DEF Init, ClientInit
<1>1. mem \in [Addr -> Word] /\ mem_brk \in mem_start_brk .. mem_max_addr
  <2>1. Junk \in Word
    BY DEF Word
  <2> QED
    BY <2>1, ArenaAssumption DEF mem_max_addr
<1>2. TypeOK
  BY <1>1 DEF TypeOK, NULL
<1> QED
  BY <1>2 DEF IInv, StructureInv, OwnerInv, CallInv, SearchInv

(* What the invariant says while the client holds pointers. *)
LEMMA Situation ==
  ASSUME IInv, pc # "down"
  PROVE  /\ Structure(mem, mem_brk, blks, prev_bp) /\ Memory(mem)
         /\ Allocated(mem, blks) = Owned \union {heap_listp}
         /\ Allocated(mem, blks) \subseteq blks
         /\ \A i \in Live : /\ ptr[i] \in blks /\ ptr[i] # heap_listp
                            /\ ptr[i] \in Allocated(mem, blks)
         /\ blks \subseteq Addr /\ NULL \notin blks
<1>1. Structure(mem, mem_brk, blks, prev_bp) /\ Memory(mem)
  BY WordsAreMemory DEF IInv, StructureInv, TypeOK
<1>2. /\ Allocated(mem, blks) = Owned \union {heap_listp}
      /\ Allocated(mem, blks) \subseteq blks
      /\ \A i \in Live : ptr[i] # heap_listp
  BY DEF IInv, OwnerInv, Allocated
<1>3. \A i \in Live : ptr[i] \in Owned
  BY DEF Owned
<1>4. blks \subseteq Addr /\ NULL \notin blks
  BY <1>1, BlocksInArena DEF Structure
<1> QED
  BY <1>1, <1>2, <1>3, <1>4

LEMMA FreeStep ==
  ASSUME IInv, NEW i \in Ids, CallFree(i)
  PROVE  IInv' /\ Undisturbed
<1> DEFINE freed == mm_free(mem, ptr[i], prev_bp)
<1>1. /\ pc = "idle" /\ ptr[i] # NULL
      /\ mem' = freed.mem /\ prev_bp' = freed.rover
      /\ blks' = Absorbed(blks, freed.mem, freed.bp)
      /\ ptr' = [ptr EXCEPT ![i] = NULL] /\ psize' = [psize EXCEPT ![i] = 0]
      /\ mem_brk' = mem_brk /\ pc' = pc /\ call' = call /\ bp' = bp
      /\ new_size' = new_size
  BY DEF CallFree
<1> HIDE DEF freed
<1>2. /\ Structure(mem, mem_brk, blks, prev_bp) /\ Memory(mem)
      /\ Allocated(mem, blks) = Owned \union {heap_listp}
      /\ \A j \in Live : /\ ptr[j] \in blks /\ ptr[j] # heap_listp
                         /\ ptr[j] \in Allocated(mem, blks)
  BY <1>1, Situation
<1>3. /\ Live = {j \in Ids : ptr[j] # NULL} /\ i \in Live
      /\ Live' = Live \ {i}
      /\ Owned = {ptr[j] : j \in Live} /\ Owned' = {ptr[j] : j \in Live'}
      /\ \A j \in Live' : ptr'[j] = ptr[j] /\ psize'[j] = psize[j]
  <2>1. Live = {j \in Ids : ptr[j] # NULL} /\ i \in Live
    BY <1>1 DEF Live, Moved
  <2>2. ptr \in [Ids -> Addr \union {NULL}] /\ psize \in [Ids -> Nat]
    BY DEF IInv, TypeOK
  <2>3. Live' = {j \in Ids : ptr'[j] # NULL}
    BY <1>1 DEF Live, Moved
  <2>4. Live' = Live \ {i}
    BY <1>1, <2>1, <2>2, <2>3
  <2>5. \A j \in Live' : ptr'[j] = ptr[j] /\ psize'[j] = psize[j]
    BY <1>1, <2>1, <2>2, <2>4
  <2>6. Owned = {ptr[j] : j \in Live} /\ Owned' = {ptr'[j] : j \in Live'}
    BY <1>1 DEF Owned
  <2> QED
    BY <2>1, <2>4, <2>5, <2>6
<1>4. /\ Structure(mem', mem_brk', blks', prev_bp') /\ OnlyTagsNew(mem, mem')
      /\ Allocated(mem', blks') = Allocated(mem, blks) \ {ptr[i]}
      /\ Kept(mem, mem', Allocated(mem, blks) \ {ptr[i]})
  <2>1. PICK r : r = freed
    OBVIOUS
  <2>2. PICK S2 : S2 = Absorbed(blks, r.mem, r.bp)
    OBVIOUS
  <2>3. PICK p : p = ptr[i]
    OBVIOUS
  <2>4. r = mm_free(mem, p, prev_bp) /\ p \in blks /\ p # heap_listp
    BY <1>2, <1>3, <2>1, <2>3 DEF freed
  <2>5. Structure(mem, mem_brk, blks, prev_bp)
    BY <1>2
  <2>6. /\ Structure(r.mem, mem_brk, S2, r.rover) /\ OnlyTagsNew(mem, r.mem)
        /\ Allocated(r.mem, S2) = Allocated(mem, blks) \ {p}
        /\ Kept(mem, r.mem, Allocated(mem, blks) \ {p})
    BY <2>2, <2>4, <2>5, FreeBlock
  <2> QED
    BY <1>1, <2>1, <2>2, <2>3, <2>6
<1>5. TypeOK'
  <2>1. mem' \in [Addr -> Word]
    BY <1>4, TagsAreWords DEF IInv, TypeOK, Structure, Heap
  <2>2. blks' \subseteq Addr /\ prev_bp' \in Addr
    BY <1>4, BlocksInArena DEF Structure
  <2> QED
    BY <1>1, <2>1, <2>2 DEF IInv, TypeOK
<1>6. StructureInv'
  BY <1>4 DEF StructureInv
<1>7. OwnerInv'
  <2>1. \A j, k \in Live : j # k => ptr[j] # ptr[k]
    BY <1>1 DEF IInv, OwnerInv
  <2>2. Owned' = Owned \ {ptr[i]}
    BY <1>3, <2>1
  <2>3. Allocated(mem', blks') = Owned' \union {heap_listp}
    BY <1>2, <1>3, <1>4, <2>2
  <2>4. \A j \in Live' : ptr[j] \in Allocated(mem, blks) \ {ptr[i]}
    BY <1>2, <1>3, <2>1
  <2>5. \A j \in Live' : Size(mem', ptr[j]) = Size(mem, ptr[j])
    BY <1>4, <2>4 DEF Kept
  <2>6. \A j \in Live' : /\ ptr'[j] # heap_listp
                         /\ Size(mem', ptr'[j]) >= psize'[j] + DSIZE
    BY <1>1, <1>3, <2>5 DEF IInv, OwnerInv
  <2> QED
    BY <1>1, <1>3, <2>1, <2>3, <2>6 DEF OwnerInv
<1>8. CallInv'
  BY <1>1 DEF IInv, CallInv
<1>9. SearchInv'
  BY <1>1 DEF SearchInv
<1>10. Undisturbed
  <2>1. Live \cap Live' = Live'
    BY <1>3
  <2>2. \A j \in Live' : ptr[j] \in Allocated(mem, blks) \ {ptr[i]}
    BY <1>1, <1>2, <1>3 DEF IInv, OwnerInv
  <2>3. Kept(mem, mem', {ptr[j] : j \in Live'})
    BY <1>4, <2>2 DEF Kept
  <2> QED
    BY <1>3, <2>1, <2>3 DEF Undisturbed
<1> QED
  BY <1>5, <1>6, <1>7, <1>8, <1>9, <1>10 DEF IInv

(* Steps of a call that leave the heap and the client's pointers alone. *)
LEMMA QuietStep ==
  ASSUME IInv, pc \notin {"down", "move", "ret"},
         pc' # "down", pc' = "ret" => bp' = NULL, pc' # "move",
         UNCHANGED <<mem, mem_brk, ptr, psize, prev_bp, blks>>
  PROVE  StructureInv' /\ OwnerInv' /\ Live' = Live /\ Undisturbed
<1>1. StructureInv'
  BY DEF IInv, StructureInv
<1>2. Live' = Live
  BY DEF Live, Moved
<1>3. Owned' = Owned
  BY <1>2 DEF Owned
<1>4. OwnerInv'
  BY <1>2, <1>3 DEF IInv, OwnerInv
<1>5. Undisturbed
  BY DEF Undisturbed, Kept
<1> QED
  BY <1>1, <1>2, <1>4, <1>5

LEMMA StartStep ==
  ASSUME IInv, NEW i \in Ids, NEW size \in Sizes,
         CallMalloc(i, size) \/ CallRealloc(i, size)
  PROVE  IInv' /\ Live' = Live /\ Undisturbed
<1> PICK op \in {"malloc", "realloc"} :
         /\ pc = "idle" /\ StartSearch(op, i, size)
         /\ op = "malloc" <=> ptr[i] = NULL
  BY DEF CallMalloc, CallRealloc
<1>1. /\ size > 0 /\ call' = [op |-> op, id |-> i, size |-> size]
      /\ new_size' = AdjustedSize(size) /\ bp' = prev_bp /\ pc' = "up"
      /\ UNCHANGED <<mem, mem_brk, ptr, psize, prev_bp, blks>>
  BY DEF StartSearch
<1>2. StructureInv' /\ OwnerInv' /\ Live' = Live /\ Undisturbed
  BY <1>1, QuietStep
<1>3. prev_bp \in blks /\ blks \subseteq Addr
  BY Situation DEF Structure
<1>4. AdjustedSize(size) \in Nat
  BY <1>1, RequestSize DEF Rounded
<1>5. TypeOK'
  BY <1>1, <1>3, <1>4 DEF IInv, TypeOK, Call
<1>6. CallInv'
  BY <1>1 DEF CallInv, Call
<1>7. SearchInv'
  BY <1>1, <1>3 DEF SearchInv
<1> QED
  BY <1>2, <1>5, <1>6, <1>7 DEF IInv

(* What next_fit finds in front of it. *)
LEMMA Cursor ==
  ASSUME IInv, pc \in {"up", "low"}, bp \in blks
  PROVE  /\ NEXT_BLKP(mem, bp) \in blks \union {mem_brk}
         /\ \A c \in blks : bp < c => NEXT_BLKP(mem, bp) <= c
         /\ NEXT_BLKP(mem, bp) \in Addr \union {mem_max_addr}
<1>1. Tiled(mem, mem_brk, blks) /\ Structure(mem, mem_brk, blks, prev_bp)
  BY Situation DEF Structure, Heap
<1>2. NEXT_BLKP(mem, bp) = bp + Size(mem, bp)
  BY DEF NEXT_BLKP, Size, HDRP
<1>3. /\ NEXT_BLKP(mem, bp) \in blks \union {mem_brk}
      /\ \A c \in blks : bp < c => NEXT_BLKP(mem, bp) <= c
  BY <1>1, <1>2 DEF Tiled
<1>4. mem_brk \in Addr \union {mem_max_addr} /\ blks \subseteq Addr
  BY <1>1, BlocksInArena DEF Structure
<1> QED
  BY <1>3, <1>4

(* A cursor on the epilogue sees size 0, one on a block does not. *)
LEMMA Epilogue ==
  ASSUME IInv, pc # "down"
  PROVE  /\ GET_SIZE(mem, HDRP(mem_brk)) = 0
         /\ GET_ALLOC(mem, HDRP(mem_brk)) = 1
         /\ GET_ALLOC(mem, HDRP(heap_listp)) = 1
         /\ mem_brk \notin blks /\ heap_listp \in blks
         /\ \A b \in blks : b \in Int /\ heap_listp <= b
<1>1. Tiled(mem, mem_brk, blks)
  BY Situation DEF Structure, Heap
<1>2. /\ mem_brk \notin blks /\ heap_listp \in blks
      /\ mem[heap_listp - 4] = [size |-> 8, alloc |-> 1]
      /\ mem[mem_brk - 4] = [size |-> 0, alloc |-> 1]
  BY <1>1, HeapFacts
<1>3. \A b \in blks : b \in Int /\ heap_listp <= b
  BY <1>1, BlockFacts
<1> QED
  BY <1>2, <1>3 DEF GET_SIZE, GET_ALLOC, HDRP, WSIZE

LEMMA AdvanceStep ==
  ASSUME IInv, SearchUp \/ SearchLow, Advance
  PROVE  IInv' /\ Live' = Live /\ Undisturbed
<1>1. /\ bp' = NEXT_BLKP(mem, bp) /\ pc' = pc /\ pc \in {"up", "low"}
      /\ call' = call /\ new_size' = new_size
      /\ UNCHANGED <<mem, mem_brk, ptr, psize, prev_bp, blks>>
      /\ pc = "up" => GET_SIZE(mem, HDRP(bp)) > 0
      /\ pc = "low" => bp # prev_bp
  BY DEF Advance, SearchUp, SearchLow
<1>2. StructureInv' /\ OwnerInv' /\ Live' = Live /\ Undisturbed
  BY <1>1, QuietStep
<1>3. bp \in blks
  BY <1>1, Epilogue DEF IInv, SearchInv
<1>4. /\ bp' \in blks \union {mem_brk}
      /\ \A c \in blks : bp < c => bp' <= c
      /\ bp' \in Addr \union {mem_max_addr}
  BY <1>1, <1>3, Cursor
<1>5. TypeOK'
  BY <1>1, <1>4 DEF IInv, TypeOK
<1>6. CallInv'
  BY <1>1 DEF IInv, CallInv
<1>7. SearchInv'
  <2>1. ASSUME pc = "low"
        PROVE  bp' \in blks /\ bp' <= prev_bp
    <3>1. prev_bp \in blks /\ prev_bp # mem_brk
      BY <1>1, Situation, Epilogue DEF Structure
    <3>2. \A b \in blks : b \in Int /\ b < mem_brk
      BY <1>1, Situation, Bounds DEF Structure, Heap
    <3>3. mem_brk \in Int
      BY <1>1, Situation, Bounds DEF Structure, Heap
    <3>4. bp < prev_bp
      BY <1>1, <1>3, <2>1, <3>1, <3>2 DEF IInv, SearchInv
    <3>5. bp' <= prev_bp
      BY <1>4, <3>1, <3>4
    <3>6. bp' # mem_brk
      BY <3>1, <3>2, <3>3, <3>5
    <3> QED
      BY <1>4, <3>5, <3>6
  <2> QED
    BY <1>1, <1>4, <2>1 DEF SearchInv
<1> QED
  BY <1>2, <1>5, <1>6, <1>7 DEF IInv

LEMMA WrapAroundStep ==
  ASSUME IInv, WrapAround
  PROVE  IInv' /\ Live' = Live /\ Undisturbed
<1>1. /\ bp' = heap_listp /\ pc' = "low" /\ pc = "up"
      /\ call' = call /\ new_size' = new_size
      /\ UNCHANGED <<mem, mem_brk, ptr, psize, prev_bp, blks>>
  BY DEF WrapAround
<1>2. StructureInv' /\ OwnerInv' /\ Live' = Live /\ Undisturbed
  BY <1>1, QuietStep
<1>3. /\ heap_listp \in blks /\ blks \subseteq Addr
      /\ prev_bp \in blks /\ heap_listp <= prev_bp
  BY <1>1, Epilogue, Situation DEF Structure
<1>4. TypeOK'
  BY <1>1, <1>3 DEF IInv, TypeOK
<1>5. CallInv'
  BY <1>1 DEF IInv, CallInv
<1>6. SearchInv'
  BY <1>1, <1>3 DEF SearchInv
<1> QED
  BY <1>2, <1>4, <1>5, <1>6 DEF IInv

LEMMA NoFitStep ==
  ASSUME IInv, NoFit
  PROVE  IInv' /\ Live' = Live /\ Undisturbed
<1>1. /\ bp' = bp /\ pc' = "grow" /\ pc = "low"
      /\ call' = call /\ new_size' = new_size
      /\ UNCHANGED <<mem, mem_brk, ptr, psize, prev_bp, blks>>
  BY DEF NoFit
<1>2. StructureInv' /\ OwnerInv' /\ Live' = Live /\ Undisturbed
  BY <1>1, QuietStep
<1> QED
  BY <1>1, <1>2 DEF IInv, TypeOK, CallInv, SearchInv

LEMMA GrowFailsStep ==
  ASSUME IInv, GrowFails
  PROVE  IInv' /\ Live' = Live /\ Undisturbed
<1>1. /\ bp' = NULL /\ pc' = "ret" /\ pc = "grow"
      /\ call' = call /\ new_size' = new_size
      /\ UNCHANGED <<mem, mem_brk, ptr, psize, prev_bp, blks>>
  BY DEF GrowFails
<1>2. StructureInv' /\ OwnerInv' /\ Live' = Live /\ Undisturbed
  BY <1>1, QuietStep
<1> QED
  BY <1>1, <1>2 DEF IInv, TypeOK, CallInv, SearchInv

(* The call has its block b, free in the heap m of blocks S: place it. *)
LEMMA PlaceStep ==
  ASSUME IInv, pc \notin {"down", "idle", "move", "ret"},
         NEW m, NEW brk, NEW S, NEW rover, Structure(m, brk, S, rover),
         OnlyTagsNew(mem, m), Allocated(m, S) = Allocated(mem, blks),
         Kept(mem, m, Allocated(mem, blks)),
         NEW b \in S, b # heap_listp, IsFree(m, b), Size(m, b) >= new_size,
         mem' = place(m, b, new_size), blks' = Placed(S, m, b, new_size),
         bp' = b, pc' = IF call.op = "realloc" THEN "move" ELSE "ret",
         mem_brk' = brk, prev_bp' = rover,
         UNCHANGED <<ptr, psize, call, new_size>>
  PROVE  /\ IInv' /\ Live' = Live /\ Undisturbed
         /\ Size(mem', bp') < new_size' + 2 * DSIZE
<1>1. /\ Memory(mem)
      /\ Allocated(mem, blks) = Owned \union {heap_listp}
      /\ \A i \in Live : /\ ptr[i] # heap_listp
                         /\ ptr[i] \in Allocated(mem, blks)
  BY Situation
<1>2. /\ call \in Call /\ new_size = AdjustedSize(call.size)
      /\ call.op = "malloc" <=> ptr[call.id] = NULL
      /\ Rounded(new_size)
  <2>1. /\ call \in Call /\ call.size > 0 /\ new_size = AdjustedSize(call.size)
        /\ call.op = "malloc" <=> ptr[call.id] = NULL
    BY DEF IInv, CallInv
  <2>2. Rounded(new_size)
    BY <2>1, RequestSize DEF Call
  <2> QED
    BY <2>1, <2>2
<1>3. PICK m2 : m2 = place(m, b, new_size)
  OBVIOUS
<1>4. PICK S2 : S2 = Placed(S, m, b, new_size)
  OBVIOUS
<1>5. /\ Structure(m2, brk, S2, rover) /\ OnlyTagsNew(m, m2)
      /\ Allocated(m2, S2) = Allocated(m, S) \union {b}
      /\ Kept(m, m2, Allocated(m, S))
      /\ b \in S2 /\ Size(m2, b) >= new_size
  BY <1>2, <1>3, <1>4, PlaceBlock
<1>6. OnlyTagsNew(mem, m2) /\ Kept(mem, m2, Allocated(mem, blks))
  <2>1. OnlyTagsNew(mem, m2)
    BY <1>5 DEF OnlyTagsNew
  <2>2. Kept(mem, m2, Allocated(mem, blks))
    BY <1>5 DEF Kept
  <2> QED
    BY <2>1, <2>2
<1>7. b \notin Allocated(mem, blks)
  BY DEF Allocated
<1>8. Live' = Live /\ Owned' = Owned \union {b}
  <2>1. call.op = "malloc" <=> call.op # "realloc"
    BY <1>2 DEF Call
  <2>2. Live = {i \in Ids : ptr[i] # NULL} /\ Live' = {i \in Ids : ptr[i] # NULL}
    BY <2>1 DEF Live, Moved
  <2>3. b # NULL
    BY BlocksInArena DEF Structure
  <2>4. /\ Owned = {ptr[i] : i \in Live}
        /\ Owned' = {ptr'[i] : i \in Live'} \union {b}
    BY <2>3 DEF Owned
  <2> QED
    BY <2>2, <2>4
<1>9. TypeOK'
  <2>1. mem' \in [Addr -> Word]
    BY <1>3, <1>5, <1>6, TagsAreWords DEF IInv, TypeOK, Structure, Heap
  <2>2. /\ blks' \subseteq Addr /\ bp' \in Addr /\ prev_bp' \in Addr
        /\ mem_brk' \in mem_start_brk .. mem_max_addr
    BY <1>4, <1>5, BlocksInArena DEF Structure
  <2> QED
    BY <2>1, <2>2 DEF IInv, TypeOK
<1>10. StructureInv'
  BY <1>3, <1>4, <1>5 DEF StructureInv
<1>11. OwnerInv'
  <2>1. Allocated(mem', blks') = Owned' \union {heap_listp}
    BY <1>1, <1>3, <1>4, <1>5, <1>8
  <2>2. \A i \in Live' : /\ ptr'[i] # heap_listp
                         /\ Size(mem', ptr'[i]) >= psize'[i] + DSIZE
    BY <1>1, <1>3, <1>6, <1>8 DEF IInv, OwnerInv, Kept
  <2>3. \A i, j \in Live' : i # j => ptr'[i] # ptr'[j]
    BY <1>8 DEF IInv, OwnerInv
  <2>4. bp' # heap_listp /\ Size(mem', bp') >= new_size'
    BY <1>3, <1>5
  <2>5. \A i \in Live' : ptr'[i] # bp'
    BY <1>1, <1>7, <1>8
  <2> QED
    BY <2>1, <2>2, <2>3, <2>4, <2>5 DEF OwnerInv
<1>12. CallInv'
  <2>1. b # NULL
    BY BlocksInArena DEF Structure
  <2> QED
    BY <2>1 DEF IInv, CallInv
<1>13. SearchInv'
  BY DEF SearchInv
<1>14. Undisturbed
  <2>1. \A i \in Live : ptr[i] \in Allocated(mem, blks)
    BY <1>1
  <2>2. Kept(mem, mem', {ptr[i] : i \in Live})
    BY <1>3, <1>6, <2>1 DEF Kept
  <2> QED
    BY <1>8, <2>2 DEF Undisturbed
<1>15. Size(mem', bp') < new_size' + 2 * DSIZE
  <2>1. Size(m2, b) < new_size + 2 * DSIZE
    BY <1>2, <1>3, PlaceTight
  <2> QED
    BY <1>3, <2>1
<1> QED
  BY <1>8, <1>9, <1>10, <1>11, <1>12, <1>13, <1>14, <1>15 DEF IInv

LEMMA TakeFitStep ==
  ASSUME IInv, SearchUp \/ SearchLow, TakeFit
  PROVE  /\ IInv' /\ Live' = Live /\ Undisturbed
         /\ Size(mem', bp') < new_size' + 2 * DSIZE
<1>1. /\ pc \in {"up", "low"} /\ Fits(mem, bp) /\ prev_bp' = bp
      /\ mem' = place(mem, bp, new_size)
      /\ blks' = Placed(blks, mem, bp, new_size) /\ bp' = bp
      /\ pc' = IF call.op = "realloc" THEN "move" ELSE "ret"
      /\ mem_brk' = mem_brk /\ UNCHANGED <<ptr, psize, call, new_size>>
  BY DEF TakeFit, PlaceAt, SearchUp, SearchLow
<1>2. /\ IsFree(mem, bp) /\ Size(mem, bp) >= new_size
      /\ bp # heap_listp /\ bp # mem_brk
  BY <1>1, Epilogue DEF Fits, IsFree, Size
<1>3. bp \in blks
  BY <1>1, <1>2 DEF IInv, SearchInv
<1>4. Structure(mem, mem_brk, blks, bp)
  BY <1>1, <1>3, Situation DEF Structure
<1>5. OnlyTagsNew(mem, mem) /\ Kept(mem, mem, Allocated(mem, blks))
  BY DEF OnlyTagsNew, Kept
<1> QED
  BY <1>1, <1>2, <1>3, <1>4, <1>5, PlaceStep

(* extend_heap asks for a rounded number of bytes, which fits in an int    *)
(* unless mem_sbrk refuses it, and the break does not wrap.                *)
LEMMA Sbrk ==
  ASSUME IInv, pc = "grow", ~SbrkFails(mem_brk, ToInt(GrowSize))
  PROVE  /\ Rounded(GrowSize) /\ GrowSize >= new_size
         /\ SbrkBreak(mem_brk, ToInt(GrowSize)) = mem_brk + GrowSize
         /\ mem_brk + GrowSize <= mem_max_addr
<1>1. mem_brk \in Nat /\ mem_brk <= mem_max_addr
  BY ArenaAssumption DEF IInv, TypeOK, mem_max_addr
<1>2. Rounded(new_size) /\ new_size + mem_max_addr < UINT_MOD
  BY RequestSize DEF IInv, CallInv, Call
<1>3. PICK size : size = GrowSize
  OBVIOUS
<1>4. size = ExtendSize((IF new_size > CHUNKSIZE THEN new_size ELSE CHUNKSIZE)
                        \div WSIZE)
  BY <1>3 DEF GrowSize
<1>5. /\ MovesBreak(mem_brk, size, mem_brk + size) /\ size >= new_size
      /\ SbrkBreak(mem_brk, ToInt(size)) = mem_brk + size
  BY <1>1, <1>2, <1>3, <1>4, GrowthMoves
<1> QED
  BY <1>3, <1>5 DEF MovesBreak

LEMMA GrowStep ==
  ASSUME IInv, Grow
  PROVE  /\ IInv' /\ Live' = Live /\ Undisturbed
         /\ Size(mem', bp') < new_size' + 2 * DSIZE
<1>1. PICK r : r = extend_heap(mem, mem_brk, GrowSize, prev_bp)
  OBVIOUS
<1>2. PICK S : S = Absorbed(blks \union {mem_brk}, r.mem, r.bp)
  OBVIOUS
<1>3. /\ pc = "grow" /\ ~SbrkFails(mem_brk, ToInt(GrowSize))
      /\ mem_brk' = SbrkBreak(mem_brk, ToInt(GrowSize)) /\ prev_bp' = r.rover
      /\ mem' = place(r.mem, r.bp, new_size)
      /\ blks' = Placed(S, r.mem, r.bp, new_size) /\ bp' = r.bp
      /\ pc' = IF call.op = "realloc" THEN "move" ELSE "ret"
      /\ UNCHANGED <<ptr, psize, call, new_size>>
  BY <1>1, <1>2 DEF Grow, PlaceAt
<1>4. /\ Rounded(GrowSize) /\ GrowSize >= new_size
      /\ mem_brk' = mem_brk + GrowSize /\ mem_brk + GrowSize <= mem_max_addr
  BY <1>3, Sbrk
<1>5. PICK size : size = GrowSize
  OBVIOUS
<1>6. PICK brk : brk = mem_brk + size
  OBVIOUS
<1>7. Structure(mem, mem_brk, blks, prev_bp)
  BY <1>3, Situation
<1>8. /\ MovesBreak(mem_brk, size, brk)
      /\ r = extend_heap(mem, mem_brk, size, prev_bp)
  BY <1>1, <1>4, <1>5, <1>6 DEF MovesBreak
<1>9. /\ Structure(r.mem, brk, S, r.rover) /\ OnlyTagsNew(mem, r.mem)
      /\ SameAllocated(mem, blks, r.mem, S)
      /\ Kept(mem, r.mem, Allocated(mem, blks))
      /\ r.bp \in S /\ r.bp # heap_listp /\ IsFree(r.mem, r.bp)
      /\ Size(r.mem, r.bp) >= size
  BY <1>2, <1>7, <1>8, GrowHeap
<1>10. Size(r.mem, r.bp) >= new_size
  <2>1. Size(r.mem, r.bp) \in Int
    BY <1>9, BlockFacts DEF Structure, Heap
  <2>2. size \in Int /\ size >= new_size /\ new_size \in Int
    BY <1>4, <1>5 DEF Rounded, IInv, TypeOK
  <2> QED
    BY <1>9, <2>1, <2>2
<1>11. mem_brk' = brk
  BY <1>4, <1>5, <1>6
<1>12. Allocated(r.mem, S) = Allocated(mem, blks)
  BY <1>9 DEF SameAllocated
<1> QED
  BY <1>3, <1>9, <1>10, <1>11, <1>12, PlaceStep

LEMMA InitStep ==
  ASSUME IInv, mm_init
  PROVE  IInv' /\ Live' = {}
<1>1. PICK m : m = Prologue(mem)
  OBVIOUS
<1>2. PICK brk : brk = mem_start_brk + 4 * WSIZE
  OBVIOUS
<1>3. PICK size : size = ExtendSize(CHUNKSIZE \div WSIZE)
  OBVIOUS
<1>4. PICK r : r = extend_heap(m, brk, size, heap_listp)
  OBVIOUS
<1>5. PICK S : S = {heap_listp}
  OBVIOUS
<1>6. PICK S2 : S2 = Absorbed(S \union {brk}, r.mem, r.bp)
  OBVIOUS
<1>7. PICK brk2 : brk2 = brk + size
  OBVIOUS
<1>8. /\ pc \in {"down", "idle"} /\ pc' = "idle"
      /\ mem_brk' = SbrkBreak(brk, size)
      /\ mem' = r.mem /\ prev_bp' = r.rover /\ blks' = S2
      /\ ptr' = [i \in Ids |-> NULL] /\ psize' = [i \in Ids |-> 0]
      /\ UNCHANGED <<call, bp, new_size>>
  <2>1. {heap_listp, brk} = S \union {brk}
    BY <1>5
  <2> QED
    BY <1>1, <1>2, <1>3, <1>4, <1>6, <2>1 DEF mm_init, ClientReset
<1>9. brk = heap_listp + 8
  BY <1>2, ArenaAssumption DEF heap_listp, WSIZE
<1>10. /\ MovesBreak(brk, size, brk2) /\ mem_brk' = brk2
  <2>1. size = CHUNKSIZE
    BY <1>3, ChunkAssumption DEF ExtendSize, WSIZE, DSIZE
  <2>2. Rounded(size)
    BY <2>1, ChunkAssumption DEF Rounded, DSIZE
  <2>3. /\ brk \in Int /\ brk2 \in Int /\ brk2 <= mem_max_addr
        /\ mem_max_addr \in Int /\ mem_max_addr < UINT_MOD /\ UINT_MOD \in Int
    BY <1>2, <1>7, <2>1, ArenaAssumption, ChunkAssumption
    DEF mem_max_addr, UINT_MOD, WSIZE
  <2>4. mem_brk' = brk2
    BY <1>7, <1>8, <2>3 DEF SbrkBreak, Wrap
  <2> QED
    BY <1>7, <2>2, <2>3, <2>4 DEF MovesBreak
<1>11. /\ Structure(m, brk, S, heap_listp) /\ OnlyTagsNew(mem, m)
       /\ Allocated(m, S) = {heap_listp}
  <2>1. Memory(mem)
    BY WordsAreMemory DEF IInv, TypeOK
  <2>2. /\ Heap(m, brk, S) /\ Coalesced(m, S) /\ OnlyTagsNew(mem, m)
    BY <1>1, <1>5, <1>9, <2>1, PrologueHeap
  <2>3. Structure(m, brk, S, heap_listp)
    BY <1>5, <2>2 DEF Structure
  <2>4. heap_listp \in Allocated(m, S)
    BY <2>3, BlocksInArena DEF Structure
  <2> QED
    BY <1>5, <2>2, <2>3, <2>4 DEF Allocated
<1>12. /\ Structure(r.mem, brk2, S2, r.rover) /\ OnlyTagsNew(m, r.mem)
       /\ SameAllocated(m, S, r.mem, S2)
  BY <1>4, <1>6, <1>10, <1>11, GrowHeap
<1>13. Allocated(r.mem, S2) = {heap_listp} /\ OnlyTagsNew(mem, r.mem)
  BY <1>11, <1>12 DEF SameAllocated, OnlyTagsNew
<1>14. Live' = {} /\ Owned' = {}
  <2>1. Live' = {}
    BY <1>8 DEF Live
  <2> QED
    BY <1>8, <2>1 DEF Owned
<1>15. TypeOK'
  <2>1. mem' \in [Addr -> Word]
    BY <1>8, <1>12, <1>13, TagsAreWords DEF IInv, TypeOK, Structure, Heap
  <2>2. /\ blks' \subseteq Addr /\ prev_bp' \in Addr
        /\ mem_brk' \in mem_start_brk .. mem_max_addr
    BY <1>8, <1>10, <1>12, BlocksInArena DEF Structure
  <2> QED
    BY <1>8, <2>1, <2>2 DEF IInv, TypeOK
<1>16. StructureInv'
  BY <1>8, <1>10, <1>12 DEF StructureInv
<1>17. OwnerInv'
  BY <1>8, <1>13, <1>14 DEF OwnerInv
<1>18. CallInv' /\ SearchInv'
  BY <1>8 DEF IInv, CallInv, SearchInv
<1> QED
  BY <1>14, <1>15, <1>16, <1>17, <1>18 DEF IInv

(* What the call asked for fits in the block it has been given. *)
LEMMA PayloadFits ==
  ASSUME IInv, pc \in {"move", "ret"}, bp # NULL
  PROVE  /\ call.size \in Nat /\ call.size > 0
         /\ bp + call.size <= bp + Size(mem, bp) - DSIZE
<1>1. PICK s : s = call.size
  OBVIOUS
<1>2. /\ s \in Sizes /\ s > 0 /\ new_size = AdjustedSize(s)
      /\ Size(mem, bp) >= new_size
  <2>1. pc \notin {"down", "idle"}
    OBVIOUS
  <2>2. call \in Call /\ call.size > 0 /\ new_size = AdjustedSize(call.size)
    BY <2>1 DEF IInv, CallInv
  <2>3. Size(mem, bp) >= new_size
    BY <2>1 DEF IInv, OwnerInv
  <2> QED
    BY <1>1, <2>2, <2>3 DEF Call
<1>3. Rounded(new_size) /\ new_size >= s + 8
  BY <1>2, RequestSize
<1>4. s \in Nat /\ new_size \in Nat
  BY <1>2, <1>3, SizesAssumption DEF Rounded
<1>5. bp \in Int /\ Size(mem, bp) \in Int
  <2>1. bp \in blks
    BY Situation DEF Owned
  <2> QED
    BY <2>1, Situation, BlockFacts DEF Structure, Heap
<1>6. bp + s <= bp + Size(mem, bp) - DSIZE
  BY <1>2, <1>3, <1>4, <1>5 DEF DSIZE
<1> QED
  BY <1>1, <1>2, <1>4, <1>6

(* mm_realloc's memcpy stays within the two payloads. *)
LEMMA CopyWithin ==
  ASSUME IInv, pc = "move",
         NEW src, src = ptr[call.id],
         NEW m, m = Copy(mem, bp, src, CopySize(Size(mem, src)))
  PROVE  PayloadWrite(mem, m, bp) /\ m \in [Addr -> Word]
<1> DEFINE n == CopySize(Size(mem, src))
<1>1. /\ bp \in blks /\ src \in blks /\ bp # NULL
      /\ Tiled(mem, mem_brk, blks)
  <2>1. bp # NULL /\ call.id \in Ids /\ ptr[call.id] # NULL
    BY DEF IInv, CallInv, Call
  <2>2. call.id \in Live
    BY <2>1 DEF Live, Moved
  <2> QED
    BY <2>1, <2>2, Situation DEF Owned, Structure, Heap
<1>2. /\ bp \in Int /\ bp % 8 = 0
      /\ src \in Int /\ src % 8 = 0 /\ src >= heap_listp
      /\ Size(mem, src) \in Nat /\ src + Size(mem, src) <= mem_brk
      /\ Size(mem, bp) \in Nat
  BY <1>1, BlockFacts
<1>3. /\ mem_brk \in Int /\ mem_brk <= mem_max_addr
      /\ mem_start_brk \in Int /\ mem_max_addr \in Int
      /\ heap_listp = mem_start_brk + 8
  <2>1. /\ mem_start_brk \in Int /\ mem_max_addr \in Int
        /\ heap_listp = mem_start_brk + 8
    BY ArenaAssumption DEF mem_max_addr, heap_listp, WSIZE
  <2> QED
    BY <2>1 DEF IInv, TypeOK
<1>4. n \in Nat /\ n <= Size(mem, src) /\ bp + n <= bp + Size(mem, bp) - DSIZE
  <2>1. PICK s : s = call.size
    OBVIOUS
  <2>2. s \in Nat /\ bp + s <= bp + Size(mem, bp) - DSIZE
    BY <1>1, <2>1, PayloadFits
  <2>3. n = IF s < Size(mem, src) THEN s ELSE Size(mem, src)
    BY <2>1 DEF CopySize
  <2> HIDE DEF n
  <2> QED
    BY <1>2, <2>2, <2>3 DEF DSIZE
<1>6. m = [a \in Addr |-> IF bp <= a /\ a < bp + n
                          THEN mem[a - bp + src] ELSE mem[a]]
  BY DEF Copy
<1> HIDE DEF n
<1>7. \A a \in Addr : a \in Int /\ a % 4 = 0
  BY <1>3 DEF Addr, WSIZE
<1>8. PayloadWrite(mem, m, bp)
  <2>1. Memory(m)
    BY <1>6 DEF Memory
  <2>2. ASSUME NEW a \in Addr, a < bp \/ a >= bp + Size(mem, bp) - DSIZE
        PROVE  m[a] = mem[a]
    <3>1. ~(bp <= a /\ a < bp + n)
      BY <1>2, <1>4, <1>7, <2>2 DEF DSIZE
    <3> QED
      BY <1>6, <3>1
  <2> QED
    BY <2>1, <2>2 DEF PayloadWrite
<1>9. m \in [Addr -> Word]
  <2>1. ASSUME NEW a \in Addr, bp <= a, a < bp + n
        PROVE  a - bp + src \in Addr
    BY <1>2, <1>3, <1>4, <1>7, <2>1 DEF Addr, WSIZE
  <2>2. mem \in [Addr -> Word]
    BY DEF IInv, TypeOK
  <2> QED
    BY <1>6, <2>1, <2>2
<1> QED
  BY <1>8, <1>9

(* mm_realloc has copied to bp and frees the old block. *)
LEMMA MoveStep ==
  ASSUME IInv, Move
  PROVE  /\ IInv' /\ Undisturbed /\ Live' \subseteq Live
         /\ PayloadsIntact => ReallocKeepsData'
         /\ bp' = bp /\ new_size' = new_size /\ Size(mem', bp) = Size(mem, bp)
<1>1. PICK src : src = ptr[call.id]
  OBVIOUS
<1>2. PICK m : m = Copy(mem, bp, src, CopySize(Size(mem, src)))
  OBVIOUS
<1>3. PICK r : r = mm_free(m, src, prev_bp)
  OBVIOUS
<1>4. PICK S2 : S2 = Absorbed(blks, r.mem, r.bp)
  OBVIOUS
<1>5. /\ pc = "move" /\ pc' = "ret" /\ mem' = r.mem /\ prev_bp' = r.rover
      /\ blks' = S2
      /\ UNCHANGED <<mem_brk, ptr, psize, call, bp, new_size>>
  <2>1. Transfer(mem, bp, ptr[call.id]) = r
    BY <1>1, <1>2, <1>3 DEF Transfer, Size
  <2> QED
    BY <1>4, <2>1 DEF Move
<1>6. /\ call \in Call /\ call.id \in Ids /\ call.op = "realloc" /\ bp # NULL
      /\ src # NULL
  BY <1>1, <1>5 DEF IInv, CallInv, Call
<1>7. /\ Live = {i \in Ids : ptr[i] # NULL} /\ call.id \in Live
      /\ Live' = Live \ {call.id}
  <2>1. Live = {i \in Ids : ptr[i] # NULL}
    BY <1>5 DEF Live, Moved
  <2>2. Live' = {i \in Ids : ptr[i] # NULL /\ call.id # i}
    BY <1>5, <1>6 DEF Live, Moved
  <2> QED
    BY <1>1, <1>6, <2>1, <2>2
<1>8. /\ Structure(mem, mem_brk, blks, prev_bp)
      /\ Allocated(mem, blks) = Owned \union {heap_listp}
      /\ Owned = {ptr[i] : i \in Live} \union {bp}
      /\ Owned' = {ptr[i] : i \in Live'} \union {bp}
      /\ bp \in Allocated(mem, blks) /\ bp \in blks /\ bp # heap_listp
      /\ src \in Allocated(mem, blks) /\ src \in blks /\ src # heap_listp
      /\ \A i, j \in Live : i # j => ptr[i] # ptr[j]
      /\ \A i \in Live : ptr[i] # bp /\ ptr[i] \in Allocated(mem, blks)
  <2>1. Owned = {ptr[i] : i \in Live} \union {bp}
    BY <1>5, <1>6 DEF Owned
  <2>2. Owned' = {ptr[i] : i \in Live'} \union {bp}
    BY <1>5, <1>6 DEF Owned
  <2>3. /\ \A i, j \in Live : i # j => ptr[i] # ptr[j]
        /\ bp # heap_listp /\ \A i \in Live : ptr[i] # bp
    BY <1>5, <1>6 DEF IInv, OwnerInv
  <2> QED
    BY <1>1, <1>5, <1>7, <2>1, <2>2, <2>3, Situation
<1>9. PayloadWrite(mem, m, bp) /\ m \in [Addr -> Word]
  BY <1>1, <1>2, <1>5, CopyWithin
<1>10. /\ Structure(m, mem_brk, blks, prev_bp)
       /\ Allocated(m, blks) = Allocated(mem, blks)
       /\ KeptBut(mem, m, blks, bp) /\ Size(m, bp) = Size(mem, bp)
  <2>1. Heap(mem, mem_brk, blks) /\ Coalesced(mem, blks) /\ prev_bp \in blks
    BY <1>8 DEF Structure
  <2>2. /\ Heap(m, mem_brk, blks) /\ Coalesced(m, blks)
        /\ SameAllocated(mem, blks, m, blks)
        /\ KeptBut(mem, m, blks, bp) /\ Size(m, bp) = Size(mem, bp)
    <3>1. bp \in blks /\ PayloadWrite(mem, m, bp)
      BY <1>8, <1>9
    <3> QED
      BY <2>1, <3>1, WritePayload
  <2> QED
    BY <2>1, <2>2 DEF Structure, SameAllocated
<1>11. /\ Structure(r.mem, mem_brk, S2, r.rover) /\ OnlyTagsNew(m, r.mem)
       /\ Allocated(r.mem, S2) = Allocated(m, blks) \ {src}
       /\ Kept(m, r.mem, Allocated(m, blks) \ {src})
  <2>1. Structure(m, mem_brk, blks, prev_bp)
    BY <1>10
  <2>2. src \in blks /\ src # heap_listp
    BY <1>8
  <2> QED
    BY <1>3, <1>4, <2>1, <2>2, FreeBlock
<1>12. Size(r.mem, bp) = Size(mem, bp)
  <2>1. src # bp
    BY <1>1, <1>7, <1>8
  <2> QED
    BY <1>8, <1>10, <1>11, <2>1 DEF Kept
<1>13. \A i \in Live' : ptr[i] \in Allocated(mem, blks) \ {src, bp}
  BY <1>1, <1>7, <1>8
<1>14. Kept(mem, r.mem, {ptr[i] : i \in Live'})
  <2>1. \A i \in Live' : /\ ptr[i] \in blks \ {bp}
                         /\ ptr[i] \in Allocated(m, blks) \ {src}
    BY <1>10, <1>13 DEF Allocated
  <2> QED
    BY <1>10, <1>11, <2>1 DEF Kept, KeptBut
<1>15. TypeOK'
  <2>1. mem' \in [Addr -> Word]
    BY <1>5, <1>9, <1>11, TagsAreWords DEF Structure, Heap
  <2>2. blks' \subseteq Addr /\ prev_bp' \in Addr
    BY <1>5, <1>11, BlocksInArena DEF Structure
  <2> QED
    BY <1>5, <2>1, <2>2 DEF IInv, TypeOK
<1>16. StructureInv'
  BY <1>5, <1>11 DEF StructureInv
<1>17. OwnerInv'
  <2>1. Owned' = Owned \ {src}
    BY <1>1, <1>7, <1>8
  <2>2. Allocated(mem', blks') = Owned' \union {heap_listp}
    BY <1>5, <1>8, <1>10, <1>11, <2>1
  <2>3. \A i \in Live' : /\ ptr[i] # heap_listp
                         /\ Size(mem', ptr[i]) >= psize[i] + DSIZE
    BY <1>5, <1>7, <1>14 DEF IInv, OwnerInv, Kept
  <2>4. Size(mem', bp) >= new_size
    BY <1>5, <1>6, <1>12 DEF IInv, OwnerInv
  <2> QED
    BY <1>5, <1>7, <1>8, <2>2, <2>3, <2>4 DEF OwnerInv
<1>18. CallInv' /\ SearchInv'
  BY <1>5 DEF IInv, CallInv, SearchInv
<1>19. Undisturbed
  <2>1. Live \cap Live' = Live'
    BY <1>7
  <2> QED
    BY <1>5, <1>14, <2>1 DEF Undisturbed
<1>20. ASSUME PayloadsIntact
       PROVE  ReallocKeepsData'
  <2>1. PICK n : n = KeptSize
    OBVIOUS
  <2>2. PICK id : id = call.id
    OBVIOUS
  <2>3. PICK k : k = CopySize(Size(mem, src))
    OBVIOUS
  <2>4. PICK s : s = call.size
    OBVIOUS
  <2>5. /\ s \in Nat /\ psize[id] \in Nat
        /\ bp \in Int /\ src \in Int /\ src % 8 = 0 /\ bp % 8 = 0
        /\ Size(mem, src) \in Nat /\ Size(mem, bp) \in Nat
        /\ bp + s <= bp + Size(mem, bp) - DSIZE
    <3>1. Tiled(mem, mem_brk, blks)
      BY <1>8 DEF Structure, Heap
    <3>2. /\ bp \in Int /\ src \in Int /\ src % 8 = 0 /\ bp % 8 = 0
          /\ Size(mem, src) \in Nat /\ Size(mem, bp) \in Nat
      BY <1>8, <3>1, BlockFacts
    <3>3. s \in Nat /\ bp + s <= bp + Size(mem, bp) - DSIZE
      BY <1>5, <1>6, <2>4, PayloadFits
    <3>4. psize[id] \in Nat
      BY <1>6, <2>2 DEF IInv, TypeOK
    <3> QED
      BY <3>2, <3>3, <3>4
  <2>6. Size(mem, src) >= psize[id] + DSIZE
    BY <1>1, <1>5, <1>7, <2>2 DEF IInv, OwnerInv
  <2>7. /\ n = IF s < psize[id] THEN s ELSE psize[id]
        /\ k = IF s < Size(mem, src) THEN s ELSE Size(mem, src)
    BY <2>1, <2>2, <2>3, <2>4 DEF KeptSize, CopySize
  <2>8. /\ n \in Nat /\ k \in Nat /\ n <= k /\ n <= psize[id] /\ n <= s
    BY <2>5, <2>6, <2>7 DEF DSIZE
  <2>9. Holds(mem, src, psize[id], id)
    BY <1>1, <1>7, <2>2, <1>20 DEF PayloadsIntact
  <2>10. Holds(m, bp, n, id)
    <3> SUFFICES ASSUME NEW a \in Addr, bp <= a, a < bp + n
                 PROVE  m[a] = id
      BY DEF Holds
    <3>1. PICK c : c = a - bp + src
      OBVIOUS
    <3>2. a \in Int /\ a % 4 = 0 /\ mem_start_brk \in Int /\ mem_max_addr \in Int
      BY ArenaAssumption DEF Addr, mem_max_addr, WSIZE
    <3>3. /\ a < bp + k /\ src <= c /\ c < src + psize[id] /\ c \in Int
          /\ c % 4 = 0 /\ c < src + Size(mem, src)
      BY <2>5, <2>6, <2>8, <3>1, <3>2 DEF DSIZE
    <3>4. m[a] = mem[c]
      BY <1>2, <2>3, <3>1, <3>3 DEF Copy
    <3>5. c \in Addr
      <4>1. /\ src >= mem_start_brk /\ src + Size(mem, src) <= mem_max_addr
        <5>1. Tiled(mem, mem_brk, blks)
          BY <1>8 DEF Structure, Heap
        <5>2. /\ src >= heap_listp /\ src + Size(mem, src) <= mem_brk
              /\ mem_brk \in Int /\ mem_brk <= mem_max_addr
          BY <1>8, <5>1, BlockFacts, HeapFacts
        <5>3. heap_listp = mem_start_brk + 8
          BY <3>2 DEF heap_listp, WSIZE
        <5> QED
          BY <2>5, <3>2, <5>2, <5>3
      <4> QED
        BY <2>5, <3>2, <3>3, <4>1 DEF Addr, WSIZE
    <3> QED
      BY <2>9, <3>3, <3>4, <3>5 DEF Holds
  <2>11. Holds(r.mem, bp, n, id)
    <3>1. PICK B : B = Allocated(m, blks) \ {src}
      OBVIOUS
    <3>2. bp \in B
      BY <1>1, <1>7, <1>8, <1>10, <3>1
    <3>3. Kept(m, r.mem, B)
      BY <1>11, <3>1
    <3>4. Size(m, bp) \in Int /\ bp + n <= bp + Size(m, bp) - DSIZE
      BY <1>10, <2>5, <2>8 DEF DSIZE
    <3> QED
      BY <2>5, <2>8, <2>10, <3>2, <3>3, <3>4, HoldsKept
  <2>12. KeptSize' = KeptSize /\ bp' = bp /\ call' = call
    BY <1>5 DEF KeptSize
  <2> QED
    BY <1>5, <2>1, <2>2, <2>11, <2>12 DEF ReallocKeepsData
<1>21. bp' = bp /\ new_size' = new_size /\ Size(mem', bp) = Size(mem, bp)
  BY <1>5, <1>12
<1> QED
  BY <1>7, <1>15, <1>16, <1>17, <1>18, <1>19, <1>20, <1>21 DEF IInv

(* The client takes NULL: nothing has happened to it. *)
LEMMA ReturnNullStep ==
  ASSUME IInv, Return, bp = NULL
  PROVE  IInv' /\ Undisturbed /\ Live' = Live
<1>1. /\ pc = "ret" /\ pc' = "idle" /\ call' = NoCall /\ bp' = NULL
      /\ new_size' = 0
      /\ UNCHANGED <<mem, mem_brk, ptr, psize, prev_bp, blks>>
  BY DEF Return, TakeResult
<1>2. Live' = Live
  BY <1>1 DEF Live, Moved
<1>3. Owned' = Owned
  BY <1>1, <1>2 DEF Owned
<1>4. StructureInv' /\ OwnerInv'
  BY <1>1, <1>2, <1>3 DEF IInv, StructureInv, OwnerInv
<1>5. TypeOK' /\ CallInv' /\ SearchInv'
  BY <1>1 DEF IInv, TypeOK, CallInv, SearchInv, NULL
<1>6. Undisturbed
  BY <1>1 DEF Undisturbed, Kept
<1> QED
  BY <1>2, <1>4, <1>5, <1>6 DEF IInv

(* The client's fill stays within the payload it has been given. *)
LEMMA FillWithin ==
  ASSUME IInv, pc = "ret", bp # NULL,
         NEW m, m = Fill(mem, bp, call.size, call.id)
  PROVE  /\ PayloadWrite(mem, m, bp) /\ m \in [Addr -> Word]
         /\ Holds(m, bp, call.size, call.id)
<1>1. bp \in Int /\ Size(mem, bp) \in Int
  <2>1. bp \in blks
    BY Situation DEF Owned
  <2> QED
    BY <2>1, Situation, BlockFacts DEF Structure, Heap
<1>2. PICK n : n = call.size
  OBVIOUS
<1>3. PICK id : id = call.id
  OBVIOUS
<1>4. Covers(mem, bp, n)
  <2>1. n \in Nat /\ bp + n <= bp + Size(mem, bp) - DSIZE
    BY <1>2, PayloadFits
  <2> QED
    BY <1>1, <2>1 DEF Covers, DSIZE
<1>5. m = Fill(mem, bp, n, id)
  BY <1>2, <1>3
<1>6. PayloadWrite(mem, m, bp) /\ Holds(m, bp, n, id)
  BY <1>1, <1>4, <1>5, FillWrites
<1>7. m \in [Addr -> Word]
  <2>1. id \in Ids /\ mem \in [Addr -> Word]
    BY <1>3 DEF IInv, TypeOK, CallInv, Call
  <2>2. m = [a \in Addr |-> IF bp <= a /\ a < bp + n THEN id ELSE mem[a]]
    BY <1>5 DEF Fill
  <2> QED
    BY <2>1, <2>2 DEF Word
<1> QED
  BY <1>2, <1>3, <1>6, <1>7

(* The client takes a block and fills it. *)
LEMMA ReturnBlockStep ==
  ASSUME IInv, Return, bp # NULL
  PROVE  /\ IInv' /\ Undisturbed
         /\ call.id \notin Live /\ Live' = Live \union {call.id}
         /\ Holds(mem', ptr'[call.id], psize'[call.id], call.id)
         /\ psize'[call.id] = call.size
         /\ Size(mem', ptr'[call.id]) = Size(mem, bp)
<1>1. PICK m : m = Fill(mem, bp, call.size, call.id)
  OBVIOUS
<1>2. PICK id : id = call.id
  OBVIOUS
<1>3. /\ pc = "ret" /\ pc' = "idle" /\ call' = NoCall /\ bp' = NULL
      /\ mem' = m /\ ptr' = [ptr EXCEPT ![id] = bp]
      /\ psize' = [psize EXCEPT ![id] = call.size]
      /\ new_size' = 0 /\ UNCHANGED <<mem_brk, prev_bp, blks>>
  BY <1>1, <1>2 DEF Return, TakeResult
<1>4. /\ id \in Ids
      /\ call.op = "realloc" \/ ptr[id] = NULL
      /\ ptr \in [Ids -> Addr \union {NULL}] /\ psize \in [Ids -> Nat]
  BY <1>2, <1>3 DEF IInv, CallInv, Call, TypeOK
<1>5. id \notin Live /\ Live' = Live \union {id} /\ id \in Ids
  <2>1. id \in Ids
    BY <1>2, <1>3 DEF IInv, CallInv, Call
  <2>2. \A i \in Ids : i # id => (i \in Live <=> ptr[i] # NULL)
    BY <1>2, <1>3 DEF Live, Moved
  <2>3. id \notin Live
    BY <1>2, <1>3, <1>4 DEF Live, Moved
  <2>4. Live' = {i \in Ids : ptr'[i] # NULL}
    BY <1>3 DEF Live, Moved
  <2>5. ptr'[id] = bp /\ \A i \in Ids : i # id => ptr'[i] = ptr[i]
    BY <1>3, <1>4, <2>1
  <2>6. Live \subseteq Ids
    BY DEF Live
  <2> QED
    BY <2>1, <2>2, <2>3, <2>4, <2>5, <2>6
<1>6. /\ \A i \in Live : ptr'[i] = ptr[i] /\ psize'[i] = psize[i]
      /\ ptr'[id] = bp /\ psize'[id] = call.size
  <2>1. Live \subseteq Ids
    BY DEF Live
  <2> QED
    BY <1>3, <1>4, <1>5, <2>1
<1>7. /\ Structure(mem, mem_brk, blks, prev_bp)
      /\ Allocated(mem, blks) = Owned \union {heap_listp}
      /\ bp \in blks /\ bp # heap_listp
      /\ \A i \in Live : /\ ptr[i] # bp /\ ptr[i] \in blks
                         /\ ptr[i] # heap_listp
      /\ \A i, j \in Live : i # j => ptr[i] # ptr[j]
  <2>1. bp \in Owned
    BY <1>3 DEF Owned
  <2>2. /\ bp # heap_listp /\ \A i \in Live : ptr[i] # bp
        /\ \A i, j \in Live : i # j => ptr[i] # ptr[j]
    BY <1>3 DEF IInv, OwnerInv
  <2> QED
    BY <1>3, <2>1, <2>2, Situation
<1>8. /\ Owned = {ptr[i] : i \in Live} \union {bp}
      /\ Owned' = {ptr'[i] : i \in Live'}
  BY <1>3 DEF Owned
<1>9. Owned' = Owned
  BY <1>5, <1>6, <1>8
<1>10. /\ PayloadWrite(mem, m, bp) /\ m \in [Addr -> Word]
       /\ Holds(m, bp, call.size, call.id)
  BY <1>1, <1>3, FillWithin
<1>11. /\ Structure(m, mem_brk, blks, prev_bp)
       /\ SameAllocated(mem, blks, m, blks)
       /\ KeptBut(mem, m, blks, bp) /\ Size(m, bp) = Size(mem, bp)
  <2>1. Heap(mem, mem_brk, blks) /\ Coalesced(mem, blks) /\ prev_bp \in blks
    BY <1>7 DEF Structure
  <2>2. bp \in blks /\ PayloadWrite(mem, m, bp)
    BY <1>7, <1>10
  <2>3. /\ Heap(m, mem_brk, blks) /\ Coalesced(m, blks)
        /\ SameAllocated(mem, blks, m, blks)
        /\ KeptBut(mem, m, blks, bp) /\ Size(m, bp) = Size(mem, bp)
    BY <2>1, <2>2, WritePayload
  <2> QED
    BY <2>1, <2>3 DEF Structure
<1>12. TypeOK'
  <2>1. call.size \in Nat
    BY <1>3, PayloadFits
  <2>2. bp \in Addr
    BY <1>7, BlocksInArena DEF Structure
  <2> QED
    BY <1>3, <1>10, <2>1, <2>2 DEF IInv, TypeOK, NULL
<1>13. StructureInv'
  BY <1>3, <1>11 DEF StructureInv
<1>14. Kept(mem, m, {ptr[i] : i \in Live})
  BY <1>7, <1>11 DEF Kept, KeptBut
<1>15. OwnerInv'
  <2>1. Allocated(mem', blks') = Owned' \union {heap_listp}
    BY <1>3, <1>7, <1>9, <1>11 DEF SameAllocated
  <2>2. \A i, j \in Live' : i # j => ptr'[i] # ptr'[j]
    BY <1>5, <1>6, <1>7
  <2>3. \A i \in Live : Size(mem', ptr'[i]) >= psize'[i] + DSIZE
    BY <1>3, <1>6, <1>14 DEF IInv, OwnerInv, Kept
  <2>4. Size(mem', ptr'[id]) >= psize'[id] + DSIZE
    <3>1. PICK n : n = call.size
      OBVIOUS
    <3>2. n \in Nat /\ bp + n <= bp + Size(mem, bp) - DSIZE
      BY <1>3, <3>1, PayloadFits
    <3>3. bp \in Int /\ Size(mem, bp) \in Nat
      BY <1>7, BlockFacts DEF Structure, Heap
    <3>4. Size(mem, bp) >= n + DSIZE
      BY <3>2, <3>3 DEF DSIZE
    <3> QED
      BY <1>3, <1>6, <1>11, <3>1, <3>4
  <2>5. \A i \in Live' : ptr'[i] # heap_listp
    BY <1>5, <1>6, <1>7
  <2> QED
    BY <1>3, <1>5, <2>1, <2>2, <2>3, <2>4, <2>5 DEF OwnerInv
<1>16. CallInv' /\ SearchInv'
  BY <1>3 DEF CallInv, SearchInv
<1>17. Undisturbed
  <2>1. Live \cap Live' = Live
    BY <1>5
  <2> QED
    BY <1>3, <1>6, <1>14, <2>1 DEF Undisturbed
<1>18. psize'[call.id] = call.size /\ Size(mem', ptr'[call.id]) = Size(mem, bp)
  BY <1>2, <1>3, <1>6, <1>11
<1> QED
  BY <1>2, <1>3, <1>5, <1>6, <1>10, <1>12, <1>13, <1>15, <1>16, <1>17, <1>18 DEF IInv

-----------------------------------------------------------------------------
(* The invariant and the client's data, over all steps.                    *)

DataInv == PayloadsIntact /\ ReallocKeepsData

(* A step that disturbs nothing and adds no live pointer. *)
LEMMA KeepsPayloads ==
  ASSUME IInv, pc # "down", PayloadsIntact, Undisturbed, NEW i \in Live \cap Live'
  PROVE  Holds(mem', ptr'[i], psize'[i], i)
<1>1. PICK p : p = ptr[i]
  OBVIOUS
<1>2. PICK n : n = psize[i]
  OBVIOUS
<1>3. PICK B : B = {ptr[j] : j \in Live \cap Live'}
  OBVIOUS
<1>4. /\ Holds(mem, p, n, i) /\ p \in B /\ Kept(mem, mem', B)
      /\ ptr'[i] = p /\ psize'[i] = n
  BY <1>1, <1>2, <1>3 DEF PayloadsIntact, Undisturbed
<1>5. p \in Int /\ Size(mem, p) \in Int
  <2>1. p \in blks
    BY <1>1, Situation
  <2> QED
    BY <2>1, Situation, BlockFacts DEF Structure, Heap
<1>6. n \in Int /\ Size(mem, p) >= n + DSIZE
  <2>1. i \in Ids
    BY DEF Live
  <2>2. n \in Nat
    BY <1>2, <2>1 DEF IInv, TypeOK
  <2>3. Size(mem, p) >= n + DSIZE
    BY <1>1, <1>2 DEF IInv, OwnerInv
  <2> QED
    BY <2>2, <2>3
<1>7. p + n <= p + Size(mem, p) - DSIZE
  BY <1>5, <1>6 DEF DSIZE
<1>8. Holds(mem', p, n, i)
  BY <1>4, <1>5, <1>6, <1>7, HoldsKept
<1> QED
  BY <1>4, <1>8

LEMMA StepHolds ==
  ASSUME IInv, [Next]_vars
  PROVE  IInv' /\ (DataInv => DataInv')
<1>1. CASE mm_init
  <2>1. IInv' /\ Live' = {} /\ pc' = "idle"
    BY <1>1, InitStep DEF mm_init
  <2> QED
    BY <2>1 DEF DataInv, PayloadsIntact, ReallocKeepsData
<1>2. ASSUME NEW i \in Ids, CallFree(i)
      PROVE  IInv' /\ (DataInv => DataInv')
  <2>1. IInv' /\ Undisturbed /\ Live' \subseteq Live
    BY <1>2, FreeStep DEF CallFree, Live, Moved, IInv, TypeOK
  <2>2. pc = "idle" /\ pc' = "idle"
    BY <1>2 DEF CallFree
  <2> QED
    BY <2>1, <2>2, KeepsPayloads DEF DataInv, PayloadsIntact, ReallocKeepsData
<1>3. ASSUME IInv', Live' = Live, Undisturbed, pc # "down",
             pc' # "ret" \/ bp' = NULL \/ call'.op # "realloc"
      PROVE  DataInv => DataInv'
  BY <1>3, KeepsPayloads DEF DataInv, PayloadsIntact, ReallocKeepsData
<1>4. ASSUME NEW i \in Ids, NEW size \in Sizes,
             CallMalloc(i, size) \/ CallRealloc(i, size)
      PROVE  IInv' /\ (DataInv => DataInv')
  <2>1. IInv' /\ Live' = Live /\ Undisturbed
    BY <1>4, StartStep
  <2>2. pc = "idle" /\ pc' = "up"
    BY <1>4 DEF CallMalloc, CallRealloc, StartSearch
  <2> QED
    BY <1>3, <2>1, <2>2
<1>5. CASE SearchUp \/ SearchLow
  <2>1. pc \in {"up", "low"}
    BY <1>5 DEF SearchUp, SearchLow
  <2>2. CASE TakeFit
    <3>1. IInv' /\ Live' = Live /\ Undisturbed
      BY <1>5, <2>2, TakeFitStep
    <3>2. pc' # "ret" \/ call'.op # "realloc"
      BY <2>2 DEF TakeFit, PlaceAt
    <3> QED
      BY <1>3, <2>1, <3>1, <3>2
  <2>3. CASE Advance
    <3>1. IInv' /\ Live' = Live /\ Undisturbed
      BY <1>5, <2>3, AdvanceStep
    <3>2. pc' # "ret"
      BY <2>1, <2>3 DEF Advance
    <3> QED
      BY <1>3, <2>1, <3>1, <3>2
  <2> QED
    BY <1>5, <2>2, <2>3 DEF SearchUp, SearchLow
<1>6. CASE WrapAround
  <2>1. IInv' /\ Live' = Live /\ Undisturbed
    BY <1>6, WrapAroundStep
  <2>2. pc = "up" /\ pc' = "low"
    BY <1>6 DEF WrapAround
  <2> QED
    BY <1>3, <2>1, <2>2
<1>7. CASE NoFit
  <2>1. IInv' /\ Live' = Live /\ Undisturbed
    BY <1>7, NoFitStep
  <2>2. pc = "low" /\ pc' = "grow"
    BY <1>7 DEF NoFit
  <2> QED
    BY <1>3, <2>1, <2>2
<1>8. CASE Grow
  <2>1. IInv' /\ Live' = Live /\ Undisturbed
    BY <1>8, GrowStep
  <2>2. pc = "grow" /\ (pc' # "ret" \/ call'.op # "realloc")
    BY <1>8 DEF Grow, PlaceAt
  <2> QED
    BY <1>3, <2>1, <2>2
<1>9. CASE GrowFails
  <2>1. IInv' /\ Live' = Live /\ Undisturbed
    BY <1>9, GrowFailsStep
  <2>2. pc = "grow" /\ bp' = NULL
    BY <1>9 DEF GrowFails
  <2> QED
    BY <1>3, <2>1, <2>2
<1>10. CASE Move
  <2>1. /\ IInv' /\ Undisturbed /\ Live' \subseteq Live
        /\ PayloadsIntact => ReallocKeepsData'
    BY <1>10, MoveStep
  <2>2. pc = "move"
    BY <1>10 DEF Move
  <2>3. PayloadsIntact => PayloadsIntact'
    BY <2>1, <2>2, KeepsPayloads DEF PayloadsIntact
  <2> QED
    BY <2>1, <2>3 DEF DataInv
<1>11. CASE Return
  <2>1. pc = "ret" /\ pc' = "idle"
    BY <1>11 DEF Return, TakeResult
  <2>2. CASE bp = NULL
    <3>1. IInv' /\ Live' = Live /\ Undisturbed
      BY <1>11, <2>2, ReturnNullStep
    <3> QED
      BY <1>3, <2>1, <3>1
  <2>3. CASE bp # NULL
    <3>1. /\ IInv' /\ Undisturbed /\ Live' = Live \union {call.id}
          /\ Holds(mem', ptr'[call.id], psize'[call.id], call.id)
      BY <1>11, <2>3, ReturnBlockStep
    <3>2. PayloadsIntact => PayloadsIntact'
      BY <2>1, <3>1, KeepsPayloads DEF PayloadsIntact
    <3> QED
      BY <2>1, <3>1, <3>2 DEF DataInv, ReallocKeepsData
  <2> QED
    BY <2>2, <2>3
<1>12. CASE UNCHANGED vars
  <2>1. UNCHANGED <<mem, mem_brk, ptr, psize, pc, call, bp, prev_bp,
                    new_size, blks>>
    BY <1>12 DEF vars, clientVars, allocVars
  <2>2. Live' = Live /\ Owned' = Owned /\ KeptSize' = KeptSize
    BY <2>1 DEF Live, Moved, Owned, KeptSize
  <2>3. IInv'
    BY <2>1, <2>2 DEF IInv, TypeOK, StructureInv, OwnerInv, CallInv, SearchInv
  <2>4. DataInv => DataInv'
    BY <2>1, <2>2 DEF DataInv, PayloadsIntact, ReallocKeepsData
  <2> QED
    BY <2>3, <2>4
<1> QED
  BY <1>1, <1>2, <1>4, <1>5, <1>6, <1>7, <1>8, <1>9, <1>10, <1>11, <1>12
  DEF Next, ClientCall, AllocatorStep

LEMMA Invariance == Spec => [](IInv /\ DataInv)
<1>1. Init => IInv /\ DataInv
  BY InitHolds DEF DataInv, PayloadsIntact, ReallocKeepsData, Live, Init,
                   ClientInit
<1>2. (IInv /\ DataInv) /\ [Next]_vars => (IInv /\ DataInv)'
  BY StepHolds
<1> QED
  BY <1>1, <1>2, PTL DEF Spec

(* A client's block, and one that is about to become one, wastes little. *)
SlackInv ==
  /\ BoundedSlack
  /\ (pc \in {"move", "ret"} /\ bp # NULL) => Size(mem, bp) < new_size + 2 * DSIZE

LEMMA SlackKept ==
  ASSUME BoundedSlack, Undisturbed, NEW i \in Live \cap Live'
  PROVE  /\ Size(mem', ptr'[i]) >= psize'[i] + DSIZE
         /\ Size(mem', ptr'[i]) < AdjustedSize(psize'[i]) + 2 * DSIZE
<1>1. /\ ptr'[i] = ptr[i] /\ psize'[i] = psize[i]
      /\ Size(mem', ptr[i]) = Size(mem, ptr[i])
  BY DEF Undisturbed, Kept
<1>2. /\ Size(mem, ptr[i]) >= psize[i] + DSIZE
      /\ Size(mem, ptr[i]) < AdjustedSize(psize[i]) + 2 * DSIZE
  BY DEF BoundedSlack
<1> QED
  BY <1>1, <1>2

LEMMA SlackStep ==
  ASSUME IInv, IInv', SlackInv, [Next]_vars
  PROVE  SlackInv'
<1>1. CASE mm_init
  <2>1. Live' = {} /\ pc' = "idle"
    BY <1>1, InitStep DEF mm_init
  <2> QED
    BY <2>1 DEF SlackInv, BoundedSlack
<1>2. ASSUME Undisturbed, Live' \subseteq Live
      PROVE  BoundedSlack'
  BY <1>2, SlackKept DEF SlackInv, BoundedSlack
<1>3. ASSUME NEW i \in Ids, CallFree(i)
      PROVE  SlackInv'
  <2>1. Undisturbed /\ Live' \subseteq Live
    BY <1>3, FreeStep DEF CallFree, Live, Moved, IInv, TypeOK
  <2>2. pc' = "idle"
    BY <1>3 DEF CallFree
  <2> QED
    BY <1>2, <2>1, <2>2 DEF SlackInv
<1>4. ASSUME Live' = Live, Undisturbed,
             \/ pc' \notin {"move", "ret"} \/ bp' = NULL
             \/ Size(mem', bp') < new_size' + 2 * DSIZE
      PROVE  SlackInv'
  BY <1>2, <1>4 DEF SlackInv
<1>5. ASSUME NEW i \in Ids, NEW size \in Sizes,
             CallMalloc(i, size) \/ CallRealloc(i, size)
      PROVE  SlackInv'
  <2>1. Live' = Live /\ Undisturbed
    BY <1>5, StartStep
  <2>2. pc' = "up"
    BY <1>5 DEF CallMalloc, CallRealloc, StartSearch
  <2> QED
    BY <1>4, <2>1, <2>2
<1>6. CASE SearchUp \/ SearchLow
  <2>1. CASE TakeFit
    BY <1>4, <1>6, <2>1, TakeFitStep
  <2>2. CASE Advance
    <3>1. Live' = Live /\ Undisturbed
      BY <1>6, <2>2, AdvanceStep
    <3>2. pc' \notin {"move", "ret"}
      BY <1>6, <2>2 DEF Advance, SearchUp, SearchLow
    <3> QED
      BY <1>4, <3>1, <3>2
  <2> QED
    BY <1>6, <2>1, <2>2 DEF SearchUp, SearchLow
<1>7. CASE WrapAround
  <2>1. Live' = Live /\ Undisturbed
    BY <1>7, WrapAroundStep
  <2>2. pc' = "low"
    BY <1>7 DEF WrapAround
  <2> QED
    BY <1>4, <2>1, <2>2
<1>8. CASE NoFit
  <2>1. Live' = Live /\ Undisturbed
    BY <1>8, NoFitStep
  <2>2. pc' = "grow"
    BY <1>8 DEF NoFit
  <2> QED
    BY <1>4, <2>1, <2>2
<1>9. CASE Grow
  BY <1>4, <1>9, GrowStep
<1>10. CASE GrowFails
  <2>1. Live' = Live /\ Undisturbed
    BY <1>10, GrowFailsStep
  <2>2. bp' = NULL
    BY <1>10 DEF GrowFails
  <2> QED
    BY <1>4, <2>1, <2>2
<1>11. CASE Move
  <2>1. /\ Undisturbed /\ Live' \subseteq Live
        /\ bp' = bp /\ new_size' = new_size /\ Size(mem', bp) = Size(mem, bp)
    BY <1>11, MoveStep
  <2>2. pc = "move"
    BY <1>11 DEF Move
  <2>3. bp # NULL => Size(mem, bp) < new_size + 2 * DSIZE
    BY <2>2 DEF SlackInv
  <2> QED
    BY <1>2, <2>1, <2>3 DEF SlackInv
<1>12. CASE Return
  <2>1. pc = "ret" /\ pc' = "idle"
    BY <1>12 DEF Return, TakeResult
  <2>2. CASE bp = NULL
    <3>1. Live' = Live /\ Undisturbed
      BY <1>12, <2>2, ReturnNullStep
    <3> QED
      BY <1>4, <2>1, <3>1
  <2>3. CASE bp # NULL
    <3>1. /\ Undisturbed /\ Live' = Live \union {call.id}
          /\ psize'[call.id] = call.size
          /\ Size(mem', ptr'[call.id]) = Size(mem, bp)
      BY <1>12, <2>3, ReturnBlockStep
    <3>2. Size(mem, bp) < AdjustedSize(call.size) + 2 * DSIZE
      BY <2>1, <2>3 DEF SlackInv, IInv, CallInv
    <3>3. Size(mem', ptr'[call.id]) >= psize'[call.id] + DSIZE
      <4>1. call.id \in Live' /\ pc' # "down"
        BY <2>1, <3>1
      <4> QED
        BY <4>1 DEF IInv, OwnerInv
    <3>4. BoundedSlack'
      BY <3>1, <3>2, <3>3, SlackKept DEF SlackInv, BoundedSlack
    <3> QED
      BY <2>1, <3>4 DEF SlackInv
  <2> QED
    BY <2>2, <2>3
<1>13. CASE UNCHANGED vars
  <2>1. UNCHANGED <<mem, mem_brk, ptr, psize, pc, call, bp, prev_bp,
                    new_size, blks>>
    BY <1>13 DEF vars, clientVars, allocVars
  <2>2. Live' = Live
    BY <2>1 DEF Live, Moved
  <2> QED
    BY <2>1, <2>2 DEF SlackInv, BoundedSlack
<1> QED
  BY <1>1, <1>3, <1>5, <1>6, <1>7, <1>8, <1>9, <1>10, <1>11, <1>12, <1>13
  DEF Next, ClientCall, AllocatorStep

(* What next_fit has seen so far does not fit. *)
SeenInv ==
  /\ pc = "up" => \A c \in blks : prev_bp <= c /\ c < bp => ~Fits(mem, c)
  /\ pc = "low" => \A c \in blks : prev_bp <= c \/ c < bp => ~Fits(mem, c)
  /\ GrowOnlyIfNoFit

LEMMA SeenStep ==
  ASSUME IInv, SeenInv, [Next]_vars
  PROVE  SeenInv'
<1>1. CASE pc' \notin {"up", "low", "grow"}
  BY <1>1 DEF SeenInv, GrowOnlyIfNoFit
<1>2. ASSUME NEW i \in Ids, NEW size \in Sizes,
             CallMalloc(i, size) \/ CallRealloc(i, size)
      PROVE  SeenInv'
  <2>1. bp' = prev_bp /\ prev_bp' = prev_bp /\ pc' = "up" /\ blks' = blks
        /\ pc = "idle"
    BY <1>2 DEF CallMalloc, CallRealloc, StartSearch
  <2>2. \A c \in blks : c \in Int
    BY <2>1, Epilogue
  <2>3. prev_bp \in blks
    BY <2>1, Situation DEF Structure
  <2> QED
    BY <2>1, <2>2, <2>3 DEF SeenInv, GrowOnlyIfNoFit
<1>3. CASE (SearchUp \/ SearchLow) /\ Advance
  <2>1. /\ pc \in {"up", "low"} /\ pc' = pc /\ ~Fits(mem, bp)
        /\ bp' = NEXT_BLKP(mem, bp)
        /\ UNCHANGED <<mem, blks, prev_bp, new_size>>
        /\ pc = "up" => GET_SIZE(mem, HDRP(bp)) > 0
    BY <1>3 DEF SearchUp, SearchLow, Advance
  <2>2. bp \in blks
    BY <2>1, Epilogue DEF IInv, SearchInv
  <2>3. \A c \in blks : c \in Int /\ (bp < c => bp' <= c)
    BY <2>1, <2>2, Cursor, Epilogue
  <2>4. bp' \in Int /\ prev_bp \in Int
    <3>1. bp' \in blks \union {mem_brk} /\ prev_bp \in blks
      BY <2>1, <2>2, Cursor, Situation DEF Structure
    <3>2. mem_brk \in Int
      BY <2>1, Situation, HeapFacts DEF Structure, Heap
    <3> QED
      BY <2>3, <3>1, <3>2
  <2>5. \A c \in blks : c < bp' => c = bp \/ c < bp
    BY <2>2, <2>3, <2>4
  <2> QED
    BY <2>1, <2>5 DEF SeenInv, GrowOnlyIfNoFit, Fits
<1>4. CASE WrapAround
  <2>1. /\ pc = "up" /\ pc' = "low" /\ GET_SIZE(mem, HDRP(bp)) = 0
        /\ bp' = heap_listp /\ UNCHANGED <<mem, blks, prev_bp, new_size>>
    BY <1>4 DEF WrapAround
  <2>2. \A c \in blks : /\ c \in Int /\ heap_listp <= c /\ c < mem_brk
                        /\ Size(mem, c) # 0
    BY <2>1, Situation, BlockFacts, Bounds DEF Structure, Heap
  <2>3. bp = mem_brk
    BY <2>1, <2>2 DEF IInv, SearchInv, Size
  <2>4. heap_listp \in Int
    BY <2>1, <2>2, Epilogue
  <2> QED
    BY <2>1, <2>2, <2>3, <2>4 DEF SeenInv, GrowOnlyIfNoFit, Fits
<1>5. CASE NoFit
  <2>1. /\ pc = "low" /\ pc' = "grow" /\ bp = prev_bp
        /\ UNCHANGED <<mem, blks, prev_bp, new_size>>
    BY <1>5 DEF NoFit
  <2>2. \A c \in blks : c \in Int
    BY <2>1, Epilogue
  <2>3. prev_bp \in blks
    BY <2>1, Situation DEF Structure
  <2> QED
    BY <2>1, <2>2, <2>3 DEF SeenInv, GrowOnlyIfNoFit, Fits
<1>6. CASE UNCHANGED vars
  BY <1>6 DEF vars, clientVars, allocVars, SeenInv, GrowOnlyIfNoFit, Fits
<1>7. ASSUME mm_init \/ (\E i \in Ids : CallFree(i)) \/ TakeFit \/ Grow
             \/ GrowFails \/ Move \/ Return
      PROVE  pc' \notin {"up", "low", "grow"}
  <2>1. ASSUME NEW i \in Ids, CallFree(i)
        PROVE  pc' \notin {"up", "low", "grow"}
    BY <2>1 DEF CallFree
  <2> QED
    BY <1>7, <2>1 DEF mm_init, TakeFit, Grow, PlaceAt, GrowFails, Move, Return,
                      TakeResult
<1> QED
  BY <1>1, <1>2, <1>3, <1>4, <1>5, <1>6, <1>7
  DEF Next, ClientCall, AllocatorStep, SearchUp, SearchLow

-----------------------------------------------------------------------------
(* The allocator implements the contract.                                  *)

LEMMA InitRefines == Init => Contract!Init
BY DEF Init, ClientInit, Contract!Init, NULL

LEMMA GrantStep ==
  ASSUME IInv, Return, bp # NULL
  PROVE  Contract!Grant(call.id)
<1>1. PICK id : id = call.id
  OBVIOUS
<1>2. PICK size : size = call.size
  OBVIOUS
<1>3. /\ pc = "ret" /\ pc' = "idle"
      /\ ptr' = [ptr EXCEPT ![id] = bp] /\ psize' = [psize EXCEPT ![id] = size]
      /\ mem_brk' = mem_brk
  BY <1>1, <1>2 DEF Return, TakeResult
<1>4. /\ IInv' /\ id \notin Live /\ Live' = Live \union {id}
  BY <1>1, ReturnBlockStep
<1>5. /\ id \in Ids /\ ptr \in [Ids -> Addr \union {NULL}] /\ psize \in [Ids -> Nat]
  BY <1>1, <1>3 DEF IInv, CallInv, Call, TypeOK
<1>6. /\ ptr'[id] = bp /\ psize'[id] = size
      /\ \A j \in Ids \ {id} : ptr'[j] = ptr[j] /\ psize'[j] = psize[j]
  BY <1>3, <1>5
<1>7. size > 0
  BY <1>2, <1>3, PayloadFits
<1>8. Tiled(mem', mem_brk', blks')
  BY <1>3, <1>4 DEF IInv, StructureInv, Structure, Heap
<1>9. ASSUME NEW j \in Live'
      PROVE  ptr'[j] \in blks' /\ Covers(mem', ptr'[j], psize'[j])
  <2>1. ptr'[j] \in Owned'
    BY <1>3 DEF Owned
  <2>2. ptr'[j] \in Allocated(mem', blks')
    BY <1>3, <1>4, <2>1 DEF IInv, OwnerInv
  <2>3. Size(mem', ptr'[j]) >= psize'[j] + DSIZE
    BY <1>3, <1>4 DEF IInv, OwnerInv
  <2>4. psize' \in [Ids -> Nat]
    BY <1>4 DEF IInv, TypeOK
  <2>5. j \in Ids
    BY DEF Live
  <2> QED
    BY <2>2, <2>3, <2>4, <2>5 DEF Allocated, Covers
<1>10. InHeap(mem_brk', bp, size)
  <2>1. bp \in blks' /\ Covers(mem', bp, size)
    BY <1>4, <1>6, <1>9
  <2> QED
    BY <1>8, <2>1, PayloadInHeap
<1>11. ASSUME NEW j \in Ids \ {id}, ptr[j] # 0
       PROVE  Contract!Disjoint(bp, size, ptr[j], psize[j])
  <2>1. j \in Live'
    BY <1>1, <1>4, <1>11 DEF Live, Moved, NULL
  <2>2. /\ bp \in blks' /\ Covers(mem', bp, size)
        /\ ptr[j] \in blks' /\ Covers(mem', ptr[j], psize[j])
    BY <1>4, <1>6, <1>9, <2>1
  <2>3. bp # ptr[j]
    BY <1>3, <1>4, <1>6, <2>1 DEF IInv, OwnerInv
  <2> QED
    BY <1>8, <2>2, <2>3, PayloadsApart DEF Contract!Disjoint, Apart
<1>12. Contract!Grant(id)
  BY <1>3, <1>6, <1>7, <1>10, <1>11 DEF Contract!Grant, InHeap
<1> QED
  BY <1>1, <1>12

LEMMA StepRefines ==
  ASSUME IInv, IInv', [Next]_vars
  PROVE  [Contract!Next]_(Contract!vars)
<1>1. CASE mm_init
  <2>1. /\ ptr' = [i \in Ids |-> 0] /\ psize' = [i \in Ids |-> 0]
        /\ mem_brk' \in mem_start_brk .. mem_max_addr
    BY <1>1 DEF mm_init, ClientReset, NULL, IInv, TypeOK
  <2> QED
    BY <2>1 DEF Contract!Next, Contract!Reset
<1>2. ASSUME NEW i \in Ids, CallFree(i)
      PROVE  [Contract!Next]_(Contract!vars)
  <2>1. Contract!Release(i)
    BY <1>2 DEF CallFree, Contract!Release, NULL
  <2> QED
    BY <2>1 DEF Contract!Next
<1>3. CASE Grow
  <2>1. /\ UNCHANGED <<ptr, psize>> /\ pc = "grow"
        /\ ~SbrkFails(mem_brk, ToInt(GrowSize))
        /\ mem_brk' = SbrkBreak(mem_brk, ToInt(GrowSize))
    BY <1>3 DEF Grow
  <2>2. /\ Rounded(GrowSize) /\ mem_brk' = mem_brk + GrowSize
        /\ mem_brk + GrowSize <= mem_max_addr
    BY <2>1, Sbrk
  <2>3. mem_brk \in Int /\ mem_max_addr \in Int
    BY ArenaAssumption DEF IInv, TypeOK, mem_max_addr
  <2>4. mem_brk' \in mem_brk + 1 .. mem_max_addr
    BY <2>2, <2>3 DEF Rounded
  <2> QED
    BY <2>1, <2>4 DEF Contract!Next, Contract!Grow
<1>4. CASE Return
  <2>1. CASE bp # NULL
    <3>1. Contract!Grant(call.id)
      BY <1>4, <2>1, GrantStep
    <3>2. call.id \in Ids
      BY <1>4 DEF Return, TakeResult, IInv, CallInv, Call
    <3> QED
      BY <3>1, <3>2 DEF Contract!Next
  <2>2. CASE bp = NULL
    BY <1>4, <2>2 DEF Return, TakeResult, Contract!vars
  <2> QED
    BY <2>1, <2>2
<1>5. CASE TakeFit \/ Advance \/ WrapAround \/ NoFit \/ GrowFails \/ Move
  BY <1>5 DEF TakeFit, Advance, WrapAround, NoFit, GrowFails, Move,
              Contract!vars
<1>6. ASSUME NEW i \in Ids, NEW size \in Sizes,
             CallMalloc(i, size) \/ CallRealloc(i, size)
      PROVE  [Contract!Next]_(Contract!vars)
  BY <1>6 DEF CallMalloc, CallRealloc, StartSearch, Contract!vars
<1>7. CASE UNCHANGED vars
  BY <1>7 DEF vars, clientVars, Contract!vars
<1> QED
  BY <1>1, <1>2, <1>3, <1>4, <1>5, <1>6, <1>7
  DEF Next, ClientCall, AllocatorStep, SearchUp, SearchLow

-----------------------------------------------------------------------------
(* Every variable holds a value of its kind in every reachable state.      *)
THEOREM TypeCorrect == Spec => []TypeOK
<1>1. IInv /\ DataInv => TypeOK
  BY DEF IInv
<1> QED
  BY <1>1, Invariance, PTL

(* mm_init, mm_malloc, mm_free and mm_realloc, in any order a client may   *)
(* call them, keep the boundary tags a tiling of the heap from prologue to *)
(* epilogue: place, coalesce and extend_heap never write a tag that any    *)
(* other block, or a later call, would take for something else.            *)
THEOREM TagsTileTheHeap == Spec => []HeapTiled
<1>1. IInv /\ DataInv => HeapTiled
  BY DEF IInv, StructureInv, Structure, Heap, HeapTiled
<1> QED
  BY <1>1, Invariance, PTL

(* coalesce leaves no two free neighbours behind, whatever the free order. *)
THEOREM NoFreeNeighbours == Spec => []HeapCoalesced
<1>1. IInv /\ DataInv => HeapCoalesced
  BY DEF IInv, StructureInv, Structure, HeapCoalesced
<1> QED
  BY <1>1, Invariance, PTL

(* prev_bp is the start of a block whenever next_fit reads it, although    *)
(* the block it pointed at may have been merged away since.                *)
THEOREM RoverOnBlock == Spec => []SearchStartOnBlock
<1>1. IInv /\ DataInv => SearchStartOnBlock
  BY DEF IInv, StructureInv, Structure, SearchStartOnBlock
<1> QED
  BY <1>1, Invariance, PTL

(* The allocated blocks are the prologue and those a client holds: neither *)
(* mm_realloc nor a failed call leaks one, none is freed under its owner.  *)
THEOREM OwnersAccountForBlocks == Spec => []NoLeak
<1>1. IInv /\ DataInv => NoLeak
  BY DEF IInv, OwnerInv, Allocated, NoLeak
<1> QED
  BY <1>1, Invariance, PTL

(* What a client has written into its payload stays there until it frees   *)
(* or reallocates it: no tag and no other payload is written over it.      *)
THEOREM PayloadsSurvive == Spec => []PayloadsIntact
<1>1. IInv /\ DataInv => PayloadsIntact
  BY DEF DataInv
<1> QED
  BY <1>1, Invariance, PTL

(* mm_realloc returns a block with the old contents, up to the shorter of  *)
(* the two sizes.                                                          *)
THEOREM ReallocCopies == Spec => []ReallocKeepsData
<1>1. IInv /\ DataInv => ReallocKeepsData
  BY DEF DataInv
<1> QED
  BY <1>1, Invariance, PTL

(* The heap grows only when no free block is large enough: next_fit's two  *)
(* loops together have seen every block.                                   *)
THEOREM NextFitIsExhaustive == Spec => []GrowOnlyIfNoFit
<1>1. Init => SeenInv
  BY DEF Init, ClientInit, SeenInv, GrowOnlyIfNoFit
<1>2. (IInv /\ DataInv) /\ SeenInv /\ [Next]_vars => SeenInv'
  BY SeenStep
<1>3. SeenInv => GrowOnlyIfNoFit
  BY DEF SeenInv
<1> QED
  BY <1>1, <1>2, <1>3, Invariance, PTL DEF Spec

(* A client's block holds its payload and two tags, and is less than the   *)
(* smallest block longer than its rounded size: place has split whatever   *)
(* it could, and neither a coalesce nor an extension of the heap changes   *)
(* a block somebody holds.                                                 *)
THEOREM SlackIsBounded == Spec => []BoundedSlack
<1>1. Init => SlackInv
  BY DEF SlackInv, BoundedSlack, Live, Init, ClientInit
<1>2. (IInv /\ SlackInv) /\ IInv' /\ [Next]_vars => SlackInv'
  BY SlackStep
<1>3. SlackInv => BoundedSlack
  BY DEF SlackInv
<1> QED
  BY <1>1, <1>2, <1>3, Invariance, PTL DEF Spec

(* Every behaviour of the allocator with its client is one of the          *)
(* contract: payloads are granted aligned, inside the heap and disjoint    *)
(* from every other, and the heap is not shrunk between two resets.        *)
THEOREM Refinement == Spec => ImplementsContract
<1>1. Init => Contract!Init
  BY InitRefines
<1>2. (IInv /\ DataInv) /\ (IInv /\ DataInv)' /\ [Next]_vars
        => [Contract!Next]_(Contract!vars)
  BY StepRefines
<1> QED
  BY <1>1, <1>2, Invariance, PTL DEF Spec, ImplementsContract, Contract!Spec
=============================================================================
