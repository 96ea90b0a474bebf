---------------------------- MODULE Mdriver_proof ----------------------------
(***************************************************************************)
(* Proofs about Mdriver: what the driver can conclude from the answers of  *)
(* any allocator, for any traces, any command line and any addresses.      *)
(*                                                                         *)
(*   BaseInv    every variable's kind, and the request of a pass is one of *)
(*              the trace, which asks for and gives back ids in turn       *)
(*   HandedInv  what the trace holds is what the allocator gave            *)
(*   RangesInv  the range list has one record per block held, and these    *)
(*              are as far apart as two comparisons per record can tell    *)
(*   ReportInv  errors, valid and the report agree; -f goes before -t      *)
(*   UtilInv    the total of eval_mm_util is the sum of the sizes held and *)
(*              its mark the largest such sum; while the allocator keeps   *)
(*              the contract the payloads fit beside each other            *)
(*                                                                         *)
(* Each part is kept by every step together with BaseInv (ReportInv part   *)
(* by part).  A sum over a finite set is a function on its subsets that    *)
(* adds up one chosen element after another (AddsUp); that there is one,   *)
(* that the order does not matter and that disjoint payloads of a heap do  *)
(* not sum up to more than the heap are shown with the least cardinality   *)
(* for which they would be false.                                          *)
(***************************************************************************)
EXTENDS Mdriver, FiniteSetTheorems, SequenceTheorems, TLAPS

(* A set of natural numbers has a least element. *)
LEMMA LeastNumber ==
  ASSUME NEW T, T \subseteq Nat, T # {}
  PROVE  \E n \in T : \A k \in T : n <= k
<1> DEFINE R == OpToRel(<, Nat)
<1>1. IsWellFoundedOn(R, Nat)
  BY NatLessThanWellFounded, Zenon
<1>2. \A x, y \in Nat : x < y => <<x, y>> \in R
  BY Zenon DEF OpToRel
<1> HIDE DEF R
<1>3. PICK x \in T : \A y \in T : ~(<<y, x>> \in R)
  BY <1>1, WFMin, Zenon
<1>4. \A y \in T : x <= y
  <2> SUFFICES ASSUME NEW y \in T
               PROVE  x <= y
    OBVIOUS
  <2>1. x \in Nat /\ y \in Nat
    OBVIOUS
  <2>2. ~(y < x)
    BY <1>2, <1>3, <2>1
  <2> QED
    BY <2>1, <2>2
<1> QED
  BY <1>4

(* The maximum of a set of integers, if there is one. *)
LEMMA MaxIs ==
  ASSUME NEW S, S \subseteq Int, NEW m \in S, \A y \in S : m >= y
  PROVE  Max(S) = m
<1>1. \A z \in S : (\A y \in S : z >= y) => z = m
  OBVIOUS
<1> QED
  BY <1>1 DEF Max

LEMMA MaxExists ==
  ASSUME NEW S, S \subseteq Nat, S # {}, NEW n \in Nat, \A y \in S : y <= n
  PROVE  Max(S) \in S /\ \A y \in S : Max(S) >= y
<1> DEFINE U == {u \in Nat : \A y \in S : y <= u}
<1>1. PICK m \in U : \A u \in U : m <= u
  BY LeastNumber
<1>2. m \in S
  <2> SUFFICES ASSUME m \notin S
               PROVE  FALSE
    OBVIOUS
  <2>1. \A y \in S : y <= m - 1
    OBVIOUS
  <2>2. m - 1 \in Nat
    <3>1. PICK y \in S : y <= m - 1
      BY <2>1
    <3> QED
      BY <3>1
  <2>3. m - 1 \in U
    BY <2>1, <2>2
  <2> QED
    BY <1>1, <2>3
<1>3. Max(S) = m
  <2>1. S \subseteq Int /\ \A y \in S : m >= y
    OBVIOUS
  <2> QED
    BY <1>2, <2>1, MaxIs
<1> QED
  BY <1>2, <1>3

-----------------------------------------------------------------------------
(* What a trace holds, request by request. *)

Trace(t) ==
  /\ t \in Seq(Request)
  /\ \A n \in DOMAIN t :
       /\ t[n].type = "a" <=> t[n].index \notin Held(t, n)
       /\ t[n].type # "f" => t[n].size > 0

LEMMA LastOnFirst ==
  ASSUME NEW t, NEW x
  PROVE  LastOn(t, 1, x) = 0
<1>1. {0} \union {j \in 1 .. 1 - 1 : t[j].index = x} = {0}
  OBVIOUS
<1> QED
  BY <1>1, MaxIs DEF LastOn

LEMMA LastOnIs ==
  ASSUME NEW t, NEW n \in Nat \ {0}, NEW x
  PROVE  /\ LastOn(t, n, x) \in 0 .. n - 1
         /\ LastOn(t, n, x) # 0 => t[LastOn(t, n, x)].index = x
         /\ \A j \in 1 .. n - 1 : t[j].index = x => j <= LastOn(t, n, x)
<1> DEFINE S == {0} \union {j \in 1 .. n - 1 : t[j].index = x}
<1>1. S \subseteq Nat /\ S # {} /\ \A y \in S : y <= n
  OBVIOUS
<1>2. Max(S) \in S /\ \A y \in S : Max(S) >= y
  <2> HIDE DEF S
  <2> QED
    BY <1>1, MaxExists
<1>3. LastOn(t, n, x) = Max(S)
  BY DEF LastOn
<1> QED
  BY <1>2, <1>3

LEMMA LastOnNext ==
  ASSUME NEW t, NEW n \in Nat \ {0}, NEW x
  PROVE  /\ t[n].index = x => LastOn(t, n + 1, x) = n
         /\ t[n].index # x => LastOn(t, n + 1, x) = LastOn(t, n, x)
<1> DEFINE k == LastOn(t, n, x)
           m == LastOn(t, n + 1, x)
<1>1. /\ k \in 0 .. n - 1
      /\ k # 0 => t[k].index = x
      /\ \A j \in 1 .. n - 1 : t[j].index = x => j <= k
  BY LastOnIs
<1>2. /\ m \in 0 .. n
      /\ m # 0 => t[m].index = x
      /\ \A j \in 1 .. n : t[j].index = x => j <= m
  <2>1. (n + 1) \in Nat \ {0} /\ (n + 1) - 1 = n
    OBVIOUS
  <2> QED
    BY <2>1, LastOnIs
<1> HIDE DEF k, m
<1>3. t[n].index = x => m = n
  BY <1>2
<1>4. t[n].index # x => m = k
  BY <1>1, <1>2
<1> QED
  BY <1>3, <1>4 DEF k, m

(* What a request changes of what the trace holds. *)
LEMMA HeldFirst ==
  ASSUME NEW t
  PROVE  Held(t, 1) = {}
BY LastOnFirst DEF Held

LEMMA HeldNext ==
  ASSUME NEW t, Trace(t), NEW n \in DOMAIN t
  PROVE  /\ t[n].type # "f" => Held(t, n + 1) = Held(t, n) \union {t[n].index}
         /\ t[n].type = "f" => Held(t, n + 1) = Held(t, n) \ {t[n].index}
         /\ SizeAt(t, n + 1, t[n].index) = t[n].size
         /\ \A x \in Ids : x # t[n].index => SizeAt(t, n + 1, x) = SizeAt(t, n, x)
<1>1. n \in Nat \ {0} /\ t[n] \in Request
  BY DEF Trace
<1>2. \A x \in Ids : /\ t[n].index = x => LastOn(t, n + 1, x) = n
                     /\ t[n].index # x => LastOn(t, n + 1, x) = LastOn(t, n, x)
  BY <1>1, LastOnNext
<1>3. t[n].index \in Ids
  BY <1>1 DEF Request
<1>4. /\ SizeAt(t, n + 1, t[n].index) = t[n].size
      /\ \A x \in Ids : x # t[n].index => SizeAt(t, n + 1, x) = SizeAt(t, n, x)
  BY <1>2, <1>3 DEF SizeAt
<1>5. \A x \in Ids : /\ x = t[n].index => (x \in Held(t, n + 1) <=> t[n].type # "f")
                     /\ x # t[n].index => (x \in Held(t, n + 1) <=> x \in Held(t, n))
  BY <1>1, <1>2, <1>3 DEF Held
<1>6. Held(t, n) \subseteq Ids /\ Held(t, n + 1) \subseteq Ids
  BY DEF Held
<1> QED
  BY <1>3, <1>4, <1>5, <1>6

(* A block that is held has a positive size, and what is resized or freed  *)
(* is held.                                                                *)
LEMMA HeldSize ==
  ASSUME NEW t, Trace(t), NEW n \in 1 .. Len(t) + 1
  PROVE  /\ Held(t, n) \subseteq Ids
         /\ \A x \in Held(t, n) : SizeAt(t, n, x) \in Nat \ {0}
<1>1. ASSUME NEW x \in Held(t, n)
      PROVE  SizeAt(t, n, x) \in Nat \ {0}
  <2>1. n \in Nat \ {0}
    BY DEF Trace
  <2>2. PICK k : k = LastOn(t, n, x)
    OBVIOUS
  <2>3. k \in 0 .. n - 1
    BY <2>1, <2>2, LastOnIs
  <2>4. k > 0 /\ t[k].type # "f"
    BY <2>2 DEF Held
  <2>5. k \in DOMAIN t /\ t[k] \in Request
    BY <2>3, <2>4 DEF Trace
  <2> QED
    BY <2>2, <2>4, <2>5 DEF SizeAt, Trace, Request
<1> QED
  BY <1>1 DEF Held

LEMMA RequestKinds ==
  ASSUME NEW t, Trace(t), NEW n \in DOMAIN t
  PROVE  /\ t[n].type \in {"a", "r", "f"}
         /\ t[n].index \in Ids
         /\ t[n].size \in Nat
         /\ t[n].type # "f" => t[n].size > 0
         /\ t[n].type = "a" => t[n].index \notin Held(t, n)
         /\ t[n].type # "a" => t[n].index \in Held(t, n)
<1>1. t[n] \in Request
  BY DEF Trace
<1>2. /\ t[n].type \in {"a", "r", "f"}
      /\ t[n].index \in Ids
      /\ t[n].size \in Nat
  BY <1>1 DEF Request, Types
<1> QED
  BY <1>2 DEF Trace

-----------------------------------------------------------------------------
(* The range list. *)

RangeRecord == [lo : Addresses, hi : Nat]
Records(list) == {list[j] : j \in 1 .. Len(list)}
DistinctStarts(list) ==
  \A j, k \in 1 .. Len(list) : list[j].lo = list[k].lo => j = k

LEMMA MinIn ==
  ASSUME NEW S, S \subseteq Nat, S # {}
  PROVE  Min(S) \in S
<1>1. PICK m \in S : \A y \in S : m <= y
  BY LeastNumber
<1>2. \A z \in S : (\A y \in S : z <= y) => z = m
  BY <1>1
<1> QED
  BY <1>1, <1>2 DEF Min

(* A list with its k-th member taken out. *)
Without(list, k, u) ==
  /\ Len(u) = Len(list) - 1
  /\ \A j \in 1 .. Len(list) - 1 : /\ j < k => u[j] = list[j]
                                   /\ j >= k => u[j] = list[j + 1]

LEMMA CutOut ==
  ASSUME NEW R, NEW list \in Seq(R), NEW k \in 1 .. Len(list)
  PROVE  LET u == SubSeq(list, 1, k - 1) \o SubSeq(list, k + 1, Len(list))
         IN  u \in Seq(R) /\ Without(list, k, u)
<1> DEFINE a == SubSeq(list, 1, k - 1)
           b == SubSeq(list, k + 1, Len(list))
<1>1. a \in Seq(R) /\ Len(a) = k - 1 /\ \A j \in 1 .. k - 1 : a[j] = list[j]
  OBVIOUS
<1>2. /\ b \in Seq(R) /\ Len(b) = Len(list) - k
      /\ \A j \in 1 .. Len(list) - k : b[j] = list[k + j]
  OBVIOUS
<1> HIDE DEF a, b
<1>3. a \o b \in Seq(R) /\ Len(a \o b) = Len(list) - 1
  <2>1. a \o b \in Seq(R) /\ Len(a \o b) = Len(a) + Len(b)
    BY <1>1, <1>2, ConcatProperties
  <2> QED
    BY <1>1, <1>2, <2>1
<1>4. ASSUME NEW j \in 1 .. Len(list) - 1
      PROVE  /\ j < k => (a \o b)[j] = list[j]
             /\ j >= k => (a \o b)[j] = list[j + 1]
  <2>1. CASE j < k
    BY <1>1, <1>2, <2>1
  <2>2. ASSUME j >= k
        PROVE  (a \o b)[j] = list[j + 1]
    <3>1. (a \o b)[j] = b[j - (k - 1)]
      BY <1>1, <1>2, <2>2
    <3>2. j - (k - 1) \in 1 .. Len(list) - k /\ k + (j - (k - 1)) = j + 1
      BY <2>2
    <3> QED
      BY <1>2, <3>1, <3>2
  <2> QED
    BY <2>1, <2>2
<1> QED
  BY <1>3, <1>4 DEF a, b, Without

LEMMA WithoutOne ==
  ASSUME NEW list, NEW R, list \in Seq(R), NEW k \in 1 .. Len(list), NEW u,
         Without(list, k, u), DistinctStarts(list)
  PROVE  /\ Records(u) = Records(list) \ {list[k]}
         /\ DistinctStarts(u)
<1>1. \A j \in 1 .. Len(u) : /\ j < k => u[j] = list[j]
                             /\ j >= k => u[j] = list[j + 1]
  BY DEF Without
<1>2. Len(u) = Len(list) - 1
  BY DEF Without
<1>3. DistinctStarts(u)
  BY <1>1, <1>2 DEF DistinctStarts
<1>4. \A j \in 1 .. Len(u) : \E l \in 1 .. Len(list) : l # k /\ u[j] = list[l]
  BY <1>1, <1>2
<1>5. \A l \in 1 .. Len(list) : l # k => \E j \in 1 .. Len(u) : u[j] = list[l]
  <2> SUFFICES ASSUME NEW l \in 1 .. Len(list), l # k
               PROVE  \E j \in 1 .. Len(u) : u[j] = list[l]
    OBVIOUS
  <2>1. CASE l < k
    BY <1>1, <1>2, <2>1
  <2>2. CASE l > k
    <3>1. l - 1 \in 1 .. Len(u) /\ l - 1 >= k /\ (l - 1) + 1 = l
      BY <1>2, <2>2
    <3> QED
      BY <1>1, <3>1
  <2> QED
    BY <2>1, <2>2
<1>6. \A l \in 1 .. Len(list) : list[l] = list[k] => l = k
  BY DEF DistinctStarts
<1>7. Records(u) \subseteq Records(list) \ {list[k]}
  BY <1>4, <1>6 DEF Records
<1>8. Records(list) \ {list[k]} \subseteq Records(u)
  BY <1>5, <1>6 DEF Records
<1> QED
  BY <1>3, <1>7, <1>8

(* remove_range keeps a list a list, and takes out the record that starts  *)
(* at the given address if starts are distinct.                            *)
LEMMA RemoveKinds ==
  ASSUME NEW list \in Seq(RangeRecord), NEW lo
  PROVE  remove_range(list, lo) \in Seq(RangeRecord)
<1> DEFINE at == {j \in 1 .. Len(list) : list[j].lo = lo}
<1>1. CASE at = {}
  BY <1>1 DEF remove_range
<1>2. CASE at # {}
  <2>1. Min(at) \in 1 .. Len(list)
    BY <1>2, MinIn
  <2> QED
    BY <1>2, <2>1, CutOut DEF remove_range
<1> QED
  BY <1>1, <1>2

LEMMA RemoveOne ==
  ASSUME NEW list \in Seq(RangeRecord), NEW r \in Records(list),
         DistinctStarts(list)
  PROVE  LET u == remove_range(list, r.lo)
         IN  /\ Records(u) = Records(list) \ {r}
             /\ DistinctStarts(u)
             /\ Len(u) = Len(list) - 1
<1> DEFINE at == {j \in 1 .. Len(list) : list[j].lo = r.lo}
<1>1. PICK k \in 1 .. Len(list) : r = list[k]
  BY DEF Records
<1>2. at = {k}
  BY <1>1 DEF DistinctStarts
<1>3. Min(at) = k
  <2>1. at \subseteq Nat /\ at # {}
    BY <1>2
  <2> HIDE DEF at
  <2> QED
    BY <1>2, <2>1, MinIn
<1> DEFINE u == SubSeq(list, 1, k - 1) \o SubSeq(list, k + 1, Len(list))
<1>4. remove_range(list, r.lo) = u
  BY <1>2, <1>3 DEF remove_range
<1>5. Without(list, k, u)
  BY CutOut
<1>6. Records(u) = Records(list) \ {r} /\ DistinctStarts(u)
  <2> HIDE DEF u
  <2> QED
    BY <1>1, <1>5, WithoutOne
<1>7. Len(u) = Len(list) - 1
  <2> HIDE DEF u
  <2> QED
    BY <1>5 DEF Without
<1> QED
  BY <1>4, <1>6, <1>7

-----------------------------------------------------------------------------
(* Kinds of values, the totals apart, and: in a pass there is a trace, and *)
(* i is in it or just behind it.                                           *)

Kinds ==
  /\ malloc \in {"libc", "mm"} /\ tracenum \in Nat \ {0} /\ i \in Nat \ {0}
  /\ phase \in {"options", "read", "start", "valid", "util", "speed", "done",
               "exit", "quit"}
  /\ blocks \in [Ids -> Addresses \union {NULL}]
  /\ block_sizes \in [Ids -> Nat]
  /\ ranges \in Seq(RangeRecord)
  /\ brk \in HeapEnds \union {heap_lo}
  /\ passes \in 0 .. PASSES - 1
  /\ valid \in [DOMAIN valid -> BOOLEAN]
  /\ errors \in Nat /\ wronged \in BOOLEAN
  /\ given \in [Ids -> Addresses \union {NULL}]

Passing == phase \in {"valid", "util", "speed"}

TraceInv ==
  phase \in {"start", "valid", "util", "speed"} =>
    /\ Trace(ops)
    /\ i \in 1 .. Len(ops) + 1

BaseInv == Kinds /\ TraceInv

LEMMA ReadableTrace ==
  ASSUME NEW p, Readable(p)
  PROVE  Trace(Disk[p].lines)
BY TracesAssumption DEF Readable, Trace

LEMMA SameTrace ==
  ASSUME UNCHANGED <<tracedir, tracefiles, tracenum>>
  PROVE  ops' = ops /\ path' = path
BY DEF ops, path

LEMMA NextTraceKinds ==
  ASSUME Kinds, NextTrace
  PROVE  /\ phase' \in {"read", "done"}
         /\ tracenum' \in Nat \ {0}
         /\ malloc' \in {"libc", "mm"}
BY DEF Kinds, NextTrace

(* A request, and an answer to it. *)
LEMMA RequestFacts ==
  ASSUME BaseInv, Passing, i <= Len(ops)
  PROVE  /\ i \in DOMAIN ops
         /\ Trace(ops)
         /\ op.type \in {"a", "r", "f"}
         /\ index \in Ids
         /\ size \in Nat
         /\ op.type # "f" => size > 0
         /\ op.type = "a" => index \notin held
         /\ op.type # "a" => index \in held
         /\ i + 1 \in 1 .. Len(ops) + 1
<1>1. Trace(ops) /\ i \in 1 .. Len(ops) + 1
  BY DEF BaseInv, TraceInv, Passing
<1>2. Len(ops) \in Nat /\ DOMAIN ops = 1 .. Len(ops)
  BY <1>1 DEF Trace
<1>3. i \in DOMAIN ops /\ i + 1 \in 1 .. Len(ops) + 1
  BY <1>1, <1>2
<1> QED
  BY <1>1, <1>3, RequestKinds DEF op, index, size, held

LEMMA AnswerKinds ==
  ASSUME NEW r \in Answers
  PROVE  /\ r.p \in Addresses \union {NULL}
         /\ r.brk \in HeapEnds
         /\ r.kept \in BOOLEAN
         /\ r.brk >= brk
         /\ op.type = "f" => r.p = NULL
BY DEF Answers, Reply

LEMMA TakesKinds ==
  ASSUME Kinds, NEW r \in Answers, Takes(r)
  PROVE  /\ brk' \in HeapEnds \union {heap_lo}
         /\ wronged' \in BOOLEAN
         /\ given' \in [Ids -> Addresses \union {NULL}]
<1>1. brk' \in HeapEnds /\ given' = [given EXCEPT ![index] = r.p]
      /\ r.p \in Addresses \union {NULL}
  BY AnswerKinds DEF Takes
<1>2. wronged' \in BOOLEAN
  BY DEF Takes, Kinds
<1> QED
  BY <1>1, <1>2 DEF Kinds

LEMMA AdvanceKinds ==
  ASSUME BaseInv, Passing, i <= Len(ops), NEW r \in Answers, Advance(r)
  PROVE  /\ UNCHANGED <<malloc, tracenum, phase, passes, valid, errors>>
         /\ ops' = ops
         /\ i' = i + 1 /\ i' \in 1 .. Len(ops) + 1 /\ i' \in Nat \ {0}
         /\ blocks' \in [Ids -> Addresses \union {NULL}]
<1>1. UNCHANGED <<mainVars, tracenum, phase, passes, verdictVars>>
      /\ i' = i + 1 /\ blocks' = NewBlocks(r)
  BY DEF Advance
<1>2. ops' = ops
  BY <1>1, SameTrace DEF mainVars
<1>3. i + 1 \in 1 .. Len(ops) + 1 /\ Len(ops) \in Nat
  BY RequestFacts DEF Trace
<1>4. NewBlocks(r) \in [Ids -> Addresses \union {NULL}]
  BY AnswerKinds DEF NewBlocks, BaseInv, Kinds
<1> QED
  BY <1>1, <1>2, <1>3, <1>4 DEF mainVars, verdictVars

(* What everything starts with. *)
LEMMA Fresh ==
  /\ [x \in Ids |-> NULL] \in [Ids -> Addresses \union {NULL}]
  /\ [x \in Ids |-> 0] \in [Ids -> Nat]
  /\ 0 \in 0 .. PASSES - 1
  /\ <<>> \in Seq(RangeRecord)
  /\ <<>> \in [DOMAIN <<>> -> BOOLEAN]
BY TracesAssumption

LEMMA BaseInit ==
  Init => BaseInv
<1> SUFFICES ASSUME Init
             PROVE  BaseInv
  OBVIOUS
<1>1. Kinds
  <2>1. /\ blocks \in [Ids -> Addresses \union {NULL}]
        /\ block_sizes \in [Ids -> Nat]
        /\ given \in [Ids -> Addresses \union {NULL}]
        /\ ranges \in Seq(RangeRecord)
    BY Fresh DEF Init
  <2>2. valid \in [DOMAIN valid -> BOOLEAN] /\ passes \in 0 .. PASSES - 1
    BY Fresh, Zenon DEF Init
  <2>3. malloc \in {"libc", "mm"} /\ tracenum \in Nat \ {0} /\ i \in Nat \ {0}
    BY DEF Init
  <2>4. brk \in HeapEnds \union {heap_lo} /\ errors \in Nat /\ wronged \in BOOLEAN
    BY DEF Init
  <2>5. phase \in {"options", "read", "start", "valid", "util", "speed", "done",
                   "exit", "quit"}
    BY Zenon DEF Init
  <2> QED
    BY <2>1, <2>2, <2>3, <2>4, <2>5, Zenon DEF Kinds
<1>2. TraceInv
  BY DEF Init, TraceInv
<1> QED
  BY <1>1, <1>2 DEF BaseInv

LEMMA PassKinds ==
  ASSUME BaseInv, NEW next \in {"valid", "util", "speed"}, Pass(next),
         phase \in {"start", "valid", "util", "speed"},
         ranges' \in Seq(RangeRecord), wronged' \in BOOLEAN,
         passes' \in 0 .. PASSES - 1, valid' \in [DOMAIN valid' -> BOOLEAN]
  PROVE  BaseInv'
<1>1. ops' = ops
  BY SameTrace DEF Pass, mainVars
<1>2. Trace(ops) /\ Len(ops) \in Nat
  BY DEF BaseInv, TraceInv, Trace
<1>3. TraceInv'
  BY <1>1, <1>2 DEF TraceInv, Pass
<1>4. [x \in Ids |-> NULL] \in [Ids -> Addresses \union {NULL}]
  OBVIOUS
<1>5. Kinds'
  BY <1>4 DEF BaseInv, Kinds, Pass, mainVars
<1> QED
  BY <1>3, <1>5 DEF BaseInv

(* The requests. *)
LEMMA AnsweredBase ==
  ASSUME BaseInv, Passing, i <= Len(ops), NEW r \in Answers, Answered(r)
  PROVE  BaseInv'
<1> USE DEF BaseInv
<1>1. Takes(r)
  BY DEF Answered, ValidAnswer, ValidFree, LibcAnswer, UtilStep, SpeedStep
<1>2. /\ brk' \in HeapEnds \union {heap_lo}
      /\ wronged' \in BOOLEAN
      /\ given' \in [Ids -> Addresses \union {NULL}]
  BY <1>1, TakesKinds
<1>3. NewSizes \in [Ids -> Nat]
  BY RequestFacts DEF NewSizes, Kinds
<1>4. ASSUME NEW lo
      PROVE  remove_range(ranges, lo) \in Seq(RangeRecord)
  BY RemoveKinds DEF Kinds
<1>5. ASSUME Advance(r), block_sizes' \in [Ids -> Nat],
             ranges' \in Seq(RangeRecord)
      PROVE  BaseInv'
  <2>1. /\ UNCHANGED <<malloc, tracenum, phase, passes, valid, errors>>
        /\ ops' = ops
        /\ i' \in 1 .. Len(ops) + 1 /\ i' \in Nat \ {0}
        /\ blocks' \in [Ids -> Addresses \union {NULL}]
    BY <1>5, AdvanceKinds
  <2>2. Kinds'
    BY <1>2, <1>5, <2>1 DEF Kinds
  <2>3. Trace(ops)
    BY RequestFacts
  <2>4. TraceInv'
    BY <2>1, <2>3 DEF TraceInv
  <2> QED
    BY <2>2, <2>4
<1>6. ASSUME Reject, UNCHANGED <<blocks, block_sizes>>,
             ranges' \in Seq(RangeRecord)
      PROVE  BaseInv'
  <2>1. /\ phase' \in {"read", "done"}
        /\ tracenum' \in Nat \ {0}
        /\ malloc' \in {"libc", "mm"}
    BY <1>6, NextTraceKinds DEF Reject
  <2>2. Kinds'
    BY <1>2, <1>6, <2>1 DEF Kinds, Reject
  <2>3. TraceInv'
    BY <2>1 DEF TraceInv
  <2> QED
    BY <2>2, <2>3
<1>7. ASSUME Exit, errors' \in Nat
      PROVE  BaseInv'
  BY <1>2, <1>7 DEF Exit, mainVars, bookVars, Kinds, TraceInv
<1>8. CASE ValidAnswer(r)
  <2> DEFINE list == IF op.type = "r" THEN remove_range(ranges, blocks[index])
                     ELSE ranges
             fits == Acceptable(list, r.p, r.brk)
  <2>1. list \in Seq(RangeRecord) /\ ranges \in Seq(RangeRecord)
    BY <1>4 DEF Kinds
  <2>2. r.p # NULL => Record(list, r.p) \in Seq(RangeRecord)
    <3> SUFFICES ASSUME r.p # NULL
                 PROVE  Record(list, r.p) \in Seq(RangeRecord)
      OBVIOUS
    <3>1. r.p \in Addresses /\ r.p \in Nat
      BY AnswerKinds, TracesAssumption
    <3>2. size \in Nat /\ size > 0
      BY <1>8, RequestFacts DEF ValidAnswer
    <3>3. [lo |-> r.p, hi |-> r.p + size - 1] \in RangeRecord
      BY <3>1, <3>2 DEF RangeRecord
    <3> HIDE DEF list
    <3> QED
      BY <2>1, <3>3 DEF Record
  <2>3. ranges' = CASE r.p = NULL -> ranges
                     [] r.p # NULL /\ fits -> Record(list, r.p)
                     [] OTHER -> list
    BY <1>8 DEF ValidAnswer
  <2> HIDE DEF list
  <2>4. ranges' \in Seq(RangeRecord)
    BY <2>1, <2>2, <2>3
  <2>5. \/ Advance(r) /\ block_sizes' = NewSizes
        \/ Reject /\ UNCHANGED <<blocks, block_sizes>>
    BY <1>8 DEF ValidAnswer
  <2> QED
    BY <1>3, <1>5, <1>6, <2>4, <2>5
<1>9. CASE ValidFree(r)
  BY <1>4, <1>5, <1>9 DEF ValidFree, Kinds
<1>10. CASE LibcAnswer(r)
  BY <1>5, <1>7, <1>10 DEF LibcAnswer, Kinds
<1>11. CASE UtilStep(r)
  BY <1>3, <1>5, <1>7, <1>11 DEF UtilStep, Kinds
<1>12. CASE SpeedStep(r)
  BY <1>5, <1>7, <1>12 DEF SpeedStep, Kinds
<1> QED
  BY <1>8, <1>9, <1>10, <1>11, <1>12 DEF Answered

LEMMA BaseStep ==
  BaseInv /\ [Next]_vars => BaseInv'
<1> SUFFICES ASSUME BaseInv, [Next]_vars
             PROVE  BaseInv'
  OBVIOUS
<1>1. CASE Option
  BY <1>1 DEF Option, BaseInv, Kinds, TraceInv, bookVars, verdictVars
<1>2. CASE OptionsEnd
  BY <1>2 DEF OptionsEnd, BaseInv, Kinds, TraceInv, bookVars
<1>3. CASE ReadTrace
  <2>1. Kinds'
    BY <1>3, Fresh
    DEF ReadTrace, BaseInv, Kinds, mainVars, verdictVars
  <2>2. TraceInv'
    <3>1. CASE Readable(path)
      <4>1. Trace(ops) /\ ops' = ops
        BY <1>3, <3>1, ReadableTrace, SameTrace DEF ReadTrace, mainVars, ops
      <4>2. i' = 1 /\ Len(ops) \in Nat
        BY <1>3, <3>1, <4>1 DEF ReadTrace, Trace
      <4> QED
        BY <4>1, <4>2 DEF TraceInv
    <3>2. CASE ~Readable(path)
      BY <1>3, <3>2 DEF ReadTrace, TraceInv
    <3> QED
      BY <3>1, <3>2
  <2> QED
    BY <2>1, <2>2 DEF BaseInv
<1>4. CASE StartValid
  <2>1. /\ ranges' \in Seq(RangeRecord) /\ wronged' \in BOOLEAN
        /\ passes' \in 0 .. PASSES - 1 /\ valid' \in [DOMAIN valid' -> BOOLEAN]
    BY <1>4, Fresh DEF StartValid, BaseInv, Kinds
  <2> QED
    BY <1>4, <2>1, PassKinds DEF StartValid
<1>5. CASE StartFails
  <2>1. /\ phase' \in {"read", "done"}
        /\ tracenum' \in Nat \ {0}
        /\ malloc' \in {"libc", "mm"}
    BY <1>5, NextTraceKinds DEF StartFails, Reject, BaseInv
  <2> QED
    BY <1>5, <2>1 DEF StartFails, Reject, BaseInv, Kinds, TraceInv
<1>6. CASE StartUtil
  BY <1>6, PassKinds DEF StartUtil, Over, BaseInv, Kinds
<1>7. CASE StartSpeed
  BY <1>7, PassKinds DEF StartSpeed, Over, BaseInv, Kinds
<1>8. CASE SpeedAgain
  <2>1. /\ ranges' \in Seq(RangeRecord) /\ wronged' \in BOOLEAN
        /\ passes' \in 0 .. PASSES - 1 /\ valid' \in [DOMAIN valid' -> BOOLEAN]
    BY <1>8, TracesAssumption DEF SpeedAgain, BaseInv, Kinds
  <2> QED
    BY <1>8, <2>1, PassKinds DEF SpeedAgain, Over
<1>9. CASE TraceDone
  <2>1. /\ phase' \in {"read", "done"}
        /\ tracenum' \in Nat \ {0}
        /\ malloc' \in {"libc", "mm"}
    BY <1>9, NextTraceKinds DEF TraceDone, BaseInv
  <2> QED
    BY <1>9, <2>1 DEF TraceDone, BaseInv, Kinds, TraceInv, bookVars
<1>10. CASE InitExits
  BY <1>10 DEF InitExits, BaseInv, Kinds, TraceInv, mainVars, bookVars
<1>11. ASSUME phase \in {"valid", "util", "speed"}, i <= Len(ops),
              NEW r \in Answers, Answered(r)
       PROVE  BaseInv'
  BY <1>11, AnsweredBase DEF Passing
<1>12. CASE UNCHANGED vars
  <2>1. ops' = ops
    BY <1>12, SameTrace DEF vars, mainVars
  <2>2. Kinds'
    BY <1>12 DEF vars, mainVars, bookVars, verdictVars, BaseInv, Kinds
  <2>3. TraceInv'
    BY <1>12, <2>1 DEF vars, BaseInv, TraceInv
  <2> QED
    BY <2>2, <2>3 DEF BaseInv
<1> QED
  BY <1>1, <1>2, <1>3, <1>4, <1>5, <1>6, <1>7, <1>8, <1>9, <1>10, <1>11, <1>12
  DEF Next

-----------------------------------------------------------------------------
(* A step that leads into a pass or goes on in it: the beginning of one, a *)
(* request that went through, or a stutter.                                *)

GoesThrough(r) ==
  /\ Passing /\ i <= Len(ops) /\ r \in Answers
  /\ Takes(r) /\ Advance(r) /\ ~Failed(r)

PassBegins == i' = 1 /\ given' = [x \in Ids |-> NULL]

LEMMA PassSteps ==
  ASSUME BaseInv, [Next]_vars, Passing'
  PROVE  \/ PassBegins
         \/ \E r \in Answers : GoesThrough(r)
         \/ UNCHANGED vars
<1>1. CASE Option
  BY <1>1 DEF Option, Passing
<1>2. CASE OptionsEnd
  BY <1>2 DEF OptionsEnd, Passing
<1>3. CASE ReadTrace
  BY <1>3 DEF ReadTrace, Passing
<1>4. CASE StartValid \/ StartUtil \/ StartSpeed \/ SpeedAgain
  BY <1>4 DEF StartValid, StartUtil, StartSpeed, SpeedAgain, Pass, PassBegins
<1>5. ~NextTrace
  BY NextTraceKinds DEF BaseInv, Passing
<1>6. CASE StartFails \/ TraceDone
  BY <1>5, <1>6 DEF StartFails, Reject, TraceDone
<1>7. CASE InitExits
  BY <1>7 DEF InitExits, Passing
<1>8. ASSUME phase \in {"valid", "util", "speed"}, i <= Len(ops),
             NEW r \in Answers, Answered(r)
      PROVE  GoesThrough(r)
  <2>1. ~Exit
    BY DEF Exit, Passing
  <2>2. CASE ValidAnswer(r)
    BY <1>5, <1>8, <2>2 DEF ValidAnswer, Reject, GoesThrough, Passing, Failed
  <2>3. CASE ValidFree(r)
    BY <1>8, <2>3 DEF ValidFree, GoesThrough, Passing, Failed
  <2>4. CASE LibcAnswer(r)
    BY <1>8, <2>1, <2>4 DEF LibcAnswer, GoesThrough, Passing
  <2>5. CASE UtilStep(r)
    BY <1>8, <2>1, <2>5 DEF UtilStep, GoesThrough, Passing
  <2>6. CASE SpeedStep(r)
    BY <1>8, <2>1, <2>6 DEF SpeedStep, GoesThrough, Passing
  <2> QED
    BY <1>8, <2>2, <2>3, <2>4, <2>5, <2>6 DEF Answered
<1> QED
  BY <1>1, <1>2, <1>3, <1>4, <1>6, <1>7, <1>8 DEF Next

(* The blocks that are held after a request, and their sizes. *)
LEMMA HeldAfter ==
  ASSUME BaseInv, NEW r, GoesThrough(r)
  PROVE  /\ ops' = ops /\ i' = i + 1
         /\ op.type # "f" => held' = held \union {index}
         /\ op.type = "f" => held' = held \ {index}
         /\ SizeAt(ops', i', index) = size
         /\ \A x \in Ids : x # index => SizeAt(ops', i', x) = SizeAt(ops, i, x)
         /\ held \subseteq Ids /\ held' \subseteq Ids /\ index \in Ids
<1>1. Passing /\ i <= Len(ops) /\ r \in Answers /\ Advance(r)
  BY DEF GoesThrough
<1>2. ops' = ops /\ i' = i + 1
  BY <1>1, AdvanceKinds
<1>3. i \in DOMAIN ops /\ Trace(ops) /\ index \in Ids
  BY <1>1, RequestFacts
<1>4. /\ ops[i].type # "f" => Held(ops, i + 1) = Held(ops, i) \union {ops[i].index}
      /\ ops[i].type = "f" => Held(ops, i + 1) = Held(ops, i) \ {ops[i].index}
      /\ SizeAt(ops, i + 1, ops[i].index) = ops[i].size
      /\ \A x \in Ids : x # ops[i].index => SizeAt(ops, i + 1, x) = SizeAt(ops, i, x)
  BY <1>3, HeldNext
<1>5. held' = Held(ops, i + 1)
  BY <1>2 DEF held
<1>6. held \subseteq Ids /\ Held(ops, i + 1) \subseteq Ids
  BY DEF held, Held
<1> QED
  BY <1>2, <1>3, <1>4, <1>5, <1>6 DEF op, index, size, held

(* ... and what is known of a block that is held in a pass. *)
LEMMA HeldFacts ==
  ASSUME BaseInv, phase \in {"start", "valid", "util", "speed"}
  PROVE  /\ held \subseteq Ids
         /\ \A x \in held : SizeAt(ops, i, x) \in Nat \ {0}
         /\ \A x \in Ids : blocks[x] \in Nat
<1>1. Trace(ops) /\ i \in 1 .. Len(ops) + 1
  BY DEF BaseInv, TraceInv
<1>2. \A x \in Ids : blocks[x] \in Nat
  BY TracesAssumption DEF BaseInv, Kinds, NULL
<1> QED
  BY <1>1, <1>2, HeldSize DEF held

-----------------------------------------------------------------------------
(* What is handed back. *)

HandedInv ==
  Passing => \A x \in held : blocks[x] = given[x] /\ given[x] # NULL

LEMMA HandedStep ==
  BaseInv /\ HandedInv /\ [Next]_vars => HandedInv'
<1> SUFFICES ASSUME BaseInv, HandedInv, [Next]_vars, Passing'
             PROVE  \A x \in held' : blocks'[x] = given'[x] /\ given'[x] # NULL
  BY DEF HandedInv
<1>1. CASE PassBegins
  <2>1. held' = {}
    BY <1>1, HeldFirst DEF PassBegins, held
  <2> QED
    BY <2>1
<1>2. ASSUME NEW r \in Answers, GoesThrough(r)
      PROVE  \A x \in held' : blocks'[x] = given'[x] /\ given'[x] # NULL
  <2>1. /\ op.type # "f" => held' = held \union {index}
        /\ op.type = "f" => held' = held \ {index}
        /\ held \subseteq Ids
        /\ index \in Ids
    BY <1>2, HeldAfter
  <2>2. blocks \in [Ids -> Addresses \union {NULL}]
        /\ given \in [Ids -> Addresses \union {NULL}]
    BY DEF BaseInv, Kinds
  <2>3. /\ given' = [given EXCEPT ![index] = r.p]
        /\ blocks' = IF op.type = "f" THEN blocks ELSE [blocks EXCEPT ![index] = r.p]
        /\ op.type # "f" => r.p # NULL
    BY <1>2 DEF GoesThrough, Takes, Advance, NewBlocks, Failed
  <2>4. \A x \in held : blocks[x] = given[x] /\ given[x] # NULL
    BY <1>2 DEF HandedInv, GoesThrough
  <2> QED
    BY <2>1, <2>2, <2>3, <2>4
<1>3. CASE UNCHANGED vars
  BY <1>3 DEF vars, mainVars, bookVars, HandedInv, Passing, held, ops, path
<1> QED
  BY <1>1, <1>2, <1>3, PassSteps

LEMMA HandedInit ==
  Init => HandedInv
BY DEF Init, HandedInv, Passing

LEMMA HandedBack ==
  ASSUME BaseInv, HandedInv
  PROVE  HandsBackHeld
<1> SUFFICES ASSUME Passing, i <= Len(ops), op.type # "a"
             PROVE  blocks[index] = given[index] /\ given[index] # NULL
  BY DEF HandsBackHeld, Passing
<1>1. index \in held
  BY RequestFacts
<1> QED
  BY <1>1 DEF HandedInv

-----------------------------------------------------------------------------
(* The range list mirrors what the trace holds: P gives the extent of each *)
(* block, H is the set of those held.                                      *)

Listed(list, H, P) ==
  /\ list \in Seq(RangeRecord)
  /\ Records(list) = {P[x] : x \in H}
  /\ IsFiniteSet(H) /\ Len(list) = Cardinality(H)
  /\ DistinctStarts(list)

Extents(H, P) ==
  \A x \in H : P[x].lo \in Nat /\ P[x].hi \in Nat /\ P[x].lo <= P[x].hi

Apart(r, s) ==
  \/ r.hi < s.lo \/ s.hi < r.lo
  \/ r.lo < s.lo /\ s.hi < r.hi
  \/ s.lo < r.lo /\ r.hi < s.hi

Accepted(H, P, e) ==
  /\ \A x \in H : /\ P[x].lo % ALIGNMENT = 0
                  /\ heap_lo <= P[x].lo /\ P[x].hi < e
  /\ \A x, y \in H : x = y \/ Apart(P[x], P[y])

LEMMA ListedRemove ==
  ASSUME NEW list, NEW H, NEW P, NEW e, Listed(list, H, P), Extents(H, P),
         Accepted(H, P, e), NEW x \in H
  PROVE  Listed(remove_range(list, P[x].lo), H \ {x}, P)
<1> DEFINE u == remove_range(list, P[x].lo)
<1>1. /\ list \in Seq(RangeRecord) /\ Records(list) = {P[y] : y \in H}
      /\ IsFiniteSet(H) /\ Len(list) = Cardinality(H) /\ DistinctStarts(list)
  BY DEF Listed
<1>2. P[x] \in Records(list)
  BY <1>1
<1>3. /\ Records(u) = Records(list) \ {P[x]} /\ DistinctStarts(u)
      /\ Len(u) = Len(list) - 1
  BY <1>1, <1>2, RemoveOne
<1>4. u \in Seq(RangeRecord)
  BY <1>1, RemoveKinds
<1>5. IsFiniteSet(H \ {x}) /\ Cardinality(H \ {x}) = Cardinality(H) - 1
  BY <1>1, FS_RemoveElement
<1>6. \A y \in H : y # x => P[y] # P[x]
  <2> SUFFICES ASSUME NEW y \in H, y # x, P[y] = P[x]
               PROVE  FALSE
    OBVIOUS
  <2>1. Apart(P[x], P[x])
    BY DEF Accepted
  <2> QED
    BY <2>1 DEF Apart, Extents
<1>7. Records(u) = {P[y] : y \in H \ {x}}
  BY <1>1, <1>3, <1>6
<1> HIDE DEF u
<1>8. Listed(u, H \ {x}, P)
  BY <1>1, <1>3, <1>4, <1>5, <1>7 DEF Listed
<1> QED
  BY <1>8 DEF u

LEMMA PutInFront ==
  ASSUME NEW R, NEW list \in Seq(R), NEW r \in R
  PROVE  LET u == <<r>> \o list
         IN  /\ u \in Seq(R) /\ Len(u) = Len(list) + 1 /\ u[1] = r
             /\ \A j \in 1 .. Len(list) : u[j + 1] = list[j]
OBVIOUS

LEMMA ListedAdd ==
  ASSUME NEW list, NEW H, NEW P, NEW Q, Listed(list, H, P),
         NEW x, x \notin H, \A y \in H : Q[y] = P[y],
         Q[x] \in RangeRecord,
         \A j \in 1 .. Len(list) : list[j].lo # Q[x].lo
  PROVE  Listed(<<Q[x]>> \o list, H \union {x}, Q)
<1> DEFINE u == <<Q[x]>> \o list
<1>1. /\ list \in Seq(RangeRecord) /\ Records(list) = {P[y] : y \in H}
      /\ IsFiniteSet(H) /\ Len(list) = Cardinality(H) /\ DistinctStarts(list)
  BY DEF Listed
<1>2. /\ u \in Seq(RangeRecord) /\ Len(u) = Len(list) + 1 /\ u[1] = Q[x]
      /\ \A j \in 1 .. Len(list) : u[j + 1] = list[j]
  BY <1>1, PutInFront
<1> HIDE DEF u
<1>3. Len(list) \in Nat
  BY <1>1
<1>4. \A k \in 1 .. Len(u) : k = 1 \/ (k - 1 \in 1 .. Len(list) /\ u[k] = list[k - 1])
  <2> SUFFICES ASSUME NEW k \in 1 .. Len(u), k # 1
               PROVE  k - 1 \in 1 .. Len(list) /\ u[k] = list[k - 1]
    OBVIOUS
  <2>1. k - 1 \in 1 .. Len(list) /\ (k - 1) + 1 = k
    BY <1>2, <1>3
  <2> QED
    BY <1>2, <2>1
<1>5. Records(u) = Records(list) \union {Q[x]}
  <2>1. Records(u) \subseteq Records(list) \union {Q[x]}
    BY <1>2, <1>4 DEF Records
  <2>2. \A j \in 1 .. Len(list) : j + 1 \in 1 .. Len(u) /\ u[j + 1] = list[j]
    BY <1>2, <1>3
  <2>3. 1 \in 1 .. Len(u) /\ u[1] = Q[x]
    BY <1>2, <1>3
  <2> QED
    BY <2>1, <2>2, <2>3 DEF Records
<1>6. Records(u) = {Q[y] : y \in H \union {x}}
  BY <1>1, <1>5
<1>7. DistinctStarts(u)
  <2> SUFFICES ASSUME NEW j \in 1 .. Len(u), NEW k \in 1 .. Len(u),
                      u[j].lo = u[k].lo
               PROVE  j = k
    BY DEF DistinctStarts
  <2>1. CASE j = 1 \/ k = 1
    BY <1>2, <1>4, <2>1
  <2>2. CASE j # 1 /\ k # 1
    <3>1. j - 1 = k - 1
      BY <1>1, <1>4, <2>2 DEF DistinctStarts
    <3> QED
      BY <1>2, <3>1
  <2> QED
    BY <2>1, <2>2
<1>8. /\ IsFiniteSet(H \union {x})
      /\ Cardinality(H \union {x}) = Cardinality(H) + 1
  BY <1>1, FS_AddElement
<1>9. Listed(u, H \union {x}, Q)
  BY <1>1, <1>2, <1>6, <1>7, <1>8 DEF Listed
<1> QED
  BY <1>9 DEF u

(* A payload add_range takes is apart from those in the list. *)
Agree(H, P, Q) == \A y \in H : Q[y] = P[y]
Placed(list, Q, x, lo, e) ==
  /\ size \in Nat /\ size > 0 /\ heap_lo \in Nat
  /\ Q[x] = [lo |-> lo, hi |-> lo + size - 1]
  /\ Acceptable(list, lo, e)

LEMMA AcceptedAdd ==
  ASSUME NEW list, NEW H, NEW P, NEW Q, NEW d \in Nat, NEW e \in Nat, d <= e,
         Listed(list, H, P), Extents(H, P), Accepted(H, P, d),
         NEW x, x \notin H, Agree(H, P, Q),
         NEW lo \in Nat, Placed(list, Q, x, lo, e)
  PROVE  /\ Accepted(H \union {x}, Q, e)
         /\ \A j \in 1 .. Len(list) : list[j].lo # Q[x].lo
<1> USE DEF Placed, Agree
<1>1. Q[x].lo = lo /\ Q[x].hi = lo + size - 1
  OBVIOUS
<1>2. \A j \in 1 .. Len(list) : ~Hits(lo, list[j]) /\ ~Hits(lo + size - 1, list[j])
  BY DEF Acceptable
<1>3. \A y \in H : \E j \in 1 .. Len(list) : list[j] = P[y]
  BY DEF Listed, Records
<1>4. \A y \in H : /\ ~Hits(Q[x].lo, P[y]) /\ ~Hits(Q[x].hi, P[y])
                   /\ P[y].lo \in Nat /\ P[y].hi \in Nat
  BY <1>1, <1>2, <1>3 DEF Extents
<1>5. \A y \in H : Apart(Q[x], P[y]) /\ Apart(P[y], Q[x])
  BY <1>1, <1>4 DEF Apart, Hits
<1>6. \A j \in 1 .. Len(list) : \E y \in H : list[j] = P[y]
  BY DEF Listed, Records
<1>7. \A j \in 1 .. Len(list) : list[j].lo # Q[x].lo
  BY <1>4, <1>6 DEF Hits, Extents
<1>8. \A y \in H \union {x} : /\ Q[y].lo % ALIGNMENT = 0
                              /\ heap_lo <= Q[y].lo /\ Q[y].hi < e
  <2>1. lo % ALIGNMENT = 0 /\ heap_lo <= lo /\ lo + size - 1 < e
    BY DEF Acceptable
  <2>2. \A y \in H : /\ P[y].lo % ALIGNMENT = 0
                     /\ heap_lo <= P[y].lo /\ P[y].hi < e
    BY <1>4 DEF Accepted
  <2> QED
    BY <1>1, <2>1, <2>2
<1>9. ASSUME NEW y \in H \union {x}, NEW z \in H \union {x}, y # z
      PROVE  Apart(Q[y], Q[z])
  BY <1>5, <1>9 DEF Accepted
<1> QED
  BY <1>7, <1>8, <1>9 DEF Accepted

LEMMA AcceptedLess ==
  ASSUME NEW H, NEW P, NEW Q, NEW G \in SUBSET H, NEW d \in Nat, NEW e \in Nat,
         d <= e, Extents(H, P), Accepted(H, P, d), \A y \in G : Q[y] = P[y]
  PROVE  Accepted(G, Q, e)
<1>1. \A y \in G : /\ Q[y].lo % ALIGNMENT = 0
                   /\ heap_lo <= Q[y].lo /\ Q[y].hi < e
  BY DEF Accepted, Extents
<1>2. \A y, z \in G : y = z \/ Apart(Q[y], Q[z])
  BY DEF Accepted
<1> QED
  BY <1>1, <1>2 DEF Accepted

LEMMA ListedSame ==
  ASSUME NEW list, NEW H, NEW P, NEW Q, Listed(list, H, P), \A y \in H : Q[y] = P[y]
  PROVE  Listed(list, H, Q)
<1>1. {P[y] : y \in H} = {Q[y] : y \in H}
  OBVIOUS
<1> QED
  BY <1>1 DEF Listed

LEMMA ListedNone ==
  ASSUME NEW P, NEW e
  PROVE  Listed(<<>>, {}, P) /\ Accepted({}, P, e)
<1>1. Records(<<>>) = {} /\ DistinctStarts(<<>>) /\ Len(<<>>) = 0
  BY DEF Records, DistinctStarts
<1> QED
  BY <1>1, Fresh, FS_EmptySet DEF Listed, Accepted

-----------------------------------------------------------------------------
(* eval_mm_valid. *)

Extent == [x \in Ids |-> Payload(x)]
Judging == phase = "valid" /\ malloc = "mm"

RangesInv ==
  Judging => Listed(ranges, held, Extent) /\ Accepted(held, Extent, brk)

(* The list as add_range gets to see it. *)
ListBefore == IF op.type = "r" THEN remove_range(ranges, blocks[index]) ELSE ranges

LEMMA JudgingSteps ==
  ASSUME BaseInv, [Next]_vars, Judging'
  PROVE  \/ StartValid /\ malloc = "mm"
         \/ \E r \in Answers : /\ Judging /\ GoesThrough(r)
                               /\ ValidAnswer(r) \/ ValidFree(r)
         \/ UNCHANGED vars
<1> USE DEF Judging
<1>1. CASE Option
  BY <1>1 DEF Option
<1>2. CASE OptionsEnd
  BY <1>2 DEF OptionsEnd
<1>3. CASE ReadTrace
  BY <1>3 DEF ReadTrace
<1>4. CASE StartValid \/ StartUtil \/ StartSpeed \/ SpeedAgain
  BY <1>4 DEF StartValid, StartUtil, StartSpeed, SpeedAgain, Pass, mainVars
<1>5. ~NextTrace
  BY NextTraceKinds DEF BaseInv
<1>6. CASE StartFails \/ TraceDone
  BY <1>5, <1>6 DEF StartFails, Reject, TraceDone
<1>7. CASE InitExits
  BY <1>7 DEF InitExits
<1>8. ASSUME phase \in {"valid", "util", "speed"}, i <= Len(ops),
             NEW r \in Answers, Answered(r)
      PROVE  Judging /\ GoesThrough(r) /\ (ValidAnswer(r) \/ ValidFree(r))
  <2>1. ~Exit
    BY DEF Exit
  <2>2. CASE ValidAnswer(r)
    BY <1>5, <1>8, <2>2 DEF ValidAnswer, Reject, GoesThrough, Passing, Failed
  <2>3. CASE ValidFree(r)
    BY <1>8, <2>3 DEF ValidFree, GoesThrough, Passing, Failed
  <2>4. CASE LibcAnswer(r)
    BY <1>8, <2>1, <2>4 DEF LibcAnswer, Advance, mainVars
  <2>5. CASE UtilStep(r) \/ SpeedStep(r)
    BY <1>8, <2>1, <2>5 DEF UtilStep, SpeedStep, Advance
  <2> QED
    BY <1>8, <2>2, <2>3, <2>4, <2>5 DEF Answered
<1> QED
  BY <1>1, <1>2, <1>3, <1>4, <1>6, <1>7, <1>8 DEF Next

LEMMA ExtentsHeld ==
  ASSUME BaseInv, Judging
  PROVE  /\ Extents(held, Extent)
         /\ \A x \in held : Extent[x].lo = blocks[x]
         /\ held \subseteq Ids
<1>1. /\ held \subseteq Ids
      /\ \A x \in held : SizeAt(ops, i, x) \in Nat \ {0}
      /\ \A x \in Ids : blocks[x] \in Nat
  BY HeldFacts DEF Judging
<1>2. \A x \in held : /\ Extent[x].lo = blocks[x]
                      /\ Extent[x].hi = blocks[x] + SizeAt(ops, i, x) - 1
  BY <1>1 DEF Extent, Payload
<1> QED
  BY <1>1, <1>2 DEF Extents

LEMMA HeapEndsNat ==
  ASSUME BaseInv
  PROVE  brk \in Nat /\ heap_lo \in Nat /\ \A r \in Answers : r.brk \in Nat /\ brk <= r.brk
<1>1. brk \in Nat /\ heap_lo \in Nat /\ HeapEnds \subseteq Nat
  BY TracesAssumption DEF BaseInv, Kinds
<1>2. \A r \in Answers : r.brk \in HeapEnds /\ r.brk >= brk
  BY AnswerKinds
<1> QED
  BY <1>1, <1>2

LEMMA BeforeAdding ==
  ASSUME BaseInv, RangesInv, Judging, i <= Len(ops), op.type # "f"
  PROVE  /\ Listed(ListBefore, held \ {index}, Extent)
         /\ Extents(held \ {index}, Extent)
         /\ Accepted(held \ {index}, Extent, brk)
<1>1. /\ Extents(held, Extent)
      /\ \A x \in held : Extent[x].lo = blocks[x]
      /\ held \subseteq Ids
  BY ExtentsHeld
<1>2. Listed(ranges, held, Extent) /\ Accepted(held, Extent, brk)
  BY DEF RangesInv
<1>3. op.type = "r" => index \in held
  BY RequestFacts DEF Judging, Passing
<1>4. op.type # "r" => held \ {index} = held
  BY RequestFacts DEF Judging, Passing
<1>5. Extents(held \ {index}, Extent)
  BY <1>1 DEF Extents
<1>6. Accepted(held \ {index}, Extent, brk)
  BY <1>2 DEF Accepted
<1>7. CASE op.type = "r"
  <2>1. Listed(remove_range(ranges, Extent[index].lo), held \ {index}, Extent)
    BY <1>1, <1>2, <1>3, <1>7, ListedRemove
  <2> QED
    BY <1>1, <1>3, <1>5, <1>6, <1>7, <2>1 DEF ListBefore
<1>8. CASE op.type # "r"
  BY <1>2, <1>4, <1>5, <1>6, <1>8 DEF ListBefore
<1> QED
  BY <1>7, <1>8

(* The extents a request leaves, and the one it makes. *)
LEMMA ExtentAfter ==
  ASSUME BaseInv, NEW r \in Answers, GoesThrough(r)
  PROVE  /\ \A x \in Ids \ {index} : Extent'[x] = Extent[x]
         /\ op.type # "f" =>
              Extent'[index] = [lo |-> r.p, hi |-> r.p + size - 1]
<1>1. /\ SizeAt(ops', i', index) = size
      /\ \A x \in Ids : x # index => SizeAt(ops', i', x) = SizeAt(ops, i, x)
      /\ index \in Ids
  BY HeldAfter
<1>2. /\ blocks' = IF op.type = "f" THEN blocks ELSE [blocks EXCEPT ![index] = r.p]
      /\ DOMAIN blocks = Ids
  BY DEF GoesThrough, Advance, NewBlocks, BaseInv, Kinds
<1>3. /\ \A x \in Ids \ {index} : blocks'[x] = blocks[x]
      /\ op.type # "f" => blocks'[index] = r.p
  BY <1>1, <1>2
<1>4. \A x \in Ids : Extent'[x] = [lo |-> blocks'[x],
                                   hi |-> blocks'[x] + SizeAt(ops', i', x) - 1]
  BY DEF Extent, Payload
<1>5. \A x \in Ids : Extent[x] = [lo |-> blocks[x],
                                  hi |-> blocks[x] + SizeAt(ops, i, x) - 1]
  BY DEF Extent, Payload
<1> QED
  BY <1>1, <1>3, <1>4, <1>5

LEMMA RangesStep ==
  BaseInv /\ RangesInv /\ [Next]_vars => RangesInv'
<1> SUFFICES ASSUME BaseInv, RangesInv, [Next]_vars, Judging'
             PROVE  Listed(ranges', held', Extent') /\ Accepted(held', Extent', brk')
  BY DEF RangesInv
<1>1. CASE StartValid /\ malloc = "mm"
  <2>1. i' = 1 /\ ranges' = <<>>
    BY <1>1 DEF StartValid, Pass
  <2>2. held' = {}
    BY <2>1, HeldFirst DEF held
  <2> QED
    BY <2>1, <2>2, ListedNone
<1>2. ASSUME NEW r \in Answers, Judging, GoesThrough(r), ValidAnswer(r)
      PROVE  Listed(ranges', held', Extent') /\ Accepted(held', Extent', brk')
  <2> DEFINE H == held \ {index}
             rec == [lo |-> r.p, hi |-> r.p + size - 1]
  <2>1. i <= Len(ops) /\ op.type # "f" /\ r.p # NULL /\ brk' = r.brk
    BY <1>2 DEF GoesThrough, ValidAnswer, Failed, Takes
  <2>2. Acceptable(ListBefore, r.p, r.brk) /\ ranges' = <<rec>> \o ListBefore
    <3>1. ~Reject
      BY <1>2, NextTraceKinds DEF GoesThrough, Advance, Judging, BaseInv, Reject
    <3> QED
      BY <1>2, <2>1, <3>1 DEF ValidAnswer, ListBefore, Record
  <2>3. /\ Listed(ListBefore, H, Extent) /\ Extents(H, Extent)
        /\ Accepted(H, Extent, brk)
    BY <1>2, <2>1, BeforeAdding
  <2>4. held' = H \union {index} /\ H \subseteq Ids /\ index \in Ids /\ index \notin H
    BY <1>2, <2>1, HeldAfter
  <2>5. Extent'[index] = rec /\ \A y \in H : Extent'[y] = Extent[y]
    BY <1>2, <2>1, <2>4, ExtentAfter
  <2>6. size \in Nat /\ size > 0
    BY <1>2, <2>1, RequestFacts DEF Judging, Passing
  <2>7. r.p \in Addresses /\ r.p \in Nat
    BY <2>1, AnswerKinds, TracesAssumption
  <2>8. brk \in Nat /\ r.brk \in Nat /\ brk <= r.brk /\ heap_lo \in Nat
    BY HeapEndsNat
  <2> HIDE DEF H
  <2>9. /\ Accepted(H \union {index}, Extent', r.brk)
        /\ \A j \in 1 .. Len(ListBefore) : ListBefore[j].lo # Extent'[index].lo
    <3>1. Placed(ListBefore, Extent', index, r.p, r.brk)
      BY <2>2, <2>5, <2>6, <2>8 DEF Placed
    <3>2. Agree(H, Extent, Extent')
      BY <2>5 DEF Agree
    <3> QED
      BY <2>3, <2>4, <2>7, <2>8, <3>1, <3>2, AcceptedAdd
  <2>10. Extent'[index] \in RangeRecord
    BY <2>5, <2>6, <2>7 DEF RangeRecord
  <2>11. Listed(<<Extent'[index]>> \o ListBefore, H \union {index}, Extent')
    BY <2>3, <2>4, <2>5, <2>9, <2>10, ListedAdd
  <2> QED
    BY <2>1, <2>2, <2>4, <2>5, <2>9, <2>11
<1>3. ASSUME NEW r \in Answers, Judging, GoesThrough(r), ValidFree(r)
      PROVE  Listed(ranges', held', Extent') /\ Accepted(held', Extent', brk')
  <2>1. /\ i <= Len(ops) /\ op.type = "f" /\ brk' = r.brk
        /\ ranges' = remove_range(ranges, blocks[index])
    BY <1>3 DEF GoesThrough, ValidFree, Takes
  <2>2. held' = held \ {index} /\ held \subseteq Ids /\ index \in Ids
    BY <1>3, <2>1, HeldAfter
  <2>3. index \in held
    BY <1>3, <2>1, RequestFacts DEF Judging, Passing
  <2>4. \A y \in held \ {index} : Extent'[y] = Extent[y]
    BY <1>3, <2>2, ExtentAfter
  <2>5. Extents(held, Extent) /\ Extent[index].lo = blocks[index]
    BY <1>3, <2>3, ExtentsHeld
  <2>6. Listed(ranges, held, Extent) /\ Accepted(held, Extent, brk)
    BY <1>3 DEF RangesInv
  <2>7. Listed(ranges', held \ {index}, Extent)
    <3>1. Listed(remove_range(ranges, Extent[index].lo), held \ {index}, Extent)
      BY <2>3, <2>5, <2>6, ListedRemove
    <3> QED
      BY <2>1, <2>5, <3>1
  <2>8. Listed(ranges', held \ {index}, Extent')
    BY <2>4, <2>7, ListedSame
  <2>9. brk \in Nat /\ r.brk \in Nat /\ brk <= r.brk
    BY HeapEndsNat
  <2>10. Accepted(held \ {index}, Extent', r.brk)
    BY <2>4, <2>5, <2>6, <2>9, AcceptedLess
  <2> QED
    BY <2>1, <2>2, <2>8, <2>10
<1>4. CASE UNCHANGED vars
  <2>1. UNCHANGED <<ranges, held, Extent, brk, phase, malloc>>
    BY <1>4 DEF vars, mainVars, bookVars, held, Extent, Payload, ops, path
  <2> QED
    BY <2>1 DEF RangesInv, Judging
<1> QED
  BY <1>1, <1>2, <1>3, <1>4, JudgingSteps

LEMMA RangesInit ==
  Init => RangesInv
BY DEF Init, RangesInv, Judging

LEMMA RangesMean ==
  ASSUME BaseInv, RangesInv
  PROVE  RangesAreHeldBlocks /\ AcceptedPayloads
<1> SUFFICES ASSUME Judging
             PROVE  RangesAreHeldBlocks /\ AcceptedPayloads
  BY DEF RangesAreHeldBlocks, AcceptedPayloads, Judging
<1>1. Listed(ranges, held, Extent) /\ Accepted(held, Extent, brk)
  BY DEF RangesInv
<1>2. held \subseteq Ids
  BY ExtentsHeld
<1>3. \A x \in held : Extent[x] = Payload(x)
  BY <1>2 DEF Extent
<1>4. RangesAreHeldBlocks
  <2>1. {Extent[x] : x \in held} = {Payload(x) : x \in held}
    BY <1>3
  <2> QED
    BY <1>1, <2>1 DEF Listed, Records, RangesAreHeldBlocks
<1>5. AcceptedPayloads
  <2>1. \A x \in held : /\ Payload(x).lo % ALIGNMENT = 0
                        /\ heap_lo <= Payload(x).lo /\ Payload(x).hi < brk
    BY <1>1, <1>3 DEF Accepted
  <2>2. \A x, y \in held : x = y \/ Apart(Payload(x), Payload(y))
    BY <1>1, <1>3 DEF Accepted
  <2> QED
    BY <2>1, <2>2 DEF Apart, AcceptedPayloads
<1> QED
  BY <1>4, <1>5

-----------------------------------------------------------------------------
(* The verdict. *)

(* A grant that keeps the contract is acceptable. *)
LEMMA GrantsFit ==
  ASSUME BaseInv, RangesInv, Judging, i <= Len(ops), op.type # "f",
         NEW r \in Answers, Grants(r)
  PROVE  r.p # NULL /\ Acceptable(ListBefore, r.p, r.brk)
<1>1. r.p \in Addresses /\ r.p \in Nat
  BY AnswerKinds, TracesAssumption DEF Grants
<1>2. size \in Nat /\ size > 0
  BY RequestFacts DEF Judging, Passing
<1>3. r.brk \in Nat /\ heap_lo \in Nat
  BY HeapEndsNat
<1>4. r.p % ALIGNMENT = 0 /\ heap_lo <= r.p /\ r.p < r.brk /\ r.p + size - 1 < r.brk
  BY <1>1, <1>2, <1>3 DEF Grants
<1>5. /\ held \subseteq Ids
      /\ \A x \in held : SizeAt(ops, i, x) \in Nat \ {0}
      /\ \A x \in Ids : blocks[x] \in Nat
  BY HeldFacts DEF Judging
<1>6. ASSUME NEW j \in 1 .. Len(ListBefore)
      PROVE  ~Hits(r.p, ListBefore[j]) /\ ~Hits(r.p + size - 1, ListBefore[j])
  <2>1. Listed(ListBefore, held \ {index}, Extent)
    BY BeforeAdding
  <2>2. PICK x \in held \ {index} : ListBefore[j] = Extent[x]
    BY <2>1 DEF Listed, Records
  <2>3. PICK n \in Nat \ {0} : n = SizeAt(ops, i, x)
    BY <1>5
  <2>4. Extent[x].lo = blocks[x] /\ Extent[x].hi = blocks[x] + n - 1
    BY <1>5, <2>3 DEF Extent, Payload
  <2>5. Disjoint(r.p, size, blocks[x], n)
    BY <2>2, <2>3 DEF Grants
  <2>6. blocks[x] \in Nat
    BY <1>5
  <2> QED
    BY <1>1, <1>2, <2>2, <2>4, <2>5, <2>6 DEF Disjoint, Hits
<1> QED
  BY <1>4, <1>6 DEF Acceptable, Grants

LEMMA VerdictStep ==
  BaseInv /\ RangesInv /\ [Next]_vars =>
    [errors' # errors \/ phase' = "exit" =>
       wronged' \/ (Resizes /\ index % 256 > 127)]_vars
<1> SUFFICES ASSUME BaseInv, RangesInv, Next, errors' # errors \/ phase' = "exit"
             PROVE  wronged' \/ (Resizes /\ index % 256 > 127)
  OBVIOUS
<1>1. NextTrace => phase' # "exit"
  BY NextTraceKinds DEF BaseInv
<1>2. CASE Option
  BY <1>2 DEF Option, verdictVars
<1>3. CASE OptionsEnd
  BY <1>3 DEF OptionsEnd
<1>4. CASE ReadTrace
  BY <1>4 DEF ReadTrace, verdictVars
<1>5. CASE StartValid \/ StartUtil \/ StartSpeed \/ SpeedAgain
  BY <1>5 DEF StartValid, StartUtil, StartSpeed, SpeedAgain, Pass
<1>6. CASE StartFails
  BY <1>6 DEF StartFails
<1>7. CASE TraceDone
  BY <1>1, <1>7 DEF TraceDone
<1>8. CASE InitExits
  BY <1>8 DEF InitExits
<1>9. ASSUME phase \in {"valid", "util", "speed"}, i <= Len(ops),
             NEW r \in Answers, Answered(r)
      PROVE  wronged' \/ (Resizes /\ index % 256 > 127)
  <2>1. Wrongs(r) => wronged'
    BY <1>9 DEF Answered, ValidAnswer, ValidFree, LibcAnswer, UtilStep, SpeedStep,
               Takes
  <2>2. ~Advance(r)
    BY <1>9 DEF Advance, verdictVars
  <2>3. Failed(r) => Wrongs(r)
    BY DEF Failed, Wrongs, Grants
  <2>4. CASE ValidAnswer(r)
    <3>1. Judging /\ i <= Len(ops) /\ op.type # "f"
      BY <1>9, <2>4 DEF ValidAnswer, Judging
    <3>2. ~(r.p # NULL /\ Acceptable(ListBefore, r.p, r.brk)
            /\ (op.type = "r" => Preserved(r)))
      BY <2>2, <2>4 DEF ValidAnswer, ListBefore
    <3>3. CASE op.type = "r" /\ index % 256 > 127
      BY <1>9, <2>4, <3>3 DEF Resizes, ValidAnswer
    <3>4. CASE ~(op.type = "r" /\ index % 256 > 127)
      <4>1. op.type = "r" /\ r.kept => Preserved(r)
        BY <3>4 DEF Preserved, SignedChar
      <4>2. ~Grants(r)
        BY <1>9, <3>1, <3>2, <4>1, GrantsFit DEF Grants
      <4> QED
        BY <2>1, <3>1, <4>2 DEF Wrongs, Judging
    <3> QED
      BY <3>3, <3>4
  <2>5. CASE ValidFree(r)
    BY <2>2, <2>5 DEF ValidFree
  <2>6. CASE LibcAnswer(r)
    BY <2>1, <2>2, <2>3, <2>6 DEF LibcAnswer
  <2>7. CASE UtilStep(r)
    BY <2>1, <2>2, <2>3, <2>7 DEF UtilStep
  <2>8. CASE SpeedStep(r)
    BY <2>1, <2>2, <2>3, <2>8 DEF SpeedStep
  <2> QED
    BY <1>9, <2>4, <2>5, <2>6, <2>7, <2>8 DEF Answered
<1> QED
  BY <1>2, <1>3, <1>4, <1>5, <1>6, <1>7, <1>8, <1>9 DEF Next

-----------------------------------------------------------------------------
(* The report. *)

Running == phase \in {"read", "start", "valid", "util", "speed"}
Failures(v, n) == Cardinality({t \in 1 .. n : ~v[t]})

OptionsInv ==
  /\ Len(tracefiles) \in Nat /\ DOMAIN tracefiles = 1 .. Len(tracefiles)
  /\ phase = "options" =>
       /\ tracefiles = <<>> \/ tracedir = Here
       /\ tracenum = 1 /\ errors = 0
  /\ phase \notin {"options", "quit"} =>
       /\ Len(tracefiles) > 0
       /\ tracefiles = DEFAULT_TRACEFILES \/ tracedir = Here

CountInv ==
  Running =>
    /\ tracenum \in 1 .. Len(tracefiles)
    /\ DOMAIN valid = 1 .. Len(tracefiles)
    /\ malloc = "libc" => errors = 0 /\ \A t \in DOMAIN valid : ~valid[t]
    /\ malloc = "mm" =>
         /\ errors = Failures(valid, tracenum - 1)
         /\ \A t \in DOMAIN valid : t > tracenum => ~valid[t]
         /\ valid[tracenum] <=> phase \in {"util", "speed"}

PrintedInv ==
  /\ phase # "done" => ~report.printed
  /\ report.printed =>
       /\ report.numcorrect + report.errors = Len(tracefiles)
       /\ report.perfindex <=> \A t \in DOMAIN tracefiles : valid[t]

ReportInv == OptionsInv /\ CountInv /\ PrintedInv

LEMMA NoFailures ==
  ASSUME NEW v
  PROVE  Failures(v, 0) = 0
<1>1. {t \in 1 .. 0 : ~v[t]} = {}
  OBVIOUS
<1> QED
  BY <1>1, FS_EmptySet DEF Failures

LEMMA FailuresNext ==
  ASSUME NEW n \in Nat \ {0}, NEW v
  PROVE  /\ v[n] => Failures(v, n) = Failures(v, n - 1)
         /\ ~v[n] => Failures(v, n) = Failures(v, n - 1) + 1
<1> DEFINE S == {t \in 1 .. n - 1 : ~v[t]}
<1>1. IsFiniteSet(1 .. n - 1)
  BY FS_Interval
<1>2. IsFiniteSet(S)
  BY <1>1, FS_Subset
<1>3. n \notin S
  OBVIOUS
<1>4. v[n] => {t \in 1 .. n : ~v[t]} = S
  OBVIOUS
<1>5. ~v[n] => {t \in 1 .. n : ~v[t]} = S \union {n}
  OBVIOUS
<1> HIDE DEF S
<1>6. Cardinality(S \union {n}) = Cardinality(S) + 1
  BY <1>2, <1>3, FS_AddElement
<1> QED
  BY <1>4, <1>5, <1>6 DEF Failures, S

LEMMA FailuresTotal ==
  ASSUME NEW n \in Nat, NEW v
  PROVE  /\ Failures(v, n) \in Nat
         /\ Cardinality({t \in 1 .. n : v[t]}) + Failures(v, n) = n
         /\ Failures(v, n) = 0 <=> \A t \in 1 .. n : v[t]
<1> DEFINE S == {t \in 1 .. n : ~v[t]}
           T == {t \in 1 .. n : v[t]}
<1>1. IsFiniteSet(1 .. n) /\ Cardinality(1 .. n) = n
  BY FS_Interval
<1>2. IsFiniteSet(S) /\ IsFiniteSet(T)
  BY <1>1, FS_Subset
<1>3. S \cap T = {} /\ S \union T = 1 .. n
  OBVIOUS
<1>4. S = {} <=> \A t \in 1 .. n : v[t]
  OBVIOUS
<1> HIDE DEF S, T
<1>5. Cardinality(S) \in Nat /\ Cardinality(T) \in Nat
  BY <1>2, FS_CardinalityType
<1>6. Cardinality(S \union T) = Cardinality(S) + Cardinality(T) - Cardinality(S \cap T)
  BY <1>2, FS_Union
<1>7. Cardinality({}) = 0 /\ (Cardinality(S) = 0 <=> S = {})
  BY <1>2, FS_EmptySet
<1>8. Cardinality(T) + Cardinality(S) = n
  <2>1. Cardinality(S \union T) = n /\ Cardinality(S \cap T) = 0
    BY <1>1, <1>3, <1>7, Zenon
  <2> QED
    BY <1>5, <1>6, <2>1
<1>9. Failures(v, n) = Cardinality(S)
  BY DEF Failures, S
<1>10. Cardinality({t \in 1 .. n : v[t]}) = Cardinality(T)
  BY DEF T
<1> QED
  BY <1>4, <1>5, <1>7, <1>8, <1>9, <1>10

LEMMA OptionsStep ==
  BaseInv /\ OptionsInv /\ [Next]_vars => OptionsInv'
<1> SUFFICES ASSUME BaseInv, OptionsInv, [Next]_vars
             PROVE  OptionsInv'
  OBVIOUS
<1>1. CASE Option
  <2>1. /\ errors' = errors /\ tracenum' = tracenum /\ phase = "options"
        /\ phase' \in {"options", "quit"}
    BY <1>1 DEF Option, verdictVars
  <2>2. /\ tracefiles' = tracefiles \/ \E x : tracefiles' = <<x>>
        /\ tracefiles' = <<>> \/ tracedir' = Here
    BY <1>1 DEF Option, TraceDir, OptionsInv
  <2>3. Len(tracefiles') \in Nat /\ DOMAIN tracefiles' = 1 .. Len(tracefiles')
    BY <2>2 DEF OptionsInv
  <2> QED
    BY <2>1, <2>2, <2>3 DEF OptionsInv
<1>2. CASE OptionsEnd
  <2>1. /\ Len(DEFAULT_TRACEFILES) \in Nat /\ Len(DEFAULT_TRACEFILES) > 0
        /\ DOMAIN DEFAULT_TRACEFILES = 1 .. Len(DEFAULT_TRACEFILES)
    BY TracesAssumption
  <2>2. CASE tracefiles = <<>>
    BY <1>2, <2>1, <2>2 DEF OptionsEnd, OptionsInv
  <2>3. CASE tracefiles # <<>>
    <3>1. Len(tracefiles) > 0
      BY <2>3 DEF OptionsInv
    <3> QED
      BY <1>2, <2>3, <3>1 DEF OptionsEnd, OptionsInv
  <2> QED
    BY <2>2, <2>3
<1>3. ASSUME UNCHANGED <<tracefiles, tracedir>>, phase \notin {"options", "quit"},
             phase' # "options"
      PROVE  OptionsInv'
  BY <1>3 DEF OptionsInv
<1>4. NextTrace => phase' # "options" /\ UNCHANGED <<tracefiles, tracedir>>
  BY NextTraceKinds DEF BaseInv, NextTrace
<1>5. CASE ReadTrace
  BY <1>3, <1>5 DEF ReadTrace, mainVars
<1>6. CASE StartValid \/ StartUtil \/ StartSpeed \/ SpeedAgain
  BY <1>3, <1>6 DEF StartValid, StartUtil, StartSpeed, SpeedAgain, Over, Pass,
                    mainVars
<1>7. CASE StartFails
  BY <1>3, <1>4, <1>7 DEF StartFails, Reject
<1>8. CASE TraceDone
  BY <1>3, <1>4, <1>8 DEF TraceDone, Over
<1>9. CASE InitExits
  BY <1>3, <1>9 DEF InitExits, Over, mainVars
<1>10. ASSUME phase \in {"valid", "util", "speed"}, NEW r \in Answers, Answered(r)
       PROVE  OptionsInv'
  <2>1. Advance(r) \/ Exit => UNCHANGED <<tracefiles, tracedir>> /\ phase' # "options"
    BY <1>10 DEF Advance, Exit, mainVars
  <2>2. Advance(r) \/ Exit \/ NextTrace
    BY <1>10 DEF Answered, ValidAnswer, ValidFree, LibcAnswer, UtilStep, SpeedStep,
                 Reject
  <2> QED
    BY <1>3, <1>4, <1>10, <2>1, <2>2
<1>11. CASE UNCHANGED vars
  BY <1>11 DEF vars, mainVars, verdictVars, OptionsInv
<1> QED
  BY <1>1, <1>2, <1>5, <1>6, <1>7, <1>8, <1>9, <1>10, <1>11 DEF Next

(* What counts once the trace at hand has been judged: behind eval_mm_valid *)
(* if it failed, behind the timed passes if it did not.                     *)
Judged ==
  /\ valid' = valid
  /\ malloc = "mm" => /\ valid[tracenum] => errors' = errors
                      /\ ~valid[tracenum] => errors' = errors + 1
  /\ malloc = "libc" => errors' = errors

LEMMA NextTraceCounts ==
  ASSUME BaseInv, OptionsInv, CountInv, Running, Judged, NextTrace
  PROVE  /\ CountInv'
         /\ phase' = "done" =>
              /\ errors' = Failures(valid', Len(tracefiles))
              /\ report' = Report(valid', errors')
         /\ phase' # "done" => report' = report
<1>1. /\ tracenum \in 1 .. Len(tracefiles) /\ Len(tracefiles) \in Nat
      /\ DOMAIN valid = 1 .. Len(tracefiles)
      /\ tracefiles' = tracefiles
      /\ malloc \in {"libc", "mm"}
      /\ errors \in Nat
  BY DEF OptionsInv, CountInv, NextTrace, BaseInv, Kinds
<1>2. malloc = "libc" => errors = 0 /\ \A t \in DOMAIN valid : ~valid[t]
  BY DEF CountInv
<1>3. malloc = "mm" => /\ errors = Failures(valid, tracenum - 1)
                       /\ \A t \in DOMAIN valid : t > tracenum => ~valid[t]
  BY DEF CountInv
<1>4. malloc = "mm" => errors' = Failures(valid, tracenum)
  <2>1. tracenum \in Nat \ {0}
    BY <1>1
  <2> QED
    BY <1>3, <2>1, FailuresNext DEF Judged
<1>5. CASE tracenum < Len(tracefiles)
  <2>1. /\ tracenum' = tracenum + 1 /\ phase' = "read"
        /\ malloc' = malloc /\ report' = report /\ valid' = valid
    BY <1>5 DEF NextTrace, Judged
  <2>2. tracenum + 1 \in 1 .. Len(tracefiles) /\ (tracenum + 1) - 1 = tracenum
    BY <1>1, <1>5
  <2>3. malloc = "mm" => /\ errors' = Failures(valid', tracenum' - 1)
                         /\ \A t \in DOMAIN valid' : t > tracenum' => ~valid'[t]
                         /\ ~valid'[tracenum']
    BY <1>1, <1>3, <1>4, <2>1, <2>2
  <2>4. malloc = "libc" => errors' = 0 /\ \A t \in DOMAIN valid' : ~valid'[t]
    BY <1>2, <2>1 DEF Judged
  <2>5. CountInv'
    BY <1>1, <2>1, <2>2, <2>3, <2>4 DEF CountInv, Running
  <2> QED
    BY <2>1, <2>5
<1>6. CASE tracenum = Len(tracefiles) /\ malloc = "libc"
  <2>1. /\ tracenum' = 1 /\ phase' = "read" /\ malloc' = "mm" /\ report' = report
        /\ valid' = valid /\ errors' = 0
    BY <1>1, <1>2, <1>6 DEF NextTrace, Judged
  <2>2. Failures(valid', tracenum' - 1) = 0
    BY <2>1, NoFailures
  <2>3. \A t \in DOMAIN valid' : ~valid'[t]
    BY <1>2, <1>6, <2>1
  <2>4. 1 \in 1 .. Len(tracefiles)
    BY <1>1
  <2>5. CountInv'
    BY <1>1, <2>1, <2>2, <2>3, <2>4 DEF CountInv, Running
  <2> QED
    BY <2>1, <2>5
<1>7. CASE tracenum = Len(tracefiles) /\ malloc = "mm"
  <2>1. phase' = "done" /\ report' = Report(valid', errors') /\ valid' = valid
    BY <1>1, <1>7 DEF NextTrace, Judged
  <2> QED
    BY <1>4, <1>7, <2>1 DEF CountInv, Running
<1> QED
  BY <1>1, <1>5, <1>6, <1>7

LEMMA CountStep ==
  BaseInv /\ OptionsInv /\ CountInv /\ [Next]_vars => CountInv'
<1> SUFFICES ASSUME BaseInv, OptionsInv, CountInv, [Next]_vars
             PROVE  CountInv'
  OBVIOUS
<1>1. CASE Option
  BY <1>1 DEF Option, CountInv, Running
<1>2. CASE OptionsEnd
  <2>1. /\ phase' = "read" /\ tracenum' = 1 /\ errors' = 0
        /\ valid' = [t \in DOMAIN tracefiles' |-> FALSE]
    BY <1>2 DEF OptionsEnd, OptionsInv
  <2>2. OptionsInv'
    BY OptionsStep
  <2>3. Len(tracefiles') \in Nat /\ Len(tracefiles') > 0
        /\ DOMAIN tracefiles' = 1 .. Len(tracefiles')
    BY <2>1, <2>2 DEF OptionsInv
  <2>4. Failures(valid', tracenum' - 1) = 0
    BY <2>1, NoFailures
  <2>5. \A t \in DOMAIN valid' : ~valid'[t]
    BY <2>1
  <2>6. 1 \in 1 .. Len(tracefiles') /\ DOMAIN valid' = 1 .. Len(tracefiles')
    BY <2>1, <2>3
  <2> QED
    BY <2>1, <2>4, <2>5, <2>6 DEF CountInv
<1>3. ASSUME UNCHANGED <<tracefiles, tracenum, malloc, valid, errors>>, Running,
             phase' \in {"util", "speed"} <=> phase \in {"util", "speed"}
      PROVE  CountInv'
  <2>1. Running' => CountInv'
    BY <1>3 DEF CountInv
  <2> QED
    BY <2>1 DEF CountInv
<1>4. CASE ReadTrace
  BY <1>3, <1>4 DEF ReadTrace, mainVars, verdictVars, Running
<1>5. CASE StartValid
  BY <1>3, <1>5 DEF StartValid, Pass, mainVars, Running
<1>6. CASE StartUtil
  <2>1. /\ UNCHANGED <<tracefiles, tracenum, malloc, errors>> /\ phase = "valid"
        /\ phase' = "util" /\ malloc = "mm"
        /\ valid' = [valid EXCEPT ![tracenum] = TRUE]
    BY <1>6 DEF StartUtil, Over, Pass, mainVars
  <2>2. /\ tracenum \in 1 .. Len(tracefiles) /\ DOMAIN valid = 1 .. Len(tracefiles)
        /\ errors = Failures(valid, tracenum - 1)
        /\ \A t \in DOMAIN valid : t > tracenum => ~valid[t]
    BY <2>1 DEF CountInv, Running
  <2>3. /\ DOMAIN valid' = 1 .. Len(tracefiles)
        /\ valid'[tracenum]
        /\ \A t \in DOMAIN valid : t # tracenum => valid'[t] = valid[t]
    BY <2>1, <2>2
  <2>4. {t \in 1 .. tracenum - 1 : ~valid'[t]} = {t \in 1 .. tracenum - 1 : ~valid[t]}
    BY <2>2, <2>3
  <2>5. Failures(valid', tracenum - 1) = Failures(valid, tracenum - 1)
    BY <2>4 DEF Failures
  <2>6. \A t \in DOMAIN valid' : t > tracenum => ~valid'[t]
    BY <2>2, <2>3
  <2> QED
    BY <2>1, <2>2, <2>3, <2>5, <2>6 DEF CountInv
<1>7. CASE StartSpeed
  <2>1. /\ UNCHANGED <<tracefiles, tracenum, malloc, valid, errors>>
        /\ phase = (IF malloc = "mm" THEN "util" ELSE "valid")
        /\ phase' = "speed"
    BY <1>7 DEF StartSpeed, Over, Pass, mainVars
  <2>2. CASE malloc = "mm"
    BY <1>3, <2>1, <2>2 DEF Running
  <2>3. CASE malloc # "mm"
    BY <2>1, <2>3 DEF CountInv, Running
  <2> QED
    BY <2>2, <2>3
<1>8. CASE SpeedAgain
  BY <1>3, <1>8 DEF SpeedAgain, Over, Pass, mainVars, Running
<1>9. CASE StartFails
  <2>1. Running /\ malloc = "mm" /\ valid' = valid /\ errors' = errors + 1
        /\ NextTrace /\ phase = "start"
    BY <1>9 DEF StartFails, Reject, Running
  <2>2. Judged
    BY <2>1 DEF Judged, CountInv
  <2> QED
    BY <2>1, <2>2, NextTraceCounts
<1>10. CASE TraceDone
  <2>1. Running /\ valid' = valid /\ errors' = errors /\ NextTrace /\ phase = "speed"
    BY <1>10 DEF TraceDone, Over, Running
  <2>2. Judged
    BY <2>1 DEF Judged, CountInv
  <2> QED
    BY <2>1, <2>2, NextTraceCounts
<1>11. CASE InitExits
  BY <1>11 DEF InitExits, CountInv, Running
<1>12. ASSUME phase \in {"valid", "util", "speed"}, NEW r \in Answers, Answered(r)
       PROVE  CountInv'
  <2>1. Advance(r) => CountInv'
    BY <1>3, <1>12 DEF Advance, mainVars, verdictVars, Running
  <2>2. Exit => CountInv'
    BY DEF Exit, CountInv, Running
  <2>3. CASE ValidAnswer(r) /\ Reject
    <3>1. Running /\ malloc = "mm" /\ valid' = valid /\ errors' = errors + 1
          /\ NextTrace /\ phase = "valid"
      BY <2>3 DEF ValidAnswer, Reject, Running
    <3>2. Judged
      BY <3>1 DEF Judged, CountInv
    <3> QED
      BY <3>1, <3>2, NextTraceCounts
  <2> QED
    BY <1>12, <2>1, <2>2, <2>3
    DEF Answered, ValidAnswer, ValidFree, LibcAnswer, UtilStep, SpeedStep
<1>13. CASE UNCHANGED vars
  BY <1>13 DEF vars, mainVars, verdictVars, CountInv, Running
<1> QED
  BY <1>1, <1>2, <1>4, <1>5, <1>6, <1>7, <1>8, <1>9, <1>10, <1>11, <1>12, <1>13
  DEF Next

LEMMA PrintedStep ==
  BaseInv /\ OptionsInv /\ CountInv /\ PrintedInv /\ [Next]_vars => PrintedInv'
<1> SUFFICES ASSUME BaseInv, OptionsInv, CountInv, PrintedInv, [Next]_vars
             PROVE  PrintedInv'
  OBVIOUS
<1>1. ASSUME phase # "done", report' = report, phase' # "done"
      PROVE  PrintedInv'
  BY <1>1 DEF PrintedInv
<1>2. ASSUME Running, Judged, NextTrace
      PROVE  PrintedInv'
  <2>1. CASE phase' # "done"
    BY <1>1, <1>2, <2>1, NextTraceCounts DEF Running
  <2>2. CASE phase' = "done"
    <3>1. /\ CountInv' /\ errors' = Failures(valid', Len(tracefiles))
          /\ report' = Report(valid', errors')
      BY <1>2, <2>2, NextTraceCounts
    <3>2. /\ DOMAIN valid' = 1 .. Len(tracefiles) /\ tracefiles' = tracefiles
          /\ Len(tracefiles) \in Nat /\ DOMAIN tracefiles = 1 .. Len(tracefiles)
      BY <1>2 DEF CountInv, Judged, NextTrace, OptionsInv
    <3>3. PICK n \in Nat : n = Len(tracefiles)
      BY <3>2
    <3>4. /\ Cardinality({t \in 1 .. n : valid'[t]}) + Failures(valid', n) = n
          /\ Failures(valid', n) = 0 <=> \A t \in 1 .. n : valid'[t]
          /\ Failures(valid', n) \in Nat
      BY FailuresTotal
    <3>5. /\ report'.printed
          /\ report'.numcorrect = Cardinality({t \in 1 .. n : valid'[t]})
          /\ report'.errors = Failures(valid', n)
          /\ report'.perfindex <=> Failures(valid', n) = 0
      BY <3>1, <3>2, <3>3 DEF Report
    <3> QED
      BY <2>2, <3>2, <3>3, <3>4, <3>5 DEF PrintedInv
  <2> QED
    BY <2>1, <2>2
<1>3. CASE Option
  BY <1>1, <1>3 DEF Option, verdictVars
<1>4. CASE OptionsEnd
  BY <1>1, <1>4 DEF OptionsEnd
<1>5. CASE ReadTrace
  BY <1>1, <1>5 DEF ReadTrace, verdictVars
<1>6. CASE StartValid \/ StartUtil \/ StartSpeed \/ SpeedAgain
  BY <1>1, <1>6 DEF StartValid, StartUtil, StartSpeed, SpeedAgain, Pass, Over
<1>7. CASE StartFails
  <2>1. Running /\ Judged /\ NextTrace
    BY <1>7 DEF StartFails, Reject, Running, Judged, CountInv
  <2> QED
    BY <1>2, <2>1
<1>8. CASE TraceDone
  <2>1. Running /\ Judged /\ NextTrace
    BY <1>8 DEF TraceDone, Over, Running, Judged, CountInv
  <2> QED
    BY <1>2, <2>1
<1>9. CASE InitExits
  BY <1>1, <1>9 DEF InitExits, Over
<1>10. ASSUME phase \in {"valid", "util", "speed"}, NEW r \in Answers, Answered(r)
       PROVE  PrintedInv'
  <2>1. CASE Advance(r)
    BY <1>1, <1>10, <2>1 DEF Advance, verdictVars
  <2>2. CASE Exit
    BY <1>1, <1>10, <2>2 DEF Exit
  <2>3. CASE ValidAnswer(r) /\ Reject
    <3>1. Running /\ Judged /\ NextTrace
      BY <2>3 DEF ValidAnswer, Reject, Running, Judged, CountInv
    <3> QED
      BY <1>2, <3>1
  <2> QED
    BY <1>10, <2>1, <2>2, <2>3
    DEF Answered, ValidAnswer, ValidFree, LibcAnswer, UtilStep, SpeedStep
<1>11. CASE UNCHANGED vars
  BY <1>11 DEF vars, mainVars, verdictVars, PrintedInv
<1> QED
  BY <1>3, <1>4, <1>5, <1>6, <1>7, <1>8, <1>9, <1>10, <1>11 DEF Next

LEMMA ReportInit ==
  Init => ReportInv
<1> SUFFICES ASSUME Init
             PROVE  ReportInv
  OBVIOUS
<1>1. OptionsInv
  BY DEF Init, OptionsInv
<1>2. CountInv
  BY DEF Init, CountInv, Running
<1>3. PrintedInv
  BY DEF Init, PrintedInv
<1> QED
  BY <1>1, <1>2, <1>3 DEF ReportInv

LEMMA ReportMeans ==
  ASSUME BaseInv, ReportInv
  PROVE  ReportAddsUp
<1>1. (malloc = "mm" /\ phase \in {"read", "start", "valid", "util", "speed"}) =>
        errors = Cardinality({t \in 1 .. tracenum - 1 : ~valid[t]})
  BY DEF ReportInv, CountInv, Running, Failures
<1>2. report.printed =>
        /\ report.numcorrect + report.errors = Len(tracefiles)
        /\ report.perfindex <=> \A t \in DOMAIN tracefiles : valid[t]
  BY DEF ReportInv, PrintedInv
<1>3. (phase \notin {"options", "quit"} /\ tracefiles # DEFAULT_TRACEFILES) =>
        tracedir = Here
  BY DEF ReportInv, OptionsInv
<1> QED
  BY <1>1, <1>2, <1>3 DEF ReportAddsUp

-----------------------------------------------------------------------------
(* Sums over finite sets.  f has a sum of g for each set in D, and all     *)
(* that a set of D loses its chosen members to is in D.                    *)

Chosen(s) == CHOOSE x \in s : TRUE

AddsUp(g, D, f) ==
  \A s \in D : /\ s = {} => f[s] = 0
               /\ s # {} => f[s] = g[Chosen(s)] + f[s \ {Chosen(s)}]
Adds(g, D, f) == f \in [D -> Nat] /\ AddsUp(g, D, f)

Addable(g, S) == IsFiniteSet(S) /\ \A x \in S : g[x] \in Nat
UpTo(S, k) == {s \in SUBSET S : Cardinality(s) <= k}

LEMMA ChosenIn ==
  ASSUME NEW s, s # {}
  PROVE  Chosen(s) \in s
BY DEF Chosen

LEMMA FiniteParts ==
  ASSUME NEW S, IsFiniteSet(S), NEW s \in SUBSET S
  PROVE  /\ IsFiniteSet(s) /\ Cardinality(s) \in Nat
         /\ Cardinality(s) <= Cardinality(S)
         /\ Cardinality(s) = 0 <=> s = {}
         /\ \A x \in s : /\ s \ {x} \in SUBSET S
                         /\ Cardinality(s \ {x}) = Cardinality(s) - 1
<1>1. IsFiniteSet(s) /\ Cardinality(s) <= Cardinality(S)
  BY FS_Subset
<1>2. Cardinality(s) \in Nat
  BY <1>1, FS_CardinalityType
<1>3. Cardinality(s) = 0 <=> s = {}
  BY <1>1, FS_EmptySet
<1>4. \A x \in s : Cardinality(s \ {x}) = Cardinality(s) - 1
  BY <1>1, FS_RemoveElement
<1> QED
  BY <1>1, <1>2, <1>3, <1>4

(* Such an f exists: else take the least size for which there is none. *)
LEMMA AddsExists ==
  ASSUME NEW S, NEW g, Addable(g, S)
  PROVE  \E f : Adds(g, SUBSET S, f)
<1>1. /\ IsFiniteSet(S) /\ \A x \in S : g[x] \in Nat
  BY DEF Addable
<1> DEFINE Bad == {k \in Nat : ~\E f : Adds(g, UpTo(S, k), f)}
<1>2. Bad = {}
  <2> SUFFICES ASSUME Bad # {}
               PROVE  FALSE
    OBVIOUS
  <2>1. PICK k \in Bad : \A j \in Bad : k <= j
    BY LeastNumber
  <2>2. k \in Nat /\ ~\E f : Adds(g, UpTo(S, k), f)
    OBVIOUS
  <2>3. k # 0
    <3> SUFFICES ASSUME k = 0
                 PROVE  FALSE
      OBVIOUS
    <3> DEFINE f == [s \in UpTo(S, 0) |-> 0]
    <3>1. \A s \in UpTo(S, 0) : s = {}
      <4> SUFFICES ASSUME NEW s \in UpTo(S, 0)
                   PROVE  s = {}
        OBVIOUS
      <4>1. s \in SUBSET S /\ Cardinality(s) <= 0
        BY DEF UpTo
      <4> QED
        BY <1>1, <4>1, FiniteParts
    <3>2. Adds(g, UpTo(S, 0), f)
      BY <3>1 DEF Adds, AddsUp
    <3> QED
      BY <2>2, <3>2
  <2>4. PICK e : Adds(g, UpTo(S, k - 1), e)
    BY <2>1, <2>2, <2>3
  <2> DEFINE f == [s \in UpTo(S, k) |->
                     IF s = {} THEN 0 ELSE g[Chosen(s)] + e[s \ {Chosen(s)}]]
  <2>5. ASSUME NEW s \in UpTo(S, k), s # {}
        PROVE  /\ s \ {Chosen(s)} \in UpTo(S, k - 1)
               /\ s \ {Chosen(s)} \in UpTo(S, k)
               /\ Chosen(s) \in S
    <3>1. s \in SUBSET S /\ Cardinality(s) <= k
      BY DEF UpTo
    <3>2. Chosen(s) \in s
      BY <2>5, ChosenIn
    <3>3. /\ s \ {Chosen(s)} \in SUBSET S
          /\ Cardinality(s \ {Chosen(s)}) = Cardinality(s) - 1
          /\ Cardinality(s) \in Nat
      BY <1>1, <3>1, <3>2, FiniteParts
    <3>4. Cardinality(s \ {Chosen(s)}) <= k - 1 /\ Cardinality(s \ {Chosen(s)}) <= k
      BY <2>2, <3>1, <3>3
    <3> QED
      BY <3>1, <3>2, <3>3, <3>4 DEF UpTo
  <2>6. \A s \in UpTo(S, k - 1) :
          /\ e[s] \in Nat
          /\ s = {} => e[s] = 0
          /\ s # {} => e[s] = g[Chosen(s)] + e[s \ {Chosen(s)}]
    BY <2>4 DEF Adds, AddsUp
  <2>7. \A s \in UpTo(S, k) : /\ s = {} => f[s] = 0
                              /\ s # {} => f[s] = g[Chosen(s)] + e[s \ {Chosen(s)}]
    OBVIOUS
  <2>8. f \in [UpTo(S, k) -> Nat]
    <3>1. ASSUME NEW s \in UpTo(S, k)
          PROVE  (IF s = {} THEN 0 ELSE g[Chosen(s)] + e[s \ {Chosen(s)}]) \in Nat
      <4>1. CASE s = {}
        BY <4>1
      <4>2. CASE s # {}
        <5>1. g[Chosen(s)] \in Nat /\ e[s \ {Chosen(s)}] \in Nat
          BY <1>1, <2>5, <2>6, <4>2
        <5> QED
          BY <4>2, <5>1
      <4> QED
        BY <4>1, <4>2
    <3> QED
      BY <3>1
  <2>9. \A s \in UpTo(S, k - 1) : s \in UpTo(S, k) => f[s] = e[s]
    BY <2>6, <2>7
  <2> HIDE DEF f
  <2>10. Adds(g, UpTo(S, k), f)
    BY <2>5, <2>7, <2>8, <2>9 DEF Adds, AddsUp
  <2> QED
    BY <2>2, <2>10
<1>3. Cardinality(S) \in Nat
  BY <1>1, FiniteParts
<1>4. UpTo(S, Cardinality(S)) = SUBSET S
  BY <1>1, FiniteParts DEF UpTo
<1>5. PICK k \in Nat : k = Cardinality(S)
  BY <1>3
<1>6. \E f : Adds(g, UpTo(S, k), f)
  BY <1>2
<1> QED
  BY <1>4, <1>5, <1>6

(* The order does not matter. *)
LEMMA AnyOrder ==
  ASSUME NEW S, NEW g, Addable(g, S), NEW f, Adds(g, SUBSET S, f)
  PROVE  \A s \in SUBSET S : \A y \in s : f[s] = g[y] + f[s \ {y}]
<1> DEFINE Wrong(s) == \E y \in s : f[s] # g[y] + f[s \ {y}]
           Bad == {k \in Nat : \E s \in SUBSET S : Cardinality(s) = k /\ Wrong(s)}
<1>1. IsFiniteSet(S) /\ \A x \in S : g[x] \in Nat
  BY DEF Addable
<1>2. \A s \in SUBSET S : /\ f[s] \in Nat
                          /\ s # {} => f[s] = g[Chosen(s)] + f[s \ {Chosen(s)}]
  BY DEF Adds, AddsUp
<1>3. Bad = {}
  <2> SUFFICES ASSUME Bad # {}
               PROVE  FALSE
    OBVIOUS
  <2>1. PICK k \in Bad : \A j \in Bad : k <= j
    BY LeastNumber
  <2>2. PICK s \in SUBSET S : Cardinality(s) = k /\ Wrong(s)
    OBVIOUS
  <2>3. PICK y \in s : f[s] # g[y] + f[s \ {y}]
    BY <2>2
  <2>4. PICK x \in s : x = Chosen(s)
    BY <2>3, ChosenIn
  <2>5. f[s] = g[x] + f[s \ {x}]
    BY <1>2, <2>4
  <2>6. x # y
    BY <2>3, <2>5
  <2>7. /\ Cardinality(s \ {x}) = k - 1 /\ s \ {x} \in SUBSET S
        /\ Cardinality(s \ {y}) = k - 1 /\ s \ {y} \in SUBSET S
        /\ k \in Nat /\ k # 0
    BY <1>1, <2>2, FiniteParts
  <2>8. k - 1 \in Nat /\ k - 1 < k
    BY <2>7
  <2> HIDE DEF Wrong
  <2>9. ~Wrong(s \ {x}) /\ ~Wrong(s \ {y})
    <3>1. k - 1 \notin Bad
      BY <2>1, <2>8
    <3> QED
      BY <2>7, <2>8, <3>1
  <2> USE DEF Wrong
  <2>10. f[s \ {x}] = g[y] + f[(s \ {x}) \ {y}]
    BY <2>6, <2>9
  <2>11. f[s \ {y}] = g[x] + f[(s \ {y}) \ {x}]
    BY <2>6, <2>9
  <2>12. (s \ {x}) \ {y} = (s \ {y}) \ {x}
    OBVIOUS
  <2>13. PICK n \in Nat : n = f[(s \ {y}) \ {x}]
    BY <1>2
  <2>14. f[s \ {x}] = g[y] + n /\ f[s \ {y}] = g[x] + n
    BY <2>10, <2>11, <2>12, <2>13
  <2>15. g[x] \in Nat /\ g[y] \in Nat
    BY <1>1
  <2> HIDE DEF Wrong, Bad
  <2>16. f[s] = g[y] + f[s \ {y}]
    BY <2>5, <2>14, <2>15
  <2> QED
    BY <2>3, <2>16
<1>4. ASSUME NEW s \in SUBSET S, NEW y \in s
      PROVE  f[s] = g[y] + f[s \ {y}]
  <2>1. PICK k \in Nat : k = Cardinality(s)
    BY <1>1, FiniteParts
  <2> QED
    BY <1>3, <2>1
<1> QED
  BY <1>4

(* Sums of functions that agree are the same. *)
SameSums(S, T, g, h, f, e) ==
  \A s \in SUBSET S : (s \in SUBSET T /\ Agree(s, g, h)) => f[s] = e[s]

LEMMA AddsSame ==
  ASSUME NEW S, NEW T, NEW g, NEW h, Addable(g, S),
         NEW f, AddsUp(g, SUBSET S, f), NEW e, AddsUp(h, SUBSET T, e)
  PROVE  SameSums(S, T, g, h, f, e)
<1> DEFINE Wrong(s) == s \in SUBSET T /\ Agree(s, g, h) /\ f[s] # e[s]
           Bad == {k \in Nat : \E s \in SUBSET S : Cardinality(s) = k /\ Wrong(s)}
<1>1. IsFiniteSet(S)
  BY DEF Addable
<1>2. \A s \in SUBSET S : /\ s = {} => f[s] = 0
                          /\ s # {} => f[s] = g[Chosen(s)] + f[s \ {Chosen(s)}]
  BY DEF AddsUp
<1>3. \A s \in SUBSET T : /\ s = {} => e[s] = 0
                          /\ s # {} => e[s] = h[Chosen(s)] + e[s \ {Chosen(s)}]
  BY DEF AddsUp
<1>4. Bad = {}
  <2> SUFFICES ASSUME Bad # {}
               PROVE  FALSE
    OBVIOUS
  <2>1. PICK k \in Bad : \A j \in Bad : k <= j
    BY LeastNumber
  <2>2. PICK s \in SUBSET S : Cardinality(s) = k /\ Wrong(s)
    OBVIOUS
  <2>3. s # {}
    BY <1>2, <1>3, <2>2
  <2>4. PICK x \in s : x = Chosen(s)
    BY <2>3, ChosenIn
  <2>5. /\ Cardinality(s \ {x}) = k - 1 /\ s \ {x} \in SUBSET S
        /\ k \in Nat /\ k # 0
    BY <1>1, <2>2, <2>3, FiniteParts
  <2>6. k - 1 \in Nat /\ k - 1 < k
    BY <2>5
  <2>7. s \ {x} \in SUBSET T /\ Agree(s \ {x}, g, h) /\ g[x] = h[x]
    BY <2>2 DEF Agree
  <2>8. f[s \ {x}] = e[s \ {x}]
    <3>1. k - 1 \notin Bad
      <4> HIDE DEF Wrong
      <4> QED
        BY <2>1, <2>6
    <3> QED
      BY <2>5, <2>6, <2>7, <3>1
  <2>9. f[s] = e[s]
    BY <1>2, <1>3, <2>2, <2>3, <2>4, <2>7, <2>8
  <2> QED
    BY <2>2, <2>9
<1>5. ASSUME NEW s \in SUBSET S, s \in SUBSET T, Agree(s, g, h)
      PROVE  f[s] = e[s]
  <2>1. PICK k \in Nat : k = Cardinality(s)
    BY <1>1, FiniteParts
  <2> QED
    BY <1>4, <1>5, <2>1
<1> QED
  BY <1>5 DEF SameSums

(* The sum of g over S: what MapThenSumSet computes. *)
SumIs(g, S, v) == \E f : Adds(g, SUBSET S, f) /\ v = f[S]
SumOver(g, S) == CHOOSE v : SumIs(g, S, v)

LEMMA SumExists ==
  ASSUME NEW S, NEW g, Addable(g, S)
  PROVE  SumIs(g, S, SumOver(g, S))
<1>1. \E v : SumIs(g, S, v)
  BY AddsExists DEF SumIs
<1> QED
  BY <1>1 DEF SumOver

LEMMA AddableLess ==
  ASSUME NEW S, NEW g, Addable(g, S), NEW T \in SUBSET S
  PROVE  Addable(g, T)
BY FS_Subset DEF Addable

(* Any f that adds up g on sets among which T is has the sum over T. *)
LEMMA SumFrom ==
  ASSUME NEW S, NEW T \in SUBSET S, NEW g, NEW h, Addable(g, S), Agree(T, g, h),
         NEW f, Adds(g, SUBSET S, f)
  PROVE  f[T] = SumOver(h, T)
<1>1. Addable(h, T)
  BY AddableLess DEF Addable, Agree
<1>2. PICK e : Adds(h, SUBSET T, e) /\ SumOver(h, T) = e[T]
  BY <1>1, SumExists DEF SumIs
<1>3. T \in SUBSET T
  OBVIOUS
<1>4. AddsUp(g, SUBSET S, f) /\ AddsUp(h, SUBSET T, e)
  BY <1>2 DEF Adds
<1>5. SameSums(S, T, g, h, f, e)
  BY <1>4, AddsSame
<1> QED
  BY <1>2, <1>3, <1>5 DEF SameSums

LEMMA SumEmpty ==
  ASSUME NEW g
  PROVE  SumOver(g, {}) = 0
<1>1. Addable(g, {})
  BY FS_EmptySet DEF Addable
<1>2. PICK f : Adds(g, SUBSET {}, f) /\ SumOver(g, {}) = f[{}]
  BY <1>1, SumExists DEF SumIs
<1> QED
  BY <1>2 DEF Adds, AddsUp

LEMMA SumNat ==
  ASSUME NEW S, NEW g, Addable(g, S)
  PROVE  SumOver(g, S) \in Nat
<1>1. PICK f : Adds(g, SUBSET S, f) /\ SumOver(g, S) = f[S]
  BY SumExists DEF SumIs
<1> QED
  BY <1>1 DEF Adds, AddsUp

LEMMA SumSame ==
  ASSUME NEW S, NEW g, NEW h, Addable(g, S), Agree(S, g, h)
  PROVE  SumOver(g, S) = SumOver(h, S)
<1>1. PICK f : Adds(g, SUBSET S, f) /\ SumOver(g, S) = f[S]
  BY SumExists DEF SumIs
<1>2. S \in SUBSET S
  OBVIOUS
<1>3. f[S] = SumOver(h, S)
  BY <1>1, <1>2, SumFrom
<1> QED
  BY <1>1, <1>3

LEMMA SumTake ==
  ASSUME NEW S, NEW g, Addable(g, S), NEW x \in S
  PROVE  SumOver(g, S) = g[x] + SumOver(g, S \ {x})
<1>1. PICK f : Adds(g, SUBSET S, f) /\ SumOver(g, S) = f[S]
  BY SumExists DEF SumIs
<1>2. S \in SUBSET S /\ S \ {x} \in SUBSET S
  OBVIOUS
<1>3. f[S] = g[x] + f[S \ {x}]
  BY <1>1, <1>2, AnyOrder
<1>4. Agree(S \ {x}, g, g)
  BY DEF Agree
<1>5. f[S \ {x}] = SumOver(g, S \ {x})
  BY <1>1, <1>2, <1>4, SumFrom
<1> QED
  BY <1>1, <1>3, <1>5

(* MapThenSumSet is such a sum. *)
SizesAt(t, n) == [x \in Ids |-> SizeAt(t, n, x)]

LEMMA FoldIsSum ==
  ASSUME NEW t, NEW n, NEW S \in SUBSET Ids, Addable(SizesAt(t, n), S)
  PROVE  MapThenSumSet(LAMBDA x : SizeAt(t, n, x), S) = SumOver(SizesAt(t, n), S)
<1> DEFINE g == SizesAt(t, n)
           W(f) == f = [s \in SUBSET S |->
                          IF s = {} THEN 0
                          ELSE SizeAt(t, n, Chosen(s)) + f[s \ {Chosen(s)}]]
           fold == CHOOSE f : W(f)
<1>1. MapThenSumSet(LAMBDA x : SizeAt(t, n, x), S) = fold[S]
  BY DEF MapThenSumSet, MapThenFoldSet, Chosen
<1>2. PICK f : Adds(g, SUBSET S, f)
  BY AddsExists
<1>3. \A s \in SUBSET S : s # {} => g[Chosen(s)] = SizeAt(t, n, Chosen(s))
  BY ChosenIn DEF SizesAt
<1>4. W(f)
  <2>1. \A s \in SUBSET S : f[s] = IF s = {} THEN 0
                                   ELSE SizeAt(t, n, Chosen(s)) + f[s \ {Chosen(s)}]
    BY <1>2, <1>3 DEF Adds, AddsUp
  <2>2. DOMAIN f = SUBSET S /\ f = [s \in DOMAIN f |-> f[s]]
    BY <1>2 DEF Adds, AddsUp
  <2> QED
    BY <2>1, <2>2
<1>5. W(fold)
  <2> HIDE DEF W
  <2> QED
    BY <1>4
<1> HIDE DEF fold
<1>6. AddsUp(g, SUBSET S, fold)
  <2>1. \A s \in SUBSET S : fold[s] = IF s = {} THEN 0
                                      ELSE SizeAt(t, n, Chosen(s)) + fold[s \ {Chosen(s)}]
    BY <1>5
  <2> QED
    BY <1>3, <2>1 DEF AddsUp
<1>7. AddsUp(g, SUBSET S, f) /\ Agree(S, g, g) /\ Addable(g, S) /\ S \in SUBSET S
  BY <1>2 DEF Adds, Agree
<1> HIDE DEF g
<1>8. SameSums(S, S, g, g, f, fold)
  BY <1>6, <1>7, AddsSame
<1>9. f[S] = fold[S]
  BY <1>7, <1>8 DEF SameSums
<1>10. f[S] = SumOver(g, S)
  BY <1>2, <1>7, SumFrom
<1> QED
  BY <1>1, <1>9, <1>10 DEF g

(* Payloads in a heap that share no byte do not exceed it. *)
Fit(s, b, g, lo, e) ==
  /\ lo \in Nat /\ e \in Nat /\ lo <= e
  /\ \A x \in s : /\ b[x] \in Nat /\ g[x] \in Nat \ {0}
                  /\ lo <= b[x] /\ b[x] + g[x] <= e
  /\ \A x, y \in s : x # y => Disjoint(b[x], g[x], b[y], g[y])

LEMMA SumFits ==
  ASSUME NEW S, IsFiniteSet(S), NEW b, NEW g, NEW lo, NEW hi, Fit(S, b, g, lo, hi)
  PROVE  SumOver(g, S) <= hi - lo
<1> DEFINE Over2(s, e) == Fit(s, b, g, lo, e) /\ ~(SumOver(g, s) <= e - lo)
           Bad == {k \in Nat : \E s \in SUBSET S : \E e : Cardinality(s) = k /\ Over2(s, e)}
<1>1. Bad = {}
  <2> SUFFICES ASSUME Bad # {}
               PROVE  FALSE
    OBVIOUS
  <2>1. PICK k \in Bad : \A j \in Bad : k <= j
    BY LeastNumber
  <2>2. PICK s \in SUBSET S : \E e : Cardinality(s) = k /\ Over2(s, e)
    OBVIOUS
  <2>3. PICK e : Cardinality(s) = k /\ Over2(s, e)
    BY <2>2
  <2>4. Fit(s, b, g, lo, e) /\ ~(SumOver(g, s) <= e - lo)
    BY <2>3
  <2>5. lo \in Nat /\ e \in Nat /\ lo <= e
    BY <2>4 DEF Fit
  <2>6. s # {}
    BY <2>4, <2>5, SumEmpty
  <2>7. PICK y \in s : \A x \in s : b[x] <= b[y]
    <3> DEFINE B == {b[x] : x \in s}
    <3>1. B \subseteq Nat /\ B # {} /\ \A n \in B : n <= e
      BY <2>4, <2>5, <2>6 DEF Fit
    <3> HIDE DEF B
    <3>2. Max(B) \in B /\ \A n \in B : Max(B) >= n
      BY <2>5, <3>1, MaxExists
    <3>3. PICK m \in B : \A n \in B : m >= n
      BY <3>2
    <3> USE DEF B
    <3>4. PICK y \in s : m = b[y]
      OBVIOUS
    <3>5. \A x \in s : b[x] \in Nat /\ b[x] \in B
      BY <2>4 DEF Fit
    <3>6. \A x \in s : b[x] <= b[y]
      BY <3>3, <3>4, <3>5
    <3> QED
      BY <3>6
  <2>8. /\ IsFiniteSet(s) /\ Cardinality(s \ {y}) = k - 1 /\ s \ {y} \in SUBSET S
        /\ k \in Nat /\ k # 0
    BY <2>3, <2>6, FiniteParts
  <2>9. PICK by \in Nat : by = b[y]
    BY <2>4 DEF Fit
  <2>10. PICK gy \in Nat \ {0} : gy = g[y]
    BY <2>4 DEF Fit
  <2>11. lo <= by /\ by + gy <= e
    BY <2>4, <2>9, <2>10 DEF Fit
  <2>12. Fit(s \ {y}, b, g, lo, by)
    <3>1. ASSUME NEW x \in s \ {y}
          PROVE  /\ b[x] \in Nat /\ g[x] \in Nat \ {0}
                 /\ lo <= b[x] /\ b[x] + g[x] <= by
      <4>1. /\ b[x] \in Nat /\ g[x] \in Nat \ {0} /\ lo <= b[x]
            /\ Disjoint(b[x], g[x], by, gy)
        BY <2>4, <2>9, <2>10 DEF Fit
      <4>2. b[x] <= by
        BY <2>7, <2>9
      <4> QED
        BY <4>1, <4>2 DEF Disjoint
    <3>2. \A x, z \in s \ {y} : x # z => Disjoint(b[x], g[x], b[z], g[z])
      BY <2>4 DEF Fit
    <3> QED
      BY <2>5, <2>9, <2>11, <3>1, <3>2 DEF Fit
  <2>13. k - 1 \in Nat /\ k - 1 < k
    BY <2>8
  <2>14. SumOver(g, s \ {y}) <= by - lo
    <3>1. k - 1 \notin Bad
      <4> HIDE DEF Over2
      <4> QED
        BY <2>1, <2>13
    <3>2. ~Over2(s \ {y}, by)
      BY <2>8, <2>13, <3>1
    <3> QED
      BY <2>12, <3>2
  <2>15. Addable(g, s) /\ Addable(g, s \ {y})
    <3>1. Addable(g, s)
      BY <2>4, <2>8 DEF Addable, Fit
    <3> QED
      BY <3>1, AddableLess
  <2>16. SumOver(g, s) = gy + SumOver(g, s \ {y})
    BY <2>10, <2>15, SumTake
  <2>17. SumOver(g, s \ {y}) \in Nat
    BY <2>15, SumNat
  <2>18. SumOver(g, s) <= e - lo
    BY <2>5, <2>9, <2>10, <2>11, <2>14, <2>16, <2>17
  <2> QED
    BY <2>4, <2>18
<1>2. PICK k \in Nat : k = Cardinality(S)
  BY FiniteParts
<1>3. S \in SUBSET S
  OBVIOUS
<1> HIDE DEF Over2
<1>4. ~Over2(S, hi)
  BY <1>1, <1>2, <1>3
<1> QED
  BY <1>4 DEF Over2

-----------------------------------------------------------------------------
(* eval_mm_util. *)

Sizes == SizesAt(ops, i)

Top(m, n) ==
  /\ \A k \in 1 .. n : SizeHeld(k) \in Nat /\ SizeHeld(k) <= m
  /\ \E k \in 1 .. n : m = SizeHeld(k)

UtilInv ==
  /\ total_size \in Nat /\ max_total_size \in Nat
  /\ phase = "util" =>
       /\ malloc = "mm" /\ IsFiniteSet(held)
       /\ \A x \in held : block_sizes[x] = Sizes[x]
       /\ total_size = SumOver(Sizes, held)
       /\ total_size = SizeHeld(i)
       /\ Top(max_total_size, i)
       /\ ~wronged => /\ Fit(held, blocks, Sizes, heap_lo, brk)
                      /\ max_total_size <= brk - heap_lo

LEMMA UtilSteps ==
  ASSUME BaseInv, [Next]_vars
  PROVE  /\ phase' # "util" => UNCHANGED utilVars
         /\ phase' = "util" =>
              \/ StartUtil
              \/ phase = "util" /\ \E r \in Answers : GoesThrough(r) /\ UtilStep(r)
              \/ UNCHANGED vars
<1>1. CASE Option
  BY <1>1 DEF Option
<1>2. CASE OptionsEnd
  BY <1>2 DEF OptionsEnd
<1>3. CASE ReadTrace
  BY <1>3 DEF ReadTrace
<1>4. CASE StartValid \/ StartSpeed \/ SpeedAgain
  BY <1>4 DEF StartValid, StartSpeed, SpeedAgain, Pass
<1>5. CASE StartUtil
  BY <1>5 DEF StartUtil, Pass
<1>6. NextTrace => phase' # "util"
  BY NextTraceKinds DEF BaseInv
<1>7. CASE StartFails \/ TraceDone
  BY <1>6, <1>7 DEF StartFails, Reject, TraceDone
<1>8. CASE InitExits
  BY <1>8 DEF InitExits
<1>9. ASSUME phase \in {"valid", "util", "speed"}, i <= Len(ops),
             NEW r \in Answers, Answered(r)
      PROVE  /\ phase' # "util" => UNCHANGED utilVars
             /\ phase' = "util" => phase = "util" /\ GoesThrough(r) /\ UtilStep(r)
  <2>1. Exit => phase' # "util"
    BY DEF Exit
  <2>2. Advance(r) => phase' = phase
    BY DEF Advance
  <2>3. CASE ValidAnswer(r)
    BY <1>6, <2>2, <2>3 DEF ValidAnswer, Reject
  <2>4. CASE ValidFree(r)
    BY <2>2, <2>4 DEF ValidFree
  <2>5. CASE LibcAnswer(r)
    BY <2>1, <2>2, <2>5 DEF LibcAnswer
  <2>6. CASE UtilStep(r)
    BY <1>9, <2>1, <2>2, <2>6 DEF UtilStep, GoesThrough, Passing
  <2>7. CASE SpeedStep(r)
    BY <2>1, <2>2, <2>7 DEF SpeedStep
  <2> QED
    BY <1>9, <2>3, <2>4, <2>5, <2>6, <2>7 DEF Answered
<1>10. CASE UNCHANGED vars
  BY <1>10 DEF vars
<1> QED
  BY <1>1, <1>2, <1>3, <1>4, <1>5, <1>7, <1>8, <1>9, <1>10 DEF Next

(* The sizes held sum up to what MapThenSumSet makes of them. *)
LEMMA SizeHeldIs ==
  ASSUME NEW n, Addable(SizesAt(ops, n), Held(ops, n))
  PROVE  SizeHeld(n) = SumOver(SizesAt(ops, n), Held(ops, n))
<1>1. Held(ops, n) \in SUBSET Ids
  BY DEF Held
<1> QED
  BY <1>1, FoldIsSum DEF SizeHeld

(* They are a matter of the trace alone. *)
LEMMA SizeHeldSame ==
  ASSUME NEW n, ops' = ops
  PROVE  SizeHeld(n)' = SizeHeld(n)
BY DEF SizeHeld, MapThenSumSet, MapThenFoldSet

LEMMA HeldAddable ==
  ASSUME BaseInv, phase \in {"start", "valid", "util", "speed"}, IsFiniteSet(held)
  PROVE  /\ Addable(Sizes, held)
         /\ \A x \in held : Sizes[x] \in Nat \ {0}
<1>1. /\ held \subseteq Ids
      /\ \A x \in held : SizeAt(ops, i, x) \in Nat \ {0}
  BY HeldFacts
<1>2. \A x \in held : Sizes[x] \in Nat \ {0}
  BY <1>1 DEF Sizes, SizesAt
<1> QED
  BY <1>2 DEF Addable

(* What a request does to the sum. *)
LEMMA SumAdd ==
  ASSUME NEW H, NEW g, Addable(g, H), NEW h, NEW x, x \notin H, Agree(H, g, h),
         h[x] \in Nat
  PROVE  /\ SumOver(h, H \union {x}) = SumOver(g, H) + h[x]
         /\ IsFiniteSet(H \union {x})
<1>1. IsFiniteSet(H \union {x})
  BY FS_AddElement DEF Addable
<1>2. Addable(h, H \union {x})
  BY <1>1 DEF Addable, Agree
<1>3. (H \union {x}) \ {x} = H
  OBVIOUS
<1>4. SumOver(h, H \union {x}) = h[x] + SumOver(h, H)
  <2>1. x \in H \union {x}
    OBVIOUS
  <2> QED
    BY <1>2, <1>3, <2>1, SumTake
<1>5. SumOver(g, H) = SumOver(h, H)
  BY SumSame
<1>6. SumOver(g, H) \in Nat
  BY SumNat
<1> QED
  BY <1>1, <1>4, <1>5, <1>6

LEMMA SumRemove ==
  ASSUME NEW H, NEW g, Addable(g, H), NEW x \in H
  PROVE  /\ SumOver(g, H \ {x}) = SumOver(g, H) - g[x]
         /\ Addable(g, H \ {x})
<1>1. Addable(g, H \ {x}) /\ g[x] \in Nat
  BY AddableLess DEF Addable
<1>2. SumOver(g, H) = g[x] + SumOver(g, H \ {x})
  BY SumTake
<1>3. SumOver(g, H \ {x}) \in Nat
  BY <1>1, SumNat
<1> QED
  BY <1>1, <1>2, <1>3

LEMMA UtilInit ==
  Init => UtilInv
BY DEF Init, UtilInv

LEMMA UtilBegins ==
  ASSUME BaseInv, StartUtil
  PROVE  UtilInv'
<1>1. /\ i' = 1 /\ ops' = ops /\ malloc' = "mm" /\ phase' = "util"
      /\ total_size' = 0 /\ max_total_size' = 0 /\ brk' \in HeapEnds
  BY SameTrace DEF StartUtil, Pass, mainVars
<1>2. held' = {} /\ \A n : Held(ops', n) = Held(ops, n)
  BY <1>1, HeldFirst DEF held
<1>3. SumOver(Sizes', {}) = 0
  BY SumEmpty
<1>4. IsFiniteSet({}) /\ Addable(SizesAt(ops, 1), {})
  BY FS_EmptySet DEF Addable
<1>5. SizeHeld(1) = 0
  <2>1. Held(ops, 1) = {}
    BY HeldFirst
  <2>2. SizeHeld(1) = SumOver(SizesAt(ops, 1), Held(ops, 1))
    BY <1>4, <2>1, SizeHeldIs
  <2> QED
    BY <2>1, <2>2, SumEmpty
<1>6. SizeHeld(1)' = 0
  BY <1>1, <1>5, SizeHeldSame
<1>7. Top(max_total_size, i)'
  <2>1. \A k \in 1 .. 1 : k = 1
    OBVIOUS
  <2>2. \A k \in 1 .. i' : SizeHeld(k)' = 0
    BY <1>1, <1>6, <2>1
  <2>3. 1 \in 1 .. i'
    BY <1>1
  <2> QED
    BY <1>1, <2>2, <2>3 DEF Top
<1>8. heap_lo \in Nat /\ brk' \in Nat /\ heap_lo <= brk'
  BY <1>1, TracesAssumption
<1>9. Fit({}, blocks', Sizes', heap_lo, brk')
  BY <1>8 DEF Fit
<1>10. SizeHeld(i)' = 0
  BY <1>1, <1>6
<1> QED
  BY <1>1, <1>2, <1>3, <1>4, <1>7, <1>8, <1>9, <1>10 DEF UtilInv

(* The sum after a request, whatever eval_mm_util makes of it. *)
LEMMA SumAfter ==
  ASSUME BaseInv, NEW r \in Answers, GoesThrough(r), IsFiniteSet(held)
  PROVE  /\ op.type = "a" => SumOver(Sizes', held') = SumOver(Sizes, held) + size
         /\ op.type = "r" =>
              SumOver(Sizes', held') = SumOver(Sizes, held) - Sizes[index] + size
         /\ op.type = "f" => SumOver(Sizes', held') = SumOver(Sizes, held) - Sizes[index]
         /\ IsFiniteSet(held') /\ Addable(Sizes', held')
         /\ Sizes'[index] = size
         /\ Agree(held \ {index}, Sizes, Sizes')
         /\ Addable(Sizes, held)
         /\ SumOver(Sizes, held) \in Nat
         /\ index \in held => Sizes[index] \in Nat
<1> DEFINE H == held \ {index}
<1>1. /\ op.type # "f" => held' = held \union {index}
      /\ op.type = "f" => held' = held \ {index}
      /\ SizeAt(ops', i', index) = size
      /\ \A x \in Ids : x # index => SizeAt(ops', i', x) = SizeAt(ops, i, x)
      /\ held \subseteq Ids /\ index \in Ids
  BY HeldAfter
<1>2. Addable(Sizes, held) /\ \A x \in held : Sizes[x] \in Nat
  BY HeldAddable DEF GoesThrough, Passing
<1>3. /\ size \in Nat /\ op.type \in {"a", "r", "f"}
      /\ op.type = "a" => index \notin held
      /\ op.type # "a" => index \in held
  BY RequestFacts DEF GoesThrough
<1>4. Sizes'[index] = size /\ Agree(H, Sizes, Sizes')
  BY <1>1 DEF Sizes, SizesAt, Agree
<1>5. IsFiniteSet(H) /\ IsFiniteSet(held \union {index})
  BY FS_RemoveElement, FS_AddElement
<1>6. IsFiniteSet(held')
  BY <1>1, <1>5
<1>7. SumOver(Sizes, held) \in Nat
  BY <1>2, SumNat
<1>8. op.type # "a" => /\ SumOver(Sizes, H) = SumOver(Sizes, held) - Sizes[index]
                       /\ Addable(Sizes, H)
  BY <1>2, <1>3, SumRemove
<1>9. op.type = "a" => H = held
  BY <1>3
<1>10. Addable(Sizes, H)
  BY <1>2, <1>3, <1>8, <1>9
<1>11. index \notin H /\ Sizes'[index] \in Nat /\ held \union {index} = H \union {index}
  BY <1>3, <1>4
<1> HIDE DEF H
<1>12. SumOver(Sizes', H \union {index}) = SumOver(Sizes, H) + Sizes'[index]
  <2>1. PICK g, h : g = Sizes /\ h = Sizes'
    OBVIOUS
  <2>2. Addable(g, H) /\ Agree(H, g, h) /\ h[index] \in Nat
    BY <1>4, <1>10, <1>11, <2>1
  <2>3. PICK x : x = index
    OBVIOUS
  <2>4. SumOver(h, H \union {x}) = SumOver(g, H) + h[x]
    BY <1>11, <2>2, <2>3, SumAdd
  <2> QED
    BY <2>1, <2>3, <2>4
<1>13. SumOver(Sizes', H) = SumOver(Sizes, H)
  BY <1>4, <1>10, SumSame
<1>14. op.type = "a" => SumOver(Sizes', held') = SumOver(Sizes, held) + size
  BY <1>1, <1>4, <1>9, <1>11, <1>12
<1>15. op.type = "r" =>
         SumOver(Sizes', held') = SumOver(Sizes, held) - Sizes[index] + size
  BY <1>1, <1>4, <1>8, <1>11, <1>12
<1>17. Addable(Sizes', held')
  <2>1. \A x \in H : Sizes'[x] \in Nat
    BY <1>4, <1>10 DEF Addable, Agree
  <2>2. held' \subseteq H \union {index}
    BY <1>1, <1>11 DEF H
  <2>3. \A x \in held' : Sizes'[x] \in Nat
    BY <1>11, <2>1, <2>2
  <2> QED
    BY <1>6, <2>3 DEF Addable
<1>16. op.type = "f" => SumOver(Sizes', held') = SumOver(Sizes, held) - Sizes[index]
  BY <1>1, <1>8, <1>13 DEF H
<1> QED
  BY <1>2, <1>4, <1>6, <1>7, <1>14, <1>15, <1>16, <1>17 DEF H

(* The new total is the sum of what is held then. *)
LEMMA TotalAfter ==
  ASSUME BaseInv, UtilInv, phase = "util", NEW r \in Answers, GoesThrough(r), UtilStep(r)
  PROVE  /\ total_size' = SumOver(Sizes', held')
         /\ total_size' = SizeHeld(i + 1)
         /\ total_size' \in Nat
         /\ total_size' = NewTotal
         /\ op.type = "f" => total_size' <= total_size
<1>1. /\ total_size = SumOver(Sizes, held)
      /\ IsFiniteSet(held) /\ \A x \in held : block_sizes[x] = Sizes[x]
  BY DEF UtilInv
<1>2. total_size' = NewTotal
  BY DEF UtilStep, GoesThrough
<1>3. /\ op.type \in {"a", "r", "f"} /\ size \in Nat
      /\ op.type # "a" => index \in held
  BY RequestFacts DEF GoesThrough
<1>4. /\ op.type = "a" => SumOver(Sizes', held') = SumOver(Sizes, held) + size
      /\ op.type = "r" => SumOver(Sizes', held') = SumOver(Sizes, held) - Sizes[index] + size
      /\ op.type = "f" => SumOver(Sizes', held') = SumOver(Sizes, held) - Sizes[index]
      /\ Addable(Sizes', held')
      /\ SumOver(Sizes, held) \in Nat
      /\ index \in held => Sizes[index] \in Nat
  BY <1>1, SumAfter
<1>5. SumOver(Sizes', held') \in Nat
  BY <1>4, SumNat
<1>6. NewTotal = SumOver(Sizes', held')
  <2>1. op.type # "a" => block_sizes[index] = Sizes[index]
    BY <1>1, <1>3
  <2>2. CASE op.type = "a"
    BY <1>1, <1>4, <2>2 DEF NewTotal
  <2>3. CASE op.type = "r"
    BY <1>1, <1>3, <1>4, <2>1, <2>3 DEF NewTotal
  <2>4. CASE op.type = "f"
    BY <1>1, <1>4, <2>1, <2>4 DEF NewTotal
  <2> QED
    BY <1>3, <2>2, <2>3, <2>4
<1>7. SizeHeld(i + 1) = SumOver(Sizes', held')
  <2>1. PICK n : n = i + 1
    OBVIOUS
  <2>2. ops' = ops /\ i' = n
    BY <2>1, HeldAfter
  <2>3. Sizes' = SizesAt(ops, n) /\ held' = Held(ops, n)
    BY <2>2 DEF Sizes, held
  <2>4. SizeHeld(n) = SumOver(SizesAt(ops, n), Held(ops, n))
    BY <1>4, <2>3, SizeHeldIs
  <2> QED
    BY <2>1, <2>3, <2>4
<1>8. op.type = "f" => SumOver(Sizes', held') <= SumOver(Sizes, held)
  BY <1>3, <1>4, <1>5
<1> QED
  BY <1>1, <1>2, <1>5, <1>6, <1>7, <1>8

(* The high water mark is the larger of itself and the new total. *)
LEMMA MarkAfter ==
  ASSUME BaseInv, UtilInv, phase = "util", NEW r \in Answers, GoesThrough(r), UtilStep(r)
  PROVE  /\ max_total_size' \in Nat /\ max_total_size \in Nat
         /\ max_total_size <= max_total_size' /\ total_size' <= max_total_size'
         /\ max_total_size' \in {max_total_size, total_size'}
         /\ op.type = "f" => max_total_size' = max_total_size
<1>1. max_total_size' = Max({max_total_size} \union
                              IF op.type = "f" THEN {} ELSE {NewTotal})
  BY DEF UtilStep, GoesThrough
<1>2. /\ total_size' = NewTotal /\ total_size' \in Nat
      /\ op.type = "f" => total_size' <= total_size
  BY TotalAfter
<1>3. /\ total_size \in Nat /\ max_total_size \in Nat
      /\ total_size <= max_total_size
  <2>1. /\ total_size \in Nat /\ max_total_size \in Nat
        /\ total_size = SizeHeld(i) /\ Top(max_total_size, i)
    BY DEF UtilInv
  <2>2. i \in Nat \ {0}
    BY DEF BaseInv, Kinds
  <2>3. SizeHeld(i) <= max_total_size
    BY <2>1, <2>2 DEF Top
  <2> QED
    BY <2>1, <2>3
<1>4. CASE op.type = "f"
  <2>1. max_total_size' = Max({max_total_size})
    BY <1>1, <1>4
  <2>2. Max({max_total_size}) = max_total_size
    BY <1>3, MaxIs
  <2> QED
    BY <1>2, <1>3, <1>4, <2>1, <2>2
<1>5. CASE op.type # "f"
  <2>1. PICK m, n : m = max_total_size /\ n = NewTotal
    OBVIOUS
  <2>2. max_total_size' = Max({m, n})
    <3>1. {max_total_size} \union {NewTotal} = {m, n}
      BY <2>1
    <3> QED
      BY <1>1, <1>5, <3>1
  <2>3. m \in Nat /\ n \in Nat
    BY <1>2, <1>3, <2>1
  <2>4. CASE m >= n
    <3>1. Max({m, n}) = m
      BY <2>3, <2>4, MaxIs
    <3> QED
      BY <1>2, <1>5, <2>1, <2>2, <2>3, <2>4, <3>1
  <2>5. CASE n > m
    <3>1. Max({m, n}) = n
      BY <2>3, <2>5, MaxIs
    <3> QED
      BY <1>2, <1>5, <2>1, <2>2, <2>3, <2>5, <3>1
  <2> QED
    BY <2>3, <2>4, <2>5
<1> QED
  BY <1>4, <1>5

(* A grant keeps the payloads in the heap and apart. *)
LEMMA FitAfter ==
  ASSUME BaseInv, phase = "util", malloc = "mm", IsFiniteSet(held),
         NEW r \in Answers, GoesThrough(r), ~wronged',
         Fit(held, blocks, Sizes, heap_lo, brk)
  PROVE  Fit(held', blocks', Sizes', heap_lo, brk')
<1> DEFINE H == held \ {index}
<1>1. /\ op.type # "f" => held' = held \union {index}
      /\ op.type = "f" => held' = held \ {index}
      /\ held \subseteq Ids /\ index \in Ids
  BY HeldAfter
<1>2. /\ Sizes'[index] = size /\ Agree(H, Sizes, Sizes')
  BY SumAfter
<1>3. /\ size \in Nat
      /\ op.type # "f" => size > 0
  BY RequestFacts DEF GoesThrough
<1>4. brk' = r.brk /\ blocks' = NewBlocks(r) /\ wronged' = (wronged \/ Wrongs(r))
  BY DEF GoesThrough, Takes, Advance
<1>5. heap_lo \in Nat /\ brk \in Nat /\ r.brk \in Nat /\ brk <= r.brk /\ heap_lo <= brk
  BY HeapEndsNat DEF Fit
<1>6. blocks \in [Ids -> Addresses \union {NULL}]
  BY DEF BaseInv, Kinds
<1>7. \A x \in H : /\ blocks'[x] = blocks[x] /\ Sizes'[x] = Sizes[x]
                   /\ Sizes[x] = SizeAt(ops, i, x)
  <2> TAKE x \in H
  <2>1. x # index /\ x \in Ids
    BY <1>1
  <2>2. blocks'[x] = blocks[x]
    BY <1>4, <1>6, <2>1 DEF NewBlocks
  <2>3. Sizes[x] = SizeAt(ops, i, x)
    BY <2>1 DEF Sizes, SizesAt
  <2> QED
    BY <1>2, <2>2, <2>3 DEF Agree
<1>8. \A x \in H : /\ blocks[x] \in Nat /\ Sizes[x] \in Nat \ {0}
                   /\ heap_lo <= blocks[x] /\ blocks[x] + Sizes[x] <= brk
  BY DEF Fit
<1>9. \A x, y \in H : x # y => Disjoint(blocks[x], Sizes[x], blocks[y], Sizes[y])
  BY DEF Fit
<1> DEFINE Inside(x) == /\ blocks'[x] \in Nat /\ Sizes'[x] \in Nat \ {0}
                        /\ heap_lo <= blocks'[x] /\ blocks'[x] + Sizes'[x] <= r.brk
           Asunder(x, y) == Disjoint(blocks'[x], Sizes'[x], blocks'[y], Sizes'[y])
<1>10. \A x \in H : Inside(x)
  <2> TAKE x \in H
  <2>1. /\ blocks[x] \in Nat /\ Sizes[x] \in Nat \ {0}
        /\ heap_lo <= blocks[x] /\ blocks[x] + Sizes[x] <= brk
    BY <1>8
  <2>2. blocks[x] + Sizes[x] <= r.brk
    BY <1>5, <2>1
  <2>3. blocks'[x] = blocks[x] /\ Sizes'[x] = Sizes[x]
    BY <1>7
  <2> QED
    BY <2>1, <2>2, <2>3
<1>11. \A x, y \in H : x # y => Asunder(x, y)
  BY <1>7, <1>9
<1>12. op.type # "f" => Inside(index) /\ \A x \in H : Asunder(index, x) /\ Asunder(x, index)
  <2> SUFFICES ASSUME op.type # "f"
               PROVE  Inside(index) /\ \A x \in H : Asunder(index, x) /\ Asunder(x, index)
    OBVIOUS
  <2>1. Grants(r)
    BY <1>4 DEF Wrongs
  <2>2. blocks'[index] = r.p
    BY <1>1, <1>4, <1>6 DEF NewBlocks
  <2>3. r.p \in Nat
    <3>1. r.p \in Addresses \union {NULL} /\ r.p # NULL
      BY <2>1, AnswerKinds DEF Grants
    <3>2. Addresses \subseteq Nat
      BY TracesAssumption, Zenon
    <3> QED
      BY <3>1, <3>2, Zenon
  <2>4. /\ heap_lo <= r.p /\ r.p + size <= r.brk
        /\ \A x \in H : Disjoint(r.p, size, blocks[x], SizeAt(ops, i, x))
    BY <2>1 DEF Grants
  <2>5. Inside(index)
    BY <1>2, <1>3, <2>2, <2>3, <2>4
  <2>6. \A x \in H : Asunder(index, x)
    BY <1>2, <1>7, <2>2, <2>4
  <2>7. \A x \in H : Asunder(x, index)
    <3> TAKE x \in H
    <3>1. Asunder(index, x)
      BY <2>6
    <3> QED
      BY <3>1 DEF Disjoint
  <2> QED
    BY <2>5, <2>6, <2>7
<1>13. held' \subseteq H \union {index} /\ (op.type = "f" => held' = H)
  BY <1>1
<1>14. \A x \in held' : Inside(x)
  BY <1>10, <1>12, <1>13
<1>15. \A x, y \in held' : x # y => Asunder(x, y)
  <2> HIDE DEF Asunder
  <2> QED
    BY <1>11, <1>12, <1>13
<1> QED
  BY <1>4, <1>5, <1>14, <1>15 DEF Fit

LEMMA UtilRequest ==
  ASSUME BaseInv, UtilInv, phase = "util", NEW r \in Answers, GoesThrough(r), UtilStep(r)
  PROVE  UtilInv'
<1>1. /\ malloc = "mm" /\ IsFiniteSet(held)
      /\ \A x \in held : block_sizes[x] = Sizes[x]
      /\ Top(max_total_size, i)
      /\ ~wronged => /\ Fit(held, blocks, Sizes, heap_lo, brk)
                     /\ max_total_size <= brk - heap_lo
  BY DEF UtilInv
<1>2. /\ malloc' = malloc /\ ops' = ops /\ i' = i + 1 /\ brk' = r.brk
      /\ block_sizes' = NewSizes /\ (wronged => wronged')
  BY HeldAfter DEF GoesThrough, Advance, Takes, mainVars, UtilStep
<1>3. /\ total_size' = SumOver(Sizes', held') /\ total_size' = SizeHeld(i + 1)
      /\ total_size' \in Nat
  BY TotalAfter
<1>4. /\ max_total_size' \in Nat /\ max_total_size \in Nat
      /\ max_total_size <= max_total_size' /\ total_size' <= max_total_size'
      /\ max_total_size' \in {max_total_size, total_size'}
  BY MarkAfter
<1>5. IsFiniteSet(held') /\ Addable(Sizes', held')
  BY <1>1, SumAfter
<1>6. \A k : SizeHeld(k)' = SizeHeld(k)
  BY <1>2, SizeHeldSame
<1>7. total_size' = SizeHeld(i)'
  <2>1. PICK n : n = i + 1
    OBVIOUS
  <2>2. SizeHeld(n)' = SizeHeld(n)
    BY <1>6
  <2> QED
    BY <1>2, <1>3, <2>1, <2>2
<1>8. Top(max_total_size, i)'
  <2>1. i \in Nat \ {0}
    BY DEF BaseInv, Kinds
  <2>2. \A k \in 1 .. i : SizeHeld(k)' \in Nat /\ SizeHeld(k)' <= max_total_size'
    <3> TAKE k \in 1 .. i
    <3>1. SizeHeld(k) \in Nat /\ SizeHeld(k) <= max_total_size
      BY <1>1 DEF Top
    <3>2. SizeHeld(k)' = SizeHeld(k)
      BY <1>6
    <3> QED
      BY <1>4, <3>1, <3>2
  <2>3. PICK n : n = i + 1
    OBVIOUS
  <2>4. SizeHeld(n)' = total_size'
    BY <1>3, <1>6, <2>3
  <2>5. \A k \in 1 .. i' : SizeHeld(k)' \in Nat /\ SizeHeld(k)' <= max_total_size'
    <3>1. \A k \in 1 .. i' : k \in 1 .. i \/ k = n
      BY <1>2, <2>1, <2>3
    <3> QED
      BY <1>3, <1>4, <2>2, <2>4, <3>1
  <2>6. \E k \in 1 .. i' : max_total_size' = SizeHeld(k)'
    <3>1. CASE max_total_size' = max_total_size
      <4>1. PICK k \in 1 .. i : max_total_size = SizeHeld(k)
        BY <1>1 DEF Top
      <4>2. k \in 1 .. i' /\ SizeHeld(k)' = SizeHeld(k)
        BY <1>2, <1>6, <2>1
      <4> QED
        BY <3>1, <4>1, <4>2
    <3>2. CASE max_total_size' = total_size'
      <4>1. n \in 1 .. i'
        BY <1>2, <2>1, <2>3
      <4> QED
        BY <2>4, <3>2, <4>1
    <3> QED
      BY <1>4, <3>1, <3>2
  <2> QED
    BY <2>5, <2>6 DEF Top
<1>9. \A x \in held' : block_sizes'[x] = Sizes'[x]
  <2> TAKE x \in held'
  <2>1. /\ op.type # "f" => held' = held \union {index}
        /\ op.type = "f" => held' = held \ {index}
        /\ held' \subseteq Ids
    BY HeldAfter
  <2>2. Sizes'[index] = size /\ Agree(held \ {index}, Sizes, Sizes')
    BY <1>1, SumAfter
  <2>3. block_sizes \in [Ids -> Nat]
    BY DEF BaseInv, Kinds
  <2>4. CASE x = index
    BY <1>2, <2>1, <2>2, <2>3, <2>4 DEF NewSizes
  <2>5. CASE x # index
    <3>1. x \in held \ {index}
      BY <2>1, <2>5
    <3>2. Sizes'[x] = Sizes[x] /\ block_sizes[x] = Sizes[x]
      BY <1>1, <2>2, <3>1 DEF Agree
    <3>3. block_sizes'[x] = block_sizes[x]
      BY <1>2, <2>3, <2>5 DEF NewSizes
    <3> QED
      BY <3>2, <3>3
  <2> QED
    BY <2>4, <2>5
<1>10. ~wronged' => /\ Fit(held, blocks, Sizes, heap_lo, brk)'
                    /\ max_total_size' <= brk' - heap_lo
  <2> SUFFICES ASSUME ~wronged'
               PROVE  /\ Fit(held, blocks, Sizes, heap_lo, brk)'
                      /\ max_total_size' <= brk' - heap_lo
    OBVIOUS
  <2>1. Fit(held, blocks, Sizes, heap_lo, brk) /\ max_total_size <= brk - heap_lo
    BY <1>1, <1>2
  <2>2. Fit(held', blocks', Sizes', heap_lo, brk')
    BY <1>1, <2>1, FitAfter
  <2>3. total_size' <= brk' - heap_lo
    BY <1>3, <1>5, <2>2, SumFits
  <2>4. max_total_size <= brk' - heap_lo
    BY <1>2, <1>4, <2>1, HeapEndsNat
  <2> QED
    BY <1>4, <2>2, <2>3, <2>4
<1> QED
  BY <1>1, <1>2, <1>3, <1>4, <1>5, <1>7, <1>8, <1>9, <1>10 DEF UtilInv

LEMMA UtilNext ==
  ASSUME BaseInv, UtilInv, [Next]_vars
  PROVE  UtilInv'
<1>1. /\ phase' # "util" => UNCHANGED utilVars
      /\ phase' = "util" =>
           \/ StartUtil
           \/ phase = "util" /\ \E r \in Answers : GoesThrough(r) /\ UtilStep(r)
           \/ UNCHANGED vars
  BY UtilSteps
<1>2. CASE phase' # "util"
  BY <1>1, <1>2 DEF UtilInv, utilVars
<1>3. CASE StartUtil
  BY <1>3, UtilBegins
<1>4. CASE phase = "util" /\ \E r \in Answers : GoesThrough(r) /\ UtilStep(r)
  BY <1>4, UtilRequest
<1>5. CASE UNCHANGED vars
  <2>1. /\ phase' = phase /\ i' = i /\ brk' = brk /\ blocks' = blocks
        /\ block_sizes' = block_sizes /\ wronged' = wronged /\ malloc' = malloc
        /\ total_size' = total_size /\ max_total_size' = max_total_size
        /\ ops' = ops
    BY <1>5, SameTrace DEF vars, mainVars, bookVars, utilVars
  <2>2. held' = held /\ Sizes' = Sizes
    BY <2>1 DEF held, Sizes
  <2>3. \A k : SizeHeld(k)' = SizeHeld(k)
    BY <2>1, SizeHeldSame
  <2>4. Top(max_total_size, i) => Top(max_total_size, i)'
    BY <2>1, <2>3 DEF Top
  <2>5. SizeHeld(i)' = SizeHeld(i)
    <3>1. PICK n : n = i
      OBVIOUS
    <3> QED
      BY <2>1, <2>3, <3>1
  <2> QED
    BY <2>1, <2>2, <2>4, <2>5 DEF UtilInv
<1> QED
  BY <1>1, <1>2, <1>3, <1>4, <1>5

LEMMA UtilMeans ==
  ASSUME BaseInv, UtilInv
  PROVE  UtilisationAddsUp
<1> SUFFICES ASSUME phase = "util"
             PROVE  UtilisationAddsUp
  BY DEF UtilisationAddsUp
<1>1. /\ total_size = SizeHeld(i) /\ Top(max_total_size, i)
      /\ ~wronged => max_total_size <= brk - heap_lo
  BY DEF UtilInv
<1> DEFINE S == {SizeHeld(n) : n \in 1 .. i}
<1>2. S \subseteq Int /\ max_total_size \in S /\ \A y \in S : max_total_size >= y
  BY <1>1 DEF Top
<1> HIDE DEF S
<1>3. Max(S) = max_total_size
  BY <1>2, MaxIs
<1> QED
  BY <1>1, <1>3 DEF UtilisationAddsUp, S

LEMMA KindsMean ==
  ASSUME BaseInv, UtilInv
  PROVE  TypeOK
<1>1. \A j \in 1 .. Len(ranges) : ranges[j].lo \in Addresses /\ ranges[j].hi \in Nat
  <2>1. ranges \in Seq(RangeRecord)
    BY DEF BaseInv, Kinds
  <2>2. \A j \in 1 .. Len(ranges) : ranges[j] \in RangeRecord
    BY <2>1
  <2> QED
    BY <2>2 DEF RangeRecord
<1>2. Kinds /\ total_size \in Nat /\ max_total_size \in Nat
  BY DEF BaseInv, UtilInv
<1> QED
  BY <1>1, <1>2, Zenon DEF TypeOK, Kinds

-----------------------------------------------------------------------------
(* Theorems. *)

IInv == BaseInv /\ HandedInv /\ RangesInv /\ ReportInv /\ UtilInv

LEMMA Invariance ==
  Spec => []IInv
<1>1. Init => IInv
  BY BaseInit, HandedInit, RangesInit, ReportInit, UtilInit, Zenon DEF IInv
<1>2. IInv /\ [Next]_vars => IInv'
  <2> SUFFICES ASSUME IInv, [Next]_vars
               PROVE  IInv'
    OBVIOUS
  <2>1. BaseInv /\ HandedInv /\ RangesInv /\ OptionsInv /\ CountInv /\ PrintedInv /\ UtilInv
    BY DEF IInv, ReportInv
  <2>2. BaseInv' /\ HandedInv' /\ UtilInv'
    BY <2>1, BaseStep, HandedStep, UtilNext, Zenon
  <2>3. RangesInv'
    BY <2>1, RangesStep, Zenon
  <2>4. OptionsInv' /\ CountInv' /\ PrintedInv'
    BY <2>1, OptionsStep, CountStep, PrintedStep, Zenon
  <2> QED
    BY <2>2, <2>3, <2>4, Zenon DEF IInv, ReportInv
<1> QED
  BY <1>1, <1>2, PTL DEF Spec

(* Every variable keeps to its kind: blocks and the range list have only    *)
(* addresses that an allocator has returned, eval_mm_util's total never     *)
(* falls below zero, and passes stays below the number that is timed.       *)
THEOREM TypeCorrect ==
  Spec => []TypeOK
<1>1. IInv => TypeOK
  BY KindsMean DEF IInv
<1> QED
  BY <1>1, Invariance, PTL

(* eval_mm_valid's range list mirrors the trace: whatever an allocator      *)
(* answers, and whatever was left of an earlier trace, it has one record    *)
(* per block held, with the extent last asked for (add_range,               *)
(* remove_range, clear_ranges).                                             *)
THEOREM ListMirrorsTrace ==
  Spec => []RangesAreHeldBlocks
<1>1. IInv => RangesAreHeldBlocks
  BY RangesMean DEF IInv
<1> QED
  BY <1>1, Invariance, PTL

(* What add_range lets pass is aligned, lies in the heap and shares a byte  *)
(* with another accepted payload only when one is strictly inside the       *)
(* other, which its two comparisons per record cannot see.                  *)
THEOREM AcceptedAreApart ==
  Spec => []AcceptedPayloads
<1>1. IInv => AcceptedPayloads
  BY RangesMean DEF IInv
<1> QED
  BY <1>1, Invariance, PTL

(* eval_mm_util's running total is the sum of the sizes held and its mark   *)
(* the largest such sum of the pass, although block_sizes still holds the   *)
(* sizes of eval_mm_valid; and the mark is within the heap as long as the   *)
(* allocator keeps the contract.                                            *)
THEOREM UtilisationIsRight ==
  Spec => []UtilisationAddsUp
<1>1. IInv => UtilisationAddsUp
  BY UtilMeans DEF IInv
<1> QED
  BY <1>1, Invariance, PTL

(* In every pass, mm_realloc and mm_free (or libc's) are handed the address *)
(* that came back last for the id in this pass, never one that an earlier   *)
(* pass has left in trace->blocks.                                          *)
THEOREM HandsBackWhatItGot ==
  Spec => []HandsBackHeld
<1>1. IInv => HandsBackHeld
  BY HandedBack DEF IInv
<1> QED
  BY <1>1, Invariance, PTL

(* main's errors counts the traces that are not valid, each once; what it   *)
(* prints in the end accounts for every trace; and -f wins over -t in       *)
(* whatever order they come.                                                *)
THEOREM ReportIsRight ==
  Spec => []ReportAddsUp
<1>1. IInv => ReportAddsUp
  BY ReportMeans DEF IInv
<1> QED
  BY <1>1, Invariance, PTL

(* malloc_error and app_error are called only after an answer that broke    *)
(* the contract, or to a realloc of a block whose id ends in a byte above   *)
(* 127: with that exception, in which the driver does fail an allocator     *)
(* that keeps to the contract, every verdict is deserved.                   *)
THEOREM VerdictIsFair ==
  Spec => FairVerdict
<1>1. IInv /\ [Next]_vars =>
        [errors' # errors \/ phase' = "exit" =>
           wronged' \/ (Resizes /\ index % 256 > 127)]_vars
  BY VerdictStep, Zenon DEF IInv
<1> QED
  BY <1>1, Invariance, PTL DEF Spec, FairVerdict
=============================================================================
