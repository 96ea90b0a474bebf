------------------------------ MODULE Mdriver ------------------------------
(***************************************************************************)
(* mdriver.c.  main reads its options and then replays every trace, first  *)
(* against libc's malloc if asked to, judging nothing but NULL, then       *)
(* against the linked allocator: eval_mm_valid judges each answer, and if  *)
(* none was wrong eval_mm_util adds up sizes and eval_mm_speed is timed    *)
(* (PASSES times over).                                                    *)
(*                                                                         *)
(* The allocator is whatever has been linked: a request is answered by any *)
(* reply, an address or NULL, a new end of the heap, and whether the old   *)
(* contents were kept.  A request with its answer is one step.             *)
(*                                                                         *)
(* Auxiliary: wronged says that a reply has broken the rules of            *)
(* MallocContract since the trace began, given what the allocator has      *)
(* handed out for an id in this pass and not got back.                     *)
(***************************************************************************)
EXTENDS Integers, Sequences, FiniteSets, FiniteSetsExt

CONSTANTS
  Disk,         \* the trace files, a function on some [dir, name]
  TRACEDIR, Here,             \* config.h's directory, and "./"
  DEFAULT_TRACEFILES,         \* config.h: a sequence of names
  CommandLines, \* sequences of options [o, arg]
  Ids,          \* indices of the traces
  Addresses,    \* payload addresses an allocator may come up with
  heap_lo,      \* mem_heap_lo()
  HeapEnds,     \* ends the heap may have; mem_heap_hi() is one less
  ALIGNMENT,    \* config.h: 8
  PASSES        \* timed passes of one trace (fsecs.c, with USE_GETTOD: 10)

NULL == 0
Types == {"a", "r", "f"}
Request == [type : Types, index : Ids, size : Nat]
Reply == [p : Addresses \union {NULL}, brk : HeapEnds, kept : BOOLEAN]

(* The ids a trace t holds before its n-th request, and the size last asked *)
(* for one of them.                                                         *)
LastOn(t, n, x) == Max({0} \union {j \in 1 .. n - 1 : t[j].index = x})
Held(t, n) == {x \in Ids : LastOn(t, n, x) > 0 /\ t[LastOn(t, n, x)].type # "f"}
SizeAt(t, n, x) == t[LastOn(t, n, x)].size

(* read_trace goes through if the file is there, has no line of another    *)
(* kind, and its header tells the number of ids the lines ask for and the  *)
(* number of lines.                                                        *)
Readable(path) ==
  /\ path \in DOMAIN Disk
  /\ LET t == Disk[path].lines
     IN  /\ \A j \in DOMAIN t : t[j].type \in Types
         /\ Disk[path].num_ids - 1 =
              Max({0} \union {t[j].index : j \in {k \in DOMAIN t : t[k].type # "f"}})
         /\ Disk[path].num_ops = Len(t)

(* The traces of the repository allocate an id before they resize or free  *)
(* it, never allocate one twice, and ask for a positive number of bytes    *)
(* (add_range asserts it).                                                 *)
ASSUME TracesAssumption ==
  /\ \A path \in DOMAIN Disk : Readable(path) =>
        LET t == Disk[path].lines
        IN  /\ t \in Seq(Request)
            /\ \A n \in DOMAIN t :
                 /\ t[n].type = "a" <=> t[n].index \notin Held(t, n)
                 /\ t[n].type # "f" => t[n].size > 0
  /\ NULL \notin Addresses /\ Addresses \subseteq Nat
  /\ DEFAULT_TRACEFILES \in Seq({DEFAULT_TRACEFILES[j] :
                                   j \in DOMAIN DEFAULT_TRACEFILES}) \ {<<>>}
  /\ heap_lo \in Nat \ {0} /\ HeapEnds \subseteq Nat
  /\ \A e \in HeapEnds : e >= heap_lo
  /\ PASSES \in Nat \ {0}

VARIABLES
  options, tracedir, tracefiles, run_libc,
  malloc,           \* whose turn it is: "libc" or "mm"
  tracenum,         \* i of main: the trace
  phase,            \* "options", "read" (of a trace), "start", "valid", "util",
                    \* "speed", "done", or "exit" after app_error or a libc
                    \* failure, "quit" after any other
  i,                \* i of the eval functions: the request
  blocks,           \* trace->blocks
  block_sizes,      \* trace->block_sizes
  ranges,           \* the range list, a sequence of [lo, hi]
  brk,              \* end of the heap
  total_size, max_total_size,
  passes,           \* timed passes that are over
  valid,            \* mm_stats[].valid
  errors,
  report,           \* what main prints at its end, a record
  wronged, given    \* auxiliary

mainVars == <<options, tracedir, tracefiles, run_libc, malloc>>
bookVars == <<blocks, block_sizes, ranges>>
utilVars == <<total_size, max_total_size>>
verdictVars == <<valid, errors, report>>
vars == <<mainVars, tracenum, phase, i, bookVars, brk, utilVars, passes,
          verdictVars, wronged, given>>

path  == [dir |-> tracedir, name |-> tracefiles[tracenum]]
ops   == Disk[path].lines
op    == ops[i]
index == op.index
size  == op.size
held  == Held(ops, i)

Init ==
  /\ options \in CommandLines
  /\ tracedir = TRACEDIR /\ tracefiles = <<>> /\ run_libc = FALSE
  /\ malloc = "libc" /\ tracenum = 1 /\ phase = "options" /\ i = 1
  /\ blocks = [x \in Ids |-> NULL] /\ block_sizes = [x \in Ids |-> 0]
  /\ ranges = <<>> /\ brk = heap_lo
  /\ total_size = 0 /\ max_total_size = 0 /\ passes = 0
  /\ valid = <<>> /\ errors = 0 /\ report = [printed |-> FALSE]
  /\ wronged = FALSE /\ given = [x \in Ids |-> NULL]

-----------------------------------------------------------------------------
(* The options, one by one.  -f is for one file of the current directory,  *)
(* whatever -t says; -h, like an option there is not ("?"), is the end.    *)
(* (Mutated: -t behind -f is not ignored.)                                 *)
TraceDir_Last(o) == IF o.o = "f" THEN Here ELSE o.arg
TraceDir(o) ==
  CASE o.o = "f" -> Here
    [] o.o = "t" /\ tracefiles # <<>> -> tracedir
    [] OTHER -> o.arg

Option ==
  /\ phase = "options" /\ options # <<>>
  /\ options' = Tail(options)
  /\ LET o == Head(options)
     IN  /\ phase' = IF o.o \in {"h", "?"} THEN "quit" ELSE phase
         /\ run_libc' = (run_libc \/ o.o = "l")
         /\ tracefiles' = IF o.o = "f" THEN <<o.arg>> ELSE tracefiles
         /\ tracedir' = IF o.o \in {"f", "t"} THEN TraceDir(o) ELSE tracedir
  /\ UNCHANGED <<malloc, tracenum, i, bookVars, brk, utilVars, passes,
                 verdictVars, wronged, given>>

OptionsEnd ==
  /\ phase = "options" /\ options = <<>>
  /\ phase' = "read"
  /\ tracefiles' = IF tracefiles = <<>> THEN DEFAULT_TRACEFILES ELSE tracefiles
  /\ malloc' = IF run_libc THEN "libc" ELSE "mm"
  /\ valid' = [t \in DOMAIN tracefiles' |-> FALSE]      \* calloc
  /\ UNCHANGED <<options, tracedir, run_libc, tracenum, i, bookVars, brk,
                 utilVars, passes, errors, report, wronged, given>>

(* read_trace: the arrays are fresh.  Otherwise exit or a failed assertion. *)
ReadTrace ==
  /\ phase = "read"
  /\ IF Readable(path)
     THEN /\ phase' = "start" /\ i' = 1 /\ passes' = 0
          /\ blocks' = [x \in Ids |-> NULL] /\ block_sizes' = [x \in Ids |-> 0]
     ELSE phase' = "quit" /\ UNCHANGED <<i, passes, blocks, block_sizes>>
  /\ UNCHANGED <<mainVars, tracenum, ranges, brk, utilVars, verdictVars,
                 wronged, given>>

(* Behind the last trace of libc comes the first one of the linked         *)
(* allocator, behind its last the report: how many traces were valid, and  *)
(* the performance index or the number of errors.                          *)
Report(vs, errs) ==
  [printed |-> TRUE, numcorrect |-> Cardinality({t \in DOMAIN vs : vs[t]}),
   errors |-> errs, perfindex |-> errs = 0]

NextTrace ==
  /\ IF tracenum < Len(tracefiles)
     THEN tracenum' = tracenum + 1 /\ phase' = "read" /\ UNCHANGED <<malloc, report>>
     ELSE /\ tracenum' = 1 /\ malloc' = "mm"
          /\ IF malloc = "libc"
             THEN phase' = "read" /\ UNCHANGED report
             ELSE phase' = "done" /\ report' = Report(valid', errors')
  /\ UNCHANGED <<options, tracedir, tracefiles, run_libc>>

-----------------------------------------------------------------------------
(* The range list.                                                         *)

Hits(p, r) == r.lo <= p /\ p <= r.hi

(* Whether add_range takes size bytes at lo, in a heap that ends at e.     *)
(* (Mutated: the end of the payload is not looked at; the upper end of the *)
(* heap is not.)                                                           *)
Acceptable_LoOnly(list, lo, e) ==
  /\ lo % ALIGNMENT = 0
  /\ heap_lo <= lo /\ lo < e /\ lo + size - 1 < e
  /\ \A j \in 1 .. Len(list) : ~Hits(lo, list[j])
Acceptable_Inclusive(list, lo, e) ==
  /\ lo % ALIGNMENT = 0
  /\ heap_lo <= lo /\ lo < e /\ lo + size - 1 < e
  /\ \A j \in 1 .. Len(list) : ~Hits(lo, list[j]) /\ ~Hits(lo + size, list[j])
Acceptable(list, lo, e) ==
  /\ lo % ALIGNMENT = 0
  /\ heap_lo <= lo /\ lo < e /\ lo + size - 1 < e
  /\ \A j \in 1 .. Len(list) :
        ~Hits(lo, list[j]) /\ ~Hits(lo + size - 1, list[j])

Record(list, lo) == <<[lo |-> lo, hi |-> lo + size - 1]>> \o list

(* remove_range unlinks the first record that starts at lo.  (Mutated: the *)
(* one in front of the list.)                                              *)
remove_range_Head(list, lo) == IF list = <<>> THEN list ELSE Tail(list)
remove_range(list, lo) ==
  LET at == {j \in 1 .. Len(list) : list[j].lo = lo}
  IN  IF at = {} THEN list
      ELSE SubSeq(list, 1, Min(at) - 1) \o SubSeq(list, Min(at) + 1, Len(list))

-----------------------------------------------------------------------------
(* The allocator.  A grant as the rules of MallocContract want it, judged  *)
(* by the trace and not by the driver's lists.                             *)
Disjoint(p, n, q, m) == p + n <= q \/ q + m <= p

Grants(r) ==
  /\ r.p # NULL /\ r.p % ALIGNMENT = 0
  /\ heap_lo <= r.p /\ r.p + size <= r.brk
  /\ \A x \in held \ {index} :
        Disjoint(r.p, size, blocks[x], SizeAt(ops, i, x))
  /\ op.type = "r" => r.kept

(* What mm_malloc, mm_realloc and mm_free may answer: the heap can only    *)
(* grow (mem_sbrk), and mm_free returns nothing.  libc has a heap of its   *)
(* own, and only its NULLs are looked at.                                  *)
Answers ==
  {r \in Reply : /\ r.brk >= brk
                 /\ op.type = "f" => r.p = NULL /\ r.kept
                 /\ malloc = "libc" => r.brk = brk /\ r.kept}

Wrongs(r) ==
  op.type # "f" /\ IF malloc = "libc" THEN r.p = NULL ELSE ~Grants(r)

(* An answer arrives; the auxiliary variables note it. *)
Takes(r) ==
  /\ brk' = r.brk
  /\ wronged' = (wronged \/ Wrongs(r))
  /\ given' = [given EXCEPT ![index] = r.p]

Failed(r) == op.type # "f" /\ r.p = NULL

-----------------------------------------------------------------------------
(* A pass over a trace: mem_reset_brk and mm_init, which leaves the heap   *)
(* with end e, or (libc) nothing.                                          *)
Pass(next) ==
  /\ phase' = next /\ i' = 1
  /\ IF malloc = "mm" THEN brk' \in HeapEnds ELSE UNCHANGED brk
  /\ given' = [x \in Ids |-> NULL]
  /\ UNCHANGED <<mainVars, tracenum, blocks, block_sizes, errors, report>>

(* eval_mm_valid, eval_libc_valid *)
StartValid ==
  /\ phase = "start" /\ Pass("valid")
  /\ ranges' = IF malloc = "mm" THEN <<>> ELSE ranges
  /\ wronged' = FALSE
  /\ UNCHANGED <<utilVars, passes, valid>>

(* malloc_error, and the trace is not valid.  (Mutated: add_range and its  *)
(* caller both report.)                                                    *)
Reject_Twice == errors' = errors + 2 /\ UNCHANGED <<i, passes, valid>> /\ NextTrace
Reject == errors' = errors + 1 /\ UNCHANGED <<i, passes, valid>> /\ NextTrace

(* mm_init failed *)
StartFails ==
  /\ phase = "start" /\ malloc = "mm"
  /\ ranges' = <<>> /\ brk' = heap_lo /\ wronged' = TRUE
  /\ Reject
  /\ UNCHANGED <<blocks, block_sizes, utilVars, given>>

(* app_error, unix_error: exit(1) *)
Exit ==
  /\ phase' = "exit"
  /\ UNCHANGED <<mainVars, tracenum, i, bookVars, passes, valid, report>>

(* The request is done.  (Mutated: the new address of a resized block is   *)
(* not noted.)                                                             *)
NewBlocks_NotMoved(r) ==
  IF op.type = "a" THEN [blocks EXCEPT ![index] = r.p] ELSE blocks
NewBlocks(r) ==
  IF op.type = "f" THEN blocks ELSE [blocks EXCEPT ![index] = r.p]
Advance(r) ==
  /\ i' = i + 1 /\ blocks' = NewBlocks(r)
  /\ UNCHANGED <<mainVars, tracenum, phase, passes, verdictVars>>

NewSizes ==
  IF op.type = "f" THEN block_sizes ELSE [block_sizes EXCEPT ![index] = size]

(* The comparison of a resized block's bytes with those it was filled      *)
(* with, index & 0xFF: an int, while newp[j] is a char and so signed.      *)
SignedChar(b) == IF b > 127 THEN b - 256 ELSE b
Preserved(r) == r.kept /\ SignedChar(index % 256) = index % 256

(* eval_mm_valid: the requests of mm_malloc and mm_realloc.  A NULL is     *)
(* refused before the list is touched; of a realloc the old record goes    *)
(* first, and the data is compared when the new one is in.                 *)
ValidAnswer(r) ==
  LET list == IF op.type = "r" THEN remove_range(ranges, blocks[index]) ELSE ranges
      fits == Acceptable(list, r.p, r.brk)
  IN  /\ phase = "valid" /\ malloc = "mm" /\ op.type # "f"
      /\ Takes(r)
      /\ ranges' = CASE r.p = NULL -> ranges
                     [] r.p # NULL /\ fits -> Record(list, r.p)
                     [] OTHER -> list
      /\ IF r.p # NULL /\ fits /\ (op.type = "r" => Preserved(r))
         THEN Advance(r) /\ block_sizes' = NewSizes
         ELSE Reject /\ UNCHANGED <<blocks, block_sizes>>
      /\ UNCHANGED utilVars

ValidFree(r) ==
  /\ phase = "valid" /\ malloc = "mm" /\ op.type = "f"
  /\ ranges' = remove_range(ranges, blocks[index])
  /\ Takes(r) /\ Advance(r) /\ UNCHANGED <<block_sizes, utilVars>>

(* eval_libc_valid: a NULL is reported like an allocator's error, and ends *)
(* the program.                                                            *)
LibcAnswer(r) ==
  /\ phase = "valid" /\ malloc = "libc"
  /\ Takes(r)
  /\ IF Failed(r)
     THEN Exit /\ errors' = errors + 1
     ELSE Advance(r) /\ UNCHANGED <<block_sizes, ranges>>
  /\ UNCHANGED utilVars

(* eval_mm_util: sizes are added up, and only NULL is noticed.  (Mutated:  *)
(* the old size is read after it has been overwritten; a free does not     *)
(* count.)                                                                 *)
NewTotal_Late ==
  CASE op.type = "a" -> total_size + size
    [] op.type = "r" -> total_size
    [] op.type = "f" -> total_size - block_sizes[index]
NewTotal_NoFree ==
  CASE op.type = "a" -> total_size + size
    [] op.type = "r" -> total_size + (size - block_sizes[index])
    [] op.type = "f" -> total_size
NewTotal ==
  CASE op.type = "a" -> total_size + size
    [] op.type = "r" -> total_size + (size - block_sizes[index])
    [] op.type = "f" -> total_size - block_sizes[index]

UtilStep(r) ==
  /\ phase = "util"
  /\ Takes(r)
  /\ IF Failed(r)
     THEN Exit /\ UNCHANGED <<utilVars, errors>>
     ELSE /\ Advance(r) /\ block_sizes' = NewSizes /\ UNCHANGED ranges
          /\ total_size' = NewTotal
          /\ max_total_size' = Max({max_total_size} \union
                                   IF op.type = "f" THEN {} ELSE {NewTotal})

(* eval_mm_speed, eval_libc_speed: sizes are not remembered.               *)
SpeedStep(r) ==
  /\ phase = "speed"
  /\ Takes(r)
  /\ IF Failed(r)
     THEN Exit /\ UNCHANGED errors
     ELSE Advance(r) /\ UNCHANGED <<block_sizes, ranges>>
  /\ UNCHANGED utilVars

Over(p) == phase = p /\ i > Len(ops)

(* The trace is valid; libc has no utilisation. *)
StartUtil ==
  /\ Over("valid") /\ malloc = "mm" /\ Pass("util")
  /\ valid' = [valid EXCEPT ![tracenum] = TRUE]
  /\ total_size' = 0 /\ max_total_size' = 0
  /\ UNCHANGED <<ranges, passes, wronged>>

(* ftimer_gettod calls eval_*_speed, again until it has been often enough. *)
StartSpeed ==
  /\ Over(IF malloc = "mm" THEN "util" ELSE "valid") /\ Pass("speed")
  /\ UNCHANGED <<ranges, utilVars, passes, valid, wronged>>

SpeedAgain ==
  /\ Over("speed") /\ passes + 1 < PASSES /\ Pass("speed")
  /\ passes' = passes + 1
  /\ UNCHANGED <<ranges, utilVars, valid, wronged>>

TraceDone ==
  /\ Over("speed") /\ passes + 1 = PASSES
  /\ UNCHANGED <<i, bookVars, brk, utilVars, passes, valid, errors, wronged, given>>
  /\ NextTrace

(* mm_init failed after it had worked for eval_mm_valid.                   *)
InitExits ==
  /\ malloc = "mm"
  /\ \/ Over("valid") \/ Over("util")
     \/ Over("speed") /\ passes + 1 < PASSES
  /\ valid' = [valid EXCEPT ![tracenum] = TRUE]
  /\ phase' = "exit" /\ brk' = heap_lo /\ wronged' = TRUE
  /\ UNCHANGED <<mainVars, tracenum, i, bookVars, utilVars, passes, errors,
                 report, given>>
-----------------------------------------------------------------------------
Answered(r) ==
  ValidAnswer(r) \/ ValidFree(r) \/ LibcAnswer(r) \/ UtilStep(r) \/ SpeedStep(r)

Next ==
  \/ Option \/ OptionsEnd \/ ReadTrace
  \/ StartValid \/ StartFails \/ StartUtil \/ StartSpeed \/ SpeedAgain
  \/ TraceDone \/ InitExits
  \/ phase \in {"valid", "util", "speed"} /\ i <= Len(ops)
        /\ \E r \in Answers : Answered(r)

Spec == Init /\ [][Next]_vars

-----------------------------------------------------------------------------
(* Properties.                                                             *)

Payload(x) == [lo |-> blocks[x], hi |-> blocks[x] + SizeAt(ops, i, x) - 1]

(* Every variable holds a value of its kind. *)
TypeOK ==
  /\ malloc \in {"libc", "mm"} /\ tracenum \in Nat \ {0} /\ i \in Nat \ {0}
  /\ phase \in {"options", "read", "start", "valid", "util", "speed", "done",
               "exit", "quit"}
  /\ blocks \in [Ids -> Addresses \union {NULL}] /\ block_sizes \in [Ids -> Nat]
  /\ \A j \in 1 .. Len(ranges) : ranges[j].lo \in Addresses /\ ranges[j].hi \in Nat
  /\ brk \in HeapEnds \union {heap_lo}
  /\ total_size \in Nat /\ max_total_size \in Nat /\ passes \in 0 .. PASSES - 1
  /\ valid \in [DOMAIN valid -> BOOLEAN] /\ errors \in Nat
  /\ wronged \in BOOLEAN /\ given \in [Ids -> Addresses \union {NULL}]

(* Whatever the allocator answers, the range list has one record for each  *)
(* block the trace holds, with the extent last asked for, and no other:    *)
(* remove_range finds the right record after a realloc has returned the    *)
(* address of another block, and nothing of an earlier trace is left.      *)
RangesAreHeldBlocks ==
  (phase = "valid" /\ malloc = "mm") =>
    /\ {ranges[j] : j \in 1 .. Len(ranges)} = {Payload(x) : x \in held}
    /\ Len(ranges) = Cardinality(held)

(* Whatever the allocator answers, a payload the driver has accepted is    *)
(* aligned and in the heap, and if two of them share a byte, one lies      *)
(* strictly inside the other.                                              *)
AcceptedPayloads ==
  (phase = "valid" /\ malloc = "mm") =>
    /\ \A x \in held : LET r == Payload(x)
                       IN  /\ r.lo % ALIGNMENT = 0
                           /\ heap_lo <= r.lo /\ r.hi < brk
    /\ \A x, y \in held :
          LET r == Payload(x)
              s == Payload(y)
          IN  \/ r.hi < s.lo \/ s.hi < r.lo \/ x = y
              \/ r.lo < s.lo /\ s.hi < r.hi
              \/ s.lo < r.lo /\ r.hi < s.hi

(* The driver reports an error, or gives up, only after an answer that     *)
(* broke the contract, or to a realloc of a block that is filled with a    *)
(* byte above 127 (mdriver.c:656).                                         *)
Resizes == phase = "valid" /\ malloc = "mm" /\ i <= Len(ops) /\ op.type = "r"
FairVerdict ==
  [][errors' # errors \/ phase' = "exit" =>
       wronged' \/ (Resizes /\ index % 256 > 127)]_vars

(* eval_mm_valid makes "sure that the new block contains the data from the *)
(* old block" (mdriver.c:649): it finds fault only with an allocator that  *)
(* has broken the contract.  False of the code (Preserved).                *)
NoFalseVerdict ==
  [][errors' # errors => wronged']_vars

(* eval_mm_util's running total is the sum of the sizes held, although     *)
(* block_sizes still has the sizes eval_mm_valid left in it, and its high  *)
(* water mark the largest there has been; so, as long as the allocator     *)
(* keeps the contract, the utilisation is at most 1.                       *)
SizeHeld(n) == MapThenSumSet(LAMBDA x : SizeAt(ops, n, x), Held(ops, n))
UtilisationAddsUp ==
  phase = "util" =>
    /\ total_size = SizeHeld(i)
    /\ max_total_size = Max({SizeHeld(n) : n \in 1 .. i})
    /\ ~wronged => max_total_size <= brk - heap_lo

(* In every pass, a block the driver resizes or frees is what the          *)
(* allocator returned last for that id in this pass, although blocks is    *)
(* kept from pass to pass and has been filled twelve times in the end.     *)
HandsBackHeld ==
  (phase \in {"valid", "util", "speed"} /\ i <= Len(ops) /\ op.type # "a") =>
    blocks[index] = given[index] /\ given[index] # NULL

(* While main goes through the traces, errors counts those it has found    *)
(* not valid.  What it prints in the end speaks of every trace it was      *)
(* asked for, and of the file given with -f in the current directory if    *)
(* there is one: a performance index if all were valid, else how many were *)
(* not.  A libc failure is never taken for one of the allocator's.         *)
ReportAddsUp ==
  /\ (malloc = "mm" /\ phase \in {"read", "start", "valid", "util", "speed"}) =>
        errors = Cardinality({t \in 1 .. tracenum - 1 : ~valid[t]})
  /\ report.printed =>
        /\ report.numcorrect + report.errors = Len(tracefiles)
        /\ report.perfindex <=> \A t \in DOMAIN tracefiles : valid[t]
  /\ (phase \notin {"options", "quit"} /\ tracefiles # DEFAULT_TRACEFILES) =>
        tracedir = Here

(* The payload must not overlap any other payloads (mdriver.c:407).        *)
AcceptedDisjoint ==
  (phase = "valid" /\ malloc = "mm") =>
     \A x, y \in held :
        x # y => Payload(x).hi < Payload(y).lo \/ Payload(y).hi < Payload(x).lo
=============================================================================
