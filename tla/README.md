# c-programming-toys: specifications, model checks, proofs

The repository is a collection of C programs written while working through
CS:APP and TLPI. Its one substantial system is the malloc lab: two heap
allocators, the simulated memory they live in, and the driver that judges and
times them. Around it lie small tools on files, streams and descriptors. This
directory holds TLA+ modules for the malloc lab and for the tools, the TLC
configurations that check them, and TLAPS proofs.

    tlc -workers 2 -config MmImplicit.cfg MCMmImplicit    # a run
    tlapm MmImplicit_proof.tla                            # the proofs of a module

## 1. Inventory

| part | source | state | operations | status |
|---|---|---|---|---|
| next-fit allocator | `malloc/mm_implicit.c` (= `malloc-package/mm1.c`), `mm.h` | boundary tags in the heap, `heap_listp`, `prev_bp` | `mm_init`, `mm_malloc`, `mm_free`, `mm_realloc` | modelled, proved |
| segregated allocator | `malloc/mm_segregated.c` (= `malloc-package/mm.c`), `mm.h` | boundary tags, 16 sorted doubly linked free lists inside the free blocks | the same four | modelled, proved |
| simulated memory | `malloc-package/memlib.c` | `mem_start_brk`, `mem_brk`, `mem_max_addr` | `mem_init`, `mem_sbrk`, `mem_reset_brk` | modelled, proved |
| trace driver | `malloc-package/mdriver.c` | options, trace list, `blocks`, `block_sizes`, range list, verdicts, `errors` | options, `read_trace`, per trace `eval_mm_valid`, `eval_mm_util`, `eval_mm_speed`, the libc passes, the report | partly modelled, proved |
| K-best timer | `malloc-package/fcyc.c`, `fsecs.c` | `values`, `samplecount`, the settings, `cache_buf` | setters, `clear`, `add_sample`, `has_converged`, `fcyc`; the choice of a timer | modelled, proved |
| counters | `clock.c`, `ftimer.c` | a 64-bit counter in two words, the price of a timer tick, the interval timer | start, read, `callibrate`, correct; the two timers of `ftimer.c` | partly modelled, proved |
| line deletion | `sysio/mylined.c` | a file being edited in place, two offsets | find line, move tail, truncate | modelled, proved |
| copy tools | `sysio/mycp_sysio.c`, `cp/*.c`, `stdio/mycp_*.c` | two descriptors or streams, a buffer | read/write loop, holes | modelled, proved |
| getline | `stdio/my_getline.c` | a growing buffer, its size, a cursor | read a line | modelled, proved |
| directory tools | `fs/mydu.c`, `fs/myls.c` | the calls in progress, each with its list of entries and its sum | recursion over a tree | modelled, proved (`myls` is empty) |
| demonstrations | `sysio/ab.c`, `dup_redirect.c` | the buffer of stdout, descriptor 1 | print, write directly, redirect | modelled, proved |
| library | `lib/*` | `errno`, the buffer of stdout, the fate of the process | report, report and end; number parsing | partly |

How they interact. The driver runs trace after trace; for each it calls
`mem_reset_brk` and `mm_init`, then one allocator call per request, twelve
times over (`eval_mm_valid`, `eval_mm_util`, ten timed passes). An allocator
calls `mem_sbrk` and nothing else. The arena is never cleared, so every pass
starts on what the last one left. Nothing in the malloc lab is concurrent and
nothing is persistent (only a timed function and the timer interrupts share a
counter, and a forked child shares the terminal with its parent): what is hard
here is long sequences of legal calls on a self-describing data structure in
which the tags, the links and the client's data share the same words; state
kept between calls (`prev_bp`, the lists); failures in the middle of a call;
and 32-bit arithmetic.

What makes each part correct:

* allocators: tags tile the heap; free neighbours are merged; every block is
  accounted for; no write ever hits data a client holds; `mm_realloc` keeps the
  contents; searches end and miss nothing; the contract of the driver is kept.
* memory: areas are disjoint and make up the heap; the break never passes the
  arena's end, and never falls (which wrapping sums break, section 4).
* driver: the range list mirrors the trace; no false verdict (but for some ids)
  and no overlap accepted (but for nested ones, section 4); what is handed back
  was handed out in this pass; utilisation and report add up.
* timer: the K best samples, stop on convergence or limit, return the best; no
  tick is thought cheaper than the cheapest is; times survive the wrapping of
  words.
* copies: pieces in order; the target is the source, or there is a complaint
  (which not all tools keep to, section 4).
* line deletion: that line goes and nothing else; read before overwritten.
* getline: every line whole, within a buffer of the size the caller is told.
* mydu: every path below the argument counted once, `.` and `..` never; a figure
  for every argument (which a directory without a visible entry prevents).
* messages: after what was printed before; nothing repeated by a child that fails
  quietly; nothing kept back at `exit`; `errno` kept.

`PROJECT.json` lists the hazards with their lines and the properties for each.

## 2. Modules

| module | models | uses |
|---|---|---|
| `MemLib` | arena, word and pointer arithmetic, `mem_sbrk`'s test and effect as operators | |
| `MemSbrk` | `memlib.c` as a component: any increments, resets | `MemLib` |
| `BoundaryTags` | the macros of `mm.h`, the tag rewriting both allocators share, and what a well-formed heap is | `MemLib` |
| `TraceClient` | the client: what the driver holds and writes, the frame of a call | `BoundaryTags` |
| `MmImplicit` | `mm_implicit.c` | `TraceClient` |
| `MmSegregated` | `mm_segregated.c` | `TraceClient` |
| `MallocContract` | abstract: what `eval_mm_valid` and `add_range` demand of any allocator | |
| `StaleMemory` | two copies of `MmSegregated` on the same trace, one over old memory, one over fresh | `MmSegregated`, twice |
| `Mdriver` | `mdriver.c` against any allocator | |
| `Clock` | the counter and the tick correction of `clock.c` | |
| `Fcyc` | the K-best sampler | `Clock` |
| `Fsecs` | `fsecs.c`, `ftimer.c`: a timing by any of the three timers | `Fcyc` |
| `Files` | external: what read, write, lseek, ftruncate do to a regular file | |
| `CopyFile` | the six copy tools | `Files` |
| `LineEdit` | `mylined.c` | `Files` |
| `GetLine` | `my_getline` and its `main` | `Files` |
| `DiskUsage` | `mydu.c` | |
| `StdStreams` | `error_functions.c`, and what `ab.c`, `dup_redirect.c` and a fork do around it | |
| `FileTools` | one of the programs, run on any file or directory | the five |
| `TraceClient_proof` | lemmas on tags, on the client and on the arena, for both allocators | `TraceClient`, TLAPS |
| `MmImplicit_proof`, `MemSbrk_proof` | the theorems on the next-fit allocator and on the memory | these |
| `MmSegregated_proof` | the theorems on the segregated allocator, after lemmas on the free lists and on lists and tags together | `MmSegregated`, `TraceClient_proof` |
| `StaleMemory_proof` | the theorem on the two copies | `StaleMemory`, `MmSegregated_proof` |
| `Mdriver_proof` | the theorems on the driver, and the lemmas on maxima and sums they need | `Mdriver`, TLAPS |
| `Fsecs_proof` | the theorems on the timers and the sampler | `Fsecs`, TLAPS |
| `FileTools_proof` | the theorems on the file tools, `mydu` and the messages | `FileTools`, TLAPS |
| `MC*` | small instances | |

### State and steps of the allocators

`mem` maps each word address of the arena to a tag (`[size, alloc]`), a link (in
the segregated allocator), the id a client has written there, or junk. A word
read as the wrong kind stops TLC, so any navigation through payload shows as an
error and not as a plausible number. `mem_brk` is the break. `ptr` and `psize`
are the driver's `blocks` and `block_sizes`; `call`, `pc` and `bp` are the frame
of the call in progress. `blks` is auxiliary: the addresses of the blocks laid
out, maintained by the operations that split and merge, and read by no guard.

One action is what a call does between two turns of its search loop:

* `mm_init` - `mem_reset_brk` and `mm_init`, over whatever is in memory;
* `CallMalloc`, `CallRealloc` (`ReallocKeep`, `ReallocMerge`, `ReallocExtend*`,
  `ReallocSearch` in the segregated allocator), `CallFree`;
* `SearchUp`, `WrapAround`, `SearchLow`, `NoFit` - the two loops of `next_fit`;
  `SkipList`, `EnterList`, `TooSmall`, `EndOfList`, `NoFit`, `TakeFit` - those
  of `find_fit`;
* `Grow`, `GrowFails` - `extend_heap` and `place`, or NULL;
* `Move` - `memcpy` and `mm_free` of `mm_realloc`;
* `Return` - the driver takes the result and fills the payload with its id.

`coalesce`, `insert_node`, `delete_node`, `place`, `extend_heap` and `mm_free` are
operators with the code's names, from the heap before to the heap after; a heap of
the segregated allocator is the pair of words and list heads (`CurrentHeap`).
`Gap` is the walk of `insert_node`, a recursive function along the links; `Node`
is what a link may be, a word address or `NULL`. Words of 4 bytes are the unit of
memory: the driver fills bytes, and a last word covered in part counts as filled,
which asks more of the allocator and not less, since payloads are doubleword
aligned. A copy of `memcpy` that ends inside a word is likewise rounded up to the
word, which lies inside both blocks.

`mm_init` cannot fail in the model because `ChunkAssumption` leaves room for the
first chunk, as 20 MB do. `SizesAssumption` keeps request sizes below the point
where `size + 15` or the break would wrap; `MemSbrk` looks at what happens beyond,
in an arena in the upper half of the address space, where mmap puts 20 MB. Its
auxiliary `wrapped` says that the sum of break and increment has. The search of
requests of 2^LIST_MAX bytes or more finds no list (`find_fit` halves the size
once per list), which `BestFit` excepts.

### Spec and SoundSpec of MmSegregated

`mm_realloc` has a defect (section 4): when the next block is free, too small
and not the last, the heap is extended elsewhere and the growth counted to this
block. From then on the heap is destroyed and nothing holds. `ReallocExtendPast`
is exactly these calls; `Spec` has them, `SoundSpec` leaves them out, and all
positive results are about `SoundSpec`. The other branch of the same code, where
the block is the last, or the one behind it is, is `ReallocExtendLast` and is
part of both.

### Stale memory

`StaleMemory` EXTENDS `MmSegregated` and has a second INSTANCE of it whose
variables begin with `cold_`. A step is one of both on the same request. At
`mem_reset_brk` the first keeps all that is in the arena and in `free_lists`, as
the code does; the second starts over an arena nobody has written. That the two
never differ in an answer is why a trace that was valid once cannot fail in the
eleven passes that follow, where a NULL would end the program (`app_error`).

### The driver

`Mdriver` goes from the command line to the report: `Option` is a turn of the
`getopt` loop, `OptionsEnd` what follows it, `ReadTrace` takes a file or ends the
program (no such file, a line of another kind, ids or lines the header does not
announce), `StartValid` to `TraceDone` are the passes, first over libc with `-l`,
then over the linked allocator, `NextTrace` the loop and `Report` the last
lines. In the passes a request and its answer are one step, and the answer is any
`Reply`: NULL or any address, a heap that may have grown, contents kept or not.
Nothing is assumed of it; the auxiliary `wronged` says that some answer has
broken the contract since the trace began, and the bound on the utilisation,
which is false of a lying allocator, is stated for the passes without one. What
`eval_mm_valid` makes of a block that has kept its bytes is `Preserved`: it compares
a `char`, which is signed in this build, with an int from 0 to 255. `given`
is auxiliary too: what was answered last for an id in this pass. Files are a
constant; those that are traces satisfy what every `*-bal.rep` satisfies
(`TracesAssumption`: an id is allocated before it is resized or freed and never
twice, and no request is for 0 bytes). The
number of timed passes is that of `ftimer_gettod`, which `config.h` selects.

### The timers

`Clock` has the 64-bit counter as `(hi, lo)`, words of `WORD` values, and
`get_counter`'s borrow. Each timer tick has a cost of its own, one of `TickCosts`,
which lie from `CheapTick` to `DearTick`, and each turn of `callibrate`'s loop one
of `TurnCosts`. A tick comes anywhere: also between the reading of the tick count
and that of the counter, before the loop (`stray`: counted, its cycles not seen)
or in it (`owed`: its cycles are seen in the next turn). One turn of the loop is a
step. `Fcyc` is the setters, the buffer of `clear`, and the loop of `fcyc`; a
sample is one step, except that the estimation of a tick's price comes before the
first one. `Fsecs` chooses the timer; in `ftimer.c` a call of f is a step, and the
interval timer, which counts down, ends the program at 0.

### The file tools

A file is a sequence over text bytes, `NL` and `NUL`. `read` returns any number of
bytes up to `BUFSIZE`, none at the end; a write reaches the file in whole or in
part, of one byte at least, or fails; a descriptor is its offset. `FileTools`
starts one program with any arguments; it runs alone, so that a system call is a
step, and a read with the write that follows it is one in `mylined`.

* `CopyFile`: `StartCopy` is the two opens, `Read` and `CopyEnds` the loop's
  condition, `WriteAgain` the inner loop of `mycp_sysio`, `WriteWhole` that of
  `cp_tlpi`, `WriteRun` and `SkipZeros` (whose `lseek` may fail, which is fatal)
  the runs of `cp_holes`, `WriteStream` the put of the three stdio versions. The
  tools share the loop, so they share a module; `tool` says which one runs. A put
  into a stream reaches the file, in part or not at all: the stream's buffer only
  delays that. Auxiliary: `faulty`, some call has failed or been short; `lost`, the
  first place in the target where a byte of the source should be and is not.
* `LineEdit`: `Locate` (one chunk of the scan), `Seek`, `Shift`, `Cut`. The scan
  of a chunk is stated by what it finds: `Hits` are the places where the count
  of breaks is `lineno`, `NewPrev` the first place other than offset 0 with one
  break less. A failed open leaves `BadFd`, which the program notices only when
  it uses it. `lineno` is a `size_t`, so a negative argument becomes a huge number
  (`SIZE_MAX`); offsets are ints, and files are no longer than `INT_MAX`. Auxiliary:
  `spoiled`, a write was short, which the program does not notice.
* `GetLine`: `CallGetline` is my_getline up to its loop, `Char` one turn.
  `cur_pos` is a pointer into a region, and `realloc` may return another region,
  so that a cursor not derived again would be seen.
* `DiskUsage`: `frames` is the stack of calls of `mydu`. `Entries` is what the two
  calls of glob leave in the list, in order, with `.` and `..` among them;
  `path_check` tells these by the last part of the path. Names are abstracted:
  an entry is hidden or not.
* `StdStreams`: a process is where it is in a call, its stdio buffer, `errno`, and
  auxiliary what it has printed. A flush, a message and a direct write are a step
  each, so parent and child may mix. The programs are all sequences of these
  steps: `ab.c` is `Puts`, `Write`, `Puts`, `terminate`; `dup_redirect.c` is
  `Redirect`, `Puts`, `terminate`. A flush may happen at any put. `dup2` may fail,
  which the program does not notice and goes on without a redirection. A write may
  fail or be short: the first pieces arrive (`Arrives`), and stdio keeps or drops
  the rest (`Written`). `printed` does without what such a write was to bring.

## 3. Runs

| run | configuration | checks | states |
|---|---|---|---|
| implicit_safety | `MmImplicit.cfg` | ten properties of the next-fit allocator | 166,561 |
| implicit_live | `MmImplicitLive.cfg` | every call returns | 60,010 |
| segregated_safety | `MmSegregated.cfg` | heap, lists, owners, payloads, contract of the segregated allocator | 469,196 |
| segregated_search | `StaleMemory.cfg` | best fit; same answers over stale memory; every call returns | 60,241 |
| sbrk_any | `MemSbrk.cfg` | areas tile the heap until a sum wraps; the break stays in front of the arena's end | 9,007 |
| driver_any | `Mdriver.cfg` | list, verdicts, utilisation and report, for any allocator | 58,973 |
| k_best | `Fcyc.cfg` | K best, convergence, tick price, ftimer | 210,268 |
| file_tools | `FileTools.cfg` | copies, line deletion, getline, mydu, messages; every program ends | 482,269 |
| segregated_overlap | `MmSegregatedNoOverlap.cfg` | violated: payloads overlap | |
| segregated_oom | `MmSegregatedReallocFailsCleanly.cfg` | violated: NULL is written to | |
| driver_nested | `MdriverOverlap.cfg` | violated: a nested payload is accepted | |
| line_edit_sed | `LineEditSed.cfg` | violated: line 1 is not deleted | |

The last four each check one claim of the repository's docs or comments that is
false of the code. More such claims are stated in the modules, beside the property
that holds in their place, and have no run of their own (section 4):
`NeverShrinks`, `NoFalseVerdict`, `DeletedWhenDone`, `SysioCopies`, `HolesCopies`,
`FgetsCopies`, `LastLineReturned`, `SameAsDu`. Put into `MemSbrk.cfg`, `Mdriver.cfg`
or `FileTools.cfg`, each is violated within seconds.

### What the properties say

* `HeapTiled`, `HeapCoalesced`, `NoLeak`, `PayloadsIntact`, `ReallocKeepsData`
  relate all of memory to all of the client's pointers, after every step and in
  the middle of calls. In `MmSegregated`, `HeapTiled` says all that is said of
  tags (tiled and coalesced) and `PayloadsIntact` all that is said of contents.
* `SearchStartOnBlock` is why `next_fit` ends: `coalesce` must repair `prev_bp`
  when the block it points at is merged away.
* `GrowOnlyIfNoFit` (next fit) and `BestFit` (segregated: the smallest block that
  fits, and growth only when there is none) are about the searches;
  `BoundedSlack` about splitting.
* `FreeListsExact`: the lists hold exactly the free blocks, each in the list of
  its size, sorted, with links that agree both ways.
* `SameAnswers`: an allocator's answers do not depend on what an earlier pass left.
* `ImplementsContract`: refinement. `brk <- mem_brk` and the client's arrays are
  those of `MallocContract`; every step is a grant, a release, a growth, a reset
  or a stutter.
* `AreasTileHeap`: as long as no sum of break and increment has wrapped, the heap is
  exactly the areas handed out, and no two share a byte; wrapped or not, the break
  is never beyond the arena's end. That it never falls is `NeverShrinks`, false.
* `RangesAreHeldBlocks`, `AcceptedPayloads`, `FairVerdict` bound what the driver
  can conclude from any allocator's answers. `FairVerdict` excepts what the code does
  not get right: a realloc of a block whose id has a low byte above 127, which is
  reported whatever the allocator did (`NoFalseVerdict`, false, has no exception).
  `HandsBackHeld` is what the driver gives back, in every pass; `UtilisationAddsUp`
  and `ReportAddsUp` what it adds up and prints.
* `KBest`, `StopsWhenConverged` compare the sampler with a definition by counting,
  over the times a perfect counter would show. `TimeOfRuns`: what is returned is the
  best, or the time of all calls.
* `TicksPaidFor`: the code takes the lowest price it has seen. So the price is never
  below the cheapest tick's cost, and not above the dearest's by more than the
  threshold; and a corrected time has left in it at most what its tick took more
  than the cheapest. It does not say that no cycles of ticks are left: where costs
  differ, some are.
* `CopyInOrder`: with any short and failing calls the target is, up to the first byte
  that went missing (`lost`), the source as far as it goes. `CopyOrComplain`: a tool
  that compares write's result has had no failed or short call if it ends without a
  complaint; the others then have the source's length, but for what `cp_holes` leaves
  out at the end, and what streams lose by a failed call or a zero in a line. Neither
  says that the target is the source: for `mycp_sysio`, `cp_holes` and `mycp_fgets`
  that is `SysioCopies`, `HolesCopies` and `FgetsCopies`, all false.
* `DeletesLine`: that line and nothing else goes, if no write was short and the line
  can be told from "not found" (`Tellable`); a negative number changes nothing. Its
  part `ReadBeforeWritten` is why editing through two descriptors works, and holds
  with short writes too. `SameAsSed` (any line) and `DeletedWhenDone` (any writes) are
  false.
* `LineInBuffer` ties cursor, count, size, buffer and stream, and says that every
  line with a break is delivered once, and nothing else but perhaps a last line
  without one. That such a line is delivered is `LastLineReturned`, false.
* `UsageOfTree` compares each figure with the blocks of all paths below its
  argument, counted as a set and so once each; and the program gives up only if a
  call failed or a directory has no visible entry. That it should not do so over the
  latter is `SameAsDu`, false.
* `MessagesInOrder`: a message comes after what its process had printed before; a
  child that fails with `err_exit` repeats none of its parent's output; what was
  printed at `exit` has arrived; `errMsg` keeps `errno`. All of it but for what failed
  writes were to bring. No order is claimed between what is printed and what is
  written to the descriptor directly (`ab.c` shows there is none), and nothing of
  what is in the buffer at `_exit` and `abort`, which drop it.

### Bounds, and why they are enough

* The arena has 80 bytes (16 of them padding, prologue and epilogue), so up to
  four minimum blocks: enough for a block with neighbours on both sides in all
  four cases of `coalesce`, with one more block between or behind.
* Three ids give live blocks on both sides of a free one; two suffice for
  termination.
* Sizes: the smallest (8), ones that split and ones that do not, one above the
  chunk, and 116, which no arena here can satisfy: out of memory is reached with
  and without a realloc in progress, and `INT_MAX = 127` makes the int argument
  of `mem_sbrk` matter. In `StaleMemory` the sizes leave free blocks of
  several classes and several blocks in one list; its arena is used up by the
  first chunk, so that every growth fails there. Growth that succeeds is in
  `MmSegregated`.
* `CHUNKSIZE` is 32 or 56 for 4096, `LIST_MAX` 6 for 16 and `BACK_SIZE` 24 or
  32 for 96, so that blocks are cut at both ends and grown. The arena of
  `MemSbrk` has the 32 bytes from 184 on, in an address space of 256 with
  `INT_MAX = 127`: increments reach its end, pass it, and pass the end of the
  address space.
* `mm_init` may be called at any time between calls: every state is also the
  memory some later trace starts on.
* Driver: three traces, of six and three requests, with a reused id, a realloc
  that grows and one that shrinks, blocks never freed, and an id of 200, whose low
  byte is negative as a char; addresses aligned and
  not, overlapping, nested, at and beyond the end of the heap; three files that
  are no traces; ten command lines, with `-f` and `-t` in both orders, `-l`, `-h`
  and a directory without traces; three timed passes for ten.
* Timers: words of 4 bits for 32, so that both wrap within a sample; five times
  within, at and beyond one percent of each other; K from 1 to 3, at most five
  samples; ticks of 40 and of 55 cycles and turns of 4 and of 10, with the
  thresholds 10 and 20 for 1000 and 3000 (`TickAssumption` states the relation
  that matters), two observed ticks (`NEVENT`) for 100; `ftimer.c` with three
  calls for ten and seconds of 10 microseconds, so that most readings lie in
  different seconds, and calls long enough for the interval timer to run out.
* Trees: all of up to four nodes, each a file or a directory, hidden or not, with
  powers of two as block counts, so that a sum shows what is in it; no
  argument, one, and two of which one may lie inside the other.
* Messages: a parent and one child, two values of `errno`, two pieces of output
  (`MaxPrints`), so that a write can bring one and lose the other, and one message
  (`MaxReports`) in all. The theorem has no bound on either.
* Files: every content of up to four bytes over two text bytes, `NL` and `NUL`,
  and up to six over one text byte and `NL`, with buffers of three bytes: lines
  and runs of zeros lie within a chunk, at its edge and across two; line numbers
  -1 to 3, so past the end too (`INT_MAX` 7, `SIZE_MAX` 15); `MALLOCSIZE` 2, so
  that a line of six doubles the buffer twice. The target of a copy is an older,
  longer file, or the source.
* Symmetry over ids is sound: they are compared for equality and written into
  payloads only. It is not used where liveness is checked.
* Deadlock is checked in the next-fit and memory runs. Elsewhere the program does
  end: after a write to NULL, when the timer has no memory or runs out, and when
  the driver or a tool is done.

### Fairness

`FairSpec` has weak fairness of `AllocatorStep`, the disjunction of all steps
inside a call (in `StaleMemory`, of the step both copies take). It is sequential C
in one process: a call that can take its next step does. Nothing is assumed of the
client, which may stop calling. `FileTools` assumes the same of a program that has
been started; it assumes, as everywhere, that a write of some bytes writes one at
least or fails, as POSIX has it for files. The driver and the timer have no
liveness property: the driver's loops are bounded by counters, and the timer's by
`maxsamples`, except for `callibrate`, which waits for ticks that nothing in the
code brings about.

## 4. Findings

1. `mm_segregated.c:330`: `mm_realloc` counts heap growth to a block it does not
   adjoin; payloads of others come to lie inside it. Trace of `NoOverlap`: three
   blocks, the middle one freed, the first one resized beyond the gap.
2. `mm_segregated.c:342`: `mm_realloc` does not test the result of `mm_malloc`.
3. `mdriver.c:409`: `add_range` misses a new payload that encloses an old one.
   This is the overlap that finding 1 produces, so the driver does not report it
   when the block is granted.
4. `mylined.c:45`: 0 stands for "no break seen yet" and for the first offset, so
   `prevbrk` is set twice: line 1 keeps its first two bytes (an empty line 1, or
   a line 2 behind one, is not deleted properly either), without a message.

Claims of docs and comments that are false of the code, stated in the modules but
without a run of their own:

* `memlib.c:62` (`NeverShrinks`): the sum of break and increment can wrap, when the
  arena lies high in the address space and the increment is close to 2 GB. It passes
  the test, and the break falls below the arena; `memlib.c:55-56` says it cannot.
* `mdriver.c:656` (`NoFalseVerdict`): bytes are compared as signed chars with an
  int of 0 to 255, so that `mm_realloc` of an id with a low byte above 127 is
  always reported as having lost its data.
* `mylined.c:96` (`DeletedWhenDone`): a short write is not noticed; bytes of the lines
  behind are lost or doubled, though `README.md:13-15` promises what `sed` does.
* `mycp_sysio.c:51` (`SysioCopies`): after a short write the rest is written from the
  start of the buffer (`pos` is computed and not used); the comment at 45-48 says
  that the loop is there for partial calls.
* `cp_holes.c:49` (`HolesCopies`): zeros at the end of the source are missing in the
  copy; `README.md:11` calls it a cp that copies files with holes.
* `mycp_fgets.c:30` (`FgetsCopies`): what follows a zero in a line is lost.
* `my_getline.c:36` (`LastLineReturned`): a last line without a line break is lost;
  `stdio/man_getline:33-41`, which `README.md:12` says it follows, returns it.
* `mydu.c:52` (`SameAsDu`): a directory without a visible entry ends the program,
  wherever it lies in the tree; `README.md:17` says that it does what `du -s` does.

Seen while modelling:

* `mycp_sysio.c:51`: after a failed write the tool complains, goes on and exits
  with 0. The stdio tools do not look for errors at all.
* `mylined.c:62`: a last line without a line break is "No Line".
* A copy of a file onto itself empties it, in all six tools.
* `mydu.c`: names with `*`, `?` or `[` are patterns to glob, and paths that
  fill the buffer are cut (both outside the model). A file with two links is
  counted twice, unlike in `du`.
* `clock.c:263`: a corrected time may be negative (a tick may be counted whose
  cycles were not, and the price may be that of a dearer tick); `fcyc` then keeps
  it as the shortest and does not converge (`ConvergedAt` says so).
* `fcyc.c:203`: `set_fcyc_cache_block` takes a stride below the size of an int, and
  the loop of `clear` then does not advance.
* `error_functions.c:176`: `usageErr` and `cmdLineErr` ignore `EF_DUMPCORE`, and
  write in two pieces, between which another process may write.

## 5. Proofs

All for arbitrary constants that satisfy the named assumptions. For the allocators
and the memory: `ArenaAssumption` (an aligned arena inside the address space,
anywhere in it), `ChunkAssumption`, `SizesAssumption`, `IncrementsAssumption`
(ints), `ListAssumption` (at least one list). For the driver: `TracesAssumption`.
For the timers: `TickAssumption` (the costs of ticks have a least and a largest
one, and a turn of `callibrate`'s loop without a tick is no longer than the
distance of its two thresholds), `SamplerAssumption` (K and the limit are
positive, and no sample is longer than the counter's two words count) and
`TimerAssumption`. For the tools: `FilesAssumption`, `ContentsAssumption` and
`LineEditAssumption` (kinds, and a `size_t` wider than an int),
`GetLineAssumption` (`MALLOCSIZE` is at least 2) and `TreesAssumption`: what is
walked are trees (`IsTree`: finite, and no directory is below itself, which is
what a file system without links to directories gives). `PowersOfTwo` is a fact of
arithmetic (`2^0 = 1`, `2^(k+1) = 2 * 2^k`) that the provers do not know; nothing
in the code is assumed by it.

| theorem | of | states |
|---|---|---|
| `TypeCorrect` | `MmImplicit` | `Spec => []TypeOK` |
| `TagsTileTheHeap` | | `Spec => []HeapTiled` |
| `NoFreeNeighbours` | | `Spec => []HeapCoalesced` |
| `RoverOnBlock` | | `Spec => []SearchStartOnBlock` |
| `OwnersAccountForBlocks` | | `Spec => []NoLeak` |
| `PayloadsSurvive` | | `Spec => []PayloadsIntact` |
| `ReallocCopies` | | `Spec => []ReallocKeepsData` |
| `NextFitIsExhaustive` | | `Spec => []GrowOnlyIfNoFit` |
| `SlackIsBounded` | | `Spec => []BoundedSlack` |
| `Refinement` | | `Spec => ImplementsContract` |
| `TypeCorrect` | `MmSegregated` | `SoundSpec => []TypeOK` |
| `TagsTileTheHeap` | | `SoundSpec => []HeapTiled` (tiled and coalesced) |
| `ListsHoldTheFreeBlocks` | | `SoundSpec => []FreeListsExact` |
| `OwnersAccountForBlocks` | | `SoundSpec => []NoLeak` |
| `PayloadsSurvive` | | `SoundSpec => []PayloadsIntact` |
| `FindsBestFit` | | `SoundSpec => []BestFit` |
| `Refinement` | | `SoundSpec => ImplementsContract` |
| `AnswersAreTheSame` | `StaleMemory` | `BothSpec => []SameAnswers` |
| `TypeCorrect` | `Mdriver` | `Spec => []TypeOK` |
| `ListMirrorsTrace` | | `Spec => []RangesAreHeldBlocks` |
| `AcceptedAreApart` | | `Spec => []AcceptedPayloads` |
| `UtilisationIsRight` | | `Spec => []UtilisationAddsUp` |
| `HandsBackWhatItGot` | | `Spec => []HandsBackHeld` |
| `ReportIsRight` | | `Spec => []ReportAddsUp` |
| `VerdictIsFair` | | `Spec => FairVerdict` |
| `AreasAreTheHeap` | `MemSbrk` | `Spec => []AreasTileHeap` |
| `TypeCorrect` | `Fsecs` | `Spec => []TypeOK` |
| `KeepsTheBest` | | `Spec => []KBest` |
| `StopsInTime` | | `Spec => []StopsWhenConverged` |
| `TicksArePaid` | | `Spec => []TicksPaidFor` |
| `TimeIsRight` | | `Spec => []TimeOfRuns` |
| `CopiedInOrder` | `FileTools` | `Spec => []CopyInOrder` |
| `CopiedOrComplained` | | `Spec => []CopyOrComplain` |
| `LineDeleted` | | `Spec => []DeletesLine` |
| `LinesStored` | | `Spec => []LineInBuffer` |
| `UsageIsRight` | | `Spec => []UsageOfTree` |
| `MessagesOrdered` | | `Spec => []MessagesInOrder` |

What the less obvious ones say, and what they leave open, is in section 3;
`AnswersAreTheSame` is about calls without `ReallocExtendPast`.

### The lemmas both allocators share

`TraceClient_proof` begins with the lemmas on tags: what `PutTags` leaves alone, that
merging with the next block, the previous one or both, splitting, taking whole
and extending each turn a tiled heap into a tiled heap, with the set of blocks
changed as `Absorbed` and `Placed` say. They are stated over a memory and a set
of blocks given as new constants, so that they serve unprimed and primed states
alike. The arithmetic of the arena follows, what a grown break leaves alone, and
what the driver's fill writes.

### The next-fit allocator

The inductive invariant of `MmImplicit_proof` is

    IInv == TypeOK /\ StructureInv /\ OwnerInv /\ CallInv /\ SearchInv

None of the properties is inductive alone. That tags tile the heap after a
`free` needs that the pointer freed is a block (`OwnerInv`: the allocated blocks
are exactly those owned, and no two owners share one); that needs the cursor of
the search to be on a block (`SearchInv`); that needs `prev_bp` to be on one; and
that needs that `coalesce` moves it when, and only when, its block has gone.
`CallInv` ties the frame of a call to the client's arrays. On top of `IInv`,
`DataInv` (payloads and copies) is preserved because a step writes only tags of
blocks and words of blocks that are free or its own, and `SeenInv` says that all
blocks the search has passed do not fit, which at `grow` is
`GrowOnlyIfNoFit`. Each proof has one step per action. Refinement maps each
action to one of the contract, or to a stutter, from the same invariant.

`BoundedSlack` speaks of the moment a call returns. `SlackInv` carries it from
`place`, which splits whenever two minimum blocks' words are left, so that the
block it leaves is smaller than `new_size + 16`, to the return; between the two,
`Move` frees the old block, and the new one, which is allocated, is not merged.

### The segregated allocator

The links of a free list lie in the blocks' payloads and the tags around them, so
that tags, lists and client data are three claims on the same words, and none
survives a step without the others. The invariant

    IInv == TypeOK /\ StructureInv /\ OwnerInv /\ CallInv /\ SearchInv

has for `StructureInv` that the heap is `Sound`: tiled by tags, without free
neighbours, with lists that hold exactly the free blocks (`FreeListsExact`).
`OwnerInv` and `CallInv` are as above. `SearchInv` says where `find_fit` is: the
block it looks at is in the list it is in, all blocks of the lists before and of
this list before the cursor are too small (`Seen`, `SeenList`), and the lists
before are those the request cannot be in (`ClosedFrom`), which gives `BestFit`.

`MmSegregated_proof` begins with the lists alone. A list is given by a numbering
of its members in the order of the links. From it: the walk of `insert_node`
(`Gap`) is a recursive function along the links; that a function with that
equation exists, which TLA+ does not give for nothing, is shown over the
numbering, and that it ends at the first block not smaller than the new one by
least numbers (`LeastNumber`, from the library's well-founded induction).
Inserting at a gap and unlinking then turn a numbered list into a numbered list,
whatever the rest of memory holds. Its second part joins this with the lemmas on
tags: `delete_node`, `insert_node`, `coalesce`, both cases of `place`
and `extend_heap` each turn a sound heap, or one with one block not yet listed,
into such a heap, and write only words of free blocks and tags. Its third part
has one step per action on top of that. `PayloadsIntact` is
proved in two halves, the payloads of live blocks and the bytes a realloc in
progress has moved. `ReallocExtendPast` is not in `SoundSpec` and not in the
proofs: it is the step that makes all of this false (section 4).

### The two copies over old and over fresh memory

`SameAnswers` relates two programs, so its invariant does too:

    JointInv == IInv /\ SameFrame /\ (Up => TwinHeaps)

`IInv` is that of the copy over old memory. `SameFrame`: the client, the call in
progress, the cursor of `find_fit`, the break and the blocks laid out are the
same. `TwinHeaps`: both heaps are sound, the same blocks are allocated in both,
the list heads are equal, and so are size and links of every free block. Nothing
is said of any other word: the two memories differ wherever the earlier passes
have left something and `mm_init` has not written.

That the sizes of all blocks agree is not in the invariant, it follows
(`TwinBlocks`): two tilings with the same set of blocks are the same tiling. This
is what lets each operation be taken from one heap to the other: `coalesce` finds
the same free neighbours and takes them off the same lists, `insert_node` walks
by the same sizes to the same place, `place` cuts at the same address, and
`mm_realloc` takes the same of its six branches (`SameCall`), so that twins become
twins (`TwinCoalesce`, `TwinFree`, `TwinGrow`, `TwinPlace`, `TwinTakeOver`). What
`memcpy` and the client's fill write may differ in the two, but it is payload, and
no operation reads it before it is overwritten (`TwinWrite`). `mm_init` makes
twins of any two heaps (`TwinEmpty`): the theorem fails if it leaves one list
head alone, which is the mutant of this property.

### The driver

The invariant of `Mdriver_proof` is

    IInv == BaseInv /\ HandedInv /\ RangesInv /\ ReportInv /\ UtilInv

`BaseInv` has the variables' kinds and that a pass is on one of the trace's
requests; it is what the others rest on, since it says that a request resizes or
frees only what is held. None of the properties is inductive alone:

* `HandsBackHeld` speaks of the id of the next request; `HandedInv` says it of
  every id held, which is what a `free` much later needs.
* `RangesInv` says of the range list, by a record per block held (`Listed`) and
  the blocks' distances (`Accepted`), what `RangesAreHeldBlocks` says by sets and
  lengths. That `remove_range`, which takes the first record with the address,
  takes the right one needs that no two blocks held start at one address, and
  that comes from `Acceptable`. `FairVerdict` follows: a grant of the contract
  passes `add_range`, because payloads that share no byte are not hit at either
  end, and a byte up to 127 is the same as a char and as an int.
* `ReportInv` counts the traces found invalid (`CountInv`), keeps what was
  printed (`PrintedInv`) and orders the options (`OptionsInv`).
* `UtilInv` has the running total as a sum over the ids held, `block_sizes`
  equal to the trace's sizes on these ids and on no others, and, as long as no
  answer was wrong, that the payloads fit beside each other in the heap (`Fit`).

A sum over a finite set (`MapThenSumSet`) is by its definition a function on
subsets that takes out one chosen element after another. That there is such a
function, that it does not depend on the order of choice, what it is for a set
with an element more, and that disjoint payloads in a heap sum up to no more than
the heap (`SumFits`: take out the highest) are induction on the cardinality. It
is carried out with least counterexamples (`LeastNumber`), for which the library
has well-founded relations.

### The timers

`SamplerInv` of `Fsecs_proof` has, beside kinds, one part per question.

* `ClockKinds` and the lemmas on digits: a counter in two words, subtracted with
  a borrow, is the distance of the two readings as long as that fits two words;
  the two clocks of `ftimer.c` likewise, in seconds and microseconds.
* `TicksPaidFor` is inductive with `PaidFor` (no sample has more left in it than its
  tick took above the cheapest). `ClockKinds` says what `callibrate` has in hand: the
  distance so far is below the threshold, and contains the cheapest tick's cost for
  every tick counted, unless the one tick near it is `stray`. A distance with a stray
  tick is too short to be recorded, so that a quotient that is recorded is not below
  the cheapest tick; and it is not above the dearest by more than a turn without a
  tick and the threshold can be.
* `BestInv`: `values` ascends, and the count of samples up to any time is the same
  among the values kept and, cut off at K, among all taken (`Ranked`). The
  insertion of `add_sample` is a loop that swaps; the place it ends at is found
  with least numbers (`Rest`), and `PutIn` says what the buffer is then. That the
  values are the K best follows by counting (`KBest`).
* `StopsWhenConverged` is inductive given `BestInv`.
* `TimersApart`: the variables of the timers not chosen are as they began.

### The file tools

One tool runs, so that the invariant is one per tool, and a step of one leaves
the invariants of the others alone (`Alone`).

* Copies: `CopyInv` says where each descriptor is. The buffer is the excerpt of
  the source that ends at the offset read (`CopyData`), and the target is the source
  up to the offset written, but for zeros at the end with `cp_holes`, and only in
  front of the first byte that went missing (`CopyPlace`, by `Copied`). The offset
  written is never beyond what of the source has been dealt with (`Reached`), and
  behind it only when something is missing and the tool does not compare.
  `CopyTold` has it that a tool that compares has ended and complained then.
* Line deletion: `ScanInv` says what `prevbrk`, `curbrk` and the count are after any
  number of chunks, by counting the breaks of the file before the offset
  (`EndsTo`); `LineFound` that the line lies between them. `ShiftInv` has the two
  offsets apart by the line's length, so that what is written is always before
  what is still to be read; with that `DeletesLine`, which says where each byte of
  the file has gone so far, is inductive. After a short write the distance only
  grows, which keeps the order of reading and overwriting. The invariant,
  `EditInv == EditMost /\ NearLine /\ FarLine`, adds that only a line whose number is
  an int is ever found, since a file has no more breaks than that.
* `my_getline`: `LineInv` has the buffer's size, the cursor in the buffer wherever
  `realloc` has put it, and the lines delivered counted by the breaks before the
  stream's offset.
* `mydu`: in `DuInv` every call in progress has in its sum the blocks of what is
  below the entries it is done with, the calls are a path downwards from the
  argument (`DuStack`), each figure printed is right (`DuFigures`), and the
  program gives up only after a failed call or over a directory without a visible
  entry (`DuGivesUp`). That sums add up needs that what is below two entries of a
  directory has nothing in common: whoever goes up from a path comes by one of
  them only, and arrives at the top after finitely many steps (`IsTree`).
  `Below` is the least closed set, so that no recursion over the tree is needed.
* Messages: in `StreamInv` what a process has printed, and no failed write was to
  bring, is on the terminal (or in the file), or in its buffer; when it comes to speak
  it is not in the buffer any more, unless by `err_exit` (`ProcInv`; `WrittenKeeps`
  shows that a write of the buffer keeps this, however much of it arrives). Where
  output goes does not change once the program runs (`OutInv`). Pieces are numbered as
  they come, so that two can be told apart; and as long as a forked child only
  fails quietly, none is shown twice, nor both shown and in the parent's buffer
  (`OnceInv`).

### Only model-checked

* Liveness: `CallReturns` (every allocator call returns) and `ProgramEnds` (every
  command-line program ends) hold under fairness, which is beyond the provers.

## 6. What is not modelled, and why

* `mm.c` and `mm1.c` in `malloc-package/` are copies of `mm_segregated.c` and
  `mm_implicit.c`; the map names the originals.
* In `mdriver.c`: the team check (it looks at constants of `mm.c`), the
  arithmetic of the performance index (doubles), `printresults` and `usage` (text
  out), the scanning of numbers in `read_trace` (what makes a file acceptable is
  `Readable`).
* In `clock.c`: the Alpha counter (another build, whose
  `get_counter` borrows from a high word that is always 0), and
  `mhz`, which divides two measurements over a sleep.
* `first_fit` (never called), `realloc_place` (commented out).
* `get_num.c` and `alt_functions.c`: no program of the repository calls them, so
  nothing says with what; `ename` tables and wording in `error_functions.c`.
* `myls.c` is empty; `getline.c` calls libc once; the traces and the build files
  are data.
* `mm_malloc` with sizes near 2^32, where `size + 15` wraps.
* `ReallocExtendPast` (finding 1) in `StaleMemory` and in the positive results: after
  it neither copy has a heap the code can be followed over.
* Files of more than `INT_MAX` bytes in `mylined`, whose offsets are ints; a write
  that returns 0, over which the loop of `mycp_sysio` would not end.
* Paths longer than `mydu`'s buffer, names that are patterns, links.

## 7. Plan

Done: all parts above as models; proofs of every invariant and action property the
passing runs check, and of the refinements of `MallocContract`. What is left to TLC is
liveness.

Not planned: a composition of `Mdriver` with an allocator model. `TraceClient` is
its client side already, and `Mdriver` against any allocator covers more than
against a particular one.
