------------------------------ MODULE LineEdit ------------------------------
(***************************************************************************)
(* sysio/mylined.c: delete line lineno of a file, in place.  One           *)
(* descriptor of the file reads, another writes: the program finds the     *)
(* line breaks around the line, moves everything behind the line forward,  *)
(* and cuts the file.                                                      *)
(*                                                                         *)
(* A descriptor is its offset, or BadFd if open failed (which the program  *)
(* does not ask).  pos of the code is the offset of fd1 before the read.   *)
(* Offsets are ints; a file that has more bytes than an int can count is   *)
(* left out (INT_MAX, in StartEdit).                                       *)
(* Auxiliary: original, the file before; spoiled, a write was short.       *)
(***************************************************************************)
EXTENDS Files

CONSTANTS
  INT_MAX,
  SIZE_MAX,            \* of size_t
  LineNos              \* what atoi(argv[2]) may yield

ASSUME LineEditAssumption ==
  /\ INT_MAX \in Nat /\ SIZE_MAX \in Nat /\ SIZE_MAX > 2 * INT_MAX
  /\ LineNos \subseteq -INT_MAX - 1 .. INT_MAX

VARIABLES
  epc,                 \* "idle", "locate", "seek", "shift", "exit"
  edited,              \* argv[1]
  lineno,
  fd1, fd2,
  linebrks, prevbrk, curbrk,
  outcome,             \* how the program ended: "done", "no line", "failed"
  original, spoiled

editVars == <<epc, edited, lineno, fd1, fd2, linebrks, prevbrk, curbrk,
              outcome, original, spoiled>>

BadFd == -1
file  == files[edited]

Ends(how) == epc' = "exit" /\ outcome' = how

EditIdle ==
  /\ epc = "idle" /\ edited = AnyName /\ lineno = 0 /\ fd1 = BadFd /\ fd2 = BadFd
  /\ linebrks = 0 /\ prevbrk = 0 /\ curbrk = 0
  /\ outcome = "none" /\ original = <<>> /\ spoiled = FALSE

(* lineno is a size_t: that of a negative number is huge. *)
StartEdit(name, n) ==
  /\ epc = "idle" /\ Len(files[name]) <= INT_MAX
  /\ epc' = "locate" /\ edited' = name /\ original' = files[name]
  /\ lineno' = IF n < 0 THEN SIZE_MAX + 1 + n ELSE n
  /\ fd1' \in {0, BadFd} /\ fd2' \in {0, BadFd}
  /\ UNCHANGED <<files, linebrks, prevbrk, curbrk, outcome, spoiled>>

-----------------------------------------------------------------------------
(* The scan of a chunk c that starts at fd1.  It stops at the break of the *)
(* line, if c has it.  As 0 stands for "not found yet", prevbrk is the     *)
(* first offset other than 0 with lineno - 1 breaks up to it.  (Mutated:   *)
(* the last one.)                                                          *)
Breaks(c, i) == linebrks + Cardinality({j \in 1 .. i : c[j] = NL})
Hits(c)      == {i \in 1 .. Len(c) : Breaks(c, i) = lineno}
Stop(c)      == IF Hits(c) = {} THEN Len(c) ELSE Min(Hits(c))
NewPrev_Last(c) ==
  LET at == {i \in 1 .. Stop(c) : Breaks(c, i) = lineno - 1 /\ fd1 + i # 1}
  IN  IF at = {} THEN prevbrk ELSE fd1 + Max(at) - 1
NewPrev(c) ==
  LET at == {i \in 1 .. Stop(c) : Breaks(c, i) = lineno - 1 /\ fd1 + i # 1}
  IN  IF prevbrk # 0 \/ at = {} THEN prevbrk ELSE fd1 + Min(at) - 1

Scan ==
  \E c \in Chunks(file, fd1) \ {<<>>} :
    /\ prevbrk' = NewPrev(c)
    /\ linebrks' = Breaks(c, Stop(c))
    /\ IF Hits(c) # {}
       THEN curbrk' = fd1 + Stop(c) - 1 /\ epc' = "seek"
       ELSE UNCHANGED <<curbrk, epc>>
    /\ fd1' = fd1 + Len(c)
    /\ UNCHANGED <<outcome>>

(* End of file, or read failed: the line has not been found. *)
ScanEnds ==
  /\ IF linebrks < lineno THEN Ends("no line")
     ELSE epc' = "seek" /\ UNCHANGED outcome
  /\ UNCHANGED <<fd1, linebrks, prevbrk, curbrk>>

Locate ==
  /\ epc = "locate"
  /\ (fd1 # BadFd /\ Scan) \/ ScanEnds
  /\ UNCHANGED <<files, edited, lineno, fd2, original, spoiled>>

(* Both descriptors are put behind a break.  (Mutated: the reader on it.)  *)
Behind_On == curbrk
Behind == curbrk + 1

Seek ==
  /\ epc = "seek"
  /\ IF fd1 # BadFd /\ fd2 # BadFd
     THEN /\ fd1' = Behind /\ fd2' = prevbrk + 1
          /\ epc' = "shift" /\ UNCHANGED outcome
     ELSE Ends("failed") /\ UNCHANGED <<fd1, fd2>>
  /\ UNCHANGED <<files, edited, lineno, linebrks, prevbrk, curbrk, original,
                 spoiled>>

(* read and write; whether all of the chunk was written is not asked.      *)
Shift ==
  /\ epc = "shift"
  /\ \E c \in Chunks(file, fd1) \ {<<>>} : \E n \in 1 .. Len(c) :
       /\ files' = [files EXCEPT ![edited] = WriteAt(file, fd2, SubSeq(c, 1, n))]
       /\ fd1' = fd1 + Len(c) /\ fd2' = fd2 + n
       /\ spoiled' = (spoiled \/ n < Len(c))
  /\ UNCHANGED <<epc, edited, lineno, linebrks, prevbrk, curbrk, outcome,
                 original>>

(* read, write, lseek or ftruncate fails; a write after its chunk is read. *)
ShiftFails ==
  /\ epc = "shift"
  /\ \E c \in Chunks(file, fd1) : fd1' \in {fd1, fd1 + Len(c)}
  /\ Ends("failed")
  /\ UNCHANGED <<files, edited, lineno, fd2, linebrks, prevbrk, curbrk,
                 original, spoiled>>

Cut ==
  /\ epc = "shift" /\ fd1 >= Len(file)
  /\ fd1' = Len(file)
  /\ files' = [files EXCEPT ![edited] = Truncated(file, Len(file) - (curbrk - prevbrk))]
  /\ Ends("done")
  /\ UNCHANGED <<edited, lineno, fd2, linebrks, prevbrk, curbrk, original,
                 spoiled>>

EditStep == Locate \/ Seek \/ Shift \/ ShiftFails \/ Cut

-----------------------------------------------------------------------------
(* Properties.                                                             *)

(* Offsets (from 0) of the line breaks of f, and the break that ends line  *)
(* n; the one before the first line stands at -1.                          *)
BreakOffsets(f) == {k - 1 : k \in {j \in 1 .. Len(f) : f[j] = NL}}
BreakOf(f, n) ==
  IF n = 0 THEN -1
  ELSE CHOOSE b \in BreakOffsets(f) :
         Cardinality({o \in BreakOffsets(f) : o < b}) = n - 1
HasBreak(f, n) == n <= Cardinality(BreakOffsets(f))

(* f without its bytes at offsets a + 1 .. b *)
Without(f, a, b) == SubSeq(f, 1, a + 1) \o SubSeq(f, b + 2, Len(f))

(* The line can be told from "not found yet": its break and the one before *)
(* it are not at offset 0, and there is one before.                        *)
Tellable == lineno > 1 /\ HasBreak(original, lineno - 1)
                       /\ BreakOf(original, lineno - 1) > 0

(* The writing descriptor never overtakes the reading one, so that every   *)
(* byte is read before it is overwritten, short writes or not, and what is *)
(* behind the reader is the original; without a short write, what is       *)
(* before the writer is final.                                             *)
ReadBeforeWritten ==
  epc = "shift" =>
    /\ fd2 <= fd1
    /\ Len(file) = Len(original)
    /\ \A k \in fd1 + 1 .. Len(file) : file[k] = original[k]
    /\ ~spoiled =>
         /\ fd1 - fd2 = curbrk - prevbrk
         /\ \A k \in 1 .. Least(fd2, Len(file)) :
              file[k] = IF k <= prevbrk + 1 THEN original[k]
                        ELSE original[k + curbrk - prevbrk]

(* What is left of the file, for a line that can be told.                  *)
LineGone ==
  (epc = "exit" /\ ~spoiled /\ Tellable) =>
    CASE outcome = "done" ->
           file = Without(original, BreakOf(original, lineno - 1),
                                    BreakOf(original, lineno))
      [] outcome = "no line" -> file = original
      [] OTHER -> TRUE

(* The number was negative, or is larger than that of any line. *)
FarLine == lineno > INT_MAX => file = original /\ outcome # "done"

(* Every byte is read before it is overwritten, short writes or not; and   *)
(* when the program ends without an error and without a short write, the   *)
(* line is gone and all else is there; with no break at the line's end, or *)
(* for a negative number, the file is as it was.  The first line, and the  *)
(* second behind an empty first, are another matter (SameAsSed), and so    *)
(* are short writes (DeletedWhenDone).                                     *)
DeletesLine == ReadBeforeWritten /\ LineGone /\ FarLine

(* The README lists the tool as doing what sed -i 'Md' does (README.md:    *)
(* 13-15): when it ends and reports nothing, line M is gone, whichever     *)
(* line it is.                                                             *)
SameAsSed ==
  (epc = "exit" /\ outcome = "done" /\ ~spoiled /\ lineno > 0) =>
    file = Without(original, BreakOf(original, lineno - 1),
                             BreakOf(original, lineno))

(* The same of the lines that it can tell: when it ends and reports        *)
(* nothing, the line is gone and all else is there, whatever its writes    *)
(* have returned.  False of the code.                                      *)
DeletedWhenDone ==
  (epc = "exit" /\ outcome = "done" /\ Tellable) =>
    file = Without(original, BreakOf(original, lineno - 1),
                             BreakOf(original, lineno))
=============================================================================
