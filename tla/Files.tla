------------------------------- MODULE Files --------------------------------
(***************************************************************************)
(* Regular files as the tools in sysio/, cp/ and stdio/ use them: bytes at *)
(* offsets 0, 1, ... and the effect on them of read, write and ftruncate.  *)
(* The kernel is not part of the repository; this is what its callers      *)
(* count on.  A sequence holds the byte at offset k in place k + 1.        *)
(***************************************************************************)
EXTENDS Integers, Sequences, FiniteSets, FiniteSetsExt

CONSTANTS
  Names,    \* file names
  Text,     \* bytes other than '\n' and '\0'
  NL,       \* '\n'
  NUL,      \* '\0'
  BUFSIZE   \* the tools' buffers (1024)

ASSUME FilesAssumption ==
  /\ NL # NUL /\ NL \notin Text /\ NUL \notin Text
  /\ BUFSIZE \in Nat \ {0, 1}

Byte == Text \union {NL, NUL}
AnyName == CHOOSE name \in Names : TRUE

VARIABLE files     \* [Names -> Seq(Byte)]

Least(x, y) == IF x <= y THEN x ELSE y

(* What read may return at offset off: nothing at the end, else any number *)
(* of bytes that fits the buffer.                                          *)
Chunks(f, off) ==
  IF off >= Len(f) THEN {<<>>}
  ELSE {SubSeq(f, off + 1, off + n) : n \in 1 .. Least(BUFSIZE, Len(f) - off)}

(* write of data at offset off; a gap behind the old end reads as zeros.   *)
(* A write of no bytes, or one that failed, changes nothing.               *)
WriteAt(f, off, data) ==
  IF data = <<>> THEN f ELSE
  [k \in 1 .. Max({Len(f), off + Len(data)}) |->
     IF off < k /\ k <= off + Len(data) THEN data[k - off]
     ELSE IF k <= Len(f) THEN f[k] ELSE NUL]

(* ftruncate *)
Truncated(f, n) == [k \in 1 .. n |-> IF k <= Len(f) THEN f[k] ELSE NUL]
=============================================================================
